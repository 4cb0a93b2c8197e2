--------------------------- MODULE IorRingProofs ----------------------------
(***************************************************************************)
(* Proofs about IorRing for any number of producers and payloads, any      *)
(* width of the version and any number of enqueues.                        *)
(***************************************************************************)
EXTENDS IorRing, TLAPS

TypeOK ==
  /\ head_tagged_ptr \in TaggedPtr
  /\ headView \subseteq Payloads
  /\ pc \in [Producers -> {"idle", "cas"}]
  /\ new_payload \in [Producers -> Payloads]
  /\ expected_tagged \in [Producers -> TaggedPtr]
  /\ sees \in [Producers -> SUBSET Payloads]
  /\ consumed \in Payloads
  /\ total \in Nat
  /\ loadedAt \in [Producers -> Nat]

(* The word a producer expects was the head when it loaded it, so it has   *)
(* the version of that time.                                               *)
ExpectedIsOld ==
  \A t \in Producers : pc[t] = "cas" =>
    /\ loadedAt[t] <= total
    /\ expected_tagged[t].version = loadedAt[t] % VERSIONS

(* Who has a pointer has the content with it: the head publishes what it   *)
(* points to, and a producer enqueues only what it sees.                   *)
PointersCarryContent ==
  /\ head_tagged_ptr.ptr \in headView
  /\ \A t \in Producers : pc[t] = "cas" => new_payload[t] \in sees[t]
  /\ consumed \in consumerSees

IInv ==
  /\ TypeOK
  /\ VersionCountsEnqueues
  /\ ExpectedIsOld
  /\ PointersCarryContent

-----------------------------------------------------------------------------
(* Division has one quotient and one remainder.                            *)
LEMMA Remainder ==
  ASSUME NEW m \in Nat \ {0}, NEW q \in Int, NEW r \in 0 .. (m - 1)
  PROVE  (m * q + r) % m = r
<1> DEFINE x == m * q + r
           d == q - (x \div m)
<1>1. m * q \in Int /\ x \in Int
  OBVIOUS
<1>2. x \div m \in Int /\ x % m \in 0 .. (m - 1) /\ x = m * (x \div m) + (x % m)
  BY <1>1
<1> HIDE DEF x
<1>3. d \in Int /\ m * d = (x % m) - r
  <2>1. m * d = m * q - m * (x \div m)
    BY <1>2
  <2> QED
    BY <1>1, <1>2, <2>1 DEF x
<1> HIDE DEF d
<1>4. m * d < m /\ -m < m * d
  BY <1>2, <1>3
<1>5. d <= 0
  <2>1. SUFFICES ASSUME d >= 1 PROVE m * d >= m
    BY <1>3, <1>4
  <2> QED
    BY <1>3, <2>1
<1>6. d >= 0
  <2>1. SUFFICES ASSUME d <= -1 PROVE m * d <= -m
    BY <1>3, <1>4
  <2> QED
    BY <1>3, <2>1
<1>7. x % m = r
  BY <1>2, <1>3, <1>5, <1>6
<1> QED
  BY <1>7 DEF x

(* The version counts on modulo its width.                                 *)
LEMMA VersionStep ==
  ASSUME NEW m \in Nat \ {0}, NEW a \in Nat
  PROVE  ((a % m) + 1) % m = (a + 1) % m
<1> DEFINE k == a \div m
<1>1. k \in Int /\ a % m \in 0 .. (m - 1) /\ a = m * k + (a % m)
  OBVIOUS
<1> HIDE DEF k
<1>2. CASE (a % m) + 1 < m
  <2>1. (m * k + ((a % m) + 1)) % m = (a % m) + 1
    BY <1>1, <1>2, Remainder
  <2>2. (m * 0 + ((a % m) + 1)) % m = (a % m) + 1
    BY <1>1, <1>2, Remainder
  <2>3. m * 0 + ((a % m) + 1) = (a % m) + 1 /\ m * k + ((a % m) + 1) = a + 1
    BY <1>1
  <2> QED
    BY <2>1, <2>2, <2>3, Zenon
<1>3. CASE (a % m) + 1 = m
  <2>1. (m * (k + 1) + 0) % m = 0 /\ (m * 1 + 0) % m = 0
    BY <1>1, Remainder
  <2>2. m * (k + 1) + 0 = a + 1
    BY <1>1, <1>3
  <2>3. m * 1 + 0 = (a % m) + 1
    BY <1>3
  <2> QED
    BY <2>1, <2>2, <2>3, Zenon
<1> QED
  BY <1>1, <1>2, <1>3

(* Two counts with the same version are a multiple of its width apart.     *)
LEMMA SameVersion ==
  ASSUME NEW m \in Nat \ {0}, NEW a \in Nat, NEW b \in Nat, a % m = b % m
  PROVE  (a - b) % m = 0
<1> DEFINE q == (a \div m) - (b \div m)
<1>1. /\ a \div m \in Int /\ a = m * (a \div m) + (a % m)
      /\ b \div m \in Int /\ b = m * (b \div m) + (b % m)
  OBVIOUS
<1>2. q \in Int /\ m * q = m * (a \div m) - m * (b \div m)
  BY <1>1
<1>3. a - b = m * q + 0
  BY <1>1, <1>2
<1> HIDE DEF q
<1>4. (m * q + 0) % m = 0
  BY <1>2, Remainder
<1> QED
  BY <1>3, <1>4, Zenon

-----------------------------------------------------------------------------
LEMMA TaggedPtrMade ==
  ASSUME NEW p \in Payloads, NEW v \in 0 .. (VERSIONS - 1)
  PROVE  /\ create_tagged_ptr(p, v) \in TaggedPtr
         /\ create_tagged_ptr(p, v).ptr = p
         /\ create_tagged_ptr(p, v).version = v
BY DEF create_tagged_ptr, TaggedPtr

LEMMA InitIInv == Init => IInv
<1> SUFFICES ASSUME Init PROVE IInv
  OBVIOUS
<1> USE RingAssumption DEF Init
<1>1. 0 \in 0 .. (VERSIONS - 1) /\ 0 % VERSIONS = 0
  OBVIOUS
<1>2. TypeOK
  BY <1>1, TaggedPtrMade DEF TypeOK
<1>3. VersionCountsEnqueues
  BY <1>1, TaggedPtrMade DEF VersionCountsEnqueues, get_tag_version
<1>4. ExpectedIsOld
  BY DEF ExpectedIsOld
<1>5. PointersCarryContent
  BY <1>1, TaggedPtrMade DEF PointersCarryContent
<1> QED
  BY <1>2, <1>3, <1>4, <1>5 DEF IInv

LEMMA FillIInv ==
  ASSUME IInv, NEW t \in Producers, NEW p \in Payloads, Fill(t, p)
  PROVE  IInv'
<1> USE DEF IInv, Fill, producerVars
<1>1. TypeOK'
  BY DEF TypeOK
<1>2. VersionCountsEnqueues'
  BY DEF VersionCountsEnqueues
<1>3. ExpectedIsOld'
  BY DEF ExpectedIsOld
<1>4. PointersCarryContent'
  BY DEF PointersCarryContent, TypeOK
<1> QED
  BY <1>1, <1>2, <1>3, <1>4

LEMMA EnqueueLoadIInv ==
  ASSUME IInv, NEW t \in Producers, NEW p \in Payloads, EnqueueLoad(t, p)
  PROVE  IInv'
<1> USE DEF IInv, EnqueueLoad
<1>1. TypeOK'
  BY DEF TypeOK
<1>2. VersionCountsEnqueues'
  BY DEF VersionCountsEnqueues
<1>3. ExpectedIsOld'
  <2> SUFFICES ASSUME NEW u \in Producers, pc'[u] = "cas"
               PROVE  /\ loadedAt'[u] <= total'
                      /\ expected_tagged'[u].version = loadedAt'[u] % VERSIONS
    BY DEF ExpectedIsOld
  <2>1. CASE u = t
    BY <2>1 DEF TypeOK, VersionCountsEnqueues, get_tag_version
  <2>2. CASE u # t
    BY <2>2 DEF TypeOK, ExpectedIsOld
  <2> QED
    BY <2>1, <2>2
<1>4. PointersCarryContent'
  BY DEF PointersCarryContent, TypeOK
<1> QED
  BY <1>1, <1>2, <1>3, <1>4

(* The exchange finds the word of an earlier count; its version, and so    *)
(* the next one, are those of now.                                         *)
LEMMA CasSucceedsIInv ==
  ASSUME IInv, NEW t \in Producers, CasSucceeds(t)
  PROVE  IInv'
<1> USE DEF IInv
<1>1. /\ NextVersion(t) = (total + 1) % VERSIONS
      /\ NextVersion(t) \in 0 .. (VERSIONS - 1)
  <2>1. VERSIONS \in Nat \ {0} /\ total \in Nat
    BY RingAssumption DEF TypeOK
  <2>2. NextVersion(t) = ((total % VERSIONS) + 1) % VERSIONS
    BY DEF CasSucceeds, Exchanges, NextVersion, VersionCountsEnqueues
  <2>3. ((total % VERSIONS) + 1) % VERSIONS = (total + 1) % VERSIONS
    BY <2>1, VersionStep
  <2>4. (total + 1) % VERSIONS \in 0 .. (VERSIONS - 1)
    BY <2>1
  <2> QED
    BY <2>2, <2>3, <2>4, Zenon
<1>2. /\ new_payload[t] \in Payloads
      /\ head_tagged_ptr' = create_tagged_ptr(new_payload[t], NextVersion(t))
  BY DEF TypeOK, CasSucceeds
<1>3. /\ head_tagged_ptr' \in TaggedPtr
      /\ head_tagged_ptr'.ptr = new_payload[t]
      /\ head_tagged_ptr'.version = NextVersion(t)
  BY <1>1, <1>2, TaggedPtrMade
<1>4. create_tagged_ptr(initial_payload, 0) \in TaggedPtr
  BY RingAssumption, TaggedPtrMade
<1>5. TypeOK'
  BY <1>3, <1>4, RingAssumption DEF TypeOK, CasSucceeds, Released
<1>6. VersionCountsEnqueues'
  BY <1>1, <1>3 DEF CasSucceeds, VersionCountsEnqueues, get_tag_version
<1>7. ExpectedIsOld'
  BY DEF TypeOK, CasSucceeds, ExpectedIsOld
<1>8. PointersCarryContent'
  BY <1>3 DEF TypeOK, CasSucceeds, Released, PointersCarryContent
<1> QED
  BY <1>5, <1>6, <1>7, <1>8

LEMMA CasFailsIInv ==
  ASSUME IInv, NEW t \in Producers, CasFails(t)
  PROVE  IInv'
<1> USE DEF IInv, CasFails, Reloaded
<1>1. TypeOK'
  BY DEF TypeOK
<1>2. VersionCountsEnqueues'
  BY DEF VersionCountsEnqueues
<1>3. ExpectedIsOld'
  <2> SUFFICES ASSUME NEW u \in Producers, pc'[u] = "cas"
               PROVE  /\ loadedAt'[u] <= total'
                      /\ expected_tagged'[u].version = loadedAt'[u] % VERSIONS
    BY DEF ExpectedIsOld
  <2>1. CASE u = t
    BY <2>1 DEF TypeOK, VersionCountsEnqueues, get_tag_version
  <2>2. CASE u # t
    BY <2>2 DEF TypeOK, ExpectedIsOld
  <2> QED
    BY <2>1, <2>2
<1>4. PointersCarryContent'
  BY DEF PointersCarryContent, TypeOK
<1> QED
  BY <1>1, <1>2, <1>3, <1>4

LEMMA ProcessNextIoIInv ==
  ASSUME IInv, ProcessNextIo
  PROVE  IInv'
<1> USE DEF IInv, ProcessNextIo, producerVars
<1>1. TypeOK'
  BY DEF TypeOK, TaggedPtr
<1>2. VersionCountsEnqueues'
  BY DEF VersionCountsEnqueues
<1>3. ExpectedIsOld'
  BY DEF ExpectedIsOld
<1>4. PointersCarryContent'
  BY DEF PointersCarryContent
<1> QED
  BY <1>1, <1>2, <1>3, <1>4

LEMMA NextIInv == IInv /\ [Next]_vars => IInv'
<1> SUFFICES ASSUME IInv, [Next]_vars PROVE IInv'
  OBVIOUS
<1>1. CASE \E t \in Producers, p \in Payloads : Fill(t, p) \/ EnqueueLoad(t, p)
  BY <1>1, FillIInv, EnqueueLoadIInv
<1>2. CASE \E t \in Producers : CasSucceeds(t) \/ CasFails(t)
  BY <1>2, CasSucceedsIInv, CasFailsIInv
<1>3. CASE ProcessNextIo
  BY <1>3, ProcessNextIoIInv
<1>4. CASE UNCHANGED vars
  BY <1>4 DEF vars, producerVars, IInv, TypeOK, VersionCountsEnqueues,
              ExpectedIsOld, PointersCarryContent
<1> QED
  BY <1>1, <1>2, <1>3, <1>4 DEF Next

LEMMA IInvHolds == Spec => []IInv
BY InitIInv, NextIInv, PTL DEF Spec

-----------------------------------------------------------------------------
(* The version of the tagged word is the number of enqueues, cut to its    *)
(* width: compare_exchange_weak loses none (enqueue_io_buffer).            *)
THEOREM EnqueuesCounted == Spec => []VersionCountsEnqueues
<1>1. IInv => VersionCountsEnqueues
  BY DEF IInv
<1> QED
  BY <1>1, IInvHolds, PTL

(* An exchange that succeeds did not miss any enqueue, or a multiple of    *)
(* 2^8 of them: the bound of the protection against ABA the tag gives.     *)
THEOREM AbaBounded == Spec => []AbaOnlyOnWrap
<1>1. IInv => AbaOnlyOnWrap
  <2> SUFFICES ASSUME IInv, NEW t \in Producers, pc[t] = "cas", Exchanges(t)
               PROVE  (total - loadedAt[t]) % VERSIONS = 0
    BY DEF AbaOnlyOnWrap
  <2>1. VERSIONS \in Nat \ {0} /\ total \in Nat /\ loadedAt[t] \in Nat
    BY RingAssumption DEF IInv, TypeOK
  <2>2. total % VERSIONS = loadedAt[t] % VERSIONS
    BY DEF IInv, VersionCountsEnqueues, ExpectedIsOld, Exchanges, get_tag_version
  <2> QED
    BY <2>1, <2>2, SameVersion
<1> QED
  BY <1>1, IInvHolds, PTL

(* The consumer sees the content of the payload it dereferences: release   *)
(* and acquire on the tagged word suffice for any number of producers.     *)
THEOREM PayloadVisible == Spec => []ConsumerSeesPayload
<1>1. IInv => ConsumerSeesPayload
  BY DEF IInv, PointersCarryContent, ConsumerSeesPayload
<1> QED
  BY <1>1, IInvHolds, PTL

-----------------------------------------------------------------------------
(* Lock freedom, the part that is an invariant.                            *)
FailsOnlyByProgress ==
  \A t \in Producers : pc[t] = "cas" /\ ~Exchanges(t) => loadedAt[t] < total

LEMMA InitFailsOnlyByProgress == Init => FailsOnlyByProgress
BY DEF Init, FailsOnlyByProgress

LEMMA NextFailsOnlyByProgress ==
  IInv /\ FailsOnlyByProgress /\ [Next]_vars => FailsOnlyByProgress'
<1> SUFFICES ASSUME IInv, FailsOnlyByProgress, [Next]_vars
             PROVE  FailsOnlyByProgress'
  OBVIOUS
<1>1. \A u \in Producers : pc[u] = "cas" => loadedAt[u] \in Nat /\ loadedAt[u] <= total
  BY DEF IInv, TypeOK, ExpectedIsOld
<1>2. ASSUME NEW t \in Producers, NEW p \in Payloads, EnqueueLoad(t, p)
      PROVE  FailsOnlyByProgress'
  BY <1>2 DEF IInv, TypeOK, EnqueueLoad, FailsOnlyByProgress, Exchanges
<1>3. ASSUME NEW t \in Producers, CasSucceeds(t)
      PROVE  FailsOnlyByProgress'
  <2>1. \A u \in Producers : pc'[u] = "cas" => pc[u] = "cas" /\ loadedAt'[u] = loadedAt[u]
    BY <1>3 DEF IInv, TypeOK, CasSucceeds
  <2>2. total' = total + 1 /\ total \in Nat
    BY <1>3 DEF IInv, TypeOK, CasSucceeds
  <2> QED
    BY <1>1, <2>1, <2>2 DEF FailsOnlyByProgress
<1>4. ASSUME NEW t \in Producers, CasFails(t)
      PROVE  FailsOnlyByProgress'
  BY <1>4 DEF IInv, TypeOK, CasFails, Reloaded, FailsOnlyByProgress, Exchanges
<1>5. CASE UNCHANGED <<head_tagged_ptr, pc, expected_tagged, loadedAt, total>>
  BY <1>5 DEF FailsOnlyByProgress, Exchanges
<1> QED
  BY <1>2, <1>3, <1>4, <1>5
  DEF Next, Fill, ProcessNextIo, vars, producerVars

(* A producer of enqueue_io_buffer goes round its loop because of another  *)
(* enqueue that has succeeded since it loaded the head, or for no reason   *)
(* (the exchange is weak): a value left over from before never stops it.   *)
THEOREM RetriesOnlyForProgress == Spec => []FailsOnlyByProgress
BY InitFailsOnlyByProgress, NextFailsOnlyByProgress, IInvHolds, PTL DEF Spec
=============================================================================
