----------------------------- MODULE SqCqProofs -----------------------------
(***************************************************************************)
(* Proofs about SqCq for every ring size and every number of submissions.  *)
(* The safety properties follow from one inductive invariant, IInv, whose  *)
(* parts are named for what they say.                                      *)
(***************************************************************************)
EXTENDS SqCq, TLAPS

(* The device consumes and completes in step, and never runs ahead of what *)
(* it loaded, which is never ahead of what was published.                  *)
DeviceInOrder ==
  /\ local_cq_tail = local_sq_head
  /\ cq_tail <= local_sq_head
  /\ local_sq_head <= current_sq_tail
  /\ current_sq_tail <= sq_tail
  /\ dpc # "batch" => local_sq_head = current_sq_tail /\ cq_tail = local_sq_head

(* What the doorbell stores that can still be read carry.  A store of      *)
(* sq_tail beyond the published completions was made after the last read   *)
(* of a completion, because the host reads one only when everything it     *)
(* submitted is complete.                                                  *)
StoresCarryProgress ==
  /\ \A v \in current_sq_tail .. sq_tail :
       /\ sqStores[v].wrote = v
       /\ sqStores[v].reaped <= hostDid.reaped
       /\ v > cq_tail => sqStores[v].reaped = hostDid.reaped
  /\ devSees.wrote = current_sq_tail
  /\ devSees.reaped <= hostDid.reaped
  /\ current_sq_tail > cq_tail => devSees.reaped = hostDid.reaped
  /\ \A c \in DOMAIN cqStores :
       cqStores[c] = c /\ hostSees <= c /\ c <= cq_tail
  /\ hostSees <= cq_tail

(* The host decides on what it sees, and stays within one ring of it.      *)
HostWithinRing ==
  /\ hostDid.wrote = IF hpc = "publish" THEN sq_tail + 1 ELSE sq_tail
  /\ sq_tail - hostSees <= QUEUE_SIZE
  /\ hpc \in {"fill", "publish"} => sq_tail - hostSees < QUEUE_SIZE
  /\ hpc \in {"poll", "reap"} => sq_tail > 0
  /\ hpc = "reap" => hostSees = sq_tail
  /\ hostDid.reaped <= cq_tail

(* The last QUEUE_SIZE entries written to each ring are the ones in it.    *)
RingContents ==
  /\ \A i \in Nat :
       i < hostDid.wrote /\ hostDid.wrote <= i + QUEUE_SIZE
         => sq_payloads[Slot(i)] = i
  /\ \A i \in Nat :
       i < local_cq_tail /\ local_cq_tail <= i + QUEUE_SIZE
         => cq_payloads[Slot(i)] = [entry |-> i,
                                    sq_head_pointer |-> (i + 1) % PtrModulus]

IInv ==
  /\ TypeOK
  /\ DeviceInOrder
  /\ StoresCarryProgress
  /\ HostWithinRing
  /\ RingContents
  /\ LatencyOfOneIo

-----------------------------------------------------------------------------
(* Two numbers less than m apart that agree modulo m are equal: what makes *)
(* a slot stand for one entry among QUEUE_SIZE consecutive ones.           *)
LEMMA ModDistinct ==
  ASSUME NEW m \in Nat \ {0}, NEW i \in Nat, NEW j \in Nat,
         i <= j, j < i + m, i % m = j % m
  PROVE  i = j
<1>1. i = m * (i \div m) + (i % m) /\ j = m * (j \div m) + (j % m)
  OBVIOUS
<1>2. i \div m \in Int /\ j \div m \in Int
  OBVIOUS
<1>3. j - i = m * ((j \div m) - (i \div m))
  BY <1>1, <1>2
<1> DEFINE q == (j \div m) - (i \div m)
<1>4. q \in Int /\ 0 <= m * q /\ m * q < m
  BY <1>2, <1>3
<1>5. q <= 0
  <2>1. SUFFICES ASSUME q >= 1 PROVE m * q >= m
    BY <1>4
  <2> QED
    BY <1>4, <2>1
<1>6. q >= 0
  <2>1. SUFFICES ASSUME q <= -1 PROVE m * q < 0
    BY <1>4
  <2> QED
    BY <1>4, <2>1
<1> QED
  BY <1>3, <1>4, <1>5, <1>6

LEMMA SlotInRing ==
  ASSUME NEW i \in Nat
  PROVE  Slot(i) \in Ring
BY QueueAssumption DEF Slot, Ring

LEMMA SlotDistinct ==
  ASSUME NEW i \in Nat, NEW j \in Nat,
         i < j, j < i + QUEUE_SIZE
  PROVE  Slot(i) # Slot(j)
<1>1. QUEUE_SIZE \in Nat \ {0} /\ i <= j
  BY QueueAssumption
<1>2. ASSUME i % QUEUE_SIZE = j % QUEUE_SIZE
      PROVE  FALSE
  <2>1. i = j
    BY <1>1, <1>2, ModDistinct, Zenon
  <2> QED
    BY <2>1
<1> QED
  BY <1>2 DEF Slot

-----------------------------------------------------------------------------
LEMMA InitIInv == Init => IInv
<1> SUFFICES ASSUME Init PROVE IInv
  OBVIOUS
<1> USE QueueAssumption DEF Init, NoEntry
<1>1. TypeOK
  <2>1. sq_payloads \in [Ring -> Nat \cup {NoEntry}]
    OBVIOUS
  <2>2. cq_payloads \in [Ring -> [entry : Nat \cup {NoEntry},
                                  sq_head_pointer : 0 .. (PtrModulus - 1)]]
    OBVIOUS
  <2>3. sqStores \in [current_sq_tail .. sq_tail -> [wrote : Nat, reaped : Nat]]
    <3>1. current_sq_tail .. sq_tail = {0}
      OBVIOUS
    <3> QED
      BY <3>1
  <2>4. cqStores \in [DOMAIN cqStores -> Nat] /\ DOMAIN cqStores \subseteq Nat
    OBVIOUS
  <2> QED
    BY <2>1, <2>2, <2>3, <2>4 DEF TypeOK
<1>2. DeviceInOrder /\ StoresCarryProgress
  BY DEF DeviceInOrder, StoresCarryProgress
<1>3. HostWithinRing /\ RingContents
  BY DEF HostWithinRing, RingContents
<1>4. LatencyOfOneIo
  BY DEF LatencyOfOneIo
<1> QED
  BY <1>1, <1>2, <1>3, <1>4 DEF IInv

-----------------------------------------------------------------------------
(* An acquire load of cq_tail: the host now sees exactly the value loaded, *)
(* and only the published part of the completions.                         *)
LEMMA LoadCqTailStep ==
  ASSUME IInv, NEW c, LoadCqTail(c)
  PROVE  /\ c \in Nat /\ hostSees' = c /\ hostSees <= c /\ c <= cq_tail
         /\ cqStores' \in [DOMAIN cqStores' -> Nat]
         /\ DOMAIN cqStores' \subseteq Nat
         /\ \A d \in DOMAIN cqStores' :
              cqStores'[d] = d /\ c <= d /\ d <= cq_tail
<1> USE DEF IInv, TypeOK, StoresCarryProgress, LoadCqTail
<1>1. c \in DOMAIN cqStores /\ c \in Nat /\ cqStores[c] = c /\ hostSees <= c /\ c <= cq_tail
  OBVIOUS
<1>2. hostSees' = c
  BY <1>1 DEF HostAcquire, Larger
<1>3. cqStores' = [d \in {x \in DOMAIN cqStores : x >= c} |-> cqStores[d]]
  BY DEF From
<1>4. DOMAIN cqStores' = {x \in DOMAIN cqStores : x >= c}
  BY <1>3
<1>5. \A d \in DOMAIN cqStores' :
        d \in Nat /\ cqStores'[d] = d /\ c <= d /\ d <= cq_tail
  BY <1>1, <1>3, <1>4
<1>6. cqStores' \in [DOMAIN cqStores' -> Nat]
  BY <1>3, <1>4, <1>5
<1> QED
  BY <1>1, <1>2, <1>5, <1>6

(* The counters of the two threads are numbers.                            *)
LEMMA Numbers ==
  ASSUME IInv
  PROVE  /\ sq_tail \in Nat /\ cq_tail \in Nat /\ hostSees \in Nat
         /\ hostDid.wrote \in Nat /\ hostDid.reaped \in Nat
         /\ local_sq_head \in Nat /\ local_cq_tail \in Nat
         /\ current_sq_tail \in Nat
BY DEF IInv, TypeOK

-----------------------------------------------------------------------------
(* One lemma for each action of the host thread.                           *)
LEMMA SubmitCheckIInv ==
  ASSUME IInv, NEW poll \in BOOLEAN, NEW c, SubmitCheck(poll, c)
  PROVE  IInv'
<1>1. /\ c \in Nat /\ hostSees' = c /\ hostSees <= c /\ c <= cq_tail
      /\ cqStores' \in [DOMAIN cqStores' -> Nat]
      /\ DOMAIN cqStores' \subseteq Nat
      /\ \A d \in DOMAIN cqStores' : cqStores'[d] = d /\ c <= d /\ d <= cq_tail
  BY LoadCqTailStep DEF SubmitCheck
<1>2. /\ hpc \in {"idle", "retry"}
      /\ polling' = poll
      /\ UNCHANGED <<hostDid, sq_tail, sq_payloads, sqStores,
                     last_latency_ticks, dpc, local_sq_head, local_cq_tail,
                     current_sq_tail, devSees, cq_tail, cq_payloads, is_running>>
  BY DEF SubmitCheck, devVars
<1>3. /\ hpc' \in {"idle", "retry", "fill"}
      /\ hpc' = "fill" => sq_tail - c < QUEUE_SIZE
  <2>1. CASE Full(c) /\ hpc' = IF poll THEN "retry" ELSE "idle"
    BY <2>1
  <2>2. CASE ~Full(c) /\ hpc' = "fill"
    BY <2>2, <1>1, QueueAssumption DEF Full, IInv, TypeOK
  <2> QED
    BY <2>1, <2>2 DEF SubmitCheck
<1>4. TypeOK'
  BY <1>1, <1>2, <1>3 DEF IInv, TypeOK
<1>5. DeviceInOrder' /\ StoresCarryProgress'
  BY <1>1, <1>2, <1>3 DEF IInv, DeviceInOrder, StoresCarryProgress
<1>6. HostWithinRing'
  BY <1>1, <1>2, <1>3, Numbers, QueueAssumption DEF IInv, HostWithinRing
<1>7. RingContents' /\ LatencyOfOneIo'
  BY <1>2 DEF IInv, RingContents, LatencyOfOneIo, Slot
<1> QED
  BY <1>4, <1>5, <1>6, <1>7 DEF IInv

LEMMA FillSlotIInv == ASSUME IInv, FillSlot PROVE IInv'
<1> USE DEF IInv
<1>1. /\ hpc = "fill" /\ hpc' = "publish"
      /\ sq_payloads' = [sq_payloads EXCEPT ![Slot(sq_tail)] = sq_tail]
      /\ hostDid' = [wrote |-> sq_tail + 1, reaped |-> hostDid.reaped]
      /\ UNCHANGED <<polling, hostSees, sq_tail, sqStores,
                     last_latency_ticks, dpc, local_sq_head, local_cq_tail,
                     current_sq_tail, devSees, cq_tail, cq_payloads, cqStores,
                     is_running>>
  BY DEF FillSlot, devVars, TypeOK, HostWithinRing
<1>2. TypeOK'
  <2>1. sq_payloads' \in [Ring -> Nat \cup {NoEntry}]
    BY <1>1 DEF TypeOK
  <2>2. hostDid' \in [wrote : Nat, reaped : Nat]
    BY <1>1 DEF TypeOK
  <2> QED
    BY <1>1, <2>1, <2>2 DEF TypeOK
<1>3. DeviceInOrder' /\ StoresCarryProgress'
  BY <1>1 DEF DeviceInOrder, StoresCarryProgress
<1>4. HostWithinRing'
  BY <1>1 DEF HostWithinRing
<1>5. RingContents'
  <2>1. ASSUME NEW i \in Nat, i < sq_tail + 1, sq_tail + 1 <= i + QUEUE_SIZE
        PROVE  sq_payloads'[Slot(i)] = i
    <3>1. CASE i = sq_tail
      BY <1>1, <3>1, SlotInRing DEF TypeOK
    <3>2. CASE i < sq_tail
      <4>1. /\ QUEUE_SIZE \in Nat /\ sq_tail \in Nat
            /\ sq_tail < i + QUEUE_SIZE /\ sq_tail <= i + QUEUE_SIZE
        <5>1. QUEUE_SIZE \in Nat /\ sq_tail \in Nat
          BY Numbers, QueueAssumption
        <5> QED
          BY <2>1, <5>1
      <4>2. hostDid.wrote = sq_tail
        BY <1>1 DEF HostWithinRing
      <4>3. sq_payloads[Slot(i)] = i
        BY <3>2, <4>1, <4>2 DEF RingContents
      <4>4. Slot(i) # Slot(sq_tail)
        BY <3>2, <4>1, SlotDistinct
      <4> QED
        BY <1>1, <4>1, <4>3, <4>4, SlotInRing DEF TypeOK
    <3> QED
      BY <2>1, <3>1, <3>2, Numbers
  <2> QED
    BY <1>1, <2>1 DEF RingContents, TypeOK, Slot
<1>6. LatencyOfOneIo'
  BY <1>1 DEF LatencyOfOneIo
<1> QED
  BY <1>2, <1>3, <1>4, <1>5, <1>6

LEMMA PublishSqIInv == ASSUME IInv, PublishSq PROVE IInv'
<1> USE DEF IInv
<1>1. /\ hpc = "publish" /\ hpc' \in {"poll", "idle"}
      /\ sq_tail' = sq_tail + 1
      /\ UNCHANGED <<polling, hostDid, hostSees, sq_payloads,
                     last_latency_ticks, dpc, local_sq_head, local_cq_tail,
                     current_sq_tail, devSees, cq_tail, cq_payloads, cqStores,
                     is_running>>
  BY DEF PublishSq, devVars
<1>2. /\ sqStores' \in [current_sq_tail .. (sq_tail + 1) -> [wrote : Nat, reaped : Nat]]
      /\ sqStores'[sq_tail + 1] = hostDid
      /\ \A v \in current_sq_tail .. sq_tail : sqStores'[v] = sqStores[v]
  <2>1. /\ sqStores' = With(sqStores, sq_tail + 1, hostDid)
        /\ DOMAIN sqStores = current_sq_tail .. sq_tail
    BY DEF PublishSq, HostRelease, TypeOK
  <2>2. (current_sq_tail .. sq_tail) \cup {sq_tail + 1} = current_sq_tail .. (sq_tail + 1)
    BY DEF TypeOK, DeviceInOrder
  <2> QED
    BY <2>1, <2>2 DEF With, TypeOK
<1>3. TypeOK'
  <2>1. sqStores' \in [current_sq_tail' .. sq_tail' -> [wrote : Nat, reaped : Nat]]
    BY <1>1, <1>2
  <2>2. sq_tail' \in Nat /\ hpc' \in {"idle", "poll"}
    BY <1>1, Numbers
  <2> QED
    BY <1>1, <2>1, <2>2 DEF TypeOK
<1>4. DeviceInOrder'
  BY <1>1 DEF DeviceInOrder, TypeOK
<1>5. StoresCarryProgress'
  <2>1. hostDid.wrote = sq_tail + 1
    BY <1>1 DEF HostWithinRing
  <2>2. \A v \in current_sq_tail .. (sq_tail + 1) :
          v \in current_sq_tail .. sq_tail \/ v = sq_tail + 1
    BY DEF TypeOK
  <2> QED
    <3>1. /\ sq_tail' = sq_tail + 1 /\ cq_tail <= sq_tail
          /\ UNCHANGED <<current_sq_tail, hostDid, cq_tail>>
      BY <1>1, Numbers DEF DeviceInOrder
    <3>2. \A v \in current_sq_tail' .. sq_tail' :
            /\ sqStores'[v].wrote = v
            /\ sqStores'[v].reaped <= hostDid'.reaped
            /\ v > cq_tail' => sqStores'[v].reaped = hostDid'.reaped
      <4> SUFFICES ASSUME NEW v \in current_sq_tail .. (sq_tail + 1)
                   PROVE  /\ sqStores'[v].wrote = v
                          /\ sqStores'[v].reaped <= hostDid.reaped
                          /\ v > cq_tail => sqStores'[v].reaped = hostDid.reaped
        BY <3>1
      <4>1. CASE v \in current_sq_tail .. sq_tail
        BY <1>2, <4>1 DEF StoresCarryProgress
      <4>2. CASE v = sq_tail + 1
        BY <1>2, <2>1, <4>2, Numbers
      <4> QED
        BY <2>2, <4>1, <4>2
    <3> QED
      BY <1>1, <3>2 DEF StoresCarryProgress
<1>6. HostWithinRing'
  BY <1>1, Numbers, QueueAssumption DEF HostWithinRing
<1>7. RingContents' /\ LatencyOfOneIo'
  BY <1>1 DEF RingContents, LatencyOfOneIo, Slot
<1> QED
  BY <1>3, <1>4, <1>5, <1>6, <1>7

LEMMA PollCqIInv == ASSUME IInv, NEW c, PollCq(c) PROVE IInv'
<1>1. /\ c \in Nat /\ hostSees' = c /\ hostSees <= c /\ c <= cq_tail
      /\ cqStores' \in [DOMAIN cqStores' -> Nat]
      /\ DOMAIN cqStores' \subseteq Nat
      /\ \A d \in DOMAIN cqStores' : cqStores'[d] = d /\ c <= d /\ d <= cq_tail
  BY LoadCqTailStep DEF PollCq
<1>2. /\ hpc = "poll" /\ hpc' \in {"reap", "poll"}
      /\ hpc' = "reap" => c >= sq_tail
      /\ UNCHANGED <<polling, hostDid, sq_tail, sq_payloads, sqStores,
                     last_latency_ticks, dpc, local_sq_head, local_cq_tail,
                     current_sq_tail, devSees, cq_tail, cq_payloads, is_running>>
  BY DEF PollCq, IsComplete, expected_cq_tail, devVars
<1>3. TypeOK'
  BY <1>1, <1>2 DEF IInv, TypeOK
<1>4. DeviceInOrder' /\ StoresCarryProgress'
  BY <1>1, <1>2 DEF IInv, DeviceInOrder, StoresCarryProgress
<1>5. HostWithinRing'
  BY <1>1, <1>2, QueueAssumption DEF IInv, TypeOK, HostWithinRing, DeviceInOrder
<1>6. RingContents' /\ LatencyOfOneIo'
  BY <1>2 DEF IInv, RingContents, LatencyOfOneIo, Slot
<1> QED
  BY <1>3, <1>4, <1>5, <1>6 DEF IInv

(* When the host reaps, the device has served and published everything.    *)
LEMMA ReapDrained ==
  ASSUME IInv, hpc = "reap"
  PROVE  /\ sq_tail \in Nat \ {0}
         /\ hostSees = sq_tail /\ cq_tail = sq_tail /\ local_cq_tail = sq_tail
         /\ current_sq_tail = sq_tail
         /\ sq_payloads[Slot(sq_tail - 1)] = sq_tail - 1
         /\ cq_payloads[Slot(sq_tail - 1)] =
               [entry |-> sq_tail - 1, sq_head_pointer |-> sq_tail % PtrModulus]
<1>1. /\ sq_tail \in Nat \ {0} /\ hostSees = sq_tail /\ cq_tail = sq_tail
      /\ local_cq_tail = sq_tail /\ current_sq_tail = sq_tail
      /\ hostDid.wrote = sq_tail
  BY DEF IInv, TypeOK, HostWithinRing, DeviceInOrder, StoresCarryProgress
<1>2. /\ sq_tail - 1 \in Nat /\ sq_tail - 1 < sq_tail
      /\ sq_tail <= (sq_tail - 1) + QUEUE_SIZE /\ (sq_tail - 1) + 1 = sq_tail
  BY <1>1, QueueAssumption
<1> QED
  BY <1>1, <1>2 DEF IInv, RingContents

LEMMA ReapIInv == ASSUME IInv, Reap PROVE IInv'
<1> USE DEF IInv
<1>1. /\ hpc = "reap" /\ hpc' = "idle"
      /\ last_latency_ticks' = [submit |-> sq_payloads[Slot(sq_tail - 1)],
                                complete |-> cq_payloads[Slot(sq_tail - 1)].entry]
      /\ hostDid' = [wrote |-> hostDid.wrote, reaped |-> sq_tail]
      /\ UNCHANGED <<polling, hostSees, sq_tail, sq_payloads, sqStores,
                     dpc, local_sq_head, local_cq_tail, current_sq_tail,
                     devSees, cq_tail, cq_payloads, cqStores, is_running>>
  BY DEF Reap, ReapIndex, expected_cq_tail, devVars, TypeOK
<1>2. /\ sq_tail \in Nat \ {0}
      /\ hostSees = sq_tail /\ cq_tail = sq_tail /\ local_cq_tail = sq_tail
      /\ current_sq_tail = sq_tail
      /\ sq_payloads[Slot(sq_tail - 1)] = sq_tail - 1
      /\ cq_payloads[Slot(sq_tail - 1)].entry = sq_tail - 1
  BY <1>1, ReapDrained
<1>3. LatencyOfOneIo'
  BY <1>1, <1>2 DEF LatencyOfOneIo
<1>4. TypeOK'
  <2>1. last_latency_ticks' \in [submit : Nat \cup {NoEntry},
                                 complete : Nat \cup {NoEntry}]
    BY <1>1, <1>2
  <2>2. hostDid' \in [wrote : Nat, reaped : Nat]
    BY <1>1, <1>2 DEF TypeOK
  <2> QED
    BY <1>1, <2>1, <2>2 DEF TypeOK
<1>5. DeviceInOrder'
  BY <1>1 DEF DeviceInOrder
<1>6. StoresCarryProgress'
  BY <1>1, <1>2 DEF StoresCarryProgress, TypeOK, HostWithinRing
<1>7. HostWithinRing'
  BY <1>1, <1>2, QueueAssumption DEF HostWithinRing, TypeOK
<1>8. RingContents'
  BY <1>1 DEF RingContents, Slot
<1> QED
  BY <1>3, <1>4, <1>5, <1>6, <1>7, <1>8

-----------------------------------------------------------------------------
(* One lemma for each action of the device thread.                         *)
LEMMA LoadSqTailIInv == ASSUME IInv, NEW v, LoadSqTail(v) PROVE IInv'
<1> USE DEF IInv
<1>1. /\ v \in current_sq_tail .. sq_tail /\ v \in Nat
      /\ dpc = "loop" /\ dpc' \in {"loop", "batch"}
      /\ dpc' # "batch" => v = local_sq_head
      /\ current_sq_tail' = v
      /\ UNCHANGED <<hpc, polling, hostDid, hostSees, sq_tail, sq_payloads,
                     last_latency_ticks, local_sq_head, local_cq_tail, cq_tail,
                     cq_payloads, cqStores, is_running>>
  BY DEF LoadSqTail, TypeOK
<1>2. /\ devSees' \in [wrote : Nat, reaped : Nat]
      /\ devSees'.wrote = v
      /\ devSees'.reaped <= hostDid.reaped
      /\ v > cq_tail => devSees'.reaped = hostDid.reaped
  <2>1. devSees' = [wrote |-> Larger(devSees.wrote, sqStores[v].wrote),
                    reaped |-> Larger(devSees.reaped, sqStores[v].reaped)]
    BY DEF LoadSqTail, DeviceAcquire
  <2>2. /\ devSees.wrote = current_sq_tail /\ devSees.reaped \in Nat
        /\ sqStores[v].wrote = v /\ sqStores[v].reaped \in Nat
        /\ devSees.reaped <= hostDid.reaped /\ hostDid.reaped \in Nat
        /\ sqStores[v].reaped <= hostDid.reaped
        /\ v > cq_tail => sqStores[v].reaped = hostDid.reaped
    BY <1>1 DEF StoresCarryProgress, TypeOK
  <2> QED
    BY <1>1, <2>1, <2>2 DEF Larger, TypeOK
<1>3. /\ sqStores' \in [v .. sq_tail -> [wrote : Nat, reaped : Nat]]
      /\ \A w \in v .. sq_tail : sqStores'[w] = sqStores[w]
  <2>1. sqStores' = [w \in {x \in current_sq_tail .. sq_tail : x >= v} |-> sqStores[w]]
    BY DEF LoadSqTail, From, TypeOK
  <2>2. {x \in current_sq_tail .. sq_tail : x >= v} = v .. sq_tail
    BY <1>1 DEF TypeOK
  <2> QED
    BY <1>1, <2>1, <2>2 DEF TypeOK
<1>4. TypeOK'
  BY <1>1, <1>2, <1>3 DEF TypeOK
<1>5. DeviceInOrder'
  BY <1>1 DEF DeviceInOrder, TypeOK
<1>6. StoresCarryProgress'
  <2>1. \A w \in v .. sq_tail : w \in current_sq_tail .. sq_tail
    BY <1>1 DEF TypeOK
  <2> QED
    BY <1>1, <1>2, <1>3, <2>1 DEF StoresCarryProgress
<1>7. HostWithinRing' /\ RingContents' /\ LatencyOfOneIo'
  BY <1>1 DEF HostWithinRing, RingContents, LatencyOfOneIo, Slot
<1> QED
  BY <1>4, <1>5, <1>6, <1>7

(* The entry the device serves is published and still in its slot.         *)
LEMMA ServedEntryInRing ==
  ASSUME IInv, Serving
  PROVE  /\ local_sq_head < current_sq_tail
         /\ hostDid.wrote <= local_sq_head + QUEUE_SIZE
         /\ sq_payloads[Slot(local_sq_head)] = local_sq_head
<1>1. /\ local_sq_head \in Nat /\ local_sq_head < current_sq_tail
      /\ local_sq_head < hostDid.wrote
  BY DEF IInv, TypeOK, Serving, DeviceInOrder, HostWithinRing
<1>2. hostDid.wrote <= local_sq_head + QUEUE_SIZE
  BY QueueAssumption DEF IInv, TypeOK, DeviceInOrder, HostWithinRing, StoresCarryProgress
<1> QED
  BY <1>1, <1>2 DEF IInv, RingContents

LEMMA ServeEntryIInv == ASSUME IInv, ServeEntry PROVE IInv'
<1> USE DEF IInv
<1>1. /\ dpc = "batch" /\ local_sq_head # current_sq_tail
      /\ local_sq_head' = local_sq_head + 1
      /\ local_cq_tail' = local_cq_tail + 1
      /\ UNCHANGED <<hpc, polling, hostDid, hostSees, sq_tail, sq_payloads,
                     sqStores, last_latency_ticks, dpc, current_sq_tail,
                     devSees, cq_tail, cqStores, is_running>>
  BY DEF ServeEntry, hostVars
<1> DEFINE comp == [entry |-> local_cq_tail,
                    sq_head_pointer |-> (local_cq_tail + 1) % PtrModulus]
<1>2. /\ cq_payloads' = [cq_payloads EXCEPT ![Slot(local_cq_tail)] = comp]
      /\ local_cq_tail = local_sq_head /\ local_cq_tail \in Nat
  BY <1>1, ServedEntryInRing DEF ServeEntry, Serving, HeadPointer, DeviceInOrder, TypeOK
<1>3. TypeOK'
  <2>1. (local_cq_tail + 1) % PtrModulus \in 0 .. (PtrModulus - 1)
    BY <1>2, QueueAssumption
  <2>2. cq_payloads' \in [Ring -> [entry : Nat \cup {NoEntry},
                                   sq_head_pointer : 0 .. (PtrModulus - 1)]]
    BY <1>2, <2>1 DEF TypeOK
  <2> QED
    <3>1. local_sq_head' \in Nat /\ local_cq_tail' \in Nat
      BY <1>1, Numbers
    <3> QED
      BY <1>1, <2>2, <3>1 DEF TypeOK
<1>4. DeviceInOrder'
  BY <1>1 DEF DeviceInOrder, TypeOK
<1>5. StoresCarryProgress' /\ HostWithinRing' /\ LatencyOfOneIo'
  BY <1>1 DEF StoresCarryProgress, HostWithinRing, LatencyOfOneIo
<1>6. RingContents'
  <2>1. ASSUME NEW i \in Nat, i < local_cq_tail + 1,
               local_cq_tail + 1 <= i + QUEUE_SIZE
        PROVE  cq_payloads'[Slot(i)] = [entry |-> i,
                                        sq_head_pointer |-> (i + 1) % PtrModulus]
    <3>1. CASE i = local_cq_tail
      BY <1>2, <3>1, SlotInRing DEF TypeOK
    <3>2. CASE i < local_cq_tail
      <4>1. /\ i < local_cq_tail /\ local_cq_tail <= i + QUEUE_SIZE
            /\ local_cq_tail < i + QUEUE_SIZE
        BY <1>2, <2>1, <3>2, QueueAssumption
      <4>2. cq_payloads[Slot(i)] = [entry |-> i,
                                    sq_head_pointer |-> (i + 1) % PtrModulus]
        BY <4>1 DEF RingContents
      <4>3. Slot(i) # Slot(local_cq_tail)
        BY <1>2, <4>1, SlotDistinct
      <4> QED
        BY <1>2, <4>2, <4>3, SlotInRing DEF TypeOK
    <3> QED
      BY <1>2, <2>1, <3>1, <3>2
  <2>2. \A i \in Nat :
          i < hostDid'.wrote /\ hostDid'.wrote <= i + QUEUE_SIZE
            => sq_payloads'[Slot(i)] = i
    BY <1>1 DEF RingContents
  <2> QED
    BY <1>1, <2>1, <2>2 DEF RingContents, Slot
<1> QED
  BY <1>3, <1>4, <1>5, <1>6

LEMMA PublishCqIInv == ASSUME IInv, PublishCq PROVE IInv'
<1> USE DEF IInv
<1>1. /\ dpc = "batch" /\ dpc' = "loop" /\ local_sq_head = current_sq_tail
      /\ cq_tail' = local_cq_tail
      /\ UNCHANGED <<hpc, polling, hostDid, hostSees, sq_tail, sq_payloads,
                     sqStores, last_latency_ticks, local_sq_head,
                     local_cq_tail, current_sq_tail, devSees, cq_payloads,
                     is_running>>
  BY DEF PublishCq, hostVars
<1>2. /\ DOMAIN cqStores' = DOMAIN cqStores \cup {local_cq_tail}
      /\ cqStores' \in [DOMAIN cqStores' -> Nat]
      /\ \A c \in DOMAIN cqStores' :
           cqStores'[c] = IF c = local_cq_tail THEN local_cq_tail ELSE cqStores[c]
  <2>1. cqStores' = [w \in DOMAIN cqStores \cup {local_cq_tail} |->
                       IF w = local_cq_tail THEN local_cq_tail ELSE cqStores[w]]
    BY DEF PublishCq, With, DeviceRelease
  <2> QED
    BY <2>1 DEF TypeOK
<1>3. TypeOK'
  BY <1>1, <1>2 DEF TypeOK
<1>4. DeviceInOrder'
  BY <1>1 DEF DeviceInOrder, TypeOK
<1>5. StoresCarryProgress'
  <2>1. cq_tail <= local_cq_tail /\ local_cq_tail \in Nat /\ cq_tail \in Nat
        /\ hostSees \in Nat
    BY DEF DeviceInOrder, TypeOK
  <2>2. \A c \in DOMAIN cqStores' :
          cqStores'[c] = c /\ hostSees <= c /\ c <= local_cq_tail
    BY <1>2, <2>1 DEF StoresCarryProgress, TypeOK
  <2>3. \A v \in current_sq_tail .. sq_tail : v > local_cq_tail => v > cq_tail
    BY <2>1 DEF TypeOK
  <2>4. current_sq_tail > local_cq_tail => current_sq_tail > cq_tail
    BY <2>1 DEF TypeOK
  <2> QED
    BY <1>1, <2>1, <2>2, <2>3, <2>4 DEF StoresCarryProgress
<1>6. HostWithinRing'
  BY <1>1 DEF HostWithinRing, DeviceInOrder, TypeOK
<1>7. RingContents' /\ LatencyOfOneIo'
  BY <1>1 DEF RingContents, LatencyOfOneIo, Slot
<1> QED
  BY <1>3, <1>4, <1>5, <1>6, <1>7

(* The device ends only between batches; shutdown touches only is_running. *)
LEMMA StopIInv == ASSUME IInv, DeviceExit \/ Shutdown PROVE IInv'
<1> USE DEF IInv
<1>1. /\ dpc' # "batch" => dpc # "batch"
      /\ dpc' \in {"loop", "batch", "done"}
      /\ is_running' \in BOOLEAN
      /\ UNCHANGED <<hpc, polling, hostDid, hostSees, sq_tail, sq_payloads,
                     sqStores, last_latency_ticks, local_sq_head,
                     local_cq_tail, current_sq_tail, devSees, cq_tail,
                     cq_payloads, cqStores>>
  <2>1. CASE DeviceExit
    BY <2>1 DEF DeviceExit, hostVars, TypeOK
  <2>2. CASE Shutdown
    BY <2>2 DEF Shutdown, hostVars, devVars, TypeOK
  <2> QED
    BY <2>1, <2>2
<1>2. TypeOK'
  BY <1>1 DEF TypeOK
<1>3. DeviceInOrder' /\ StoresCarryProgress'
  BY <1>1 DEF DeviceInOrder, StoresCarryProgress
<1>4. HostWithinRing' /\ RingContents' /\ LatencyOfOneIo'
  BY <1>1 DEF HostWithinRing, RingContents, LatencyOfOneIo, Slot
<1> QED
  BY <1>2, <1>3, <1>4

LEMMA StutterIInv == ASSUME IInv, UNCHANGED vars PROVE IInv'
<1> USE DEF IInv
<1>1. UNCHANGED <<hpc, polling, hostDid, hostSees, sq_tail, sq_payloads,
                  sqStores, last_latency_ticks, dpc, local_sq_head,
                  local_cq_tail, current_sq_tail, devSees, cq_tail,
                  cq_payloads, cqStores, is_running>>
  BY DEF vars, hostVars, devVars
<1>2. TypeOK' /\ DeviceInOrder' /\ StoresCarryProgress'
  BY <1>1 DEF TypeOK, DeviceInOrder, StoresCarryProgress
<1>3. HostWithinRing' /\ RingContents' /\ LatencyOfOneIo'
  BY <1>1 DEF HostWithinRing, RingContents, LatencyOfOneIo, Slot
<1> QED
  BY <1>2, <1>3

(* IInv is inductive.                                                      *)
LEMMA NextIInv == ASSUME IInv, [Next]_vars PROVE IInv'
<1>1. ASSUME NEW poll \in BOOLEAN, NEW c, SubmitCheck(poll, c) PROVE IInv'
  BY <1>1, SubmitCheckIInv
<1>2. ASSUME NEW c, PollCq(c) PROVE IInv'
  BY <1>2, PollCqIInv
<1>3. ASSUME NEW v, LoadSqTail(v) PROVE IInv'
  BY <1>3, LoadSqTailIInv
<1>4. CASE FillSlot
  BY <1>4, FillSlotIInv
<1>5. CASE PublishSq
  BY <1>5, PublishSqIInv
<1>6. CASE Reap
  BY <1>6, ReapIInv
<1>7. CASE ServeEntry
  BY <1>7, ServeEntryIInv
<1>8. CASE PublishCq
  BY <1>8, PublishCqIInv
<1>9. CASE DeviceExit \/ Shutdown
  BY <1>9, StopIInv
<1>10. CASE UNCHANGED vars
  BY <1>10, StutterIInv
<1> QED
  BY <1>1, <1>2, <1>3, <1>4, <1>5, <1>6, <1>7, <1>8, <1>9, <1>10 DEF Next

THEOREM Invariance == Spec => []IInv
<1>1. Init => IInv
  BY InitIInv
<1>2. IInv /\ [Next]_vars => IInv'
  BY NextIInv
<1> QED
  BY <1>1, <1>2, PTL DEF Spec

-----------------------------------------------------------------------------
(* Every reachable state is well typed: in particular the completion       *)
(* pointer always fits its 16 bits (src/sq_cq.cpp:90).                     *)
THEOREM TypeCorrect == Spec => []TypeOK
<1>1. IInv => TypeOK
  BY DEF IInv
<1> QED
  BY <1>1, Invariance, PTL

(* No data race on a submission slot, for every ring size: the acquire of  *)
(* cq_tail and the release of sq_tail order every pair of conflicting      *)
(* accesses of the two threads.                                            *)
THEOREM SqSlotsRaceFree == Spec => []SqSlotRaceFree
<1>1. ASSUME IInv PROVE SqSlotRaceFree
  <2> USE <1>1 DEF IInv
  <2>1. ASSUME hpc = "fill", NEW j \in 0 .. (local_sq_head - 1),
               Slot(j) = Slot(sq_tail)
        PROVE  j < hostSees
    <3>1. j \in Nat /\ j < sq_tail /\ sq_tail \in Nat
      BY <2>1 DEF TypeOK, DeviceInOrder
    <3>2. ~(sq_tail < j + QUEUE_SIZE)
      BY <2>1, <3>1, SlotDistinct
    <3> QED
      BY <2>1, <3>1, <3>2, Numbers, QueueAssumption DEF HostWithinRing
  <2>2. ASSUME Serving, NEW j \in 0 .. (hostDid.wrote - 1),
               Slot(j) = Slot(local_sq_head)
        PROVE  j < devSees.wrote
    <3>1. /\ j \in Nat /\ local_sq_head \in Nat /\ local_sq_head < current_sq_tail
          /\ j < local_sq_head + QUEUE_SIZE
      <4>1. /\ local_sq_head \in Nat /\ hostDid.wrote \in Nat /\ j < hostDid.wrote
            /\ j \in Nat /\ QUEUE_SIZE \in Nat
        BY <2>2, QueueAssumption DEF TypeOK
      <4>2. /\ local_sq_head < current_sq_tail
            /\ hostDid.wrote <= local_sq_head + QUEUE_SIZE
        BY <2>2, ServedEntryInRing
      <4> QED
        BY <4>1, <4>2
    <3>2. ~(local_sq_head < j)
      BY <2>2, <3>1, SlotDistinct
    <3> QED
      BY <3>1, <3>2 DEF StoresCarryProgress, TypeOK
  <2> QED
    BY <2>1, <2>2 DEF SqSlotRaceFree
<1> QED
  BY <1>1, Invariance, PTL

(* No data race on a completion slot: the device reuses one only after it  *)
(* has seen the host read it, and the host reads one only after it has     *)
(* seen it written.                                                        *)
THEOREM CqSlotsRaceFree == Spec => []CqSlotRaceFree
<1>1. ASSUME IInv PROVE CqSlotRaceFree
  <2> USE <1>1 DEF IInv
  <2>1. Serving => devSees.reaped = hostDid.reaped
    BY ServedEntryInRing DEF StoresCarryProgress, DeviceInOrder, TypeOK
  <2>2. hpc = "reap" => hostSees = local_cq_tail
    BY ReapDrained
  <2> QED
    BY <2>1, <2>2 DEF CqSlotRaceFree, TypeOK
<1> QED
  BY <1>1, Invariance, PTL

(* The device serves the I/Os in submission order, each exactly from its   *)
(* own entry.                                                              *)
THEOREM InOrderService == Spec => []ServesOwnEntry
<1>1. IInv => ServesOwnEntry
  BY ServedEntryInRing DEF ServesOwnEntry
<1> QED
  BY <1>1, Invariance, PTL

(* At most QUEUE_SIZE I/Os are written and not complete, although the host *)
(* tests a value of cq_tail that may be stale.                             *)
THEOREM BoundedInFlight == Spec => []InFlightBounded
<1>1. IInv => InFlightBounded
  BY Numbers, QueueAssumption
  DEF IInv, InFlightBounded, HostWithinRing, StoresCarryProgress, DeviceInOrder
<1> QED
  BY <1>1, Invariance, PTL

(* The latency host_submit_and_poll exports always pairs the submission    *)
(* and the completion of one I/O.                                          *)
THEOREM LatencyPairsOneIo == Spec => []LatencyOfOneIo
<1>1. IInv => LatencyOfOneIo
  BY DEF IInv
<1> QED
  BY <1>1, Invariance, PTL

(* The 16-bit head pointer is unambiguous whenever a ring is smaller than  *)
(* the range of the pointer, as 1024 is than 65536.                        *)
THEOREM HeadPointerDecodes == Spec => []HeadPointerUnambiguous
<1>1. ASSUME IInv PROVE HeadPointerUnambiguous
  <2>1. ASSUME hpc = "reap", NEW k \in (sq_tail - QUEUE_SIZE) .. sq_tail, k >= 0,
               k % PtrModulus = cq_payloads[Slot(ReapIndex)].sq_head_pointer
        PROVE  k = sq_tail
    <3>1. /\ sq_tail \in Nat
          /\ k % PtrModulus = sq_tail % PtrModulus
      BY <1>1, <2>1, ReapDrained DEF ReapIndex, expected_cq_tail
    <3>2. /\ k \in Nat /\ k <= sq_tail /\ sq_tail < k + PtrModulus
          /\ PtrModulus \in Nat \ {0}
      BY <2>1, <3>1, QueueAssumption
    <3> QED
      BY <3>1, <3>2, ModDistinct, Zenon
  <2> QED
    BY <2>1 DEF HeadPointerUnambiguous
<1> QED
  BY <1>1, Invariance, PTL

(* SqCqEmulator implements the queue pair: every step of the two threads   *)
(* is an accepted submission, a batch of completions, a return, a stop, or *)
(* invisible.                                                              *)
THEOREM Refinement == Spec => ImplementsQueuePair
<1> USE DEF QP!vars
<1>1. Init => QP!Init
  BY DEF Init, QP!Init
<1>2. ASSUME IInv, [Next]_vars PROVE [QP!Next]_(QP!vars)
  <2> USE <1>2 DEF IInv
  <2>1. ASSUME NEW poll \in BOOLEAN, NEW c, SubmitCheck(poll, c)
        PROVE  UNCHANGED QP!vars
    BY <2>1 DEF SubmitCheck, devVars
  <2>2. CASE FillSlot
    BY <2>2 DEF FillSlot, devVars, TypeOK
  <2>3. CASE PublishSq
    <3>1. /\ hpc = "publish" /\ sq_tail' = sq_tail + 1
          /\ hpc' = IF polling THEN "poll" ELSE "idle"
          /\ UNCHANGED <<cq_tail, hostDid, is_running>>
      BY <2>3 DEF PublishSq, devVars
    <3>2. sq_tail - cq_tail < QUEUE_SIZE
      BY <3>1, QueueAssumption DEF HostWithinRing, StoresCarryProgress, TypeOK, DeviceInOrder
    <3> QED
      BY <3>1, <3>2 DEF QP!Next, QP!Submit, TypeOK
  <2>4. ASSUME NEW c, PollCq(c) PROVE UNCHANGED QP!vars
    BY <2>4 DEF PollCq, devVars
  <2>5. CASE Reap
    <3>1. cq_tail = sq_tail
      BY <2>5, ReapDrained DEF Reap
    <3>2. /\ hpc = "reap" /\ hpc' = "idle" /\ hostDid'.reaped = sq_tail
          /\ UNCHANGED <<sq_tail, cq_tail, is_running>>
      BY <2>5 DEF Reap, expected_cq_tail, devVars, TypeOK
    <3> QED
      BY <3>1, <3>2 DEF QP!Next, QP!Return
  <2>6. ASSUME NEW v, LoadSqTail(v) PROVE UNCHANGED QP!vars
    BY <2>6 DEF LoadSqTail
  <2>7. CASE ServeEntry
    BY <2>7 DEF ServeEntry, hostVars
  <2>8. CASE PublishCq
    <3>1. /\ cq_tail' = local_cq_tail /\ cq_tail <= local_cq_tail
          /\ local_cq_tail <= sq_tail /\ local_cq_tail \in Nat /\ cq_tail \in Nat
          /\ UNCHANGED <<sq_tail, hpc, hostDid, is_running>>
      BY <2>8 DEF PublishCq, hostVars, DeviceInOrder, TypeOK
    <3>2. CASE local_cq_tail = cq_tail
      BY <3>1, <3>2
    <3>3. CASE local_cq_tail \in (cq_tail + 1) .. sq_tail
      BY <3>1, <3>3 DEF QP!Next, QP!Complete
    <3> QED
      BY <3>1, <3>2, <3>3 DEF TypeOK
  <2>9. CASE DeviceExit
    BY <2>9 DEF DeviceExit, hostVars
  <2>10. CASE Shutdown
    BY <2>10 DEF Shutdown, hostVars, devVars, QP!Next, QP!Stop
  <2>11. CASE UNCHANGED vars
    BY <2>11 DEF vars, hostVars, devVars
  <2> QED
    BY <2>1, <2>2, <2>3, <2>4, <2>5, <2>6, <2>7, <2>8, <2>9, <2>10, <2>11 DEF Next
<1> QED
  BY <1>1, <1>2, Invariance, PTL DEF Spec, ImplementsQueuePair, QP!Spec

-----------------------------------------------------------------------------
(* What a blocking call waits for.                                         *)

(* While the emulator runs, a call that waits can end with its next load   *)
(* of the newest cq_tail, or the device is in a batch, or the device's     *)
(* next load of the newest sq_tail starts one.                             *)
WaitIsServed ==
  is_running /\ hpc \in {"retry", "poll"} =>
    \/ /\ cq_tail \in DOMAIN cqStores
       /\ IF hpc = "retry" THEN ~Full(cq_tail) ELSE IsComplete(cq_tail)
    \/ dpc = "batch"
    \/ dpc = "loop" /\ sq_tail \in DOMAIN sqStores /\ sq_tail # local_sq_head

(* The device ends only on shutdown, and a store that was read leaves the  *)
(* newest one to be read.                                                  *)
CanBeServed ==
  /\ dpc = "done" => ~is_running
  /\ cq_tail \in DOMAIN cqStores

LEMMA NextCanBeServed ==
  IInv /\ CanBeServed /\ [Next]_vars => CanBeServed'
<1> SUFFICES ASSUME IInv, CanBeServed, [Next]_vars PROVE CanBeServed'
  OBVIOUS
<1> USE DEF CanBeServed
<1>1. \A c \in DOMAIN cqStores : cq_tail >= c
  BY Numbers DEF IInv, StoresCarryProgress, TypeOK
<1>2. ASSUME NEW c, LoadCqTail(c) PROVE cq_tail \in DOMAIN cqStores'
  BY <1>1, <1>2 DEF LoadCqTail, From
<1>3. ASSUME NEW poll \in BOOLEAN, NEW c, SubmitCheck(poll, c) PROVE CanBeServed'
  BY <1>2, <1>3 DEF SubmitCheck, devVars
<1>4. ASSUME NEW c, PollCq(c) PROVE CanBeServed'
  BY <1>2, <1>4 DEF PollCq, devVars
<1>5. CASE PublishCq
  BY <1>5 DEF PublishCq, With
<1>6. CASE \/ FillSlot \/ PublishSq \/ Reap \/ ServeEntry \/ DeviceExit \/ Shutdown
           \/ \E v \in DOMAIN sqStores : LoadSqTail(v)
           \/ UNCHANGED vars
  BY <1>6 DEF FillSlot, PublishSq, Reap, ServeEntry, DeviceExit, SeesShutdown, Shutdown,
     LoadSqTail, vars, hostVars, devVars
<1> QED
  BY <1>3, <1>4, <1>5, <1>6 DEF Next

(* host_submit_and_poll and nvme_device_loop never wait for each other     *)
(* while the emulator runs, on a full ring or an empty one.                *)
THEOREM NeverBothWait == Spec => []WaitIsServed
<1>1. Init => CanBeServed
  BY DEF Init, CanBeServed
<1>2. ASSUME IInv, CanBeServed PROVE WaitIsServed
  <2>1. SUFFICES ASSUME is_running, hpc \in {"retry", "poll"}, dpc # "batch",
                        sq_tail = local_sq_head
                 PROVE  IF hpc = "retry" THEN ~Full(cq_tail) ELSE IsComplete(cq_tail)
    <3>1. is_running /\ dpc # "batch" => dpc = "loop"
      BY <1>2 DEF IInv, TypeOK, CanBeServed
    <3>2. sq_tail \in DOMAIN sqStores
      BY <1>2, Numbers DEF IInv, TypeOK, DeviceInOrder
    <3> QED
      BY <1>2, <3>1, <3>2 DEF WaitIsServed, CanBeServed
  <2>2. cq_tail = sq_tail /\ sq_tail \in Nat
    BY <1>2, <2>1 DEF IInv, TypeOK, DeviceInOrder
  <2> QED
    BY <2>1, <2>2, QueueAssumption DEF Full, IsComplete, expected_cq_tail
<1> QED
  BY <1>1, <1>2, Invariance, NextCanBeServed, PTL DEF Spec
=============================================================================
