------------------------------ MODULE IorRing -------------------------------
(***************************************************************************)
(* LockFreeIorRing (src/dataplane_ring.cpp): one tagged 64-bit word, a     *)
(* pointer and an 8-bit version, that producers replace with a             *)
(* compare-and-swap loop and a consumer reads.                             *)
(*                                                                         *)
(* There is one atomic location.  A load of a stale value is the same as   *)
(* the load made earlier and the thread delayed after it, which the model  *)
(* has; so loads return the newest value.  What is not covered by that is  *)
(* the plain memory behind the pointers: headView holds the payloads whose *)
(* content an acquire load of the head makes visible, and sees[t] those    *)
(* visible to thread t.                                                    *)
(***************************************************************************)
EXTENDS Integers

CONSTANTS
  Producers,
  Payloads,
  initial_payload,
  VERSIONS,      (* 256: the version is a uint8_t                          *)
  MaxEnqueue     (* bound of the model on the number of enqueues           *)

ASSUME RingAssumption ==
  /\ initial_payload \in Payloads
  /\ VERSIONS \in Nat \ {0}
  /\ MaxEnqueue \in Nat

VARIABLES
  head_tagged_ptr,
  headView,          (* payloads published with the head                   *)
  pc,                (* per producer: "idle" or "cas"                      *)
  new_payload,       (* per producer: argument of enqueue_io_buffer        *)
  expected_tagged,   (* per producer                                       *)
  sees,              (* per producer: payloads whose content it sees       *)
  consumed,          (* the payload process_next_io led to last            *)
  consumerSees,      (* payloads whose content the consumer sees           *)
  filled,            (* payloads somebody has written                      *)
  total,             (* enqueues so far                                    *)
  loadedAt           (* per producer: total when it loaded expected_tagged *)

producerVars == <<pc, new_payload, expected_tagged, loadedAt>>
vars == <<head_tagged_ptr, headView, producerVars, sees, consumed,
          consumerSees, filled, total>>

TaggedPtr == [ptr : Payloads, version : 0 .. (VERSIONS - 1)]
create_tagged_ptr(ptr, version) == [ptr |-> ptr, version |-> version]
get_tag_version(tagged) == tagged.version

(* The constructor, before any thread knows the ring.                      *)
Init ==
  /\ head_tagged_ptr = create_tagged_ptr(initial_payload, 0)
  /\ headView = {initial_payload}
  /\ pc = [t \in Producers |-> "idle"]
  /\ new_payload = [t \in Producers |-> initial_payload]
  /\ expected_tagged = [t \in Producers |-> create_tagged_ptr(initial_payload, 0)]
  /\ sees = [t \in Producers |-> {initial_payload}]
  /\ consumed = initial_payload
  /\ consumerSees = {initial_payload}
  /\ filled = {initial_payload}
  /\ total = 0
  /\ loadedAt = [t \in Producers |-> 0]

(* A producer writes a payload that nobody has written yet.                *)
Fill(t, p) ==
  /\ pc[t] = "idle"
  /\ p \notin filled
  /\ filled' = filled \cup {p}
  /\ sees' = [sees EXCEPT ![t] = @ \cup {p}]
  /\ UNCHANGED <<head_tagged_ptr, headView, producerVars, consumed,
                 consumerSees, total>>

(* enqueue_io_buffer of a payload whose content the caller sees, be it new *)
(* or enqueued before: the relaxed load of the head.                       *)
EnqueueLoad(t, p) ==
  /\ pc[t] = "idle"
  /\ total < MaxEnqueue
  /\ p \in sees[t]
  /\ new_payload' = [new_payload EXCEPT ![t] = p]
  /\ expected_tagged' = [expected_tagged EXCEPT ![t] = head_tagged_ptr]
  /\ loadedAt' = [loadedAt EXCEPT ![t] = total]
  /\ pc' = [pc EXCEPT ![t] = "cas"]
  /\ UNCHANGED <<head_tagged_ptr, headView, sees, consumed, consumerSees,
                 filled, total>>

(* uint8_t next_version, the word to store, and the test of the exchange.  *)
NextVersionSame(t) == get_tag_version(expected_tagged[t])
NextVersion(t) == (get_tag_version(expected_tagged[t]) + 1) % VERSIONS

ExchangesSamePtr(t) == expected_tagged[t].ptr = head_tagged_ptr.ptr
Exchanges(t) == expected_tagged[t] = head_tagged_ptr

(* The exchange succeeds with release: it adds what the producer sees to   *)
(* what the head publishes (the read-modify-writes of the others continue  *)
(* their release sequences).  The locals of the call are gone.             *)
ReleasedNothing(t) == headView
Released(t) == headView \cup sees[t]

CasSucceeds(t) ==
  /\ pc[t] = "cas"
  /\ Exchanges(t)
  /\ total < MaxEnqueue
  /\ head_tagged_ptr' = create_tagged_ptr(new_payload[t], NextVersion(t))
  /\ headView' = Released(t)
  /\ total' = total + 1
  /\ pc' = [pc EXCEPT ![t] = "idle"]
  /\ new_payload' = [new_payload EXCEPT ![t] = initial_payload]
  /\ expected_tagged' = [expected_tagged EXCEPT ![t] =
                            create_tagged_ptr(initial_payload, 0)]
  /\ loadedAt' = [loadedAt EXCEPT ![t] = 0]
  /\ UNCHANGED <<sees, consumed, consumerSees, filled>>

(* It fails with acquire and reloads expected_tagged.  The weak exchange   *)
(* may fail without a reason, which this also covers: the value it loads   *)
(* is then the one it expected.                                            *)
ReloadedStale(t) == expected_tagged[t]
Reloaded(t) == head_tagged_ptr

CasFails(t) ==
  /\ pc[t] = "cas"
  /\ expected_tagged' = [expected_tagged EXCEPT ![t] = Reloaded(t)]
  /\ loadedAt' = [loadedAt EXCEPT ![t] = total]
  /\ sees' = [sees EXCEPT ![t] = @ \cup headView]
  /\ UNCHANGED <<head_tagged_ptr, headView, pc, new_payload, consumed,
                 consumerSees, filled, total>>

(* process_next_io: the acquire load.  The word is returned with its tag,  *)
(* which the hardware ignores when the pointer is dereferenced (TBI).      *)
ProcessNextIo ==
  /\ consumed' = head_tagged_ptr.ptr
  /\ consumerSees' = consumerSees \cup headView
  /\ UNCHANGED <<head_tagged_ptr, headView, producerVars, sees, filled,
                 total>>

Next ==
  \/ \E t \in Producers :
       \/ \E p \in Payloads : Fill(t, p) \/ EnqueueLoad(t, p)
       \/ CasSucceeds(t)
       \/ CasFails(t)
  \/ ProcessNextIo

Spec == Init /\ [][Next]_vars

(* Producers are scheduled, and an exchange that finds what it expects     *)
(* does not fail without a reason for ever.                                *)
Fairness ==
  \A t \in Producers :
    /\ WF_vars(CasSucceeds(t))
    /\ WF_vars(~Exchanges(t) /\ CasFails(t))

FairSpec == Spec /\ Fairness

-----------------------------------------------------------------------------
(* Properties.                                                             *)

(* No enqueue is lost or counted twice however the producers interleave:   *)
(* the version is the number of enqueues, cut to its width.                *)
VersionCountsEnqueues == get_tag_version(head_tagged_ptr) = total % VERSIONS

(* What the tag does achieve against ABA: an exchange finds the word it    *)
(* expects only if the number of enqueues since its load is a multiple of  *)
(* 256, be it that the very same payload is enqueued again.                *)
AbaOnlyOnWrap ==
  \A t \in Producers :
    (pc[t] = "cas" /\ Exchanges(t)) => (total - loadedAt[t]) % VERSIONS = 0

(* The consumer sees the content of the payload it dereferences, whoever   *)
(* wrote it and whichever producer enqueued it last.                       *)
ConsumerSeesPayload == consumed \in consumerSees

(* The loop is lock-free: while a producer is in it, some enqueue          *)
(* eventually succeeds.                                                    *)
LockFree ==
  \A k \in 0 .. (MaxEnqueue - 1) :
    (total = k /\ \E t \in Producers : pc[t] = "cas") ~> total > k
=============================================================================
