-------------------------------- MODULE SqCq --------------------------------
(***************************************************************************)
(* SqCqEmulator: the lock-free submission and completion queue between one *)
(* host thread and one device thread (src/sq_cq.cpp).                      *)
(*                                                                         *)
(* The two doorbells sq_tail and cq_tail are C++11 atomics; the slots of   *)
(* the two rings are plain memory.  The model keeps what the C++ memory    *)
(* model gives to such a program:                                          *)
(*   - a load may return any value stored since the last value the same    *)
(*     thread saw, not only the newest one (the stores a thread may still  *)
(*     read are the domain of sqStores and cqStores);                      *)
(*   - a release store carries the storing thread's progress, and an       *)
(*     acquire load that reads it makes everything up to there visible;    *)
(*   - an access to a slot is free of a data race only when every earlier  *)
(*     conflicting access of the other thread is visible in that sense.    *)
(* Progress is counted per kind of access, because each thread goes        *)
(* through the entries in order: the host has written hostDid.wrote        *)
(* submission entries and read completions up to entry hostDid.reaped; the *)
(* device has served local_cq_tail entries.                                *)
(* The content of a slot is the number of the I/O it belongs to.           *)
(***************************************************************************)
EXTENDS Integers

CONSTANTS
  QUEUE_SIZE,    (* slots of each ring, 1024 in the code                   *)
  PtrModulus,    (* range of the uint16_t sq_head_pointer, 65536           *)
  MaxSubmit      (* bound of the model on the number of submissions        *)

ASSUME QueueAssumption ==
  /\ QUEUE_SIZE \in Nat \ {0}
  /\ PtrModulus \in Nat
  /\ QUEUE_SIZE < PtrModulus
  /\ MaxSubmit \in Nat

NoEntry == -1

VARIABLES
  sq_tail, sq_payloads,      (* submission queue                           *)
  cq_tail, cq_payloads,      (* completion queue                           *)
  is_running,
  last_latency_ticks,        (* which submission and completion it pairs   *)
  sqStores, cqStores,        (* doorbell stores the other side may read    *)
  hpc, polling,              (* host thread: control, kind of call         *)
  hostDid, hostSees,         (* host progress, device progress it sees     *)
  dpc,                       (* device thread: control                     *)
  local_sq_head, local_cq_tail, current_sq_tail,
  devSees                    (* host progress the device sees              *)

hostVars == <<hpc, polling, hostDid, hostSees, sq_tail, sq_payloads,
              sqStores, last_latency_ticks>>
devVars == <<dpc, local_sq_head, local_cq_tail, current_sq_tail, devSees,
             cq_tail, cq_payloads>>
vars == <<hostVars, devVars, cqStores, is_running>>

Slot(entry) == entry % QUEUE_SIZE

Ring == 0 .. (QUEUE_SIZE - 1)

Larger(a, b) == IF a >= b THEN a ELSE b

(* What a thread may still read of the other's doorbell once it has read   *)
(* the value v: coherence rules the older stores out.                      *)
From(stores, v) == [w \in {x \in DOMAIN stores : x >= v} |-> stores[w]]

With(stores, v, view) ==
  [w \in DOMAIN stores \cup {v} |-> IF w = v THEN view ELSE stores[w]]

-----------------------------------------------------------------------------
Init ==
  /\ sq_tail = 0
  /\ cq_tail = 0
  /\ sq_payloads = [s \in Ring |-> NoEntry]
  /\ cq_payloads = [s \in Ring |-> [entry |-> NoEntry, sq_head_pointer |-> 0]]
  /\ is_running = TRUE
  /\ last_latency_ticks = [submit |-> NoEntry, complete |-> NoEntry]
  /\ hostDid = [wrote |-> 0, reaped |-> 0]
  /\ sqStores = [v \in {0} |-> [wrote |-> 0, reaped |-> 0]]
  /\ cqStores = [v \in {0} |-> 0]
  /\ hpc = "idle"
  /\ polling = FALSE
  /\ hostSees = 0
  /\ dpc = "loop"
  /\ local_sq_head = 0
  /\ local_cq_tail = 0
  /\ current_sq_tail = 0
  /\ devSees = [wrote |-> 0, reaped |-> 0]

-----------------------------------------------------------------------------
(* The host thread.                                                        *)

(* cq_tail.load(acquire) returns the value c, and the host sees the device *)
(* as far as the store of c carries.                                       *)
HostAcquire(view) == Larger(hostSees, view)

LoadCqTail(c) ==
  /\ c \in DOMAIN cqStores
  /\ hostSees' = HostAcquire(cqStores[c])
  /\ cqStores' = From(cqStores, c)

(* submit_io's test for a full queue, on the loaded value of cq_tail.      *)
FullLate(c) == sq_tail - c > QUEUE_SIZE
Full(c) == sq_tail - c >= QUEUE_SIZE

(* The head of submit_io: the two loads and the test.  A bare submit_io    *)
(* returns false on a full queue, host_submit_and_poll tries again.        *)
SubmitCheck(poll, c) ==
  /\ \/ hpc = "idle" /\ sq_tail < MaxSubmit
     \/ hpc = "retry" /\ poll
  /\ LoadCqTail(c)
  /\ polling' = poll
  /\ \/ Full(c) /\ hpc' = IF poll THEN "retry" ELSE "idle"
     \/ ~Full(c) /\ hpc' = "fill"
  /\ UNCHANGED <<hostDid, sq_tail, sq_payloads, sqStores, last_latency_ticks,
                 devVars, is_running>>

(* The command is written into its slot.                                   *)
FillSlot ==
  /\ hpc = "fill"
  /\ sq_payloads' = [sq_payloads EXCEPT ![Slot(sq_tail)] = sq_tail]
  /\ hostDid' = [hostDid EXCEPT !.wrote = @ + 1]
  /\ hpc' = "publish"
  /\ UNCHANGED <<polling, hostSees, sq_tail, sqStores, last_latency_ticks,
                 devVars, cqStores, is_running>>

(* sq_tail.store(current_sq_tail + 1, release): what the store carries is  *)
(* all that the host did before it.                                        *)
HostReleaseNothing == [wrote |-> 0, reaped |-> 0]
HostRelease == hostDid

PublishSq ==
  /\ hpc = "publish"
  /\ sq_tail' = sq_tail + 1
  /\ sqStores' = With(sqStores, sq_tail + 1, HostRelease)
  /\ hpc' = IF polling THEN "poll" ELSE "idle"
  /\ UNCHANGED <<polling, hostDid, hostSees, sq_payloads, last_latency_ticks,
                 devVars, cqStores, is_running>>

(* host_submit_and_poll has submitted and waits for cq_tail to reach its   *)
(* own sq_tail (no later submission exists: the host thread is here).      *)
expected_cq_tail == sq_tail

CompleteAfter(c) == c > expected_cq_tail
CompleteBefore(c) == c + 1 >= expected_cq_tail
IsComplete(c) == c >= expected_cq_tail

PollCq(c) ==
  /\ hpc = "poll"
  /\ LoadCqTail(c)
  /\ hpc' = IF IsComplete(c) THEN "reap" ELSE "poll"
  /\ UNCHANGED <<polling, hostDid, sq_tail, sq_payloads, sqStores,
                 last_latency_ticks, devVars, is_running>>

(* The index of the slot that host_submit_and_poll reads on completion.    *)
ReapIndexNext == expected_cq_tail
ReapIndex == expected_cq_tail - 1

(* The completion and the submission in that slot give the latency, and    *)
(* the call returns.                                                       *)
Reap ==
  /\ hpc = "reap"
  /\ last_latency_ticks' = [submit |-> sq_payloads[Slot(ReapIndex)],
                            complete |-> cq_payloads[Slot(ReapIndex)].entry]
  /\ hostDid' = [hostDid EXCEPT !.reaped = expected_cq_tail]
  /\ hpc' = "idle"
  /\ UNCHANGED <<polling, hostSees, sq_tail, sq_payloads, sqStores, devVars,
                 cqStores, is_running>>

-----------------------------------------------------------------------------
(* The device thread, nvme_device_loop.                                    *)

(* One turn of the outer loop up to the batch: is_running still reads true *)
(* (a relaxed load, so perhaps not the newest value) and sq_tail is loaded *)
(* with acquire; nothing new means another turn.                           *)
DeviceAcquire(view) ==
  [wrote |-> Larger(devSees.wrote, view.wrote),
   reaped |-> Larger(devSees.reaped, view.reaped)]

LoadSqTail(v) ==
  /\ dpc = "loop"
  /\ v \in DOMAIN sqStores
  /\ current_sq_tail' = v
  /\ devSees' = DeviceAcquire(sqStores[v])
  /\ sqStores' = From(sqStores, v)
  /\ dpc' = IF v = local_sq_head THEN "loop" ELSE "batch"
  /\ UNCHANGED <<hpc, polling, hostDid, hostSees, sq_tail, sq_payloads,
                 last_latency_ticks, local_sq_head, local_cq_tail, cq_tail,
                 cq_payloads, cqStores, is_running>>

(* The value of sq_head_pointer in the completion of the I/O being served: *)
(* the number of consumed entries, cut to 16 bits.                         *)
HeadPointerWide == local_sq_head + 1
HeadPointer == (local_sq_head + 1) % PtrModulus

(* One turn of the inner loop: the request in the slot is consumed and its *)
(* completion written.  The code binds req to the slot and does nothing    *)
(* with it yet; the model takes this as the point where it is read.        *)
ServeEntry ==
  /\ dpc = "batch"
  /\ local_sq_head # current_sq_tail
  /\ cq_payloads' = [cq_payloads EXCEPT ![Slot(local_cq_tail)] =
                       [entry |-> sq_payloads[Slot(local_sq_head)],
                        sq_head_pointer |-> HeadPointer]]
  /\ local_sq_head' = local_sq_head + 1
  /\ local_cq_tail' = local_cq_tail + 1
  /\ UNCHANGED <<hostVars, dpc, current_sq_tail, devSees, cq_tail, cqStores,
                 is_running>>

(* The whole batch is published by one cq_tail.store(release), which       *)
(* carries the entries served so far.                                      *)
DeviceReleaseNothing == 0
DeviceRelease == local_cq_tail

PublishCq ==
  /\ dpc = "batch"
  /\ local_sq_head = current_sq_tail
  /\ cq_tail' = local_cq_tail
  /\ cqStores' = With(cqStores, local_cq_tail, DeviceRelease)
  /\ dpc' = "loop"
  /\ UNCHANGED <<hostVars, local_sq_head, local_cq_tail, current_sq_tail,
                 devSees, cq_payloads, is_running>>

(* The loop condition reads the false that shutdown stored.                *)
SeesShutdownInBatch == ~is_running /\ local_sq_head # sq_tail
SeesShutdown == ~is_running

DeviceExit ==
  /\ dpc = "loop"
  /\ SeesShutdown
  /\ dpc' = "done"
  /\ UNCHANGED <<hostVars, local_sq_head, local_cq_tail, current_sq_tail,
                 devSees, cq_tail, cq_payloads, cqStores, is_running>>

(* shutdown(), called by another thread at any time.                       *)
Shutdown ==
  /\ is_running
  /\ is_running' = FALSE
  /\ UNCHANGED <<hostVars, devVars, cqStores>>

-----------------------------------------------------------------------------
Next ==
  \/ \E poll \in BOOLEAN, c \in DOMAIN cqStores : SubmitCheck(poll, c)
  \/ FillSlot
  \/ PublishSq
  \/ \E c \in DOMAIN cqStores : PollCq(c)
  \/ Reap
  \/ \E v \in DOMAIN sqStores : LoadSqTail(v)
  \/ ServeEntry
  \/ PublishCq
  \/ DeviceExit
  \/ Shutdown

Spec == Init /\ [][Next]_vars

(* Both threads are scheduled, and a store becomes visible to a thread     *)
(* that keeps loading in finite time (C++17 [intro.progress], 18): the     *)
(* loads of the newest value are the fair ones.  No caller has to submit,  *)
(* and nobody has to call shutdown.                                        *)
Fairness ==
  /\ WF_vars(FillSlot)
  /\ WF_vars(PublishSq)
  /\ WF_vars(Reap)
  /\ WF_vars(hpc = "retry" /\ SubmitCheck(TRUE, cq_tail))
  /\ WF_vars(PollCq(cq_tail))
  /\ WF_vars(LoadSqTail(sq_tail))
  /\ WF_vars(ServeEntry)
  /\ WF_vars(PublishCq)
  /\ SF_vars(DeviceExit)

FairSpec == Spec /\ Fairness

-----------------------------------------------------------------------------
(* Properties.                                                             *)

(* Every variable stays in its domain.                                     *)
TypeOK ==
  /\ sq_tail \in Nat
  /\ cq_tail \in Nat
  /\ sq_payloads \in [Ring -> Nat \cup {NoEntry}]
  /\ cq_payloads \in [Ring -> [entry : Nat \cup {NoEntry},
                               sq_head_pointer : 0 .. (PtrModulus - 1)]]
  /\ is_running \in BOOLEAN
  /\ last_latency_ticks \in [submit : Nat \cup {NoEntry},
                             complete : Nat \cup {NoEntry}]
  /\ hpc \in {"idle", "retry", "fill", "publish", "poll", "reap"}
  /\ polling \in BOOLEAN
  /\ hostDid \in [wrote : Nat, reaped : Nat]
  /\ hostSees \in Nat
  /\ dpc \in {"loop", "batch", "done"}
  /\ local_sq_head \in Nat
  /\ local_cq_tail \in Nat
  /\ current_sq_tail \in Nat
  /\ devSees \in [wrote : Nat, reaped : Nat]
  /\ sqStores \in [current_sq_tail .. sq_tail -> [wrote : Nat, reaped : Nat]]
  /\ cqStores \in [DOMAIN cqStores -> Nat]
  /\ DOMAIN cqStores \subseteq Nat

Serving == dpc = "batch" /\ local_sq_head # current_sq_tail

(* A submission slot is never accessed by both threads without a           *)
(* happens-before edge: when the host is about to overwrite a slot it sees *)
(* every visit the device made to it, and when the device is about to      *)
(* visit a slot it sees every write the host made to it, including the     *)
(* writes of entries that are not published yet.  This is what the acquire *)
(* load of cq_tail in submit_io and the release store of sq_tail are for.  *)
SqSlotRaceFree ==
  /\ hpc = "fill" =>
       \A j \in 0 .. (local_sq_head - 1) :
         Slot(j) = Slot(sq_tail) => j < hostSees
  /\ Serving =>
       \A j \in 0 .. (hostDid.wrote - 1) :
         Slot(j) = Slot(local_sq_head) => j < devSees.wrote

(* The same for completion slots: when the device is about to write one it *)
(* sees every read the host made of it in host_submit_and_poll, and when   *)
(* the host is about to read one it sees every write of the device.  The   *)
(* host publishes its reads only with its next submission.                 *)
CqSlotRaceFree ==
  /\ Serving =>
       \A j \in 0 .. (hostDid.reaped - 1) :
         Slot(j) = Slot(local_cq_tail) => j < devSees.reaped
  /\ hpc = "reap" =>
       \A j \in 0 .. (local_cq_tail - 1) :
         Slot(j) = Slot(ReapIndex) => j < hostSees

(* The device serves the I/Os in order and each from its own entry: the    *)
(* slot it is about to visit holds exactly the I/O of that number, neither *)
(* an older one nor one that overwrote it.                                 *)
ServesOwnEntry ==
  Serving => sq_payloads[Slot(local_sq_head)] = local_sq_head

(* The real number of I/Os in flight never exceeds the ring, although the  *)
(* host decides on a value of cq_tail that may be stale.                   *)
InFlightBounded ==
  /\ cq_tail <= sq_tail
  /\ hostDid.wrote - cq_tail <= QUEUE_SIZE

(* After every return of host_submit_and_poll the exported latency is the  *)
(* difference between the completion and the submission time of the I/O of *)
(* that very call, never of another I/O that shares the slot.              *)
LatencyOfOneIo ==
  last_latency_ticks = [submit |-> hostDid.reaped - 1,
                        complete |-> hostDid.reaped - 1]

(* The 16-bit sq_head_pointer of the completion being reaped names one     *)
(* number of consumed entries among all those possible at that moment.     *)
HeadPointerUnambiguous ==
  hpc = "reap" =>
    \A k \in (sq_tail - QUEUE_SIZE) .. sq_tail :
      (k >= 0 /\ k % PtrModulus = cq_payloads[Slot(ReapIndex)].sq_head_pointer)
        => k = sq_tail

(* An SqCqEmulator is a queue pair: bounded, in order, exactly once, and a *)
(* blocking call returns only when its own I/O is complete.                *)
QP == INSTANCE QueuePair WITH
        Capacity <- QUEUE_SIZE,
        submitted <- sq_tail,
        completed <- cq_tail,
        waiting <- hpc \in {"poll", "reap"},
        returned <- hostDid.reaped,
        running <- is_running

ImplementsQueuePair == QP!Spec

(* Every host_submit_and_poll returns, retries on a full ring included,    *)
(* unless the emulator was shut down under it.                             *)
PollReturns ==
  (polling /\ hpc # "idle") ~> (hpc = "idle" \/ ~is_running)

(* After shutdown the device loop ends, so that the join that follows in   *)
(* main.cpp and in EmulatorPool::shutdown_all returns.                     *)
DeviceStops == ~is_running ~> dpc = "done"
=============================================================================
