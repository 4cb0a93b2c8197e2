----------------------------- MODULE QueuePair ------------------------------
(***************************************************************************)
(* What an SqCqEmulator promises to the thread that owns it, without the   *)
(* rings, the threads and the memory ordering.  I/Os are numbered from 1   *)
(* in the order of submission, so three counters say everything: how many  *)
(* were submitted, how many are complete (always a prefix, published in    *)
(* batches), and up to which one a blocking call has returned.             *)
(***************************************************************************)
EXTENDS Integers

CONSTANT Capacity  (* I/Os that may be in flight: QUEUE_SIZE               *)

VARIABLES
  submitted,   (* number of I/Os accepted by submit_io                     *)
  completed,   (* number of I/Os whose completion is published             *)
  waiting,     (* is a host_submit_and_poll call waiting for its I/O?      *)
  returned,    (* the last I/O for which host_submit_and_poll returned     *)
  running      (* shutdown() has not been called                           *)

vars == <<submitted, completed, waiting, returned, running>>

Init ==
  /\ submitted = 0
  /\ completed = 0
  /\ waiting = FALSE
  /\ returned = 0
  /\ running = TRUE

(* An I/O is accepted only while fewer than Capacity are in flight; wait   *)
(* tells host_submit_and_poll from a bare submit_io.                       *)
Submit(wait) ==
  /\ ~waiting
  /\ submitted - completed < Capacity
  /\ submitted' = submitted + 1
  /\ waiting' = wait
  /\ UNCHANGED <<completed, returned, running>>

(* The device publishes the completion of one or more of the oldest I/Os,  *)
(* never of one that was not submitted.                                    *)
Complete ==
  /\ \E k \in (completed + 1) .. submitted : completed' = k
  /\ UNCHANGED <<submitted, waiting, returned, running>>

(* The blocking call returns once the I/O it submitted is complete.        *)
Return ==
  /\ waiting
  /\ completed = submitted
  /\ waiting' = FALSE
  /\ returned' = submitted
  /\ UNCHANGED <<submitted, completed, running>>

Stop ==
  /\ running
  /\ running' = FALSE
  /\ UNCHANGED <<submitted, completed, waiting, returned>>

Next ==
  \/ \E wait \in BOOLEAN : Submit(wait)
  \/ Complete
  \/ Return
  \/ Stop

Spec == Init /\ [][Next]_vars

=============================================================================
