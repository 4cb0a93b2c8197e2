----------------------------- MODULE Dispenser ------------------------------
(***************************************************************************)
(* What a thread may expect of a pool of queues that never gives the same  *)
(* one twice.  It asks when it first needs a queue: it is given one that   *)
(* nobody else has, to keep for ever, or is refused because none is left,  *)
(* and may ask again.  It works with one queue, the one it was given.      *)
(***************************************************************************)
EXTENDS Integers

CONSTANTS
  Threads,
  Queues,
  Size,        (* the number of queues                                     *)
  None         (* no queue                                                 *)

VARIABLES
  given,       (* per thread: its queue, or None                           *)
  using,       (* per thread: the queue its present call is with, or None  *)
  refused,     (* the threads that are being refused                       *)
  left         (* the number of queues not given                           *)

Init ==
  /\ given = [t \in Threads |-> None]
  /\ using = [t \in Threads |-> None]
  /\ refused = {}
  /\ left = Size

Give(t, q) ==
  /\ given[t] = None /\ t \notin refused
  /\ \A u \in Threads : given[u] # q
  /\ given' = [given EXCEPT ![t] = q]
  /\ left' = left - 1
  /\ UNCHANGED <<using, refused>>

Refuse(t) ==
  /\ given[t] = None /\ t \notin refused
  /\ left = 0
  /\ refused' = refused \cup {t}
  /\ UNCHANGED <<given, using, left>>

AcceptRefusal(t) ==
  /\ t \in refused
  /\ refused' = refused \ {t}
  /\ UNCHANGED <<given, using, left>>

Use(t) ==
  /\ given[t] # None /\ using[t] = None
  /\ using' = [using EXCEPT ![t] = given[t]]
  /\ UNCHANGED <<given, refused, left>>

Done(t) ==
  /\ using[t] # None
  /\ using' = [using EXCEPT ![t] = None]
  /\ UNCHANGED <<given, refused, left>>

Next ==
  \E t \in Threads :
    \/ \E q \in Queues : Give(t, q)
    \/ Refuse(t)
    \/ AcceptRefusal(t)
    \/ Use(t)
    \/ Done(t)

Spec == Init /\ [][Next]_<<given, using, refused, left>>
=============================================================================
