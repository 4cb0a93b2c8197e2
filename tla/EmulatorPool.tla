---------------------------- MODULE EmulatorPool ----------------------------
(***************************************************************************)
(* The pool that gives every application thread its own SqCqEmulator and   *)
(* device thread (src/intercept.cpp, section 5), and its shutdown from the *)
(* library destructor.  The shared counter is atomic; an allocation is the *)
(* fetch_add, then the start of the device thread, then the assignment of  *)
(* its std::thread handle, each a step others can interleave with.         *)
(* What a started emulator does with an I/O is the business of SqCq: here  *)
(* an I/O finishes as long as its device loop has not ended, and a device  *)
(* loop ends after the shutdown of its emulator (SqCq!DeviceStops).        *)
(***************************************************************************)
EXTENDS Integers, FiniteSets

CONSTANTS
  Threads,         (* application threads over the life of the process     *)
  MAX_EMULATORS,   (* 128 in the code                                      *)
  Quiescent        (* does the destructor run only between calls?          *)

ASSUME PoolAssumption ==
  /\ IsFiniteSet(Threads)
  /\ MAX_EMULATORS \in Nat \ {0}
  /\ Quiescent \in BOOLEAN

Pool == 0 .. (MAX_EMULATORS - 1)
NoEmulator == -1

VARIABLES
  count,         (* EmulatorPool::count                                    *)
  stopped,       (* per emulator: is_running is false                      *)
  device,        (* per emulator: its device thread                        *)
  joinable,      (* per emulator: device_threads[i] holds that thread      *)
  pc,            (* per application thread                                 *)
  idx,           (* per application thread: what fetch_add gave it         *)
  tl_emulator,   (* per application thread                                 *)
  fini, n, i     (* shutdown_all: control, its bound and its loop variable *)

appVars == <<pc, idx, tl_emulator>>
finiVars == <<fini, n, i>>
vars == <<count, stopped, device, joinable, appVars, finiVars>>

Init ==
  /\ count = 0
  /\ stopped = [e \in Pool |-> FALSE]
  /\ device = [e \in Pool |-> "none"]
  /\ joinable = [e \in Pool |-> FALSE]
  /\ pc = [t \in Threads |-> "idle"]
  /\ idx = [t \in Threads |-> NoEmulator]
  /\ tl_emulator = [t \in Threads |-> NoEmulator]
  /\ fini = "loaded"
  /\ n = 0
  /\ i = 0

-----------------------------------------------------------------------------
(* Application threads.                                                    *)

(* dp_submit_sqcq asks dp_get_thread_emulator; a thread that has none      *)
(* allocates: count.fetch_add(1).                                          *)
Claimed == count + 1

ClaimIndex(t) ==
  /\ pc[t] = "idle"
  /\ tl_emulator[t] = NoEmulator
  /\ ~Quiescent \/ fini = "loaded"
  /\ idx' = [idx EXCEPT ![t] = count]
  /\ count' = Claimed
  /\ pc' = [pc EXCEPT ![t] = "claimed"]
  /\ UNCHANGED <<stopped, device, joinable, tl_emulator, finiVars>>

(* Beyond the pool: fetch_sub, nullptr, and the caller gets EAGAIN.        *)
Exceeds(k) == k >= MAX_EMULATORS

GiveBackNone == count
GiveBack == count - 1

ReturnIndex(t) ==
  /\ pc[t] = "claimed"
  /\ Exceeds(idx[t])
  /\ count' = GiveBack
  /\ pc' = [pc EXCEPT ![t] = "eagain"]
  /\ UNCHANGED <<stopped, device, joinable, idx, tl_emulator, finiVars>>

CallFails(t) ==
  /\ pc[t] = "eagain"
  /\ pc' = [pc EXCEPT ![t] = "idle"]
  /\ idx' = [idx EXCEPT ![t] = NoEmulator]
  /\ UNCHANGED <<count, stopped, device, joinable, tl_emulator, finiVars>>

(* The std::thread constructor starts the device loop ...                  *)
StartDevice(t) ==
  /\ pc[t] = "claimed"
  /\ ~Exceeds(idx[t])
  /\ device' = [device EXCEPT ![idx[t]] = "loop"]
  /\ pc' = [pc EXCEPT ![t] = "started"]
  /\ UNCHANGED <<count, stopped, joinable, idx, tl_emulator, finiVars>>

(* ... and the handle is moved into device_threads; allocate returns.      *)
StoreHandle(t) ==
  /\ pc[t] = "started"
  /\ joinable' = [joinable EXCEPT ![idx[t]] = TRUE]
  /\ tl_emulator' = [tl_emulator EXCEPT ![t] = idx[t]]
  /\ pc' = [pc EXCEPT ![t] = "polling"]
  /\ UNCHANGED <<count, stopped, device, idx, finiVars>>

(* A later call finds its emulator in the thread-local.                    *)
SubmitAgain(t) ==
  /\ pc[t] = "idle"
  /\ tl_emulator[t] # NoEmulator
  /\ ~Quiescent \/ fini = "loaded"
  /\ pc' = [pc EXCEPT ![t] = "polling"]
  /\ UNCHANGED <<count, stopped, device, joinable, idx, tl_emulator, finiVars>>

(* host_submit_and_poll returns: some device loop completed the I/O.       *)
IoReturns(t) ==
  /\ pc[t] = "polling"
  /\ device[tl_emulator[t]] = "loop"
  /\ pc' = [pc EXCEPT ![t] = "idle"]
  /\ UNCHANGED <<count, stopped, device, joinable, idx, tl_emulator, finiVars>>

(* An application thread ends; its emulator stays claimed.                 *)
ThreadExits(t) ==
  /\ pc[t] = "idle"
  /\ pc' = [pc EXCEPT ![t] = "exited"]
  /\ UNCHANGED <<count, stopped, device, joinable, idx, tl_emulator, finiVars>>

(* A device loop reads the shutdown.                                       *)
DeviceEnds(e) ==
  /\ device[e] = "loop"
  /\ stopped[e]
  /\ device' = [device EXCEPT ![e] = "ended"]
  /\ UNCHANGED <<count, stopped, joinable, appVars, finiVars>>

-----------------------------------------------------------------------------
(* shutdown_all, called once by dp_fini.                                   *)
LoadCount ==
  /\ fini = "loaded"
  /\ Quiescent => \A t \in Threads : pc[t] \in {"idle", "exited"}
  /\ n' = count
  /\ i' = 0
  /\ fini' = "stop"
  /\ UNCHANGED <<count, stopped, device, joinable, appVars>>

(* emulators[i].shutdown() for i < n; beyond the array it is undefined,    *)
(* and the model lets it have no effect.                                   *)
StopBoundShort == n - 1
StopBound == n

StopOne ==
  /\ fini = "stop"
  /\ i < StopBound
  /\ stopped' = [e \in Pool |-> stopped[e] \/ e = i]
  /\ i' = i + 1
  /\ UNCHANGED <<count, device, joinable, appVars, fini, n>>

StopsDone ==
  /\ fini = "stop"
  /\ i >= StopBound
  /\ fini' = "join"
  /\ i' = 0
  /\ UNCHANGED <<count, stopped, device, joinable, appVars, n>>

(* A joinable thread is waited for, another is passed over.                *)
JoinBoundShort == n - 1
JoinBound == n

JoinOne ==
  /\ fini = "join"
  /\ i < JoinBound
  /\ i \in Pool /\ joinable[i] => device[i] = "ended"
  /\ joinable' = [e \in Pool |-> joinable[e] /\ e # i]
  /\ i' = i + 1
  /\ UNCHANGED <<count, stopped, device, appVars, fini, n>>

JoinsDone ==
  /\ fini = "join"
  /\ i >= JoinBound
  /\ fini' = "done"
  /\ UNCHANGED <<count, stopped, device, joinable, appVars, n, i>>

-----------------------------------------------------------------------------
Next ==
  \/ \E t \in Threads :
       \/ ClaimIndex(t)
       \/ ReturnIndex(t)
       \/ CallFails(t)
       \/ StartDevice(t)
       \/ StoreHandle(t)
       \/ SubmitAgain(t)
       \/ IoReturns(t)
       \/ ThreadExits(t)
  \/ \E e \in Pool : DeviceEnds(e)
  \/ LoadCount
  \/ StopOne
  \/ StopsDone
  \/ JoinOne
  \/ JoinsDone

Spec == Init /\ [][Next]_vars

(* Device loops see the shutdown (SqCq!DeviceStops), the thread in the     *)
(* destructor is scheduled, and so are application threads inside a call.  *)
(* Nobody has to call, to exit, or to start the destructor.                *)
Fairness ==
  /\ \A e \in Pool : WF_vars(DeviceEnds(e))
  /\ WF_vars(StopOne \/ StopsDone \/ JoinOne \/ JoinsDone)
  /\ \A t \in Threads :
       WF_vars(ReturnIndex(t) \/ CallFails(t) \/ StartDevice(t)
                 \/ StoreHandle(t) \/ IoReturns(t))

FairSpec == Spec /\ Fairness

-----------------------------------------------------------------------------
(* Properties.                                                             *)

Overdrawn == {t \in Threads : pc[t] = "claimed" /\ Exceeds(idx[t])}

(* The pool as its threads see it: the emulator of each, the one its call  *)
(* is with, who is on the way to an EAGAIN, and what the counter says is   *)
(* left once the overdrafts are returned.                                  *)
Given == [t \in Threads |-> IF idx[t] \in Pool THEN idx[t] ELSE NoEmulator]
Using == [t \in Threads |-> IF pc[t] = "polling" THEN tl_emulator[t] ELSE NoEmulator]
Refused == {t \in Threads : idx[t] \notin Pool \cup {NoEmulator}}
Left == MAX_EMULATORS - (count - Cardinality(Overdrawn))

Queues == INSTANCE Dispenser WITH
  Queues <- Pool,
  Size <- MAX_EMULATORS,
  None <- NoEmulator,
  given <- Given,
  using <- Using,
  refused <- Refused,
  left <- Left

(* The pool implements Dispenser, before and during the destructor.  A     *)
(* thread has one emulator for good, which no other thread is ever given   *)
(* or submits to, so that each has the single producer SqCq relies on.     *)
(* EAGAIN is only for want of emulators: threads that fail at the same     *)
(* time never make the pool look full while one is left, nor free again,   *)
(* so that the counter never makes an emulator twice.                      *)
ImplementsDispenser == Queues!Spec

(* When shutdown_all has returned, no device thread of the pool runs and   *)
(* every one was joined (intercept.hpp:223).                               *)
ShutdownJoinsAll ==
  fini = "done" =>
    \A e \in Pool : device[e] # "loop" /\ ~joinable[e]

(* The destructor returns: every join ends.                                *)
ShutdownReturns == fini = "stop" ~> fini = "done"
=============================================================================
