------------------------------ MODULE Preload ------------------------------
(***************************************************************************)
(* Processes that run with the interception library (LD_PRELOAD, as        *)
(* arm_neoverse_worker.sh runs fio): its constructor and destructor, the   *)
(* telemetry block it maps and writes (src/intercept.cpp, section T),      *)
(* and what becomes of both in an application that forks.                  *)
(*                                                                         *)
(* A fork copies the memory of a process and one thread of it: the child   *)
(* has the handles and emulators of the parent, and none of its device     *)
(* threads.  The telemetry mapping is shared by parent, child, and every   *)
(* other process of the library, because its file has a fixed name.        *)
(*                                                                         *)
(* EmulatorPool has an allocation in detail; here it is one step that      *)
(* succeeds.  The destructor runs between calls.                           *)
(***************************************************************************)
EXTENDS Integers, FiniteSets

CONSTANTS
  Threads, Procs,
  MaxExecs   (* bound of the model: a program starts among fewer processes *)

ASSUME PreloadAssumption ==
  /\ IsFiniteSet(Threads) /\ IsFiniteSet(Procs)
  /\ MaxExecs \in Nat

None == "none"
ASSUME NoneIsNoProcess == None \notin Procs

VARIABLES
  proc,       (* per thread: its process                                   *)
  pc,         (* per thread                                                *)
  emulator,   (* per thread: the process that has the device thread of its *)
              (* tl_emulator, None if that is nullptr                      *)
  life,       (* per process                                               *)
  program,    (* per process: the process it was forked from first, itself *)
              (* if it was started by exec                                 *)
  mapped,     (* per process: g_telemetry is not null                      *)
  copied,     (* per process: has it handles of its parent's threads?      *)
  file        (* the telemetry file: its size, engine_alive, and the       *)
              (* process that truncated, made or finished it last          *)

procVars == <<life, program, mapped, copied>>
vars == <<proc, pc, emulator, procVars, file>>

Init ==
  /\ proc = [t \in Threads |-> None]
  /\ pc = [t \in Threads |-> None]
  /\ emulator = [t \in Threads |-> None]
  /\ life = [p \in Procs |-> None]
  /\ program = [p \in Procs |-> None]
  /\ mapped = [p \in Procs |-> FALSE]
  /\ copied = [p \in Procs |-> FALSE]
  /\ file = [size |-> "none", alive |-> FALSE, by |-> None]

Of(p) == {t \in Threads : proc[t] = p}
Runs(t) == pc[t] # None /\ life[proc[t]] = "run"

-----------------------------------------------------------------------------
(* A program is started: its main thread begins with dp_lib_init.          *)
Exec(t, p) ==
  /\ pc[t] = None /\ life[p] = None
  /\ Cardinality({q \in Procs : life[q] # None}) < MaxExecs
  /\ proc' = [proc EXCEPT ![t] = p]
  /\ pc' = [pc EXCEPT ![t] = "idle"]
  /\ life' = [life EXCEPT ![p] = "constructor"]
  /\ program' = [program EXCEPT ![p] = p]
  /\ UNCHANGED <<emulator, mapped, copied, file>>

Live(p, from, to) ==
  /\ life[p] = from
  /\ life' = [life EXCEPT ![p] = to]
  /\ UNCHANGED <<proc, pc, emulator, program, copied>>

(* dp_init_telemetry: O_TRUNC, ...                                         *)
Truncate(p) ==
  /\ Live(p, "constructor", "truncated")
  /\ file' = [size |-> "empty", alive |-> FALSE, by |-> p]
  /\ UNCHANGED mapped

(* ... the size, zeros if it was empty, ...                                *)
Size(p) ==
  /\ Live(p, "truncated", "sized")
  /\ file' = IF file.size = "full" THEN file ELSE [size |-> "full", alive |-> FALSE, by |-> p]
  /\ UNCHANGED mapped

(* ... the mapping, and in it a new block with engine_alive = 1.           *)
MapTelemetry(p) ==
  /\ Live(p, "sized", "run")
  /\ file.size = "full"
  /\ file' = [size |-> "full", alive |-> TRUE, by |-> p]
  /\ mapped' = [mapped EXCEPT ![p] = TRUE]

(* A store into the mapping of a file that another program has truncated   *)
(* meanwhile ends the process (SIGBUS).                                    *)
InitFaults(p) ==
  /\ Live(p, "sized", "killed")
  /\ file.size = "empty"
  /\ UNCHANGED <<mapped, file>>

(* open, ftruncate or mmap fails.                                          *)
NoTelemetry(p) ==
  /\ life[p] \in {"constructor", "truncated", "sized"}
  /\ Live(p, life[p], "run")
  /\ UNCHANGED <<mapped, file>>

-----------------------------------------------------------------------------
(* fio --thread.                                                           *)
PthreadCreate(t, u) ==
  /\ Runs(t) /\ pc[t] = "idle" /\ pc[u] = None
  /\ proc' = [proc EXCEPT ![u] = proc[t]]
  /\ pc' = [pc EXCEPT ![u] = "idle"]
  /\ UNCHANGED <<emulator, procVars, file>>

(* fio without --thread.  The library has no handler for a fork: the child *)
(* goes on where the parent is, and does not go through the constructor.   *)
ForkedLifeInit == "constructor"
ForkedLife == "run"

Fork(t, u, p) ==
  /\ Runs(t) /\ pc[t] = "idle" /\ pc[u] = None /\ life[p] = None
  /\ proc' = [proc EXCEPT ![u] = p]
  /\ pc' = [pc EXCEPT ![u] = "idle"]
  /\ emulator' = [emulator EXCEPT ![u] = emulator[t]]
  /\ life' = [life EXCEPT ![p] = ForkedLife]
  /\ program' = [program EXCEPT ![p] = program[proc[t]]]
  /\ mapped' = [mapped EXCEPT ![p] = mapped[proc[t]]]
  /\ copied' = [copied EXCEPT ![p] =
                  copied[proc[t]] \/ \E v \in Of(proc[t]) : emulator[v] # None]
  /\ UNCHANGED file

(* dp_submit_sqcq: an emulator with a new device thread, if there is none  *)
(* yet; the submission; and the wait for its completion, which comes from  *)
(* a device thread in the same memory or not at all.                       *)
Submit(t) ==
  /\ Runs(t) /\ pc[t] = "idle"
  /\ emulator' = [emulator EXCEPT ![t] = IF @ = None THEN proc[t] ELSE @]
  /\ pc' = [pc EXCEPT ![t] = "polling"]
  /\ UNCHANGED <<proc, procVars, file>>

Completion(t) ==
  /\ Runs(t) /\ pc[t] = "polling" /\ emulator[t] = proc[t]
  /\ pc' = [pc EXCEPT ![t] = IF mapped[proc[t]] THEN "count" ELSE "idle"]
  /\ UNCHANGED <<proc, emulator, procVars, file>>

(* The stores into the block.                                              *)
Count(t) ==
  /\ Runs(t) /\ pc[t] = "count" /\ file.size = "full"
  /\ pc' = [pc EXCEPT ![t] = "idle"]
  /\ UNCHANGED <<proc, emulator, procVars, file>>

Faults(t) ==
  /\ pc[t] = "count" /\ file.size = "empty"
  /\ Live(proc[t], "run", "killed")
  /\ UNCHANGED <<mapped, file>>

-----------------------------------------------------------------------------
(* The process exits between calls; a child may also leave with _exit, and *)
(* run no destructor.                                                      *)
Exit(p) ==
  /\ \A t \in Of(p) : pc[t] = "idle"
  /\ \E way \in {"destructor", "left"} : Live(p, "run", way)
  /\ UNCHANGED <<mapped, file>>

(* dp_fini: shutdown_all joins, and so may wait for ever for the threads   *)
(* of the parent; ...                                                      *)
JoinsForever(p) ==
  /\ Live(p, "destructor", "hung")
  /\ copied[p]
  /\ UNCHANGED <<mapped, file>>

(* ... then dp_fini_telemetry: engine_alive = 0 in the block that is of    *)
(* every process.                                                          *)
FiniTelemetry(p) ==
  /\ Live(p, "destructor", "ended")
  /\ mapped[p] => file.size = "full"
  /\ file' = IF mapped[p] THEN [file EXCEPT !.alive = FALSE, !.by = p] ELSE file
  /\ mapped' = [mapped EXCEPT ![p] = FALSE]

FiniFaults(p) ==
  /\ Live(p, "destructor", "killed")
  /\ mapped[p] /\ file.size = "empty"
  /\ UNCHANGED <<mapped, file>>

Next ==
  \/ \E p \in Procs :
       \/ Truncate(p) \/ Size(p) \/ MapTelemetry(p) \/ InitFaults(p) \/ NoTelemetry(p)
       \/ Exit(p) \/ JoinsForever(p) \/ FiniTelemetry(p) \/ FiniFaults(p)
  \/ \E t \in Threads :
       \/ Submit(t) \/ Completion(t) \/ Count(t) \/ Faults(t)
       \/ \E p \in Procs : Exec(t, p)
       \/ \E u \in Threads : PthreadCreate(t, u)
       \/ \E u \in Threads, p \in Procs : Fork(t, u, p)

Spec == Init /\ [][Next]_vars

(* Device threads complete what is submitted (SqCq!PollReturns), and       *)
(* threads inside a call are scheduled.  Nobody has to call or to exit.    *)
Fairness ==
  \A t \in Threads : WF_vars(Completion(t) \/ Count(t) \/ Faults(t))

FairSpec == Spec /\ Fairness

-----------------------------------------------------------------------------
(* Properties.                                                             *)

(* The telemetry of a running process is there, and says engine_alive,     *)
(* until another program starts or ends, or one of its own (the parent, a  *)
(* child) has come to the end of its destructor: nothing else that threads *)
(* and forks of a program do makes the block anew or cuts it short.  And a *)
(* process is only killed by a store into it if another program has been   *)
(* started.                                                                *)
DisturbedByOthers ==
  \A p \in Procs :
    /\ (life[p] = "run" /\ mapped[p] /\ ~(file.size = "full" /\ file.alive)) =>
         /\ file.by # p
         /\ life[file.by] = "ended" \/ program[file.by] # program[p]
    /\ life[p] = "killed" => \E q \in Procs : program[q] \notin {None, program[p]}

(* dp_submit_sqcq returns to the application, in a forked child too as     *)
(* long as the process with the device thread is there: each I/O of the    *)
(* child is said to take ~300 ms, since the device thread of the parent    *)
(* completes it (RETROSPECTIVE_AND_RUNBOOK.md:150).  A process that is     *)
(* killed, or exits meanwhile, is excused.                                 *)
CallsReturn ==
  \A t \in Threads :
    pc[t] = "polling" ~>
      pc[t] # "polling" \/ ~Runs(t) \/ life[emulator[t]] # "run"
=============================================================================
