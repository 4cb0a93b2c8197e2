------------------------------- MODULE Engine -------------------------------
(***************************************************************************)
(* The engine process (src/main.cpp) and the control plane that runs it:   *)
(* EngineManager (vibe_demo_agent/engine_manager.py), which starts it,     *)
(* waits for a health marker and stops it, TelemetrySink                   *)
(* (telemetry_sink.py), which reads the shared telemetry file, and the     *)
(* script interpreter (vibe_demo_agent.py) that calls them one after the   *)
(* other.  Engine, drain thread and interpreter run concurrently.          *)
(*                                                                         *)
(* Engines are numbered from 1; the telemetry file survives them.  The two *)
(* pipes of an engine and their drain threads are taken as one: what       *)
(* matters is the marker lines, whichever pipe they come from.             *)
(***************************************************************************)
EXTENDS Integers

CONSTANTS
  Modes,      (* command lines: sets of "spdk", "bypass", "benchmark"      *)
  IO_COUNT,   (* I/Os of the benchmark, 1000000 in the code                *)
  MaxStarts   (* bound of the model on the number of engines               *)

ASSUME EngineAssumption ==
  /\ Modes \subseteq SUBSET {"spdk", "bypass", "benchmark"}
  /\ IO_COUNT \in Nat
  /\ MaxStarts \in Nat

Engines == 1 .. MaxStarts
None == 0

VARIABLES
  epoch,        (* the engine started last, None before the first          *)
  flags,        (* its command line                                        *)
  phase,        (* where its main thread is                                *)
  is_running, device,   (* its SqCqEmulator and device thread              *)
  sigint,       (* a SIGINT is pending                                     *)
  telem,        (* it has mapped the telemetry block                       *)
  mounted,      (* its FUSE mount exists                                   *)
  file,         (* the telemetry file                                      *)
  pipe,         (* per engine: marker lines written and not yet read       *)
  drain,        (* per engine: its drain thread                            *)
  _proc,        (* EngineManager: the engine it has a handle of            *)
  healthy, stop_flag,   (* EngineManager: the two events                   *)
  agent,        (* where the interpreter is                                *)
  ctrl_c,       (* where the last Ctrl-C met it: "no", "try", "Popen", or  *)
                (* "end", outside the try (history)                        *)
  trusted,      (* wait_healthy succeeded for the engine of _proc          *)
  snap          (* the last snapshot                                       *)

engineVars == <<epoch, flags, phase, is_running, device, telem, mounted, file>>
managerVars == <<_proc, healthy, stop_flag, agent, ctrl_c, trusted, snap>>
vars == <<engineVars, sigint, pipe, drain, managerVars>>

Alive == phase \notin {"none", "exited", "killed"}
NoSnap == [epoch |-> None, reads |-> 0]

Init ==
  /\ epoch = None
  /\ flags = {}
  /\ phase = "none"
  /\ is_running = FALSE
  /\ device = "none"
  /\ sigint = FALSE
  /\ telem = FALSE
  /\ mounted = FALSE
  /\ file = [size |-> "none", epoch |-> None, alive |-> FALSE, reads |-> 0]
  /\ pipe = [e \in Engines |-> 0]
  /\ drain = [e \in Engines |-> "none"]
  /\ _proc = None
  /\ healthy = FALSE
  /\ stop_flag = FALSE
  /\ agent = "idle"
  /\ ctrl_c = "no"
  /\ trusted = FALSE
  /\ snap = NoSnap

-----------------------------------------------------------------------------
(* The engine.  A step of its main thread leaves the control plane alone;  *)
(* a pending SIGINT may be taken before or after any of them.              *)
Main(from, to) ==
  /\ phase = from
  /\ phase' = to
  /\ UNCHANGED <<epoch, flags, sigint, drain, managerVars>>

Emit == pipe' = [pipe EXCEPT ![epoch] = @ + 1]

(* -s: detect and init_spdk, or an error and return 1.  The marker comes   *)
(* before the telemetry block.                                             *)
SpdkReady ==
  /\ "spdk" \in flags
  /\ Main("boot", "init")
  /\ Emit
  /\ UNCHANGED <<is_running, device, telem, mounted, file>>

SpdkFails ==
  /\ "spdk" \in flags
  /\ Main("boot", "exited")
  /\ UNCHANGED <<is_running, device, telem, mounted, file, pipe>>

NoSpdk ==
  /\ "spdk" \notin flags
  /\ Main("boot", "init")
  /\ UNCHANGED <<is_running, device, telem, mounted, file, pipe>>

(* The telemetry file is opened with O_TRUNC, or cannot be opened.         *)
TruncateTelemetry ==
  /\ Main("init", "truncated")
  /\ file' = [size |-> "empty", epoch |-> None, alive |-> FALSE, reads |-> 0]
  /\ UNCHANGED <<is_running, device, telem, mounted, pipe>>

NoTelemetry ==
  /\ Main("init", "telemetry done")
  /\ UNCHANGED <<is_running, device, telem, mounted, file, pipe>>

(* It is sized and mapped, and a new block is put into it with             *)
(* engine_alive = 1.                                                       *)
MapTelemetry ==
  /\ Main("truncated", "telemetry done")
  /\ telem' = TRUE
  /\ file' = [size |-> "full", epoch |-> epoch, alive |-> TRUE, reads |-> 0]
  /\ UNCHANGED <<is_running, device, mounted, pipe>>

StartDevice ==
  /\ Main("telemetry done", IF "benchmark" \in flags THEN "benchmark" ELSE "run")
  /\ device' = "loop"
  /\ UNCHANGED <<is_running, telem, mounted, file, pipe>>

(* One I/O of the benchmark and the update of the block.  Without a block  *)
(* the model does not count the I/Os.                                      *)
MoreIos == file.reads < IO_COUNT

BenchmarkIo ==
  /\ telem /\ MoreIos
  /\ device = "loop"
  /\ Main("benchmark", "benchmark")
  /\ file' = [file EXCEPT !.reads = @ + 1]
  /\ UNCHANGED <<is_running, device, telem, mounted, pipe>>

MarkerEarly == TRUE
MarkerAfterBenchmark == telem => ~MoreIos

BenchmarkDone ==
  /\ MarkerAfterBenchmark
  /\ Main("benchmark", "run")
  /\ UNCHANGED <<is_running, device, telem, mounted, file, pipe>>

(* Without -k: the marker, then pause() for ever.                          *)
WaitForSignal ==
  /\ "bypass" \notin flags
  /\ Main("run", "pause")
  /\ Emit
  /\ UNCHANGED <<is_running, device, telem, mounted, file>>

(* With -k: a marker, then the block device, which may fail to open, and   *)
(* another marker.                                                         *)
StartBypass ==
  /\ "bypass" \in flags
  /\ Main("run", "open device")
  /\ Emit
  /\ UNCHANGED <<is_running, device, telem, mounted, file>>

OpenDevice ==
  /\ Main("open device", "fuse")
  /\ Emit
  /\ UNCHANGED <<is_running, device, telem, mounted, file>>

ShutDown == FALSE

OpenDeviceFails ==
  /\ Main("open device", "join")
  /\ is_running' = ShutDown
  /\ UNCHANGED <<device, telem, mounted, file, pipe>>

(* fuse_main mounts and serves, until it is unmounted from outside, or     *)
(* cannot mount.                                                           *)
Mount ==
  /\ ~mounted
  /\ Main("fuse", "fuse")
  /\ mounted' = TRUE
  /\ UNCHANGED <<is_running, device, telem, file, pipe>>

FuseReturns ==
  /\ Main("fuse", "join")
  /\ mounted' = FALSE
  /\ is_running' = ShutDown
  /\ UNCHANGED <<device, telem, file, pipe>>

(* device_thread.join() and the return from main.                          *)
JoinDevice ==
  /\ device = "ended"
  /\ Main("join", "exited")
  /\ UNCHANGED <<is_running, device, telem, mounted, file, pipe>>

DeviceEnds ==
  /\ Alive
  /\ device = "loop"
  /\ ~is_running
  /\ device' = "ended"
  /\ UNCHANGED <<epoch, flags, phase, is_running, telem, mounted, file, sigint,
                 pipe, drain, managerVars>>

(* SIGINT: before the handler is installed it ends the process; the        *)
(* handler forks fusermount3 -u and waits for it.  The kernel may deliver  *)
(* it to any thread; the main thread does no more in either case.          *)
TakeSignal ==
  /\ sigint
  /\ Alive /\ phase # "handler"
  /\ phase' \in {"handler"} \cup (IF phase = "boot" THEN {"exited"} ELSE {})
  /\ sigint' = FALSE
  /\ UNCHANGED <<epoch, flags, is_running, device, telem, mounted, file, pipe,
                 drain, managerVars>>

(* fusermount3 has ended, with or without success, and the handler calls   *)
(* _exit: no destructor, no write to the telemetry block.                  *)
HandlerExits ==
  /\ Main("handler", "exited")
  /\ mounted' \in {FALSE, mounted}
  /\ UNCHANGED <<is_running, device, telem, file, pipe>>

-----------------------------------------------------------------------------
(* EngineManager._drain_pipe, a thread per engine.                         *)
Drain(e, from, to) ==
  /\ drain[e] = from
  /\ drain' = [drain EXCEPT ![e] = to]
  /\ UNCHANGED <<engineVars, sigint, _proc, stop_flag, agent, ctrl_c, trusted, snap>>

DrainCheck(e) ==
  /\ Drain(e, "check", IF stop_flag \/ _proc = None THEN "ended" ELSE "read")
  /\ UNCHANGED <<pipe, healthy>>

DrainMarker(e) ==
  /\ pipe[e] > 0
  /\ Drain(e, "read", "check")
  /\ pipe' = [pipe EXCEPT ![e] = @ - 1]
  /\ healthy' = TRUE

DrainEof(e) ==
  /\ pipe[e] = 0
  /\ e # epoch \/ ~Alive
  /\ Drain(e, "read", "ended")
  /\ UNCHANGED <<pipe, healthy>>

-----------------------------------------------------------------------------
(* The interpreter and the calls it makes.                                 *)
Agent(from, to) ==
  /\ agent = from
  /\ agent' = to
  /\ UNCHANGED ctrl_c

(* # ENGINE_START: start, then wait_healthy.  A second start without a     *)
(* stop raises.  Popen forks the engine, in a session of its own, ...      *)
EngineStart(mode) ==
  /\ Agent("idle", "Popen")
  /\ _proc = None
  /\ epoch < MaxStarts
  /\ epoch' = epoch + 1
  /\ flags' = mode
  /\ phase' = "boot"
  /\ is_running' = TRUE
  /\ device' = "none"
  /\ telem' = FALSE
  /\ mounted' = FALSE
  /\ sigint' = FALSE
  /\ trusted' = FALSE
  /\ snap' = NoSnap
  /\ UNCHANGED <<file, pipe, drain, _proc, healthy, stop_flag>>

(* ... returns its handle, ...                                             *)
PopenReturns ==
  /\ Agent("Popen", "starting")
  /\ _proc' = epoch
  /\ UNCHANGED <<engineVars, sigint, pipe, drain, healthy, stop_flag, trusted, snap>>

(* ... and the events are cleared before the drain threads start.          *)
StartDrains ==
  /\ Agent("starting", "wait_healthy")
  /\ stop_flag' = FALSE
  /\ healthy' = FALSE
  /\ drain' = [drain EXCEPT ![epoch] = "check"]
  /\ UNCHANGED <<engineVars, sigint, pipe, _proc, trusted, snap>>

StartRefused ==
  /\ Agent("idle", "raised")
  /\ _proc # None
  /\ UNCHANGED <<engineVars, sigint, pipe, drain, _proc, healthy, stop_flag,
                 trusted, snap>>

(* wait_healthy returns, or gives up and the script goes on.               *)
WaitHealthy ==
  /\ Agent("wait_healthy", "idle")
  /\ trusted' = healthy
  /\ UNCHANGED <<engineVars, sigint, pipe, drain, _proc, healthy, stop_flag, snap>>

(* # TELEMETRY and # ENGINE_SUMMARY: open, snapshot, close.  The mapping   *)
(* of a file that is missing or too short is refused, and the error is     *)
(* printed; a page that was truncated since is a bus error.                *)
SinkOpen ==
  /\ Agent("idle", IF file.size = "full" THEN "sink" ELSE "idle")
  /\ UNCHANGED <<engineVars, sigint, pipe, drain, _proc, healthy, stop_flag,
                 trusted, snap>>

Snapshot ==
  /\ Agent("sink", IF file.size = "full" THEN "idle" ELSE "bus error")
  /\ snap' = [epoch |-> file.epoch, reads |-> file.reads]
  /\ UNCHANGED <<engineVars, sigint, pipe, drain, _proc, healthy, stop_flag, trusted>>

(* The end of the script, and Ctrl-C anywhere in the try around it: the    *)
(* handler's message.  Both come to the same test of is_running.           *)
InTry == {"idle", "Popen", "starting", "wait_healthy", "sink", "stopping", "joining"}

EndOfScript ==
  /\ Agent("idle", "over")
  /\ UNCHANGED <<engineVars, sigint, pipe, drain, _proc, healthy, stop_flag,
                 trusted, snap>>

Interrupt ==
  /\ agent \in InTry
  /\ agent' = "interrupted"
  /\ ctrl_c' = IF agent = "Popen" THEN "Popen" ELSE "try"
  /\ UNCHANGED <<engineVars, sigint, pipe, drain, _proc, healthy, stop_flag,
                 trusted, snap>>

(* # ENGINE_STOP, and the stop of the handler or after the script, which   *)
(* is only made while the engine runs.  stop: SIGINT to the process group, *)
Finishing == agent \in {"over", "interrupted"}

StopBegin ==
  /\ \/ Agent("idle", "stopping") /\ _proc # None
     \/ Finishing /\ Agent(agent, "last stop") /\ _proc # None /\ Alive
  /\ sigint' = Alive
  /\ UNCHANGED <<engineVars, pipe, drain, _proc, healthy, stop_flag, trusted, snap>>

(* ... wait with a time limit, then SIGKILL and wait again, ...            *)
KilledNot == phase
Killed == "killed"

StopKill ==
  /\ agent \in {"stopping", "last stop"}
  /\ Alive
  /\ phase' = Killed
  /\ sigint' = FALSE
  /\ UNCHANGED <<epoch, flags, is_running, device, telem, mounted, file, pipe,
                 drain, managerVars>>

(* ... raise the flag, ...                                                 *)
WaitedNot == TRUE
Waited == ~Alive

StopWaited ==
  /\ Agent("stopping", "joining") \/ Agent("last stop", "last join")
  /\ Waited
  /\ stop_flag' = TRUE
  /\ UNCHANGED <<engineVars, sigint, pipe, drain, _proc, healthy, trusted, snap>>

(* ... join the drain threads, if they were started, and forget the        *)
(* process.  The join has a time limit of two seconds; a drain thread of   *)
(* an ended process is taken to be done by then.                           *)
JoinedNot(e) == TRUE
Joined(e) == drain[e] \in {"none", "ended"}

StopJoined ==
  /\ Agent("joining", "idle") \/ Agent("last join", "finished")
  /\ Joined(_proc)
  /\ _proc' = None
  /\ trusted' = FALSE
  /\ UNCHANGED <<engineVars, sigint, pipe, drain, healthy, stop_flag, snap>>

FinishWithout ==
  /\ Finishing /\ Agent(agent, "finished")
  /\ _proc = None \/ ~Alive
  /\ UNCHANGED <<engineVars, sigint, pipe, drain, _proc, healthy, stop_flag,
                 trusted, snap>>

(* Nothing catches a Ctrl-C in the handler or after the try: it ends the   *)
(* interpreter where it is, in the middle of the stop as well.             *)
InterruptAtEnd ==
  /\ Finishing \/ agent \in {"last stop", "last join"}
  /\ agent' = "finished"
  /\ ctrl_c' = "end"
  /\ UNCHANGED <<engineVars, sigint, pipe, drain, _proc, healthy, stop_flag,
                 trusted, snap>>

-----------------------------------------------------------------------------
Next ==
  \/ SpdkReady \/ SpdkFails \/ NoSpdk
  \/ TruncateTelemetry \/ NoTelemetry \/ MapTelemetry
  \/ StartDevice
  \/ BenchmarkIo \/ BenchmarkDone
  \/ WaitForSignal
  \/ StartBypass \/ OpenDevice \/ OpenDeviceFails \/ Mount \/ FuseReturns
  \/ JoinDevice \/ DeviceEnds
  \/ TakeSignal \/ HandlerExits
  \/ \E e \in Engines : DrainCheck(e) \/ DrainMarker(e) \/ DrainEof(e)
  \/ \E mode \in Modes : EngineStart(mode)
  \/ PopenReturns \/ StartDrains \/ StartRefused
  \/ WaitHealthy
  \/ SinkOpen \/ Snapshot
  \/ StopBegin \/ StopKill \/ StopWaited \/ StopJoined
  \/ EndOfScript \/ FinishWithout
  \/ Interrupt \/ InterruptAtEnd

Spec == Init /\ [][Next]_vars

(* Every thread is scheduled; a device loop sees the shutdown              *)
(* (SqCq!DeviceStops); the time limit of wait ends in SIGKILL.  Nothing is *)
(* assumed of fusermount3, of FUSE or of the pending signal, and nobody    *)
(* has to start, stop or interrupt anything.                               *)
Fairness ==
  /\ WF_vars(DeviceEnds)
  /\ WF_vars(JoinDevice)
  /\ \A e \in Engines : WF_vars(DrainCheck(e) \/ DrainMarker(e) \/ DrainEof(e))
  /\ WF_vars(Finishing /\ (StopBegin \/ FinishWithout))
  /\ WF_vars(StopKill \/ StopWaited)
  /\ WF_vars(StopJoined)

FairSpec == Spec /\ Fairness

-----------------------------------------------------------------------------
(* Properties.                                                             *)

HealthKnown == trusted /\ telem /\ "spdk" \notin flags

(* After wait_healthy succeeded, what the sink reads is the block of the   *)
(* engine just started, never one an earlier engine left in the file, and  *)
(* the file is not cut short under the mapping: no marker is written       *)
(* before the block exists, and none of an earlier engine is taken for it. *)
(* (With -s a marker does come before; main.cpp:200.)                      *)
FreshAfterHealthy ==
  HealthKnown =>
    /\ agent # "bus error"
    /\ snap # NoSnap => snap.epoch = epoch

(* The summary shown after wait_healthy counts the whole benchmark.        *)
SummaryComplete ==
  (HealthKnown /\ flags = {"benchmark"} /\ snap.epoch = epoch)
    => snap.reads = IO_COUNT

(* When the script is over, no engine is left behind; nor when Ctrl-C is   *)
(* pressed at any moment inside the try, the start of the drain threads, a *)
(* wait for health and a stop under way included (vibe_demo_agent.py:552). *)
(* Excepted are the two places where the code cannot keep this: Popen,     *)
(* which has forked and not yet returned the handle, and the stop of the   *)
(* handler or after the script, which is outside the try (554, 559).  (A   *)
(* second start and a bus error end the interpreter without any stop.)     *)
NoOrphan ==
  (agent = "finished" /\ ctrl_c \in {"no", "try"}) => ~Alive

(* The interpreter does end once the script is over or interrupted:        *)
(* neither a hanging unmount nor a drain thread keeps it; and an engine    *)
(* that shuts its emulator down joins the device thread and ends without   *)
(* being killed, or is in its signal handler.                              *)
FinishReturns ==
  /\ Finishing ~> agent = "finished"
  /\ phase = "join" ~> ~Alive \/ phase = "handler"

(* An engine that ended by itself or on SIGINT does not leave engine_alive *)
(* at 1 in the file: "1 if the engine is healthy and servicing I/O, 0      *)
(* otherwise" (telemetry.hpp:50).                                          *)
AliveMeansServicing ==
  (phase = "exited" /\ file.epoch = epoch) => ~file.alive
=============================================================================
