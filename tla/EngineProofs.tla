---------------------------- MODULE EngineProofs ----------------------------
(***************************************************************************)
(* Proofs about Engine for any number of engines, any set of command lines *)
(* and a benchmark of any length: no engine is left behind, and what is    *)
(* shown after a health check is of the engine just started and complete.  *)
(***************************************************************************)
EXTENDS Engine, TLAPS

BeforeBlock == {"none", "boot", "init", "truncated"}
BeforeMarker == BeforeBlock \cup {"telemetry done", "benchmark", "run"}
AfterMarker == {"pause", "open device", "fuse", "join", "handler", "exited", "killed"}

TypeOK ==
  /\ epoch \in 0 .. MaxStarts
  /\ phase \in BeforeMarker \cup AfterMarker
  /\ telem \in BOOLEAN
  /\ file \in [size : {"none", "empty", "full"}, epoch : Nat, alive : BOOLEAN,
               reads : Nat]
  /\ pipe \in [Engines -> Nat]
  /\ drain \in [Engines -> {"none", "check", "read", "ended"}]
  /\ _proc \in 0 .. MaxStarts
  /\ healthy \in BOOLEAN /\ stop_flag \in BOOLEAN /\ trusted \in BOOLEAN
  /\ agent \in InTry \cup {"raised", "bus error", "over", "interrupted", "last stop",
                           "last join", "finished"}
  /\ ctrl_c \in {"no", "try", "Popen", "end"}
  /\ snap \in [epoch : Nat, reads : Nat]

Saved == ctrl_c \in {"no", "try"}
Stopping == {"stopping", "last stop"}
Joining == {"joining", "last join"}

(* The manager has a handle of the newest engine or of none; an engine     *)
(* without a handle has ended, its drain thread with it, unless Popen has  *)
(* not returned or was interrupted.  A first Ctrl-C leaves the try.        *)
HandleKnown ==
  /\ _proc \in {None, epoch}
  /\ epoch = None => phase = "none"
  /\ \A e \in Engines : e # _proc => drain[e] \in {"none", "ended"}
  /\ \A e \in Engines : e > epoch => pipe[e] = 0
  /\ agent = "Popen" => epoch # None
  /\ agent \in {"starting"} \cup Stopping \cup Joining => _proc # None
  /\ agent \in InTry => ctrl_c = "no"
  /\ _proc = None /\ agent # "Popen" /\ Saved => ~Alive
  /\ agent \in Joining => ~Alive
  /\ agent = "finished" /\ Saved => ~Alive

(* A marker of the engine has been written, and may have been read.  Until *)
(* the events are cleared healthy is of the engine before.                 *)
Marked ==
  \/ trusted
  \/ healthy /\ agent = "wait_healthy"
  \/ epoch # None /\ pipe[epoch] > 0

(* Without -s no marker comes before the benchmark is done; the device is  *)
(* opened with -k only.                                                    *)
MarkerIsLate ==
  /\ "spdk" \notin flags /\ Marked => phase \notin BeforeMarker
  /\ phase \in {"open device", "fuse", "join"} => "bypass" \in flags

(* The file of an engine with a block is its own, and counts its I/Os.     *)
BlockIsOwn ==
  telem =>
    /\ epoch # None /\ phase \notin BeforeBlock
    /\ file.size = "full" /\ file.epoch = epoch
    /\ file.reads <= IO_COUNT
    /\ flags = {"benchmark"} /\ (phase \in {"run", "pause"} \/ Marked)
         => file.reads = IO_COUNT

SnapshotIsOwn ==
  /\ agent \in {"Popen", "starting", "wait_healthy"} => snap = NoSnap
  /\ FreshAfterHealthy
  /\ SummaryComplete

IInv ==
  /\ TypeOK
  /\ HandleKnown
  /\ MarkerIsLate
  /\ BlockIsOwn
  /\ SnapshotIsOwn

-----------------------------------------------------------------------------
LEMMA Numbers ==
  /\ MaxStarts \in Nat /\ IO_COUNT \in Nat /\ None = 0
  /\ \A k \in 0 .. MaxStarts : k # None => k \in Engines
  /\ Engines \subseteq Nat /\ None \notin Engines
BY EngineAssumption DEF None, Engines

LEMMA NoneIsNumber == None \in 0 .. MaxStarts
BY EngineAssumption DEF None

LEMMA Counts ==
  ASSUME TypeOK
  PROVE  epoch \in Nat /\ file.epoch \in Nat /\ file.reads \in Nat
<1>1. epoch \in 0 .. MaxStarts /\ MaxStarts \in Nat
  BY EngineAssumption DEF TypeOK
<1>2. file \in [size : {"none", "empty", "full"}, epoch : Nat, alive : BOOLEAN,
               reads : Nat]
  BY DEF TypeOK
<1> QED
  BY <1>1, <1>2

LEMMA SnapRecord ==
  ASSUME NEW s, NEW e \in Nat, NEW r \in Nat, s = [epoch |-> e, reads |-> r]
  PROVE  s \in [epoch : Nat, reads : Nat] /\ s.epoch = e /\ s.reads = r
OBVIOUS

LEMMA OneMoreRead ==
  ASSUME TypeOK, file' = [file EXCEPT !.reads = @ + 1]
  PROVE  file' \in [size : {"none", "empty", "full"}, epoch : Nat, alive : BOOLEAN,
                    reads : Nat]
<1>1. file \in [size : {"none", "empty", "full"}, epoch : Nat, alive : BOOLEAN,
               reads : Nat]
  BY DEF TypeOK
<1> QED
  BY <1>1

LEMMA OneMoreLine ==
  ASSUME pipe \in [Engines -> Nat], epoch \in Engines, Emit
  PROVE  /\ pipe' \in [Engines -> Nat]
         /\ \A e \in Engines : e > epoch => pipe'[e] = pipe[e]
<1>1. \A e \in Engines : e > epoch => e # epoch
  BY Numbers
<1> QED
  BY <1>1 DEF Emit

LEMMA InitIInv == Init => IInv
<1> SUFFICES ASSUME Init PROVE IInv
  OBVIOUS
<1> USE Numbers DEF Init
<1>1. TypeOK
  <2>1. 0 \in 0 .. MaxStarts /\ NoSnap \in [epoch : Nat, reads : Nat]
    BY DEF NoSnap
  <2>2. file \in [size : {"none", "empty", "full"}, epoch : Nat, alive : BOOLEAN,
                 reads : Nat]
    OBVIOUS
  <2>3. pipe \in [Engines -> Nat]
    OBVIOUS
  <2>4. drain \in [Engines -> {"none", "check", "read", "ended"}]
    OBVIOUS
  <2>5. phase \in BeforeMarker
    BY DEF BeforeMarker, BeforeBlock
  <2> QED
    BY <2>1, <2>2, <2>3, <2>4, <2>5 DEF TypeOK, InTry
<1>2. HandleKnown
  BY DEF HandleKnown, Alive, Stopping, Joining
<1>3. MarkerIsLate /\ BlockIsOwn /\ SnapshotIsOwn
  BY DEF MarkerIsLate, Marked, BlockIsOwn, SnapshotIsOwn, FreshAfterHealthy,
         SummaryComplete, HealthKnown
<1> QED
  BY <1>1, <1>2, <1>3 DEF IInv

LEMMA TypeKept ==
  ASSUME TypeOK,
         UNCHANGED <<epoch, telem, file, _proc, stop_flag, trusted, agent, ctrl_c, snap>>,
         phase' \in BeforeMarker \cup AfterMarker, pipe' \in [Engines -> Nat],
         drain' \in [Engines -> {"none", "check", "read", "ended"}],
         healthy' \in BOOLEAN
  PROVE  TypeOK'
<1>1. /\ epoch' = epoch /\ telem' = telem /\ file' = file /\ _proc' = _proc
      /\ stop_flag' = stop_flag /\ trusted' = trusted
  OBVIOUS
<1>2. agent' = agent /\ ctrl_c' = ctrl_c /\ snap' = snap
  OBVIOUS
<1>3. /\ epoch' \in 0 .. MaxStarts
      /\ telem' \in BOOLEAN /\ stop_flag' \in BOOLEAN /\ trusted' \in BOOLEAN
      /\ file' \in [size : {"none", "empty", "full"}, epoch : Nat, alive : BOOLEAN,
                    reads : Nat]
      /\ _proc' \in 0 .. MaxStarts
  BY <1>1 DEF TypeOK
<1>4. /\ agent' \in InTry \cup {"raised", "bus error", "over", "interrupted",
                                "last stop", "last join", "finished"}
      /\ ctrl_c' \in {"no", "try", "Popen", "end"}
      /\ snap' \in [epoch : Nat, reads : Nat]
  BY <1>2 DEF TypeOK
<1> QED
  BY <1>3, <1>4 DEF TypeOK

(* HandleKnown does not depend on what an engine with a number does, as    *)
(* long as a dead one stays dead and later ones have written nothing.      *)
LEMMA HandleKept ==
  ASSUME HandleKnown, UNCHANGED <<epoch, _proc, agent, ctrl_c>>,
         epoch = None => phase' = "none", Alive' => Alive,
         \A e \in Engines : drain'[e] = drain[e] \/ e = _proc,
         \A e \in Engines : e > epoch => pipe'[e] = pipe[e]
  PROVE  HandleKnown'
<1>1. /\ _proc' \in {None, epoch'}
      /\ epoch' = None => phase' = "none"
      /\ agent' = "Popen" => epoch' # None
      /\ agent' \in {"starting"} \cup Stopping \cup Joining => _proc' # None
      /\ agent' \in InTry => ctrl_c' = "no"
  BY DEF HandleKnown
<1>2. /\ \A e \in Engines : e # _proc' => drain'[e] \in {"none", "ended"}
      /\ \A e \in Engines : e > epoch' => pipe'[e] = 0
  BY DEF HandleKnown
<1>3. Saved' <=> Saved
  BY DEF Saved
<1>4. /\ _proc' = None /\ agent' # "Popen" /\ Saved' => ~Alive'
      /\ agent' \in Joining => ~Alive'
      /\ agent' = "finished" /\ Saved' => ~Alive'
  BY <1>3, Zenon DEF HandleKnown
<1> QED
  BY <1>1, <1>2, <1>4 DEF HandleKnown

(* The parts of IInv that a step of the engine preserves if its block does *)
(* not change.                                                             *)
LEMMA EngineMoves ==
  ASSUME IInv, Alive,
         UNCHANGED <<epoch, flags, drain, managerVars, telem, file>>,
         phase' \in BeforeMarker \cup AfterMarker, phase' # "none",
         pipe' = pipe,
         phase' \in BeforeMarker => phase \in BeforeMarker,
         phase' \in BeforeBlock => phase \in BeforeBlock,
         phase' \in {"open device", "fuse", "join"} => "bypass" \in flags,
         phase' \in {"run", "pause"} /\ telem /\ flags = {"benchmark"} =>
           file.reads = IO_COUNT
  PROVE  IInv'
<1> USE DEF IInv, managerVars
<1>1. TypeOK'
  <2>1. /\ pipe' \in [Engines -> Nat] /\ healthy' \in BOOLEAN
        /\ drain' \in [Engines -> {"none", "check", "read", "ended"}]
    BY DEF TypeOK
  <2> QED
    BY <2>1, TypeKept
<1>2. HandleKnown'
  <2>1. epoch # None
    BY DEF HandleKnown, Alive
  <2> QED
    BY <2>1, HandleKept
<1>3. MarkerIsLate'
  BY DEF MarkerIsLate, Marked
<1>4. BlockIsOwn'
  BY DEF BlockIsOwn, Marked
<1>5. SnapshotIsOwn'
  BY DEF SnapshotIsOwn, FreshAfterHealthy, SummaryComplete, HealthKnown
<1> QED
  BY <1>1, <1>2, <1>3, <1>4, <1>5

(* A marker is emitted by an engine with -s, or late.                      *)
LEMMA EngineEmits ==
  ASSUME IInv, Alive,
         UNCHANGED <<epoch, flags, drain, managerVars, telem, file>>,
         phase' \in BeforeMarker \cup AfterMarker, phase' # "none",
         Emit,
         "spdk" \in flags \/ phase' \notin BeforeMarker,
         telem => phase' \notin BeforeBlock,
         phase' \in {"open device", "fuse", "join"} => "bypass" \in flags,
         flags = {"benchmark"} /\ telem => file.reads = IO_COUNT
  PROVE  IInv'
<1> USE DEF IInv, managerVars
<1>1. epoch \in Engines /\ pipe \in [Engines -> Nat]
  BY Numbers DEF TypeOK, HandleKnown, Alive
<1>2. /\ pipe' \in [Engines -> Nat]
      /\ \A e \in Engines : e > epoch => pipe'[e] = pipe[e]
  BY <1>1, OneMoreLine
<1>3. TypeOK' /\ HandleKnown'
  <2>1. TypeOK'
    <3>1. /\ healthy' \in BOOLEAN
          /\ drain' \in [Engines -> {"none", "check", "read", "ended"}]
      BY DEF TypeOK
    <3> QED
      BY <1>2, <3>1, TypeKept
  <2>2. HandleKnown'
    BY <1>1, <1>2, Numbers, HandleKept
  <2> QED
    BY <2>1, <2>2
<1>4. MarkerIsLate'
  BY DEF MarkerIsLate
<1>5. BlockIsOwn'
  BY DEF BlockIsOwn
<1>6. SnapshotIsOwn'
  BY DEF SnapshotIsOwn, FreshAfterHealthy, SummaryComplete, HealthKnown
<1> QED
  BY <1>3, <1>4, <1>5, <1>6

LEMMA MainIInv ==
  ASSUME IInv,
         \/ SpdkFails \/ NoSpdk \/ NoTelemetry \/ StartDevice \/ BenchmarkDone
         \/ OpenDeviceFails \/ Mount \/ FuseReturns \/ JoinDevice \/ DeviceEnds
         \/ TakeSignal \/ HandlerExits
  PROVE  IInv'
<1> USE DEF BeforeMarker, BeforeBlock, AfterMarker, Main, Alive
<1>1. /\ Alive
      /\ UNCHANGED <<epoch, flags, drain, managerVars, telem, file>>
      /\ pipe' = pipe
  BY DEF SpdkFails, NoSpdk, NoTelemetry, StartDevice, BenchmarkDone,
         OpenDeviceFails, Mount, FuseReturns, JoinDevice, DeviceEnds, TakeSignal,
         HandlerExits
<1>2. /\ phase' \in BeforeMarker \cup AfterMarker /\ phase' # "none"
      /\ phase' \in BeforeMarker => phase \in BeforeMarker
      /\ phase' \in BeforeBlock => phase \in BeforeBlock
      /\ phase' \in {"open device", "fuse", "join"} => "bypass" \in flags
  BY DEF SpdkFails, NoSpdk, NoTelemetry, StartDevice, BenchmarkDone,
         OpenDeviceFails, Mount, FuseReturns, JoinDevice, DeviceEnds, TakeSignal,
         HandlerExits, IInv, TypeOK, MarkerIsLate
<1>3. ASSUME phase' \in {"run", "pause"}, telem, flags = {"benchmark"}
      PROVE  file.reads = IO_COUNT
  <2>1. CASE BenchmarkDone
    <3>1. file.reads \in Nat /\ file.reads <= IO_COUNT
      BY <1>3 DEF IInv, TypeOK, BlockIsOwn
    <3>2. ~(file.reads < IO_COUNT)
      BY <1>3, <2>1 DEF BenchmarkDone, MarkerAfterBenchmark, MoreIos
    <3> QED
      BY <3>1, <3>2, Numbers
  <2>2. CASE DeviceEnds
    BY <1>3, <2>2 DEF DeviceEnds, IInv, BlockIsOwn
  <2>3. ~StartDevice
    BY <1>3 DEF StartDevice
  <2> QED
    BY <1>3, <2>1, <2>2, <2>3
       DEF SpdkFails, NoSpdk, NoTelemetry, OpenDeviceFails, Mount, FuseReturns,
           JoinDevice, TakeSignal, HandlerExits
<1> QED
  BY <1>1, <1>2, <1>3, EngineMoves

LEMMA EmitIInv ==
  ASSUME IInv, SpdkReady \/ WaitForSignal \/ StartBypass \/ OpenDevice
  PROVE  IInv'
<1> USE DEF BeforeMarker, BeforeBlock, AfterMarker, Main, Alive
<1>1. /\ Alive /\ Emit
      /\ UNCHANGED <<epoch, flags, drain, managerVars, telem, file>>
      /\ phase' \in BeforeMarker \cup AfterMarker /\ phase' # "none"
  BY DEF SpdkReady, WaitForSignal, StartBypass, OpenDevice
<1>2. "spdk" \in flags \/ phase' \notin BeforeMarker
  BY DEF SpdkReady, WaitForSignal, StartBypass, OpenDevice
<1>3. telem => phase' \notin BeforeBlock
  BY DEF SpdkReady, WaitForSignal, StartBypass, OpenDevice, IInv, BlockIsOwn
<1>4. phase' \in {"open device", "fuse", "join"} => "bypass" \in flags
  BY DEF SpdkReady, WaitForSignal, StartBypass, OpenDevice, IInv, MarkerIsLate
<1>5. flags = {"benchmark"} /\ telem => file.reads = IO_COUNT
  BY DEF SpdkReady, WaitForSignal, StartBypass, OpenDevice, IInv, BlockIsOwn,
         MarkerIsLate
<1> QED
  BY <1>1, <1>2, <1>3, <1>4, <1>5, EngineEmits

(* The block is made before any marker, and the benchmark runs before it.  *)
LEMMA BlockIInv ==
  ASSUME IInv, TruncateTelemetry \/ MapTelemetry \/ BenchmarkIo
  PROVE  IInv'
<1> USE DEF BeforeMarker, BeforeBlock, AfterMarker, Main, managerVars
<1>1. /\ Alive /\ Alive'
      /\ UNCHANGED <<epoch, flags, pipe, drain, _proc, healthy, stop_flag, agent,
                     ctrl_c, trusted, snap>>
      /\ epoch \in Nat /\ epoch # None
      /\ phase \in {"init", "truncated", "benchmark"}
      /\ phase' \in {"truncated", "telemetry done", "benchmark"}
      /\ file.reads \in Nat
  BY Numbers DEF TruncateTelemetry, MapTelemetry, BenchmarkIo, Alive, IInv, TypeOK,
                 HandleKnown
<1>2. /\ file' \in [size : {"none", "empty", "full"}, epoch : Nat, alive : BOOLEAN,
                    reads : Nat]
      /\ telem' \in BOOLEAN
  <2>1. CASE TruncateTelemetry
    BY <2>1, Numbers DEF TruncateTelemetry, IInv, TypeOK
  <2>2. CASE MapTelemetry
    BY <1>1, <2>2, Numbers DEF MapTelemetry, IInv, TypeOK
  <2>3. CASE BenchmarkIo
    BY <2>3, OneMoreRead DEF BenchmarkIo, IInv, TypeOK
  <2> QED
    BY <2>1, <2>2, <2>3
<1>3. TypeOK'
  <2>1. /\ epoch' \in 0 .. MaxStarts /\ _proc' \in 0 .. MaxStarts
        /\ pipe' \in [Engines -> Nat]
        /\ drain' \in [Engines -> {"none", "check", "read", "ended"}]
        /\ healthy' \in BOOLEAN /\ stop_flag' \in BOOLEAN /\ trusted' \in BOOLEAN
    BY <1>1 DEF IInv, TypeOK
  <2>2. /\ agent' \in InTry \cup {"raised", "bus error", "over", "interrupted",
                                  "last stop", "last join", "finished"}
        /\ ctrl_c' \in {"no", "try", "Popen", "end"}
        /\ snap' \in [epoch : Nat, reads : Nat]
    BY <1>1 DEF IInv, TypeOK
  <2>3. phase' \in BeforeMarker
    BY <1>1
  <2> QED
    BY <1>2, <2>1, <2>2, <2>3 DEF TypeOK
<1>4. HandleKnown'
  BY <1>1 DEF IInv, HandleKnown, Saved
<1>5. "spdk" \notin flags => ~Marked
  BY <1>1 DEF IInv, MarkerIsLate
<1>6. "spdk" \notin flags => ~Marked'
  BY <1>1, <1>5 DEF Marked
<1>7. MarkerIsLate'
  BY <1>1, <1>6 DEF MarkerIsLate
<1>8. BlockIsOwn'
  <2>1. flags = {"benchmark"} => "spdk" \notin flags
    OBVIOUS
  <2>2. CASE TruncateTelemetry
    BY <2>2 DEF TruncateTelemetry, IInv, BlockIsOwn
  <2>3. CASE MapTelemetry
    <3>1. /\ file'.size = "full" /\ file'.epoch = epoch' /\ file'.reads = 0
          /\ phase' = "telemetry done"
      BY <1>1, <2>3 DEF MapTelemetry
    <3>2. 0 <= IO_COUNT
      BY Numbers
    <3> QED
      BY <1>1, <1>6, <2>1, <3>1, <3>2 DEF BlockIsOwn
  <2>4. CASE BenchmarkIo
    <3>1. /\ telem /\ telem' = telem /\ phase' = "benchmark"
          /\ file.size = "full" /\ file.epoch = epoch /\ file.reads < IO_COUNT
      BY <2>4 DEF BenchmarkIo, MoreIos, IInv, BlockIsOwn
    <3>2. file'.size = "full" /\ file'.epoch = epoch /\ file'.reads = file.reads + 1
      BY <2>4, <3>1 DEF BenchmarkIo, IInv, TypeOK
    <3>3. file'.reads <= IO_COUNT
      BY <1>1, <3>1, <3>2, Numbers
    <3> QED
      BY <1>1, <1>6, <2>1, <3>1, <3>2, <3>3 DEF BlockIsOwn
  <2> QED
    BY <2>2, <2>3, <2>4
<1>9. SnapshotIsOwn'
  <2>1. trusted => Marked
    BY DEF Marked
  <2>2. ~HealthKnown'
    BY <1>1, <1>5, <2>1 DEF HealthKnown
  <2>3. agent' \in {"Popen", "starting", "wait_healthy"} => snap' = NoSnap
    BY <1>1 DEF IInv, SnapshotIsOwn
  <2> QED
    BY <2>2, <2>3 DEF SnapshotIsOwn, FreshAfterHealthy, SummaryComplete
<1> QED
  BY <1>3, <1>4, <1>7, <1>8, <1>9 DEF IInv

-----------------------------------------------------------------------------
(* A drain thread that reads is that of the engine the manager has: what   *)
(* it finds in the pipe is a marker of this engine.                        *)
LEMMA DrainIInv ==
  ASSUME IInv, NEW e \in Engines, DrainCheck(e) \/ DrainMarker(e) \/ DrainEof(e)
  PROVE  IInv'
<1> USE DEF Drain, engineVars
<1>1. /\ UNCHANGED <<epoch, flags, phase, telem, file, _proc, stop_flag, agent,
                     ctrl_c, trusted, snap>>
      /\ e = _proc /\ e = epoch /\ e # None /\ e \in Nat
      /\ drain' \in [Engines -> {"none", "check", "read", "ended"}]
      /\ \A d \in Engines : d # e => drain'[d] = drain[d]
  BY Numbers DEF DrainCheck, DrainMarker, DrainEof, IInv, TypeOK, HandleKnown
<1>2. /\ pipe' \in [Engines -> Nat] /\ healthy' \in BOOLEAN
      /\ \A d \in Engines : d # e => pipe'[d] = pipe[d]
  <2>1. CASE DrainMarker(e)
    <3>1. pipe \in [Engines -> Nat] /\ pipe[e] > 0
      BY <2>1 DEF DrainMarker, IInv, TypeOK
    <3>2. pipe[e] - 1 \in Nat
      BY <3>1
    <3>3. pipe' = [pipe EXCEPT ![e] = pipe[e] - 1] /\ healthy' = TRUE
      BY <2>1 DEF DrainMarker
    <3> QED
      BY <3>1, <3>2, <3>3
  <2>2. CASE DrainCheck(e) \/ DrainEof(e)
    BY <2>2 DEF DrainCheck, DrainEof, IInv, TypeOK
  <2> QED
    BY <2>1, <2>2
<1>3. Marked' => Marked
  <2>1. CASE DrainMarker(e)
    BY <1>1, <2>1 DEF DrainMarker, Marked
  <2>2. CASE DrainCheck(e) \/ DrainEof(e)
    BY <1>1, <2>2 DEF DrainCheck, DrainEof, Marked
  <2> QED
    BY <2>1, <2>2
<1>4. TypeOK'
  <2>1. phase' \in BeforeMarker \cup AfterMarker
    BY <1>1 DEF IInv, TypeOK
  <2> QED
    BY <1>1, <1>2, <2>1, TypeKept DEF IInv
<1>5. HandleKnown'
  <2>1. \A d \in Engines : d > epoch => d # e
    BY <1>1, Numbers
  <2> QED
    BY <1>1, <1>2, <2>1, HandleKept DEF IInv, Alive
<1>6. MarkerIsLate'
  BY <1>1, <1>3 DEF IInv, MarkerIsLate
<1>7. BlockIsOwn'
  BY <1>1, <1>3 DEF IInv, BlockIsOwn
<1>8. SnapshotIsOwn'
  BY <1>1 DEF IInv, SnapshotIsOwn, FreshAfterHealthy, SummaryComplete, HealthKnown
<1> QED
  BY <1>4, <1>5, <1>6, <1>7, <1>8 DEF IInv

(* A new engine: nothing of an earlier one is running, in a pipe, or known *)
(* to the interpreter.                                                     *)
LEMMA EngineStartIInv ==
  ASSUME IInv, NEW mode \in Modes, EngineStart(mode)
  PROVE  IInv'
<1> USE DEF Agent
<1>1. /\ epoch' = epoch + 1 /\ epoch' \in Engines /\ epoch' # None
      /\ epoch' \in 0 .. MaxStarts
      /\ phase' = "boot" /\ telem' = FALSE /\ _proc = None
      /\ trusted' = FALSE /\ snap' = NoSnap
      /\ agent = "idle" /\ agent' = "Popen"
      /\ UNCHANGED <<file, pipe, drain, _proc, healthy, stop_flag, ctrl_c>>
  BY Numbers, EngineAssumption DEF EngineStart, IInv, TypeOK, Engines, None
<1>2. TypeOK'
  <2>1. NoSnap \in [epoch : Nat, reads : Nat]
    BY DEF NoSnap, None
  <2> QED
    BY <1>1, <2>1 DEF IInv, TypeOK, BeforeMarker, BeforeBlock, InTry
<1>3. /\ \A e \in Engines : e > epoch' => pipe'[e] = 0
      /\ pipe'[epoch'] = 0
  <2>1. \A e \in Engines : (e > epoch + 1 => e > epoch) /\ epoch + 1 > epoch
    <3>1. epoch \in Nat
      BY Counts DEF IInv
    <3>2. \A e \in Nat : (e > epoch + 1 => e > epoch) /\ epoch + 1 > epoch
      BY <3>1
    <3> QED
      BY <3>2, Numbers, Zenon
  <2> QED
    BY <1>1, <2>1 DEF IInv, HandleKnown
<1>4. HandleKnown'
  BY <1>1, <1>3 DEF IInv, HandleKnown, InTry, Stopping, Joining
<1>5. ~Marked'
  BY <1>1, <1>3 DEF Marked
<1>6. MarkerIsLate' /\ BlockIsOwn' /\ SnapshotIsOwn'
  BY <1>1, <1>5 DEF MarkerIsLate, BlockIsOwn, SnapshotIsOwn, FreshAfterHealthy,
                    SummaryComplete, HealthKnown
<1> QED
  BY <1>2, <1>4, <1>6 DEF IInv

(* Its handle, and its drain thread, which finds the events cleared.       *)
LEMMA StartedIInv ==
  ASSUME IInv, PopenReturns \/ StartDrains
  PROVE  IInv'
<1> USE DEF PopenReturns, StartDrains, Agent, engineVars
<1>1. /\ UNCHANGED <<epoch, flags, phase, telem, file, pipe, ctrl_c, trusted, snap>>
      /\ agent \in {"Popen", "starting"} /\ agent' \in {"starting", "wait_healthy"}
      /\ _proc' = epoch /\ epoch \in Engines /\ epoch # None
      /\ ctrl_c = "no"
      /\ agent' = "wait_healthy" => ~healthy'
  BY Numbers DEF IInv, TypeOK, HandleKnown, InTry
<1>2. /\ drain' \in [Engines -> {"none", "check", "read", "ended"}]
      /\ \A e \in Engines : e # epoch => drain'[e] \in {"none", "ended"}
  BY <1>1, Numbers DEF IInv, TypeOK, HandleKnown
<1>3. TypeOK'
  BY <1>1, <1>2 DEF IInv, TypeOK, InTry
<1>4. HandleKnown'
  BY <1>1, <1>2 DEF IInv, HandleKnown, Alive, InTry, Stopping, Joining
<1>5. Marked' => Marked
  BY <1>1 DEF Marked
<1>6. MarkerIsLate' /\ BlockIsOwn'
  BY <1>1, <1>5 DEF IInv, MarkerIsLate, BlockIsOwn
<1>7. SnapshotIsOwn'
  BY <1>1 DEF IInv, SnapshotIsOwn, FreshAfterHealthy, SummaryComplete, HealthKnown
<1> QED
  BY <1>3, <1>4, <1>6, <1>7 DEF IInv

(* The other steps of the interpreter leave the engine alone.              *)
LEMMA AgentMoves ==
  ASSUME IInv,
         UNCHANGED <<engineVars, pipe, drain, _proc, healthy, trusted, snap>>,
         stop_flag' \in BOOLEAN,
         agent' \in {"idle", "raised", "sink", "over", "interrupted", "finished"}
                      \cup Stopping \cup Joining,
         ctrl_c' \in {"no", "try", "Popen", "end"},
         agent' \in Stopping \cup Joining => _proc # None,
         agent' \in InTry => ctrl_c' = "no",
         ctrl_c' \in {"no", "try"} => agent # "Popen" /\ Saved,
         agent' \in Joining => ~Alive,
         agent' = "finished" /\ ctrl_c' \in {"no", "try"} => ~Alive
  PROVE  IInv'
<1> USE DEF engineVars
<1>1. /\ UNCHANGED <<epoch, flags, phase, telem, file, pipe, healthy, trusted, snap>>
      /\ (Alive' <=> Alive)
      /\ agent' \notin {"Popen", "starting", "wait_healthy", "bus error"}
  BY DEF Alive, Stopping, Joining
<1>2. TypeOK'
  <2>1. agent' \in InTry \cup {"raised", "bus error", "over", "interrupted",
                              "last stop", "last join", "finished"}
    BY DEF InTry, Stopping, Joining
  <2> QED
    BY <2>1, ZenonT(30) DEF IInv, TypeOK
<1>3. HandleKnown'
  BY <1>1 DEF IInv, HandleKnown, Saved
<1>4. Marked' => Marked
  BY DEF Marked, Stopping, Joining
<1>5. MarkerIsLate' /\ BlockIsOwn'
  <2> HIDE DEF engineVars
  <2>1. MarkerIsLate'
    BY <1>1, <1>4 DEF IInv, MarkerIsLate
  <2>2. BlockIsOwn'
    BY <1>1, <1>4 DEF IInv, BlockIsOwn
  <2> QED
    BY <2>1, <2>2
<1>6. SnapshotIsOwn'
  <2>1. HealthKnown' <=> HealthKnown
    BY DEF HealthKnown
  <2> QED
    BY <1>1, <2>1 DEF IInv, SnapshotIsOwn, FreshAfterHealthy, SummaryComplete
<1> QED
  BY <1>2, <1>3, <1>5, <1>6 DEF IInv

LEMMA AgentIInv ==
  ASSUME IInv,
         \/ StartRefused \/ SinkOpen \/ EndOfScript \/ Interrupt
         \/ StopBegin \/ StopWaited \/ FinishWithout \/ InterruptAtEnd
  PROVE  IInv'
<1> USE DEF StartRefused, SinkOpen, EndOfScript, Interrupt, StopBegin, StopWaited,
            FinishWithout, InterruptAtEnd, Agent
<1>1. /\ UNCHANGED <<engineVars, pipe, drain, _proc, healthy, trusted, snap>>
      /\ stop_flag' \in BOOLEAN
  BY DEF IInv, TypeOK
<1>2. /\ agent' \in {"idle", "raised", "sink", "over", "interrupted", "finished"}
                      \cup Stopping \cup Joining
      /\ ctrl_c' \in {"no", "try", "Popen", "end"}
      /\ agent' \in Joining => ~Alive
  BY DEF IInv, TypeOK, Finishing, Stopping, Joining, Waited
<1>3. agent' \in Stopping \cup Joining => _proc # None
  BY DEF IInv, HandleKnown, Stopping, Joining
<1>4. agent' \in InTry => ctrl_c' = "no"
  BY DEF IInv, HandleKnown, InTry, Finishing
<1>5. ctrl_c' \in {"no", "try"} => agent # "Popen" /\ Saved
  BY DEF IInv, HandleKnown, InTry, Saved, Finishing
<1>6. agent' = "finished" /\ ctrl_c' \in {"no", "try"} => ~Alive
  BY DEF IInv, HandleKnown, InTry, Saved, Finishing
<1> QED
  BY <1>1, <1>2, <1>3, <1>4, <1>5, <1>6, AgentMoves

LEMMA WaitHealthyIInv ==
  ASSUME IInv, WaitHealthy
  PROVE  IInv'
<1> USE DEF WaitHealthy, Agent, engineVars
<1>1. TypeOK'
  BY DEF IInv, TypeOK, InTry
<1>2. HandleKnown'
  BY DEF IInv, HandleKnown, Alive, Saved, InTry, Stopping, Joining
<1>3. Marked' => Marked
  BY DEF Marked
<1>4. MarkerIsLate' /\ BlockIsOwn'
  BY <1>3 DEF IInv, MarkerIsLate, BlockIsOwn
<1>5. SnapshotIsOwn'
  <2>1. snap' = NoSnap /\ agent' = "idle" /\ NoSnap.epoch = None
    BY DEF IInv, SnapshotIsOwn, NoSnap
  <2>2. telem' => epoch' # None
    BY DEF IInv, BlockIsOwn
  <2> QED
    BY <2>1, <2>2 DEF SnapshotIsOwn, FreshAfterHealthy, SummaryComplete, HealthKnown
<1> QED
  BY <1>1, <1>2, <1>4, <1>5 DEF IInv

LEMMA SnapshotIInv ==
  ASSUME IInv, Snapshot
  PROVE  IInv'
<1> USE DEF Snapshot, Agent, engineVars
<1>1. snap' = [epoch |-> file.epoch, reads |-> file.reads]
  OBVIOUS
<1>2. TypeOK'
  <2>1. file.epoch \in Nat /\ file.reads \in Nat
    BY Counts DEF IInv
  <2>2. snap' \in [epoch : Nat, reads : Nat]
    BY <1>1, <2>1, SnapRecord
  <2> QED
    BY <2>2 DEF IInv, TypeOK, InTry
<1>3. HandleKnown'
  BY DEF IInv, HandleKnown, Alive, Saved, InTry, Stopping, Joining
<1>4. MarkerIsLate' /\ BlockIsOwn'
  BY DEF IInv, MarkerIsLate, BlockIsOwn, Marked
<1>5. SnapshotIsOwn'
  <2>1. agent' \in {"idle", "bus error"} /\ (file.size = "full" => agent' = "idle")
    OBVIOUS
  <2>2. ASSUME HealthKnown'
        PROVE  /\ agent' = "idle" /\ snap'.epoch = epoch'
               /\ flags = {"benchmark"} => snap'.reads = IO_COUNT
    <3>1. trusted /\ telem /\ "spdk" \notin flags /\ epoch' = epoch /\ Marked
      BY <2>2 DEF HealthKnown, Marked
    <3>2. /\ file.size = "full" /\ file.epoch = epoch
          /\ flags = {"benchmark"} => file.reads = IO_COUNT
      BY <3>1 DEF IInv, BlockIsOwn
    <3>3. snap'.epoch = file.epoch /\ snap'.reads = file.reads
      BY <1>1, Counts, SnapRecord DEF IInv
    <3> QED
      BY <2>1, <3>1, <3>2, <3>3
  <2> QED
    BY <2>1, <2>2 DEF SnapshotIsOwn, FreshAfterHealthy, SummaryComplete
<1> QED
  BY <1>2, <1>3, <1>4, <1>5 DEF IInv

(* stop: after SIGKILL or the end of the wait the process is gone, and the *)
(* handle is dropped only then.                                            *)
LEMMA StopIInv ==
  ASSUME IInv, StopKill \/ StopJoined
  PROVE  IInv'
<1>1. CASE StopKill
  <2> USE <1>1 DEF StopKill, Killed, managerVars, BeforeMarker, BeforeBlock,
                   AfterMarker, Alive
  <2> QED
    BY EngineMoves
<1>2. CASE StopJoined
  <2> USE <1>2 DEF StopJoined, Agent, engineVars
  <2>1. /\ _proc # None /\ _proc \in Engines /\ drain[_proc] \in {"none", "ended"}
        /\ agent' \in {"idle", "finished"} /\ _proc' = None /\ ~Alive
        /\ agent' = "idle" => ctrl_c' = "no"
    BY Numbers DEF IInv, TypeOK, HandleKnown, InTry, Stopping, Joining, Joined
  <2>2. TypeOK'
    <3>1. _proc' \in 0 .. MaxStarts
      BY <2>1, NoneIsNumber
    <3> QED
      BY <2>1, <3>1 DEF IInv, TypeOK, InTry
  <2>3. HandleKnown'
    BY <2>1 DEF IInv, HandleKnown, Alive, InTry, Stopping, Joining
  <2>4. Marked' => Marked
    BY <2>1 DEF Marked
  <2>5. MarkerIsLate' /\ BlockIsOwn'
    BY <2>4 DEF IInv, MarkerIsLate, BlockIsOwn
  <2>6. SnapshotIsOwn'
    BY <2>1 DEF SnapshotIsOwn, FreshAfterHealthy, SummaryComplete, HealthKnown
  <2> QED
    BY <2>2, <2>3, <2>5, <2>6 DEF IInv
<1> QED
  BY <1>1, <1>2

-----------------------------------------------------------------------------
LEMMA NextIInv == IInv /\ [Next]_vars => IInv'
<1> SUFFICES ASSUME IInv, [Next]_vars PROVE IInv'
  OBVIOUS
<1>1. ASSUME Next PROVE IInv'
  <2>1. CASE \/ SpdkFails \/ NoSpdk \/ NoTelemetry \/ StartDevice \/ BenchmarkDone
             \/ OpenDeviceFails \/ Mount \/ FuseReturns \/ JoinDevice \/ DeviceEnds
             \/ TakeSignal \/ HandlerExits
    BY <2>1, MainIInv
  <2>2. CASE SpdkReady \/ WaitForSignal \/ StartBypass \/ OpenDevice
    BY <2>2, EmitIInv
  <2>3. CASE TruncateTelemetry \/ MapTelemetry \/ BenchmarkIo
    BY <2>3, BlockIInv
  <2>4. CASE \E e \in Engines : DrainCheck(e) \/ DrainMarker(e) \/ DrainEof(e)
    BY <2>4, DrainIInv
  <2>5. CASE \E mode \in Modes : EngineStart(mode)
    BY <2>5, EngineStartIInv
  <2>6. CASE PopenReturns \/ StartDrains
    BY <2>6, StartedIInv
  <2>7. CASE \/ StartRefused \/ SinkOpen \/ EndOfScript \/ Interrupt
             \/ StopBegin \/ StopWaited \/ FinishWithout \/ InterruptAtEnd
    BY <2>7, AgentIInv
  <2>8. CASE WaitHealthy \/ Snapshot
    BY <2>8, WaitHealthyIInv, SnapshotIInv
  <2>9. CASE StopKill \/ StopJoined
    BY <2>9, StopIInv
  <2> QED
    BY <1>1, <2>1, <2>2, <2>3, <2>4, <2>5, <2>6, <2>7, <2>8, <2>9 DEF Next
<1>2. CASE UNCHANGED vars
  <2> USE <1>2 DEF vars, engineVars, managerVars, IInv
  <2>1. TypeOK'
    <3>1. /\ phase' \in BeforeMarker \cup AfterMarker /\ healthy' \in BOOLEAN
          /\ pipe' \in [Engines -> Nat]
          /\ drain' \in [Engines -> {"none", "check", "read", "ended"}]
      BY DEF TypeOK
    <3> QED
      BY <3>1, TypeKept
  <2>2. HandleKnown'
    <3>1. (Alive' => Alive) /\ (epoch = None => phase' = "none")
      BY DEF Alive, HandleKnown
    <3> QED
      BY <3>1, HandleKept
  <2>3. MarkerIsLate' /\ BlockIsOwn'
    BY DEF MarkerIsLate, Marked, BlockIsOwn
  <2>4. SnapshotIsOwn'
    BY DEF SnapshotIsOwn, FreshAfterHealthy, SummaryComplete, HealthKnown
  <2> QED
    BY <2>1, <2>2, <2>3, <2>4
<1> QED
  BY <1>1, <1>2

LEMMA IInvHolds == Spec => []IInv
BY InitIInv, NextIInv, PTL DEF Spec

(* A script that comes to its end, or one Ctrl-C inside the try, in a stop *)
(* as well, leaves no engine: EngineManager.stop drops the handle after    *)
(* the process is gone, and the interpreter ends without a stop only when  *)
(* there is none (vibe_demo_agent.py:554, 559).  Not covered, because the  *)
(* engine survives there: a Ctrl-C inside Popen or in the last stop.       *)
THEOREM NoEngineLeft == Spec => []NoOrphan
<1>1. IInv => NoOrphan
  BY DEF IInv, HandleKnown, NoOrphan, Saved
<1> QED
  BY <1>1, IInvHolds, PTL

(* After a health check the sink reads the block of the engine just        *)
(* started (EngineManager._drain_pipe, TelemetrySink.snapshot).            *)
THEOREM TelemetryFresh == Spec => []FreshAfterHealthy
<1>1. IInv => FreshAfterHealthy
  BY DEF IInv, SnapshotIsOwn
<1> QED
  BY <1>1, IInvHolds, PTL

(* And the summary of a benchmark has all its I/Os, however long it is.    *)
THEOREM TelemetryComplete == Spec => []SummaryComplete
<1>1. IInv => SummaryComplete
  BY DEF IInv, SnapshotIsOwn
<1> QED
  BY <1>1, IInvHolds, PTL

-----------------------------------------------------------------------------
(* What stop and the engine itself wait for.                               *)

(* The join of stop waits for drain threads of the engine of the handle,   *)
(* which is dead, so that their pipe comes to an end, or were never        *)
(* started; the join of the engine waits for a device thread that was      *)
(* started and told to stop.                                               *)
StopsCanEnd ==
  /\ agent \in Joining => ~Alive /\ _proc \in Engines /\ _proc = epoch
  /\ phase = "join" => ~is_running /\ device \in {"loop", "ended"}

WithDevice == {"benchmark", "run", "pause", "open device", "fuse", "join"}

DeviceStarted ==
  /\ phase \in WithDevice => device \in {"loop", "ended"}
  /\ phase = "join" => ~is_running

LEMMA DeviceKept ==
  ASSUME DeviceStarted,
         \/ phase' \notin WithDevice
         \/ /\ phase \in WithDevice /\ device' = device
            /\ is_running' = is_running /\ (phase' = "join" => phase = "join")
         \/ device' \in {"loop", "ended"} /\ phase' # "join"
         \/ device' \in {"loop", "ended"} /\ ~is_running'
  PROVE  DeviceStarted'
<1>1. phase' \in WithDevice => device' \in {"loop", "ended"}
  BY DEF DeviceStarted
<1>2. phase' = "join" => ~is_running'
  BY Zenon DEF DeviceStarted, WithDevice
<1> QED
  BY <1>1, <1>2 DEF DeviceStarted

LEMMA NextDevice == DeviceStarted /\ [Next]_vars => DeviceStarted'
<1> SUFFICES ASSUME DeviceStarted, [Next]_vars PROVE DeviceStarted'
  OBVIOUS
<1> USE DEF Main
<1>1. CASE \/ SpdkReady \/ SpdkFails \/ NoSpdk \/ TruncateTelemetry \/ NoTelemetry
           \/ MapTelemetry \/ JoinDevice \/ TakeSignal \/ HandlerExits \/ StopKill
           \/ \E mode \in Modes : EngineStart(mode)
  <2>1. phase' \in {"init", "exited", "truncated", "telemetry done", "handler",
                    "killed", "boot"}
    BY <1>1 DEF SpdkReady, SpdkFails, NoSpdk, TruncateTelemetry, NoTelemetry, MapTelemetry,
                JoinDevice, TakeSignal, HandlerExits, StopKill, Killed, EngineStart
  <2> QED
    BY <2>1, DeviceKept DEF WithDevice
<1>2. CASE StartDevice
  BY <1>2, DeviceKept DEF StartDevice
<1>3. CASE \/ BenchmarkIo \/ BenchmarkDone \/ WaitForSignal \/ StartBypass \/ OpenDevice
           \/ Mount
  <2>1. /\ phase \in WithDevice /\ phase' # "join"
        /\ UNCHANGED <<device, is_running>>
    BY <1>3 DEF BenchmarkIo, BenchmarkDone, WaitForSignal, StartBypass, OpenDevice, Mount,
                WithDevice
  <2> QED
    BY <2>1, DeviceKept
<1>4. CASE OpenDeviceFails \/ FuseReturns
  <2>1. phase \in WithDevice /\ device' = device /\ ~is_running'
    BY <1>4 DEF OpenDeviceFails, FuseReturns, ShutDown, WithDevice
  <2> QED
    BY <2>1, DeviceKept DEF DeviceStarted
<1>5. CASE DeviceEnds
  BY <1>5, DeviceKept DEF DeviceEnds
<1>6. CASE \/ \E e \in Engines : DrainCheck(e) \/ DrainMarker(e) \/ DrainEof(e)
           \/ PopenReturns \/ StartDrains \/ StartRefused \/ WaitHealthy
           \/ SinkOpen \/ Snapshot \/ StopBegin \/ StopWaited \/ StopJoined
           \/ EndOfScript \/ FinishWithout \/ Interrupt \/ InterruptAtEnd
           \/ UNCHANGED vars
  <2>1. UNCHANGED <<phase, device, is_running>>
    BY <1>6 DEF DrainCheck, DrainMarker, DrainEof, Drain, PopenReturns, StartDrains,
                StartRefused, WaitHealthy, SinkOpen, Snapshot, StopBegin, StopWaited,
                StopJoined, EndOfScript, FinishWithout, Interrupt, InterruptAtEnd, vars,
                engineVars
  <2> QED
    BY <2>1 DEF DeviceStarted
<1> QED
  BY <1>1, <1>2, <1>3, <1>4, <1>5, <1>6 DEF Next

(* EngineManager.stop joins only threads that can end, with or without a   *)
(* SIGKILL, and so does main.cpp after fuse_main.                          *)
THEOREM StopJoinsCanEnd == Spec => []StopsCanEnd
<1>1. Init => DeviceStarted
  BY DEF Init, DeviceStarted, WithDevice
<1>2. ASSUME IInv, DeviceStarted PROVE StopsCanEnd
  <2>1. agent \in Joining => ~Alive /\ _proc # None /\ _proc = epoch
    BY <1>2 DEF IInv, HandleKnown
  <2>2. _proc # None => _proc \in Engines
    BY <1>2, Numbers DEF IInv, TypeOK
  <2>3. phase = "join" => ~is_running /\ device \in {"loop", "ended"}
    BY <1>2 DEF DeviceStarted, WithDevice
  <2> QED
    BY <2>1, <2>2, <2>3 DEF StopsCanEnd
<1> QED
  BY <1>1, <1>2, IInvHolds, NextDevice, PTL DEF Spec
=============================================================================
