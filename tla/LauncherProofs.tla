--------------------------- MODULE LauncherProofs ---------------------------
(***************************************************************************)
(* Proofs about Launcher for any number of runs, any set of ways to start  *)
(* one and any number of probes.                                           *)
(***************************************************************************)
EXTENDS Launcher, TLAPS

Drivers == {"nvme", "none", "vfio-pci", "uio_pci_generic"}
Trap == {"cleanup", "cleanup mounts", "ended"}
Taking == {"override", "unbind", "bind", "verify"}
EngineOut == {"probe", "bridge fio", "stop engine"}

TypeOK ==
  /\ driver \in Drivers
  /\ xMounted \in BOOLEAN /\ cMounted \in BOOLEAN
  /\ engine \in {"none", "forked", "running", "up"}
  /\ cfg \in Configs
  /\ pc \in BeforeTrap \cup UnderTrap \cup Trap
  /\ ENGINE_PID \in BOOLEAN /\ launchCut \in BOOLEAN
  /\ ORIGINAL_STAGE3_DRIVER \in {"", "nvme"}

(* What the script has done to the device is what its variable says.       *)
DriverRemembered ==
  /\ ORIGINAL_STAGE3_DRIVER # "" =>
       /\ pc \in Taking \cup {"bdevperf", "scorecard"} \cup Trap
       /\ cfg.STAGE3_DRIVER # "kernel"
       /\ driver \in {"nvme", "none", cfg.STAGE3_DRIVER}
  /\ ORIGINAL_STAGE3_DRIVER = "" => driver_override = "none"
  /\ pc \in Taking => ORIGINAL_STAGE3_DRIVER # ""
  /\ pc = "remember driver" => cfg.STAGE3_DRIVER # "kernel"

(* Where the script counts on the driver.                                  *)
DriverKnown ==
  /\ pc \in {"truncate", "sanitize", "mount", "baseline fio", "unmount", "setup",
             "remember driver"} => driver = "nvme"
  /\ pc = "bdevperf" =>
       driver = IF cfg.STAGE3_DRIVER = "kernel" THEN "nvme" ELSE "vfio-pci"
  /\ (pc \in {"cleanup mounts", "ended"} /\ ORIGINAL_STAGE3_DRIVER # "") =>
       driver = "nvme" /\ driver_override = "none"

(* The file system is mounted in stage 1 only, and the engine runs in      *)
(* stage 2 only, under a variable that says so, but for one moment.        *)
TiersApart ==
  /\ launchCut => pc \in Trap /\ ORIGINAL_STAGE3_DRIVER = ""
  /\ xMounted => pc \in {"baseline fio", "unmount", "cleanup", "cleanup mounts"}
  /\ (~launchCut /\ pc \notin EngineOut \cup {"pid", "cleanup"}) => engine = "none"
  /\ (~launchCut /\ pc \notin EngineOut \cup {"pid", "cleanup", "cleanup mounts"})
       => ~cMounted
  /\ pc \in EngineOut => ENGINE_PID
  /\ (pc = "cleanup" /\ ~launchCut /\ engine # "none") => ENGINE_PID /\ ~xMounted
  /\ ORIGINAL_STAGE3_DRIVER # "" => engine = "none" /\ ~xMounted

IInv ==
  /\ TypeOK
  /\ DriverRemembered
  /\ DriverKnown
  /\ TiersApart

-----------------------------------------------------------------------------
LEMMA ConfigTypes ==
  \A c \in Configs : c.STAGE3_DRIVER \in {"kernel", "vfio-pci", "uio_pci_generic"}
BY LauncherAssumption

LEMMA InitIInv == Init => IInv
BY DEF Init, IInv, TypeOK, DriverRemembered, DriverKnown, TiersApart, Drivers,
       Trap, Taking, EngineOut

(* The arguments, the checks, and the start of a run that finds what the   *)
(* trap of the one before has left.                                        *)
LEMMA BeforeTrapIInv ==
  ASSUME IInv, (\E c \in Configs : Start(c)) \/ Arguments \/ Checks
  PROVE  IInv'
<1> USE DEF IInv, TypeOK, DriverRemembered, DriverKnown, TiersApart, Drivers,
            Trap, Taking, EngineOut, machine, script, Goto, ExitWith,
            HasBlockDevice, BeforeTrap, UnderTrap
<1>1. CASE \E c \in Configs : Start(c)
  <2>1. PICK c \in Configs : Start(c)
    BY <1>1
  <2> QED
    BY <2>1 DEF Start
<1>2. CASE Arguments
  <2>1. CASE Goto("arguments", "checks") /\ UNCHANGED script
    BY <1>2, <2>1 DEF Arguments
  <2>2. CASE ExitWith("arguments", "ended", 1)
    BY <1>2, <2>2 DEF Arguments
  <2> QED
    BY <1>2, <2>1, <2>2 DEF Arguments
<1>3. CASE Checks
  <2>1. CASE HasBlockDevice /\ Goto("checks", "truncate") /\ UNCHANGED script
    BY <1>3, <2>1 DEF Checks
  <2>2. CASE ExitWith("checks", "ended", 1)
    BY <1>3, <2>2 DEF Checks
  <2> QED
    BY <1>3, <2>1, <2>2 DEF Checks
<1> QED
  BY <1>1, <1>2, <1>3

LEMMA Stage1IInv ==
  ASSUME IInv, Truncate \/ Sanitize \/ Mount \/ BaselineFio \/ Unmount
  PROVE  IInv'
<1> USE DEF IInv, TypeOK, DriverRemembered, DriverKnown, TiersApart, Drivers,
            Trap, Taking, EngineOut, machine, script, Goto, ExitWith,
            SetupReset, BeforeTrap, UnderTrap
<1>1. CASE Truncate
  BY <1>1 DEF Truncate
<1>2. CASE Sanitize
  BY <1>2 DEF Sanitize
<1>3. CASE Mount
  BY <1>3 DEF Mount
<1>4. CASE BaselineFio
  BY <1>4 DEF BaselineFio
<1>5. CASE Unmount
  <2>1. CASE ExitWith("unmount", "cleanup", 0)
    BY <1>5, <2>1 DEF Unmount, Unmounted
  <2>2. CASE Goto("unmount", "setup") /\ UNCHANGED script
    BY <1>5, <2>2 DEF Unmount, Unmounted
  <2> QED
    BY <1>5, <2>1, <2>2 DEF Unmount
<1> QED
  BY <1>1, <1>2, <1>3, <1>4, <1>5

LEMMA Stage2IInv ==
  ASSUME IInv,
         \/ SetupConfig \/ LaunchEngine \/ RecordPid
         \/ ProbeAnswers \/ ProbeFails \/ ProbeGivesUp \/ BridgeFio
         \/ StopEngine \/ ResetBindings
  PROVE  IInv'
<1> USE DEF IInv, TypeOK, DriverRemembered, DriverKnown, TiersApart, Drivers,
            Trap, Taking, EngineOut, machine, script, Goto, ExitWith,
            SetupReset, BeforeTrap, UnderTrap
<1>1. CASE SetupConfig
  BY <1>1 DEF SetupConfig
<1>2. CASE LaunchEngine
  BY <1>2 DEF LaunchEngine
<1>3. CASE RecordPid
  BY <1>3 DEF RecordPid
<1>4. CASE ProbeAnswers
  BY <1>4 DEF ProbeAnswers
<1>5. CASE ProbeFails
  BY <1>5 DEF ProbeFails
<1>6. CASE ProbeGivesUp
  BY <1>6 DEF ProbeGivesUp
<1>7. CASE BridgeFio
  BY <1>7 DEF BridgeFio
<1>8. CASE StopEngine
  BY <1>8 DEF StopEngine, AfterKill, AfterPkill
<1>9. CASE ResetBindings
  BY <1>9 DEF ResetBindings
<1> QED
  BY <1>1, <1>2, <1>3, <1>4, <1>5, <1>6, <1>7, <1>8, <1>9

(* The device is touched only after its driver is remembered.              *)
LEMMA Stage3IInv ==
  ASSUME IInv,
         \/ Gate \/ RememberDriver \/ OverrideDriver \/ Unbind \/ Bind
         \/ Verify \/ AttachFails \/ Bdevperf \/ PrintScorecard
  PROVE  IInv'
<1> USE ConfigTypes
    DEF IInv, TypeOK, DriverRemembered, DriverKnown, TiersApart, Drivers,
        Trap, Taking, EngineOut, machine, script, Goto, ExitWith,
        HasBlockDevice, BeforeTrap, UnderTrap
<1>1. CASE Gate
  BY <1>1 DEF Gate
<1>2. CASE RememberDriver
  BY <1>2 DEF RememberDriver
<1>3. CASE OverrideDriver
  BY <1>3 DEF OverrideDriver
<1>4. CASE Unbind
  BY <1>4 DEF Unbind
<1>5. CASE Bind
  BY <1>5 DEF Bind
<1>6. CASE Verify
  <2>1. CASE driver = "vfio-pci" /\ Goto("verify", "bdevperf") /\ UNCHANGED script
    BY <1>6, <2>1 DEF Verify
  <2>2. CASE ExitWith("verify", "cleanup", 1)
    BY <1>6, <2>2 DEF Verify
  <2> QED
    BY <1>6, <2>1, <2>2 DEF Verify
<1>7. CASE AttachFails
  BY <1>7 DEF AttachFails, Restore, OverrideCleared
<1>8. CASE Bdevperf
  BY <1>8 DEF Bdevperf
<1>9. CASE PrintScorecard
  BY <1>9 DEF PrintScorecard
<1> QED
  BY <1>1, <1>2, <1>3, <1>4, <1>5, <1>6, <1>7, <1>8, <1>9

(* A failure or an interrupt at any command, and what the trap does then.  *)
LEMMA TrapIInv ==
  ASSUME IInv, Abort \/ CleanupDevice \/ CleanupMounts
  PROVE  IInv'
<1> USE ConfigTypes
    DEF IInv, TypeOK, DriverRemembered, DriverKnown, TiersApart, Drivers,
        Trap, Taking, EngineOut, machine, script, Goto, BeforeTrap, UnderTrap
<1>1. CASE Abort
  <2>1. TypeOK'
    BY <1>1 DEF Abort
  <2>2. DriverRemembered'
    BY <1>1 DEF Abort
  <2>3. DriverKnown'
    BY <1>1 DEF Abort
  <2>4. TiersApart'
    BY <1>1 DEF Abort
  <2> QED
    BY <2>1, <2>2, <2>3, <2>4
<1>2. CASE CleanupDevice
  BY <1>2 DEF CleanupDevice, AfterKill, Restore, OverrideCleared
<1>3. CASE CleanupMounts
  BY <1>3 DEF CleanupMounts, AfterPkill
<1> QED
  BY <1>1, <1>2, <1>3

LEMMA EngineIInv ==
  ASSUME IInv, EngineExecs \/ EngineMounts \/ EngineDies
  PROVE  IInv'
<1> USE DEF IInv, TypeOK, DriverRemembered, DriverKnown, TiersApart, Drivers,
            Trap, Taking, EngineOut, script, EngineStep, BeforeTrap, UnderTrap
<1>1. CASE EngineExecs
  <2>1. TypeOK' /\ DriverRemembered' /\ DriverKnown'
    BY <1>1 DEF EngineExecs
  <2>2. TiersApart'
    BY <1>1 DEF EngineExecs
  <2> QED
    BY <2>1, <2>2
<1>2. CASE EngineMounts
  <2>1. TypeOK' /\ DriverRemembered' /\ DriverKnown'
    BY <1>2 DEF EngineMounts
  <2>2. TiersApart'
    BY <1>2 DEF EngineMounts
  <2> QED
    BY <2>1, <2>2
<1>3. CASE EngineDies
  <2>1. TypeOK' /\ DriverRemembered' /\ DriverKnown'
    BY <1>3, ZenonT(30) DEF EngineDies
  <2>2. /\ engine' = "none" /\ (cMounted' => cMounted)
        /\ UNCHANGED <<xMounted, launchCut, ENGINE_PID, ORIGINAL_STAGE3_DRIVER, pc>>
    <3> HIDE DEF IInv, TypeOK, DriverRemembered, DriverKnown, TiersApart
    <3>1. engine' = "none" /\ cMounted' \in {FALSE, cMounted}
      BY <1>3 DEF EngineDies
    <3>2. UNCHANGED <<xMounted, launchCut, ENGINE_PID, ORIGINAL_STAGE3_DRIVER, pc>>
      BY <1>3 DEF EngineDies
    <3>3. CASE cMounted' = FALSE
      BY <3>1, <3>2, <3>3
    <3>4. CASE cMounted' = cMounted
      <4>1. cMounted' => cMounted
        BY ONLY <3>4
      <4> QED
        BY <3>1, <3>2, <4>1, Zenon
    <3> QED
      BY <3>1, <3>3, <3>4, Zenon
  <2>3. TiersApart'
    BY <2>2, ZenonT(30)
  <2> QED
    BY <2>1, <2>3
<1> QED
  BY <1>1, <1>2, <1>3

LEMMA NextIInv == IInv /\ [Next]_vars => IInv'
<1> SUFFICES ASSUME IInv, [Next]_vars PROVE IInv'
  OBVIOUS
<1>1. CASE Next
  BY <1>1, BeforeTrapIInv, Stage1IInv, Stage2IInv, Stage3IInv, TrapIInv,
     EngineIInv, Zenon DEF Next, Script
<1>2. CASE UNCHANGED vars
  <2> USE <1>2 DEF vars, machine, script, IInv
  <2>1. TypeOK'
    BY DEF TypeOK
  <2>2. DriverRemembered'
    BY DEF DriverRemembered
  <2>3. DriverKnown'
    BY DEF DriverKnown
  <2>4. TiersApart'
    BY DEF TiersApart
  <2> QED
    BY <2>1, <2>2, <2>3, <2>4
<1> QED
  BY <1>1, <1>2

LEMMA IInvHolds == Spec => []IInv
BY InitIInv, NextIInv, PTL DEF Spec

-----------------------------------------------------------------------------
(* However a run ends, a device it took from the kernel driver is given    *)
(* back (restore_stage3_driver, in the trap and before it).                *)
THEOREM GivesDeviceBack == Spec => []DeviceGivenBack
<1>1. IInv => DeviceGivenBack
  BY DEF IInv, DriverKnown, DeviceGivenBack
<1> QED
  BY <1>1, IInvHolds, PTL

(* The trap (cleanup) leaves neither engine nor mounts behind, but when it *)
(* was cut off between the fork of the engine and ENGINE_PID=$!.           *)
THEOREM CleansUp == Spec => []CleanupComplete
<1>1. IInv => CleanupComplete
  BY DEF IInv, TiersApart, EngineOut, CleanupComplete
<1> QED
  BY <1>1, IInvHolds, PTL

(* The driver changes hands only when no tier has the device.              *)
LEMMA DriverStep ==
  IInv /\ [Next]_vars =>
    [driver' # driver => ~xMounted /\ engine' \notin {"running", "up"}]_vars
<1> SUFFICES ASSUME IInv, Next, driver' # driver
             PROVE  ~xMounted /\ engine' \notin {"running", "up"}
  OBVIOUS
<1> USE DEF IInv, TypeOK, TiersApart, DriverKnown, EngineOut, Trap, machine, Goto
<1>1. CASE Sanitize \/ SetupConfig \/ ResetBindings
  BY <1>1 DEF Sanitize, SetupConfig, ResetBindings, SetupReset
<1>2. CASE Unbind \/ Bind
  BY <1>2 DEF Unbind, Bind
<1>3. CASE AttachFails \/ CleanupDevice
  BY <1>3 DEF AttachFails, CleanupDevice, Restore, AfterKill, ExitWith
<1>4. CASE EngineExecs \/ EngineMounts \/ EngineDies
  BY <1>4 DEF EngineExecs, EngineMounts, EngineDies, EngineStep
<1>5. CASE \E c \in Configs : Start(c)
  BY <1>5 DEF Start
<1>6. CASE \/ Arguments \/ Checks \/ Truncate \/ Mount \/ BaselineFio \/ Unmount
           \/ LaunchEngine \/ RecordPid \/ ProbeAnswers \/ ProbeFails
           \/ ProbeGivesUp \/ BridgeFio \/ StopEngine
  BY <1>6 DEF Arguments, Checks, Truncate, Mount, BaselineFio, Unmount,
              LaunchEngine, RecordPid, ProbeAnswers, ProbeFails, ProbeGivesUp,
              BridgeFio, StopEngine
<1>7. CASE \/ Gate \/ RememberDriver \/ OverrideDriver \/ Verify \/ Bdevperf
           \/ PrintScorecard \/ Abort \/ CleanupMounts
  BY <1>7 DEF Gate, RememberDriver, OverrideDriver, Verify, Bdevperf,
              PrintScorecard, Abort, CleanupMounts
<1> QED
  BY <1>1, <1>2, <1>3, <1>4, <1>5, <1>6, <1>7, Zenon DEF Next, Script

(* The tiers of the demonstration never share the device.                  *)
THEOREM TiersDoNotShare == Spec => DeviceNotShared
<1>1. IInv => OneTier
  BY DEF IInv, TypeOK, DriverRemembered, DriverKnown, TiersApart, EngineOut, Trap,
         OneTier
<1> QED
  BY <1>1, IInvHolds, DriverStep, PTL DEF Spec, DeviceNotShared
=============================================================================
