------------------------------ MODULE Launcher ------------------------------
(***************************************************************************)
(* The deterministic launcher (launch_arm_neoverse_demo_deterministic.sh). *)
(* A run takes one NVMe device through a mounted file system, a FUSE       *)
(* bridge served by the engine, and a user-space PCI driver, and cleans up *)
(* in an EXIT trap.  Scorecard.tla has the result files it writes.         *)
(*                                                                         *)
(* The script stops at the first command that fails (set -e), and the user *)
(* may interrupt it between any two commands: both are Abort.  The engine  *)
(* runs in the background and may die at any time.  The machine    *)
(* survives a run and is found by the next as it was left.                 *)
(***************************************************************************)
EXTENDS Integers

CONSTANTS
  Configs,     (* the ways to start a run: records, see the assumption     *)
  PROBES,      (* attempts of the readiness probe, 30 in the code          *)
  MaxRuns      (* bound of the model on the number of runs                 *)

(* A run is started with DEMO_MAX_STAGE, STAGE3_DRIVER, and SPDK (setup.sh *)
(* and bdevperf) installed or not.                                         *)
ASSUME LauncherAssumption ==
  /\ \A c \in Configs :
       /\ c.SPDK_SETUP \in BOOLEAN
       /\ c.DEMO_MAX_STAGE \in {"unset", "1", "3"}
       /\ c.STAGE3_DRIVER \in {"kernel", "vfio-pci", "uio_pci_generic"}
  /\ PROBES \in Nat \ {0}
  /\ MaxRuns \in Nat

VARIABLES
  driver, driver_override,  (* of the device, in sysfs                     *)
  xMounted, cMounted,       (* file system and FUSE mount                  *)
  engine,                   (* the engine process                          *)
  run, cfg,                 (* number and configuration of the last run    *)
  pc, tries, status,        (* the script: place, probes made, exit status *)
  ENGINE_PID,               (* is the variable set?                        *)
  ORIGINAL_STAGE3_DRIVER,
  aborted,                  (* a command failed or the user interrupted    *)
  launchCut                 (* ... between the fork and ENGINE_PID=$!      *)

machine == <<driver, driver_override, xMounted, cMounted, engine>>
script == <<run, cfg, tries, status, ENGINE_PID, ORIGINAL_STAGE3_DRIVER,
            aborted, launchCut>>
vars == <<machine, script, pc>>

Init ==
  /\ driver = "nvme" /\ driver_override = "none"
  /\ xMounted = FALSE /\ cMounted = FALSE
  /\ engine = "none"
  /\ run = 0
  /\ cfg \in Configs
  /\ pc = "ended" /\ tries = 0 /\ status = 1
  /\ ENGINE_PID = FALSE
  /\ ORIGINAL_STAGE3_DRIVER = ""
  /\ aborted = FALSE /\ launchCut = FALSE

Goto(from, to) ==
  /\ pc = from
  /\ pc' = to

(* The script ends with the status: the trap runs if it is set.            *)
ExitWith(from, to, s) ==
  /\ Goto(from, to)
  /\ status' = s
  /\ UNCHANGED <<run, cfg, tries, ENGINE_PID, ORIGINAL_STAGE3_DRIVER, aborted,
                 launchCut>>

-----------------------------------------------------------------------------
(* Before the trap is set: arguments, checks, the search for SPDK.         *)
Start(c) ==
  /\ pc = "ended"
  /\ ~launchCut
  /\ run < MaxRuns
  /\ pc' = "arguments"
  /\ run' = run + 1
  /\ cfg' = c
  /\ tries' = 0 /\ status' = 1
  /\ ENGINE_PID' = FALSE /\ ORIGINAL_STAGE3_DRIVER' = ""
  /\ aborted' = FALSE /\ launchCut' = FALSE
  /\ UNCHANGED machine

(* The echo of $DEMO_MAX_STAGE under set -u.                               *)
Arguments ==
  /\ \/ cfg.DEMO_MAX_STAGE # "unset" /\ Goto("arguments", "checks") /\ UNCHANGED script
     \/ cfg.DEMO_MAX_STAGE = "unset" /\ ExitWith("arguments", "ended", 1)
  /\ UNCHANGED machine

(* assert_safe_device refuses a device that has no block device node.      *)
HasBlockDevice == driver = "nvme"

Checks ==
  /\ \/ HasBlockDevice /\ Goto("checks", "truncate") /\ UNCHANGED script
     \/ ~HasBlockDevice /\ ExitWith("checks", "ended", 1)
  /\ UNCHANGED machine

-----------------------------------------------------------------------------
(* Stages 0 and 1.                                                         *)

(* The logs and the result files are emptied.                              *)
Truncate ==
  /\ Goto("truncate", "sanitize")
  /\ UNCHANGED <<machine, script>>

(* setup.sh reset gives the device back to the kernel driver.              *)
SetupReset ==
  /\ driver' = IF cfg.SPDK_SETUP THEN "nvme" ELSE driver
  /\ UNCHANGED <<driver_override, xMounted, cMounted, engine>>

Sanitize ==
  /\ Goto("sanitize", "mount")
  /\ SetupReset
  /\ UNCHANGED script

Mount ==
  /\ Goto("mount", "baseline fio")
  /\ xMounted' = TRUE
  /\ UNCHANGED <<driver, driver_override, cMounted, engine, script>>

BaselineFio ==
  /\ Goto("baseline fio", "unmount")
  /\ UNCHANGED <<machine, script>>

UnmountedNot == xMounted
Unmounted == FALSE

Unmount ==
  /\ \/ cfg.DEMO_MAX_STAGE = "1" /\ ExitWith("unmount", "cleanup", 0)
     \/ cfg.DEMO_MAX_STAGE # "1" /\ Goto("unmount", "setup") /\ UNCHANGED script
  /\ xMounted' = Unmounted
  /\ UNCHANGED <<driver, driver_override, cMounted, engine>>

-----------------------------------------------------------------------------
(* Stage 2.                                                                *)

(* setup.sh allocates huge pages and may take the device for a user-space  *)
(* driver while it is at it.                                               *)
SetupConfig ==
  /\ Goto("setup", "launch")
  /\ driver' \in IF cfg.SPDK_SETUP THEN {driver, "vfio-pci"} ELSE {driver}
  /\ UNCHANGED <<driver_override, xMounted, cMounted, engine, script>>

LaunchEngine ==
  /\ Goto("launch", "pid")
  /\ engine' = "forked"
  /\ UNCHANGED <<driver, driver_override, xMounted, cMounted, script>>

RecordPid ==
  /\ Goto("pid", "probe")
  /\ ENGINE_PID' = TRUE
  /\ UNCHANGED <<machine, run, cfg, tries, status,
                 ORIGINAL_STAGE3_DRIVER, aborted, launchCut>>

(* One attempt at nvme_raw_0; it may also time out on a bridge that is up. *)
ProbeAnswers ==
  /\ engine = "up"
  /\ Goto("probe", "bridge fio")
  /\ UNCHANGED <<machine, script>>

ProbeFails ==
  /\ tries < PROBES
  /\ Goto("probe", "probe")
  /\ tries' = tries + 1
  /\ UNCHANGED <<machine, run, cfg, status, ENGINE_PID,
                 ORIGINAL_STAGE3_DRIVER, aborted, launchCut>>

ProbeGivesUp ==
  /\ tries = PROBES
  /\ ExitWith("probe", "cleanup", 1)
  /\ UNCHANGED machine

BridgeFio ==
  /\ engine = "up"
  /\ Goto("bridge fio", "stop engine")
  /\ UNCHANGED <<machine, script>>

(* kill -TERM and wait, then pkill -9 -x dataplane-emu, whose name the     *)
(* process has only after exec; then umount.                               *)
AfterPkill(e) == IF e \in {"running", "up"} THEN "none" ELSE e
AfterKillNothing(e) == e
AfterKill(e) == IF ENGINE_PID THEN "none" ELSE e

StopEngine ==
  /\ Goto("stop engine", "reset")
  /\ engine' = AfterPkill(AfterKill(engine))
  /\ ENGINE_PID' = FALSE
  /\ cMounted' = FALSE
  /\ UNCHANGED <<driver, driver_override, xMounted, run, cfg, tries,
                 status, ORIGINAL_STAGE3_DRIVER, aborted, launchCut>>

ResetBindings ==
  /\ Goto("reset", "gate")
  /\ SetupReset
  /\ UNCHANGED script

-----------------------------------------------------------------------------
(* Stage 3.                                                                *)

(* The block device is waited for; then stage 3 is skipped without SPDK,   *)
(* uses the block device (bdev_uring), or takes the device from the kernel.*)
Gate ==
  /\ HasBlockDevice
  /\ Goto("gate", IF ~cfg.SPDK_SETUP THEN "scorecard"
                  ELSE IF cfg.STAGE3_DRIVER = "kernel" THEN "bdevperf"
                  ELSE "remember driver")
  /\ UNCHANGED <<machine, script>>

(* ensure_userspace_stage3_driver: the driver to restore is remembered     *)
(* before anything is touched.  Its early return for a user-space driver   *)
(* is never taken: behind Gate the driver is the kernel's.                 *)
RememberDriver ==
  /\ Goto("remember driver", "override")
  /\ ORIGINAL_STAGE3_DRIVER' = driver
  /\ UNCHANGED <<machine, run, cfg, tries, status, ENGINE_PID,
                 aborted, launchCut>>

OverrideDriver ==
  /\ Goto("override", "unbind")
  /\ driver_override' = cfg.STAGE3_DRIVER
  /\ UNCHANGED <<driver, xMounted, cMounted, engine, script>>

Unbind ==
  /\ Goto("unbind", "bind")
  /\ driver' = "none"
  /\ UNCHANGED <<driver_override, xMounted, cMounted, engine, script>>

(* bind, and drivers_probe if that failed; either may fail quietly.        *)
Bind ==
  /\ Goto("bind", "verify")
  /\ driver' \in {cfg.STAGE3_DRIVER, "none"}
  /\ UNCHANGED <<driver_override, xMounted, cMounted, engine, script>>

(* restore_stage3_driver: clear the override, unbind, bind the original.   *)
(* With an override left, the bind would be refused.                       *)
OverrideKept == driver_override
OverrideCleared == "none"

Restore ==
  IF ORIGINAL_STAGE3_DRIVER = ""
  THEN UNCHANGED <<driver, driver_override>>
  ELSE /\ driver_override' = OverrideCleared
       /\ driver' = IF driver \notin {cfg.STAGE3_DRIVER, "none"} THEN driver
                    ELSE IF driver_override' = "none" THEN ORIGINAL_STAGE3_DRIVER
                    ELSE "none"

(* The attach is verified, and then that the driver is vfio-pci.           *)
Verify ==
  /\ driver = cfg.STAGE3_DRIVER
  /\ \/ driver = "vfio-pci" /\ Goto("verify", "bdevperf") /\ UNCHANGED script
     \/ driver # "vfio-pci" /\ ExitWith("verify", "cleanup", 1)
  /\ UNCHANGED machine

AttachFails ==
  /\ driver # cfg.STAGE3_DRIVER
  /\ ExitWith("verify", "cleanup", 1)
  /\ Restore
  /\ UNCHANGED <<xMounted, cMounted, engine>>

Bdevperf ==
  /\ Goto("bdevperf", "scorecard")
  /\ UNCHANGED <<machine, script>>

PrintScorecard ==
  /\ ExitWith("scorecard", "cleanup", 0)
  /\ UNCHANGED machine

-----------------------------------------------------------------------------
(* The trap.  A second interrupt while it runs is not modelled.            *)
BeforeTrap == {"arguments", "checks"}
UnderTrap == {"truncate", "sanitize", "mount", "baseline fio", "unmount", "setup",
              "launch", "pid", "probe", "bridge fio", "stop engine", "reset",
              "gate", "remember driver", "override", "unbind", "bind", "verify",
              "bdevperf", "scorecard"}

Abort ==
  /\ pc \in BeforeTrap \cup UnderTrap
  /\ pc' = IF pc \in UnderTrap THEN "cleanup" ELSE "ended"
  /\ status' = 1
  /\ aborted' = TRUE
  /\ launchCut' = (pc = "pid")
  /\ UNCHANGED <<machine, run, cfg, tries, ENGINE_PID,
                 ORIGINAL_STAGE3_DRIVER>>

CleanupDevice ==
  /\ Goto("cleanup", "cleanup mounts")
  /\ engine' = AfterKill(engine)
  /\ Restore
  /\ UNCHANGED <<xMounted, cMounted, script>>

CleanupMounts ==
  /\ Goto("cleanup mounts", "ended")
  /\ engine' = AfterPkill(engine)
  /\ cMounted' = FALSE
  /\ xMounted' = FALSE
  /\ UNCHANGED <<driver, driver_override, script>>

-----------------------------------------------------------------------------
(* The engine: exec, open of the block device and mount, the end.  When it *)
(* is killed the mount stays.                                              *)
EngineStep ==
  UNCHANGED <<driver, driver_override, xMounted, script, pc>>

EngineExecs ==
  /\ engine = "forked"
  /\ engine' = "running"
  /\ UNCHANGED cMounted
  /\ EngineStep

EngineMounts ==
  /\ engine = "running"
  /\ HasBlockDevice
  /\ engine' = "up"
  /\ cMounted' = TRUE
  /\ EngineStep

EngineDies ==
  /\ engine # "none"
  /\ engine' = "none"
  /\ cMounted' \in {FALSE, cMounted}
  /\ EngineStep

-----------------------------------------------------------------------------
Script ==
  \/ Arguments \/ Checks
  \/ Truncate \/ Sanitize \/ Mount \/ BaselineFio \/ Unmount
  \/ SetupConfig \/ LaunchEngine \/ RecordPid
  \/ ProbeAnswers \/ ProbeFails \/ ProbeGivesUp \/ BridgeFio
  \/ StopEngine \/ ResetBindings
  \/ Gate \/ RememberDriver \/ OverrideDriver \/ Unbind \/ Bind
  \/ Verify \/ AttachFails \/ Bdevperf \/ PrintScorecard
  \/ Abort \/ CleanupDevice \/ CleanupMounts

Next ==
  \/ \E c \in Configs : Start(c)
  \/ Script
  \/ EngineExecs \/ EngineMounts \/ EngineDies

Spec == Init /\ [][Next]_vars

-----------------------------------------------------------------------------
(* Properties.                                                             *)

(* A run that took the device from the kernel driver for stage 3 gives it  *)
(* back, however it ends: interrupted between unbind and bind, refused by  *)
(* the new driver, failed in bdevperf, or after the attach check itself    *)
(* has already restored it.                                                *)
DeviceGivenBack ==
  (pc = "ended" /\ ORIGINAL_STAGE3_DRIVER # "") =>
    driver = "nvme" /\ driver_override = "none"

(* The trap leaves neither engine nor mounts behind, wherever the run was  *)
(* cut.  One moment is excepted, because there the property fails: between *)
(* the fork of the engine and the assignment of ENGINE_PID neither kill    *)
(* nor pkill finds a process that has not reached exec.                    *)
CleanupComplete ==
  (pc = "ended" /\ ~launchCut) =>
    engine = "none" /\ ~xMounted /\ ~cMounted

(* The three tiers never share the device: no benchmark runs while another *)
(* one's mount or engine is alive, each runs on its own driver, and the    *)
(* device never changes its driver under a mounted file system or a        *)
(* running bridge, in the clean-up as little as between the stages.        *)
OneTier ==
  /\ pc = "baseline fio" => driver = "nvme" /\ engine = "none" /\ ~cMounted
  /\ engine # "none" /\ ~launchCut => ~xMounted
  /\ pc = "bdevperf" =>
       /\ engine = "none" /\ ~cMounted /\ ~xMounted
       /\ driver = IF cfg.STAGE3_DRIVER = "kernel" THEN "nvme" ELSE "vfio-pci"

DeviceNotShared ==
  /\ []OneTier
  /\ [][driver' # driver => ~xMounted /\ engine' \notin {"running", "up"}]_vars
=============================================================================
