------------------------------- MODULE Probe -------------------------------
(***************************************************************************)
(* measure_xfs_latency_us (vibe_demo_agent/telemetry_sink.py): a loopback  *)
(* image is attached, formatted, mounted and read, and taken down again in *)
(* a finally block.  Commands run under sudo with a time limit: one that   *)
(* fails or is cut off may have had its effect all the same.  Leftovers of *)
(* one call are found by the next; a call is named by its number.          *)
(***************************************************************************)
EXTENDS Naturals, Sequences

CONSTANT MaxCalls    (* bound of the model on the calls made               *)
ASSUME CallsAssumption == MaxCalls \in Nat \ {0}

VARIABLES
  probe,             (* place in the call                                  *)
  call,              (* its number                                         *)
  loop_dev,          (* the variable: the call whose device it names, or 0 *)
  image, directory,  (* the image file and the mount point                 *)
  loops, autoclear,  (* attached loop devices; those freed with the mount  *)
  mounts,            (* file systems on the mount point, the last on top   *)
  latency,           (* what the returned number measures                  *)
  raising,           (* is KeyboardInterrupt on its way out?               *)
  excused            (* reasons why something may be left behind (history) *)

probeVars == <<probe, call, loop_dev, image, directory, loops, autoclear,
               mounts, latency, raising, excused>>

Setup == <<"image", "losetup", "mkfs", "mount", "chmod", "populate",
           "drop_caches", "read">>
SetupSteps == {Setup[i] : i \in DOMAIN Setup}
Teardown == {"umount", "detach", "unlink", "rmdir"}
After(step) ==
  LET i == CHOOSE k \in DOMAIN Setup : Setup[k] = step
  IN  IF i = Len(Setup) THEN "umount" ELSE Setup[i + 1]

ProbeInit ==
  /\ probe = "idle" /\ call = 0 /\ loop_dev = 0
  /\ image = FALSE /\ directory = FALSE
  /\ loops = {} /\ autoclear = {} /\ mounts = <<>>
  /\ latency = "none" /\ raising = FALSE /\ excused = {}

(* Without mkfs.xfs nothing is set up, and nothing torn down.              *)
ProbeBegin ==
  /\ probe = "idle" /\ call < MaxCalls
  /\ probe' \in {"image", "no_xfs"}
  /\ call' = call + 1
  /\ loop_dev' = 0 /\ latency' = "none" /\ raising' = FALSE
  /\ UNCHANGED <<image, directory, loops, autoclear, mounts, excused>>

(* What the command of a step does to the machine.                         *)
Effect(step) ==
  /\ image' = (image \/ step = "image")
  /\ loops' = IF step = "losetup" THEN loops \cup {call} ELSE loops
  /\ directory' = (directory \/ step = "mount")
  /\ mounts' = IF step = "mount" THEN Append(mounts, call) ELSE mounts

NoEffect == UNCHANGED <<image, loops, directory, mounts>>

StepWorks ==
  /\ probe \in SetupSteps
  /\ Effect(probe)
  /\ probe' = After(probe)
  /\ loop_dev' = IF probe = "losetup" THEN call ELSE loop_dev
  /\ latency' = IF probe = "read" THEN "xfs" ELSE latency
  /\ UNCHANGED <<call, autoclear, raising, excused>>

(* check=True or the time limit raises.  A device that losetup attached    *)
(* without saying so is not known to the teardown.                         *)
AfterFailureMounted(step) == IF step = "mount" THEN "chmod" ELSE "fallback"
AfterFailure(step) == "fallback"

StepFails ==
  /\ probe \in SetupSteps
  /\ probe' = AfterFailure(probe)
  /\ \/ Effect(probe) /\ excused' = excused \cup ({probe} \cap {"losetup"})
     \/ NoEffect /\ UNCHANGED excused
  /\ UNCHANGED <<call, loop_dev, autoclear, latency, raising>>

(* measure_kernel_latency_us: dd through the VFS.  Its exit status is not  *)
(* looked at, so a dd that failed at once passes for a fast one; 14.0 is   *)
(* returned only for an exception.                                         *)
Fallback ==
  /\ probe \in {"fallback", "no_xfs"}
  /\ latency' \in {"vfs", "failed_dd", "guess"}
  /\ probe' = IF probe = "fallback" THEN "umount" ELSE "returned"
  /\ UNCHANGED <<call, loop_dev, image, directory, loops, autoclear, mounts,
                 raising, excused>>

-----------------------------------------------------------------------------
(* finally: each command may fail, and the next one is tried all the same. *)
Mounted(c) == \E i \in DOMAIN mounts : mounts[i] = c

UmountOnSuccess == mounts # <<>> /\ latency = "xfs"
Umounts == mounts # <<>>

Umount ==
  /\ probe = "umount"
  /\ probe' = "detach"
  /\ \/ /\ Umounts
        /\ mounts' = SubSeq(mounts, 1, Len(mounts) - 1)
        /\ loops' = loops \ (autoclear \cap {mounts[Len(mounts)]})
        /\ UNCHANGED excused
     \/ /\ ~Umounts
        /\ UNCHANGED <<mounts, loops, excused>>
     \/ /\ Umounts
        /\ excused' = excused \cup {"umount"}
        /\ UNCHANGED <<mounts, loops>>
  /\ UNCHANGED <<call, loop_dev, image, directory, autoclear, latency, raising>>

(* losetup -d of a device in use frees it with the last mount.             *)
Detach ==
  /\ probe = "detach"
  /\ probe' = "unlink"
  /\ \/ /\ loop_dev # 0
        /\ loops' = IF Mounted(loop_dev) THEN loops ELSE loops \ {loop_dev}
        /\ autoclear' = IF Mounted(loop_dev) THEN autoclear \cup {loop_dev}
                                              ELSE autoclear
        /\ UNCHANGED excused
     \/ /\ loop_dev # 0
        /\ excused' = excused \cup {"detach"}
        /\ UNCHANGED <<loops, autoclear>>
     \/ /\ loop_dev = 0
        /\ UNCHANGED <<loops, autoclear, excused>>
  /\ UNCHANGED <<call, loop_dev, image, directory, mounts, latency, raising>>

Unlink ==
  /\ probe = "unlink"
  /\ probe' = "rmdir"
  /\ image' = FALSE
  /\ UNCHANGED <<call, loop_dev, directory, loops, autoclear, mounts, latency,
                 raising, excused>>

(* The directory stays while something is mounted on it.                   *)
Rmdir ==
  /\ probe = "rmdir"
  /\ probe' = IF raising THEN "raised" ELSE "returned"
  /\ directory' = (directory /\ mounts # <<>>)
  /\ UNCHANGED <<call, loop_dev, image, loops, autoclear, mounts, latency,
                 raising, excused>>

ProbeStep ==
  StepWorks \/ StepFails \/ Fallback \/ Umount \/ Detach \/ Unlink \/ Rmdir

(* Ctrl-C: the finally block runs, unless it is the one that is cut.       *)
ProbeInterrupted ==
  \/ /\ probe \in SetupSteps \cup {"fallback"}
     /\ probe' = "umount" /\ raising' = TRUE
     /\ \/ probe \in SetupSteps /\ Effect(probe)
           /\ excused' = excused \cup ({probe} \cap {"losetup"})
        \/ NoEffect /\ UNCHANGED excused
     /\ UNCHANGED <<call, loop_dev, autoclear, latency>>
  \/ /\ probe \in Teardown \cup {"no_xfs"}
     /\ probe' = "raised" /\ raising' = TRUE
     /\ excused' = excused \cup ({probe} \cap Teardown)
     /\ UNCHANGED <<call, loop_dev, image, directory, loops, autoclear, mounts,
                    latency>>

ProbeDone ==
  /\ probe \in {"returned", "raised"}
  /\ probe' = "idle"
  /\ UNCHANGED <<call, loop_dev, image, directory, loops, autoclear, mounts,
                 latency, raising, excused>>

-----------------------------------------------------------------------------
(* However the call ends, it takes down what it has set up, also after a   *)
(* mount that reported a failure and worked, unless a command of the       *)
(* teardown itself failed or was cut off.                                  *)
TeardownComplete ==
  (probe \in {"returned", "raised"} /\ excused = {}) =>
    mounts = <<>> /\ loops = {} /\ ~image /\ ~directory

(* The latency called XFS is read from the file system this call made: not *)
(* from the bare directory, nor from one an earlier call left mounted.     *)
ReadIsOnXfs == probe = "read" => mounts # <<>> /\ mounts[Len(mounts)] = call
=============================================================================
