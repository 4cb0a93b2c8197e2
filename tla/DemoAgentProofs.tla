-------------------------- MODULE DemoAgentProofs --------------------------
(***************************************************************************)
(* Proofs about DemoAgent, and with it about Probe and VoiceoverWorker,    *)
(* for every set of command lines, scripts of any length, any number of    *)
(* probe calls and any measured latency.                                   *)
(***************************************************************************)
EXTENDS DemoAgent, TLAPS, FiniteSetTheorems, SequenceTheorems,
        WellFoundedInduction

-----------------------------------------------------------------------------
(* The probe.                                                              *)

SetupIs ==
  /\ DOMAIN Setup = 1 .. 8 /\ Len(Setup) = 8
  /\ Setup[1] = "image" /\ Setup[2] = "losetup" /\ Setup[3] = "mkfs"
  /\ Setup[4] = "mount" /\ Setup[5] = "chmod" /\ Setup[6] = "populate"
  /\ Setup[7] = "drop_caches" /\ Setup[8] = "read"

LEMMA SetupByIndex == SetupIs
<1>1. Len(Setup) = 8
  BY DEF Setup
<1>2. DOMAIN Setup = 1 .. 8
  BY DEF Setup
<1>3. /\ Setup[1] = "image" /\ Setup[2] = "losetup" /\ Setup[3] = "mkfs"
      /\ Setup[4] = "mount" /\ Setup[5] = "chmod" /\ Setup[6] = "populate"
      /\ Setup[7] = "drop_caches" /\ Setup[8] = "read"
  BY DEF Setup
<1> QED
  BY <1>1, <1>2, <1>3 DEF SetupIs

LEMMA OneToEight == \A i : i \in 1 .. 8 <=> i \in {1, 2, 3, 4, 5, 6, 7, 8}
OBVIOUS

LEMMA SetupStepsAre ==
  SetupSteps = {"image", "losetup", "mkfs", "mount", "chmod", "populate",
                "drop_caches", "read"}
BY OneToEight, SetupByIndex DEF SetupIs, SetupSteps

LEMMA AfterIndex ==
  ASSUME NEW i \in 1 .. 8
  PROVE  After(Setup[i]) = IF i = 8 THEN "umount" ELSE Setup[i + 1]
<1>1. \A k \in DOMAIN Setup : Setup[k] = Setup[i] <=> k = i
  BY OneToEight, SetupByIndex DEF SetupIs
<1>2. (CHOOSE k \in DOMAIN Setup : Setup[k] = Setup[i]) = i
  BY <1>1, SetupByIndex DEF SetupIs
<1> QED
  BY <1>2, SetupByIndex DEF SetupIs, After

LEMMA AfterIs ==
  /\ After("image") = "losetup" /\ After("losetup") = "mkfs"
  /\ After("mkfs") = "mount" /\ After("mount") = "chmod"
  /\ After("chmod") = "populate" /\ After("populate") = "drop_caches"
  /\ After("drop_caches") = "read" /\ After("read") = "umount"
<1>1. /\ After(Setup[1]) = Setup[2] /\ After(Setup[2]) = Setup[3]
      /\ After(Setup[3]) = Setup[4] /\ After(Setup[4]) = Setup[5]
      /\ After(Setup[5]) = Setup[6] /\ After(Setup[6]) = Setup[7]
      /\ After(Setup[7]) = Setup[8] /\ After(Setup[8]) = "umount"
  BY AfterIndex
<1> QED
  BY <1>1, SetupByIndex DEF SetupIs

(* How far a call has come in what it sets up and takes down, as long as   *)
(* nothing excuses a leftover.                                             *)
NothingSetUp == mounts = <<>> /\ loops = {} /\ ~directory

Attached == loop_dev = call /\ loops = {call}

(* The device and the mount, as far as the call got with them.             *)
SomeSetUp ==
  \/ Attached /\ (mounts = <<>> \/ mounts = <<call>>)
  \/ loop_dev = 0 /\ loops = {} /\ mounts = <<>>

Progress ==
  /\ autoclear = {}
  /\ probe \in {"idle", "returned", "raised", "no_xfs", "image"} =>
       NothingSetUp /\ ~image
  /\ probe \in {"image", "losetup"} => NothingSetUp /\ loop_dev = 0
  /\ probe \in {"mkfs", "mount"} => Attached /\ mounts = <<>> /\ ~directory
  /\ probe \in {"chmod", "populate", "drop_caches", "read"} =>
       Attached /\ mounts = <<call>>
  /\ probe \in {"fallback", "umount"} => SomeSetUp
  /\ probe = "detach" => SomeSetUp /\ mounts = <<>>
  /\ probe \in {"unlink", "rmdir"} => loops = {} /\ mounts = <<>>
  /\ probe = "rmdir" => ~image

(* What is mounted last is this call's, also over the leftovers of others. *)
MountedLast ==
  probe \in {"chmod", "populate", "drop_caches", "read"} =>
    mounts # <<>> /\ mounts[Len(mounts)] = call

ProbeInv ==
  /\ probe \in {"idle", "no_xfs", "fallback", "returned", "raised"}
                 \cup SetupSteps \cup Teardown
  /\ call \in Nat /\ (probe # "idle" => call # 0)
  /\ image \in BOOLEAN /\ directory \in BOOLEAN
  /\ mounts \in Seq(Nat)
  /\ excused = {} => Progress
  /\ MountedLast

LEMMA EmptyMounts ==
  /\ <<>> \in Seq(Nat)
  /\ \A c \in Nat : /\ Append(<<>>, c) = <<c>> /\ Len(<<c>>) = 1
                    /\ <<c>> # <<>> /\ <<c>>[1] = c
                    /\ SubSeq(<<c>>, 1, 0) = <<>>
  /\ \A s \in Seq(Nat) : \A c \in Nat :
       /\ Append(s, c) \in Seq(Nat) /\ Append(s, c) # <<>>
       /\ Append(s, c)[Len(Append(s, c))] = c
  /\ \A s \in Seq(Nat) : SubSeq(s, 1, Len(s) - 1) \in Seq(Nat)
<1>1. /\ <<>> \in Seq(Nat)
      /\ \A c \in Nat : /\ Append(<<>>, c) = <<c>> /\ Len(<<c>>) = 1
                        /\ <<c>> # <<>> /\ <<c>>[1] = c
                        /\ SubSeq(<<c>>, 1, 0) = <<>>
  OBVIOUS
<1>2. \A s \in Seq(Nat) : \A c \in Nat :
        /\ Append(s, c) \in Seq(Nat) /\ Append(s, c) # <<>>
        /\ Append(s, c)[Len(Append(s, c))] = c
  <2> SUFFICES ASSUME NEW s \in Seq(Nat), NEW c \in Nat
               PROVE  /\ Append(s, c) \in Seq(Nat) /\ Append(s, c) # <<>>
                      /\ Append(s, c)[Len(Append(s, c))] = c
    OBVIOUS
  <2>1. Len(Append(s, c)) = Len(s) + 1 /\ Len(s) \in Nat
    OBVIOUS
  <2>2. Append(s, c)[Len(s) + 1] = c /\ Append(s, c) \in Seq(Nat)
    OBVIOUS
  <2> QED
    BY <2>1, <2>2
<1>3. ASSUME NEW s \in Seq(Nat) PROVE SubSeq(s, 1, Len(s) - 1) \in Seq(Nat)
  OBVIOUS
<1> QED
  BY <1>1, <1>2, <1>3

LEMMA ProbeInitInv == ProbeInit => ProbeInv
<1> SUFFICES ASSUME ProbeInit PROVE ProbeInv
  OBVIOUS
<1>1. excused = {} => Progress
  BY DEF ProbeInit, Progress, NothingSetUp
<1>2. MountedLast
  BY DEF ProbeInit, MountedLast
<1>3. mounts \in Seq(Nat)
  BY EmptyMounts DEF ProbeInit
<1> QED
  BY <1>1, <1>2, <1>3 DEF ProbeInit, ProbeInv

LEMMA ProbeBeginInv == ASSUME ProbeInv, ProbeBegin PROVE ProbeInv'
<1>1. call' # 0 /\ call' \in Nat
  BY DEF ProbeInv, ProbeBegin
<1>2. /\ probe = "idle" /\ probe' \in {"image", "no_xfs"} /\ loop_dev' = 0
      /\ UNCHANGED <<image, directory, loops, autoclear, mounts, excused>>
  BY DEF ProbeBegin
<1>3. excused' = {} => Progress'
  BY <1>2 DEF ProbeInv, Progress, NothingSetUp
<1> QED
  BY <1>1, <1>2, <1>3, SetupStepsAre DEF ProbeInv, MountedLast

(* A command of the setup, with its effect: what it adds is known to the   *)
(* teardown, but for a device whose name was not returned.                 *)
LEMMA EffectInv ==
  ASSUME ProbeInv, probe \in SetupSteps, Effect(probe)
  PROVE  /\ image' \in BOOLEAN /\ directory' \in BOOLEAN /\ mounts' \in Seq(Nat)
         /\ probe \in {"mount", "chmod", "populate", "drop_caches", "read"} =>
              mounts' # <<>> /\ mounts'[Len(mounts')] = call
         /\ excused = {} =>
              /\ autoclear = {}
              /\ probe = "image" => NothingSetUp' /\ loop_dev = 0
              /\ probe = "losetup" => loops' = {call} /\ mounts' = <<>> /\ ~directory'
              /\ probe = "mkfs" =>
                   loop_dev = call /\ loops' = {call} /\ mounts' = <<>> /\ ~directory'
              /\ probe \in {"mount", "chmod", "populate", "drop_caches", "read"} =>
                   loop_dev = call /\ loops' = {call} /\ mounts' = <<call>>
<1>1. /\ image' = (image \/ probe = "image")
      /\ loops' = IF probe = "losetup" THEN loops \cup {call} ELSE loops
      /\ directory' = (directory \/ probe = "mount")
      /\ mounts' = IF probe = "mount" THEN Append(mounts, call) ELSE mounts
  BY DEF Effect
<1>2. /\ image' \in BOOLEAN /\ directory' \in BOOLEAN
  BY <1>1 DEF ProbeInv
<1>3. mounts' \in Seq(Nat)
  BY <1>1, EmptyMounts DEF ProbeInv
<1>4. probe \in {"mount", "chmod", "populate", "drop_caches", "read"} =>
        mounts' # <<>> /\ mounts'[Len(mounts')] = call
  BY <1>1, EmptyMounts DEF ProbeInv, MountedLast
<1>5. ASSUME excused = {}
      PROVE  /\ autoclear = {}
             /\ probe = "image" => NothingSetUp' /\ loop_dev = 0
             /\ probe = "losetup" => loops' = {call} /\ mounts' = <<>> /\ ~directory'
             /\ probe = "mkfs" =>
                  loop_dev = call /\ loops' = {call} /\ mounts' = <<>> /\ ~directory'
             /\ probe \in {"mount", "chmod", "populate", "drop_caches", "read"} =>
                  loop_dev = call /\ loops' = {call} /\ mounts' = <<call>>
  <2>1. Progress
    BY <1>5 DEF ProbeInv
  <2>2. call \in Nat /\ Append(<<>>, call) = <<call>>
    BY EmptyMounts DEF ProbeInv
  <2> QED
    BY <1>1, <2>1, <2>2 DEF Progress, NothingSetUp, Attached
<1> QED
  BY <1>2, <1>3, <1>4, <1>5

LEMMA StepWorksInv == ASSUME ProbeInv, StepWorks PROVE ProbeInv'
<1>1. /\ probe \in SetupSteps /\ Effect(probe) /\ probe' = After(probe)
      /\ loop_dev' = IF probe = "losetup" THEN call ELSE loop_dev
      /\ UNCHANGED <<call, autoclear, excused>>
  BY DEF StepWorks
<1>2. probe' \in SetupSteps \cup {"umount"}
  BY <1>1, AfterIs, SetupStepsAre
<1>3. probe' # "idle" /\ probe # "idle"
  BY <1>1, <1>2, SetupStepsAre
<1>4. excused' = {} => Progress'
  BY <1>1, EffectInv, AfterIs, SetupStepsAre
     DEF Progress, NothingSetUp, Attached, SomeSetUp
<1>5. MountedLast'
  BY <1>1, EffectInv, AfterIs, SetupStepsAre DEF MountedLast
<1> QED
  BY <1>1, <1>2, <1>3, <1>4, <1>5, EffectInv, SetupStepsAre DEF ProbeInv, Teardown

(* A command that failed or was interrupted, with its effect or without.   *)
LEMMA StepCutInv ==
  ASSUME ProbeInv, probe \in SetupSteps, probe' \in {"fallback", "umount"},
         \/ Effect(probe) /\ excused' = excused \cup ({probe} \cap {"losetup"})
         \/ NoEffect /\ UNCHANGED excused,
         UNCHANGED <<call, loop_dev, autoclear>>
  PROVE  ProbeInv'
<1>1. MountedLast'
  BY DEF MountedLast
<1>2. CASE Effect(probe) /\ excused' = excused \cup ({probe} \cap {"losetup"})
  <2>1. excused' = {} => probe # "losetup" /\ excused = {}
    BY <1>2
  <2>2. excused' = {} => Progress'
    BY <1>2, <2>1, EffectInv, SetupStepsAre DEF Progress, NothingSetUp, Attached, SomeSetUp
  <2>3. /\ call' \in Nat /\ call' # 0 /\ probe' \in {"fallback"} \cup Teardown
        /\ probe' # "idle"
    BY SetupStepsAre DEF ProbeInv, Teardown
  <2> QED
    BY <1>1, <1>2, <2>2, <2>3, EffectInv DEF ProbeInv
<1>3. CASE NoEffect /\ UNCHANGED excused
  <2>1. excused' = {} => Progress'
    BY <1>3, SetupStepsAre DEF ProbeInv, NoEffect, Progress, NothingSetUp, Attached, SomeSetUp
  <2>3. /\ call' \in Nat /\ call' # 0 /\ probe' \in {"fallback"} \cup Teardown
        /\ probe' # "idle"
    BY SetupStepsAre DEF ProbeInv, Teardown
  <2> QED
    BY <1>1, <1>3, <2>1, <2>3 DEF ProbeInv, NoEffect
<1> QED
  BY <1>2, <1>3

LEMMA StepFailsInv == ASSUME ProbeInv, StepFails PROVE ProbeInv'
BY StepCutInv DEF StepFails, AfterFailure

LEMMA FallbackInv == ASSUME ProbeInv, Fallback PROVE ProbeInv'
BY SetupStepsAre DEF ProbeInv, Fallback, Teardown, Progress, NothingSetUp, Attached,
   SomeSetUp, MountedLast

LEMMA UmountInv == ASSUME ProbeInv, Umount PROVE ProbeInv'
<1>1. /\ probe = "umount" /\ probe' = "detach"
      /\ UNCHANGED <<call, loop_dev, image, directory, autoclear>>
  BY DEF Umount
<1>2. mounts' \in Seq(Nat)
  BY EmptyMounts DEF Umount, ProbeInv
<1>3. ASSUME excused' = {} PROVE Progress'
  <2>1. /\ excused = {}
        /\ \/ /\ mounts # <<>>
              /\ mounts' = SubSeq(mounts, 1, Len(mounts) - 1)
              /\ loops' = loops \ (autoclear \cap {mounts[Len(mounts)]})
           \/ mounts = <<>> /\ mounts' = <<>> /\ loops' = loops
    BY <1>3 DEF Umount, Umounts
  <2>2. autoclear = {} /\ SomeSetUp
    BY <1>1, <2>1 DEF ProbeInv, Progress
  <2>3. loops' = loops
    BY <2>1, <2>2
  <2>4. mounts' = <<>>
    BY <2>1, <2>2, EmptyMounts DEF ProbeInv, SomeSetUp
  <2> QED
    BY <1>1, <2>2, <2>3, <2>4 DEF Progress, SomeSetUp, Attached
<1> QED
  BY <1>1, <1>2, <1>3 DEF ProbeInv, Teardown, MountedLast

LEMMA DetachInv == ASSUME ProbeInv, Detach PROVE ProbeInv'
<1>1. /\ probe = "detach" /\ probe' = "unlink"
      /\ UNCHANGED <<call, loop_dev, image, directory, mounts>>
  BY DEF Detach
<1>2. ASSUME excused' = {} PROVE Progress'
  <2>1. excused = {} /\ autoclear = {} /\ SomeSetUp /\ mounts = <<>> /\ call # 0
    BY <1>1, <1>2 DEF Detach, ProbeInv, Progress
  <2>2. \A c : ~Mounted(c)
    BY <2>1 DEF Mounted
  <2>3. autoclear' = {} /\ loops' = {}
    BY <1>2, <2>1, <2>2 DEF Detach, SomeSetUp, Attached
  <2> QED
    BY <1>1, <2>1, <2>3 DEF Progress
<1> QED
  BY <1>1, <1>2 DEF ProbeInv, Teardown, MountedLast

LEMMA UnlinkInv == ASSUME ProbeInv, Unlink PROVE ProbeInv'
BY DEF ProbeInv, Unlink, Teardown, Progress, MountedLast

LEMMA RmdirInv == ASSUME ProbeInv, Rmdir PROVE ProbeInv'
BY DEF ProbeInv, Rmdir, Teardown, Progress, NothingSetUp, MountedLast

LEMMA ProbeInterruptedInv == ASSUME ProbeInv, ProbeInterrupted PROVE ProbeInv'
<1>1. CASE probe \in SetupSteps /\ probe' = "umount"
  BY <1>1, StepCutInv, SetupStepsAre DEF ProbeInterrupted, Teardown
<1>2. CASE probe = "fallback" /\ probe' = "umount"
  <2>1. NoEffect /\ UNCHANGED <<call, loop_dev, autoclear, excused>>
    BY <1>2, SetupStepsAre DEF ProbeInterrupted, Teardown
  <2>2. excused' = {} => Progress'
    BY <1>2, <2>1 DEF NoEffect, ProbeInv, Progress, SomeSetUp, Attached
  <2> QED
    BY <1>2, <2>1, <2>2 DEF NoEffect, ProbeInv, Teardown, MountedLast
<1>3. CASE probe \in Teardown \cup {"no_xfs"} /\ probe' = "raised"
  <2>1. /\ UNCHANGED <<call, image, directory, loops, autoclear, mounts>>
        /\ excused' = excused \cup ({probe} \cap Teardown)
    BY <1>3, SetupStepsAre DEF ProbeInterrupted, Teardown
  <2>2. excused' = {} => excused = {} /\ probe = "no_xfs"
    BY <1>3, <2>1
  <2>3. excused' = {} => Progress'
    BY <1>3, <2>1, <2>2 DEF ProbeInv, Progress, NothingSetUp
  <2>4. probe # "idle" /\ probe' # "idle"
    BY <1>3 DEF Teardown
  <2> QED
    BY <1>3, <2>1, <2>3, <2>4 DEF ProbeInv, MountedLast
<1> QED
  BY <1>1, <1>2, <1>3 DEF ProbeInterrupted

LEMMA ProbeDoneInv == ASSUME ProbeInv, ProbeDone PROVE ProbeInv'
BY DEF ProbeInv, ProbeDone, Progress, NothingSetUp, MountedLast

LEMMA ProbeStepInv == ASSUME ProbeInv, ProbeStep PROVE ProbeInv'
BY StepWorksInv, StepFailsInv, FallbackInv, UmountInv, DetachInv, UnlinkInv, RmdirInv
   DEF ProbeStep

-----------------------------------------------------------------------------
(* The main thread.                                                        *)

Places ==
  {"main", "line", "probe", "speaking", "voiced", "benchmark", "join", "scored",
   "ask", "aws", "aws_101", "aws_worker", "aws_key", "aws_no_key", "aws_ssh",
   "aws_closed", "aws_parse", "aws_parsed", "aws_parse_failed", "aws_end",
   "aws_end_failed", "exited"}

Control ==
  /\ pc \in Places
  /\ pc = "speaking" => then \in {"voiced", "aws_101", "aws_worker", "aws_no_key",
                                  "aws_parse", "aws_end", "aws_end_failed"}
  /\ pc = "join" => then \in {"scored", "aws_closed"}

(* Outside run_demo there is no live engine, unless an exception ended it. *)
EngineInv ==
  /\ ~InRunDemo /\ pc # "exited" => engine # "alive"
  /\ pc = "exited" /\ left # "exception" => engine # "alive"

(* The worker runs beside the main thread only where that waits for a      *)
(* launcher or for the worker, or gives up for want of the key.            *)
WorkerAt ==
  \/ pc \in {"benchmark", "join", "aws_key", "aws_ssh", "aws_no_key", "exited"}
  \/ pc = "speaking" /\ then = "aws_no_key"

VoicesInv ==
  /\ voice \in [Speakers -> {"silent", "synthesis", "playing", "returned", "raised"}]
  /\ worker \in {"none", "get", "speaking", "ended"}
  /\ voice["worker"] # "silent" => worker = "speaking"
  /\ worker \in {"get", "speaking"} => WorkerAt
  /\ voice["main"] # "silent" =>
       /\ pc \in {"speaking", "exited"}
       /\ then # "aws_no_key" => worker \in {"none", "ended"}

(* The commentary begins with the worker of the AWS demo.                  *)
CommentAt ==
  \/ pc \in {"aws_key", "aws_no_key", "aws_ssh", "aws_closed", "aws_parse", "aws_parsed",
             "aws_parse_failed", "aws_end", "aws_end_failed", "exited"}
  \/ pc = "speaking" /\ then \in {"aws_no_key", "aws_parse", "aws_end", "aws_end_failed"}
  \/ pc = "join" /\ then = "aws_closed"

CommentInv == commentary \in Nat /\ (commentary # 0 => CommentAt)

MainInv == Control /\ EngineInv /\ VoicesInv /\ CommentInv

LEMMA InitMainInv == Init => MainInv
<1> SUFFICES ASSUME Init PROVE MainInv
  OBVIOUS
<1>1. pc = "main" /\ engine = "none" /\ worker = "none" /\ commentary = 0 /\ left = "no"
  BY DEF Init, VoiceInit
<1>2. voice = [s \in Speakers |-> "silent"]
  BY DEF Init, VoiceInit
<1>3. Control
  BY <1>1 DEF Control, Places
<1>4. EngineInv
  BY <1>1 DEF EngineInv
<1>5. voice["main"] = "silent" /\ voice["worker"] = "silent"
  BY <1>2 DEF Speakers
<1>6. voice \in [Speakers -> {"silent", "synthesis", "playing", "returned", "raised"}]
  BY <1>2
<1>7. VoicesInv
  BY <1>1, <1>5, <1>6 DEF VoicesInv
<1>8. CommentInv
  BY <1>1 DEF CommentInv
<1> QED
  BY <1>3, <1>4, <1>7, <1>8 DEF MainInv

LEMMA InRunDemoIs ==
  InRunDemo <=> \/ pc \in {"line", "probe", "benchmark", "voiced", "scored"}
                \/ pc \in {"speaking", "join"} /\ then \in {"voiced", "scored"}
BY DEF InRunDemo

(* Back to a line of the script, with whatever became of the engine.       *)
LEMMA ToLineInv ==
  ASSUME MainInv, pc \in {"line", "probe", "voiced", "scored"}, pc' = "line",
         UNCHANGED <<voice, worker, commentary>>
  PROVE  MainInv'
<1>1. Control' /\ EngineInv'
  BY DEF Control, Places, EngineInv, InRunDemo
<1>2. VoicesInv'
  BY DEF MainInv, VoicesInv, WorkerAt
<1>3. CommentInv'
  BY DEF MainInv, CommentInv, CommentAt
<1> QED
  BY <1>1, <1>2, <1>3 DEF MainInv

LEMMA LineInv ==
  ASSUME MainInv,
         \/ Telemetry \/ Pass \/ CompareChart \/ CompareLive \/ XfsMeasured
         \/ BlockBegin \/ BlockLine \/ Voiced \/ Scored \/ EngineStop
  PROVE  MainInv'
BY ToLineInv
   DEF Telemetry, Pass, CompareChart, CompareLive, XfsMeasured, BlockBegin, BlockLine,
       Voiced, Scored, EngineStop, ToNextLine, Goto, Reached, AtLine, voiceVars, aws

(* The process ends, with the engine stopped or by an exception.           *)
LEMMA LeaveInv ==
  ASSUME MainInv, NEW how, Leave(how), how = "exception" \/ engine' # "alive",
         UNCHANGED <<voice, worker, commentary>>
  PROVE  MainInv'
<1>1. Control' /\ EngineInv'
  BY DEF Leave, Control, Places, EngineInv
<1>2. VoicesInv'
  BY DEF MainInv, Leave, VoicesInv, WorkerAt
<1>3. CommentInv'
  BY DEF MainInv, Leave, CommentInv, CommentAt
<1> QED
  BY <1>1, <1>2, <1>3 DEF MainInv

(* Control moves where no worker runs and no voice speaks.                 *)
LEMMA GotoInv ==
  ASSUME MainInv, NEW p \in Places, Goto(p),
         p \notin {"speaking", "join"}, pc # "exited",
         voice["main"] = "silent", ~WorkerAt \/ worker \in {"none", "ended"},
         commentary # 0 => p \in {"aws_closed", "aws_parse", "aws_parsed",
                                  "aws_parse_failed", "aws_end", "aws_end_failed"},
         p \in {"line", "probe", "benchmark", "voiced", "scored"} \/ engine' # "alive",
         UNCHANGED <<voice, worker, commentary>>, p # "exited"
  PROVE  MainInv'
<1>1. Control' /\ EngineInv'
  BY DEF Goto, Control, EngineInv, InRunDemo
<1>2. VoicesInv'
  BY DEF MainInv, Goto, VoicesInv
<1>3. CommentInv'
  BY DEF MainInv, Goto, CommentInv, CommentAt
<1> QED
  BY <1>1, <1>2, <1>3 DEF MainInv

LEMMA MainIs == ASSUME MainInv, Main PROVE MainInv'
<1>1. /\ pc = "main" /\ voice["main"] = "silent" /\ ~WorkerAt /\ commentary = 0
      /\ engine' # "alive" /\ UNCHANGED <<voice, worker, commentary>>
  BY DEF Main, MainInv, EngineInv, InRunDemo, VoicesInv, WorkerAt, CommentInv, CommentAt,
         voiceVars, aws
<1>2. (\E p \in {"aws", "line"} : Goto(p)) \/ \E how : Leave(how)
  BY DEF Main
<1> QED
  BY <1>1, <1>2, GotoInv, LeaveInv DEF Places

LEMMA BadArgumentInv == ASSUME MainInv, BadArgument PROVE MainInv'
BY LeaveInv DEF BadArgument, voiceVars, aws

LEMMA EngineStartInv == ASSUME MainInv, EngineStart PROVE MainInv'
<1>1. UNCHANGED <<voice, worker, commentary>> /\ pc = "line"
  BY DEF EngineStart, Reached, AtLine, voiceVars, aws
<1>2. pc' = "line" \/ Leave("exception")
  BY DEF EngineStart, ToNextLine, Goto
<1> QED
  BY <1>1, <1>2, ToLineInv, LeaveInv

(* Where the main thread is at a line, no worker runs and nothing speaks.  *)
LEMMA QuietAtLine ==
  ASSUME MainInv, pc \in {"line", "probe", "voiced", "scored", "ask", "aws", "aws_101",
                          "aws_worker", "aws_closed", "aws_parse", "aws_parsed",
                          "aws_parse_failed", "aws_end", "aws_end_failed"}
  PROVE  /\ voice["main"] = "silent" /\ worker \in {"none", "ended"} /\ ~WorkerAt
BY DEF MainInv, VoicesInv, WorkerAt

LEMMA CompareXfsInv == ASSUME MainInv, CompareXfs PROVE MainInv'
<1>1. pc = "line" /\ Goto("probe") /\ UNCHANGED <<voice, worker, commentary>>
  BY DEF CompareXfs, Reached, AtLine, voiceVars, aws
<1>2. commentary = 0
  BY <1>1 DEF MainInv, CommentInv, CommentAt
<1> QED
  BY <1>1, <1>2, QuietAtLine, GotoInv DEF Places

(* A step that leaves the main thread and the two voices where they are.   *)
LEMMA StayInv ==
  ASSUME MainInv, UNCHANGED <<pc, then, left, voice, worker>>,
         engine' = engine \/ engine' # "alive",
         commentary' \in Nat, commentary' # 0 => commentary # 0
  PROVE  MainInv'
<1>1. Control' /\ EngineInv'
  BY DEF MainInv, Control, EngineInv, InRunDemo
<1>2. VoicesInv'
  BY DEF MainInv, VoicesInv, WorkerAt
<1>3. CommentInv'
  BY DEF MainInv, CommentInv, CommentAt
<1> QED
  BY <1>1, <1>2, <1>3 DEF MainInv

LEMMA CommentaryIsNat == ASSUME MainInv PROVE commentary \in Nat
BY DEF MainInv, CommentInv

LEMMA ProbeRunsInv ==
  ASSUME MainInv, ProbeRuns \/ InterruptInProbe \/ EngineDies \/ UNCHANGED vars
  PROVE  MainInv'
BY StayInv, CommentaryIsNat
   DEF ProbeRuns, InterruptInProbe, EngineDies, vars, voiceVars, aws

LEMMA StageLineInv == ASSUME MainInv, StageLine PROVE MainInv'
<1>1. UNCHANGED <<voice, worker>>
  BY DEF StageLine, Enqueue, voiceVars
<1>2. UNCHANGED <<pc, then, left, engine, commentary>>
  BY DEF StageLine, aws
<1> QED
  BY <1>1, <1>2, StayInv, CommentaryIsNat

LEMMA CommentKeepsInv == ASSUME MainInv, Aws(Comment) PROVE MainInv'
<1>1. /\ UNCHANGED <<pc, then, left, voice, worker, engine>>
      /\ commentary > 0 /\ commentary' = commentary - 1
  BY DEF Aws, Comment, Enqueue
<1> QED
  BY <1>1, StayInv, CommentaryIsNat

(* The main thread begins to speak.                                        *)
LEMMA SpeakInv ==
  ASSUME MainInv, NEW i,
         NEW next \in {"voiced", "aws_101", "aws_worker", "aws_no_key", "aws_parse",
                       "aws_end", "aws_end_failed"},
         Speak(i, next), pc # "exited",
         next = "voiced" \/ engine # "alive",
         next = "aws_no_key" \/ worker \in {"none", "ended"},
         commentary # 0 => next \in {"aws_no_key", "aws_parse", "aws_end", "aws_end_failed"},
         UNCHANGED <<engine, commentary>>
  PROVE  MainInv'
<1>1. /\ pc' = "speaking" /\ then' = next /\ left' = left /\ worker' = worker
      /\ voice' = [voice EXCEPT !["main"] = "synthesis"]
  BY DEF Speak, SpeakBegin, workerVars
<1>2. Control' /\ EngineInv'
  BY <1>1 DEF Control, Places, EngineInv, InRunDemo
<1>3. VoicesInv'
  <2>1. /\ voice' \in [Speakers -> {"silent", "synthesis", "playing", "returned", "raised"}]
        /\ voice'["worker"] = voice["worker"]
    BY <1>1 DEF MainInv, VoicesInv, Speakers
  <2>2. worker' \in {"get", "speaking"} => WorkerAt'
    BY <1>1 DEF WorkerAt
  <2> QED
    BY <1>1, <2>1, <2>2 DEF MainInv, VoicesInv
<1>4. CommentInv'
  BY <1>1 DEF MainInv, CommentInv, CommentAt
<1> QED
  BY <1>2, <1>3, <1>4 DEF MainInv

LEMMA VoiceKeepsInv == ASSUME MainInv, Voice PROVE MainInv'
<1>1. pc = "line" /\ Speak(voice_index, "voiced") /\ UNCHANGED <<engine, commentary>>
  BY DEF Voice, Reached, AtLine, aws
<1>2. commentary = 0
  BY <1>1 DEF MainInv, CommentInv, CommentAt
<1> QED
  BY <1>1, <1>2, QuietAtLine, SpeakInv

LEMMA AwsSaysInv ==
  ASSUME MainInv, NEW from, NEW i, NEW next,
         \/ from = "aws" /\ next = "aws_101"
         \/ from = "aws_101" /\ next = "aws_worker"
         \/ from = "aws_key" /\ next = "aws_no_key"
         \/ from = "aws_closed" /\ next \in {"aws_parse", "aws_end_failed"}
         \/ from = "aws_parsed" /\ next = "aws_end"
         \/ from = "aws_parse_failed" /\ next = "aws_end_failed",
         Aws(AwsSays(from, i, next))
  PROVE  MainInv'
<1>1. pc = from /\ Speak(i, next) /\ UNCHANGED <<engine, commentary>>
  BY DEF AwsSays, Aws
<1>2. engine # "alive"
  BY <1>1 DEF MainInv, EngineInv, InRunDemo
<1>3. next = "aws_no_key" \/ worker \in {"none", "ended"}
  BY <1>1, QuietAtLine
<1>4. commentary # 0 => next \in {"aws_no_key", "aws_parse", "aws_end", "aws_end_failed"}
  BY <1>1 DEF MainInv, CommentInv, CommentAt
<1> QED
  BY <1>1, <1>2, <1>3, <1>4, SpeakInv

LEMMA SpokeInv == ASSUME MainInv, Spoke PROVE MainInv'
<1>1. /\ pc = "speaking" /\ voice' = [voice EXCEPT !["main"] = "silent"]
      /\ UNCHANGED <<worker, engine, commentary>>
      /\ voice["main"] # "silent"
      /\ \/ Goto(then)
         \/ then = "aws_end" /\ Goto("aws_parse_failed")
         \/ Leave("exception")
  BY DEF Spoke, workerVars, aws
<1>2. /\ voice' \in [Speakers -> {"silent", "synthesis", "playing", "returned", "raised"}]
      /\ voice'["worker"] = voice["worker"] /\ voice'["main"] = "silent"
  BY <1>1 DEF MainInv, VoicesInv, Speakers
<1>3. /\ then \in {"voiced", "aws_101", "aws_worker", "aws_no_key", "aws_parse",
                   "aws_end", "aws_end_failed"}
      /\ then = "voiced" \/ engine # "alive"
  BY <1>1 DEF MainInv, Control, EngineInv, InRunDemo
<1>4. Control'
  BY <1>1, <1>3 DEF Control, Places, Goto, Leave
<1>5. EngineInv'
  BY <1>1, <1>3 DEF EngineInv, InRunDemo, Goto, Leave
<1>6. VoicesInv'
  <2>1. then # "aws_no_key" => worker \in {"none", "ended"}
    BY <1>1 DEF MainInv, VoicesInv
  <2>2. pc' \in {"exited"} \/ (then = "aws_no_key" => pc' = "aws_no_key")
    BY <1>1 DEF Goto, Leave
  <2>3. worker' \in {"get", "speaking"} => WorkerAt'
    BY <1>1, <2>1, <2>2 DEF WorkerAt
  <2> QED
    BY <1>1, <1>2, <2>3 DEF MainInv, VoicesInv
<1>7. CommentInv'
  BY <1>1 DEF MainInv, Control, CommentInv, CommentAt, Goto, Leave
<1> QED
  BY <1>4, <1>5, <1>6, <1>7 DEF MainInv

(* A worker is started, and the main thread goes to wait for a launcher.   *)
LEMMA StartWorkerInv ==
  ASSUME MainInv, NEW i, NEW p \in {"benchmark", "aws_key"}, StartWorker(i), Goto(p),
         worker \in {"none", "ended"}, voice["main"] = "silent",
         p = "benchmark" \/ engine # "alive", commentary' \in Nat,
         commentary' # 0 => p = "aws_key", UNCHANGED engine
  PROVE  MainInv'
<1>1. /\ pc' = p /\ UNCHANGED <<then, left>> /\ worker' = "get" /\ voice' = voice
      /\ voice["worker"] = "silent"
  BY DEF Goto, StartWorker, MainInv, VoicesInv
<1>2. Control' /\ EngineInv'
  BY <1>1 DEF Control, Places, EngineInv, InRunDemo
<1>3. VoicesInv'
  BY <1>1 DEF MainInv, VoicesInv, WorkerAt
<1>4. CommentInv'
  BY <1>1 DEF CommentInv, CommentAt
<1> QED
  BY <1>2, <1>3, <1>4 DEF MainInv

LEMMA ScorecardInv == ASSUME MainInv, Scorecard PROVE MainInv'
<1>1. /\ pc = "line" /\ StartWorker(voice_index) /\ Goto("benchmark")
      /\ UNCHANGED <<engine, commentary>>
  BY DEF Scorecard, Reached, AtLine, aws
<1>2. commentary = 0
  BY <1>1 DEF MainInv, CommentInv, CommentAt
<1> QED
  BY <1>1, <1>2, QuietAtLine, StartWorkerInv

LEMMA AwsWorkerInv == ASSUME MainInv, Aws(AwsWorker) PROVE MainInv'
<1>1. /\ pc = "aws_worker" /\ StartWorker(102) /\ Goto("aws_key")
      /\ UNCHANGED engine /\ commentary' = COMMENTARY
  BY DEF Aws, AwsWorker
<1>2. engine # "alive"
  BY <1>1 DEF MainInv, EngineInv, InRunDemo
<1> QED
  BY <1>1, <1>2, QuietAtLine, StartWorkerInv, DemoAssumption

(* The worker is closed, and the main thread waits for it.                 *)
LEMMA CloseInv ==
  ASSUME MainInv, NEW next \in {"scored", "aws_closed"}, Close(next),
         pc \in {"benchmark", "aws_ssh"},
         next = "scored" \/ engine # "alive",
         commentary # 0 => next = "aws_closed", UNCHANGED <<engine, commentary>>
  PROVE  MainInv'
<1>1. /\ pc' = "join" /\ then' = next /\ UNCHANGED <<left, voice, worker>>
  BY DEF Close, PutSentinel
<1>2. Control' /\ EngineInv'
  BY <1>1 DEF Control, Places, EngineInv, InRunDemo
<1>3. VoicesInv'
  BY <1>1 DEF MainInv, VoicesInv, WorkerAt
<1>4. CommentInv'
  BY <1>1 DEF MainInv, CommentInv, CommentAt
<1> QED
  BY <1>2, <1>3, <1>4 DEF MainInv

LEMMA BenchmarkEndsInv == ASSUME MainInv, BenchmarkEnds PROVE MainInv'
<1>1. pc = "benchmark" /\ Close("scored") /\ UNCHANGED <<engine, commentary>>
  BY DEF BenchmarkEnds, aws
<1>2. commentary = 0
  BY <1>1 DEF MainInv, CommentInv, CommentAt
<1> QED
  BY <1>1, <1>2, CloseInv

LEMMA AwsLauncherEndsInv == ASSUME MainInv, Aws(AwsLauncherEnds) PROVE MainInv'
<1>1. pc = "aws_ssh" /\ Close("aws_closed") /\ UNCHANGED <<engine, commentary>>
  BY DEF Aws, AwsLauncherEnds
<1>2. engine # "alive"
  BY <1>1 DEF MainInv, EngineInv, InRunDemo
<1> QED
  BY <1>1, <1>2, CloseInv

LEMMA JoinInv == ASSUME MainInv, Join PROVE MainInv'
<1>1. /\ pc = "join" /\ then \in {"scored", "aws_closed"} /\ worker = "ended"
      /\ Goto(then) /\ UNCHANGED <<voice, worker, commentary, engine>>
  BY DEF Join, Joined, voiceVars, aws, MainInv, Control
<1>2. voice["main"] = "silent"
  BY <1>1 DEF MainInv, VoicesInv
<1>3. commentary # 0 => then = "aws_closed"
  BY <1>1 DEF MainInv, CommentInv, CommentAt
<1>4. then = "scored" \/ engine # "alive"
  BY <1>1 DEF MainInv, EngineInv, InRunDemo
<1> QED
  BY <1>1, <1>2, <1>3, <1>4, GotoInv DEF Places

LEMMA EndOfScriptInv == ASSUME MainInv, EndOfScript PROVE MainInv'
<1>1. /\ pc = "line" /\ Goto("ask") /\ engine' # "alive"
      /\ UNCHANGED <<voice, worker, commentary>>
  BY DEF EndOfScript, Stopped, voiceVars, aws
<1>2. commentary = 0
  BY <1>1 DEF MainInv, CommentInv, CommentAt
<1> QED
  BY <1>1, <1>2, QuietAtLine, GotoInv DEF Places

LEMMA AnswerInv == ASSUME MainInv, Answer PROVE MainInv'
<1>1. /\ pc = "ask" /\ (Goto("aws") \/ Leave("exit")) /\ engine' # "alive"
      /\ UNCHANGED <<voice, worker, commentary>>
  BY DEF Answer, voiceVars, aws, MainInv, EngineInv, InRunDemo
<1>2. commentary = 0
  BY <1>1 DEF MainInv, CommentInv, CommentAt
<1> QED
  BY <1>1, <1>2, QuietAtLine, GotoInv, LeaveInv DEF Places

LEMMA AwsKeyFoundInv == ASSUME MainInv, Aws(AwsKeyFound) PROVE MainInv'
<1>1. /\ pc = "aws_key" /\ pc' = "aws_ssh"
      /\ UNCHANGED <<then, left, voice, worker, commentary, engine>>
  BY DEF Aws, AwsKeyFound, Goto, voiceVars
<1>2. Control' /\ EngineInv'
  BY <1>1 DEF MainInv, Control, Places, EngineInv, InRunDemo
<1>3. VoicesInv'
  BY <1>1 DEF MainInv, VoicesInv, WorkerAt
<1>4. CommentInv'
  BY <1>1 DEF MainInv, CommentInv, CommentAt
<1> QED
  BY <1>2, <1>3, <1>4 DEF MainInv

LEMMA AwsScorecardInv == ASSUME MainInv, Aws(AwsScorecard) PROVE MainInv'
<1>1. /\ pc = "aws_parse" /\ (Goto("aws_parsed") \/ Goto("aws_parse_failed"))
      /\ UNCHANGED <<voice, worker, commentary, engine>>
  BY DEF Aws, AwsScorecard, voiceVars
<1>2. engine # "alive"
  BY <1>1 DEF MainInv, EngineInv, InRunDemo
<1> QED
  BY <1>1, <1>2, QuietAtLine, GotoInv DEF Places

LEMMA AwsReturnsInv == ASSUME MainInv, Aws(AwsReturns) PROVE MainInv'
<1>1. /\ pc \in {"aws_no_key", "aws_end", "aws_end_failed"} /\ Leave("exit")
      /\ UNCHANGED <<voice, worker, commentary, engine>>
  BY DEF Aws, AwsReturns, voiceVars
<1>2. engine # "alive"
  BY <1>1 DEF MainInv, EngineInv, InRunDemo
<1> QED
  BY <1>1, <1>2, LeaveInv

LEMMA InterruptInv == ASSUME MainInv, Interrupt \/ InterruptedProbe PROVE MainInv'
<1>1. /\ UNCHANGED <<voice, worker, commentary>>
      /\ \/ engine' # "alive" /\ Leave("interrupt")
         \/ Leave("exception")
  BY DEF Interrupt, InterruptedProbe, Stopped, voiceVars, aws
<1> QED
  BY <1>1, LeaveInv

(* The two voices go on by themselves.                                     *)
LEMMA SpeakStepInv == ASSUME MainInv, Beside(SpeakStep) PROVE MainInv'
<1>1. PICK s \in Speakers : Skips(s) \/ Plays(s) \/ Finishes(s) \/ Raises(s)
  BY DEF Beside, SpeakStep
<1>2. /\ voice[s] # "silent" /\ UNCHANGED <<pc, then, left, worker, engine, commentary>>
      /\ \E to \in {"playing", "returned", "raised"} : voice' = [voice EXCEPT ![s] = to]
  BY <1>1 DEF Beside, Skips, Plays, Finishes, Raises, To, workerVars, aws
<1>3. /\ voice' \in [Speakers -> {"silent", "synthesis", "playing", "returned", "raised"}]
      /\ voice'["worker"] # "silent" => voice["worker"] # "silent"
      /\ voice'["main"] # "silent" => voice["main"] # "silent"
  BY <1>2 DEF MainInv, VoicesInv, Speakers
<1>4. Control' /\ EngineInv'
  BY <1>2 DEF MainInv, Control, EngineInv, InRunDemo
<1>5. VoicesInv'
  BY <1>2, <1>3 DEF MainInv, VoicesInv, WorkerAt
<1>6. CommentInv'
  BY <1>2 DEF MainInv, CommentInv, CommentAt
<1> QED
  BY <1>4, <1>5, <1>6 DEF MainInv

LEMMA WorkerStepInv == ASSUME MainInv, Beside(WorkerStep) PROVE MainInv'
<1>1. /\ UNCHANGED <<pc, then, left, engine, commentary>> /\ pc # "exited"
      /\ worker \in {"get", "speaking"} /\ worker' \in {"get", "speaking", "ended"}
      /\ \/ voice' = [voice EXCEPT !["worker"] = "silent"]
         \/ voice' = [voice EXCEPT !["worker"] = "synthesis"] /\ worker' = "speaking"
         \/ voice' = voice /\ worker = "get"
  BY DEF Beside, WorkerStep, WorkerTakes, WorkerSpoke, WorkerWarns, SpeakBegin, aws
<1>2. /\ voice' \in [Speakers -> {"silent", "synthesis", "playing", "returned", "raised"}]
      /\ voice'["worker"] # "silent" => worker' = "speaking"
      /\ voice'["main"] = voice["main"]
  BY <1>1 DEF MainInv, VoicesInv, Speakers
<1>3. Control' /\ EngineInv'
  BY <1>1 DEF MainInv, Control, EngineInv, InRunDemo
<1>4. VoicesInv'
  BY <1>1, <1>2 DEF MainInv, VoicesInv, WorkerAt
<1>5. CommentInv'
  BY <1>1 DEF MainInv, CommentInv, CommentAt
<1> QED
  BY <1>3, <1>4, <1>5 DEF MainInv

LEMMA AwsMainInv == ASSUME MainInv, Aws(AwsMain) PROVE MainInv'
BY AwsSaysInv, AwsWorkerInv, AwsKeyFoundInv, AwsLauncherEndsInv, AwsScorecardInv,
   AwsReturnsInv
   DEF Aws, AwsMain

LEMMA NextMainInv == ASSUME MainInv, [Next]_vars PROVE MainInv'
<1>1. CASE MainStep
  BY <1>1, MainIs, BadArgumentInv, EngineStartInv, LineInv, CompareXfsInv, ProbeRunsInv,
     VoiceKeepsInv, SpokeInv, ScorecardInv, StageLineInv, BenchmarkEndsInv, JoinInv,
     EndOfScriptInv, InterruptInv, AwsMainInv
     DEF MainStep
<1> QED
  BY <1>1, SpeakStepInv, WorkerStepInv, AnswerInv, CommentKeepsInv, InterruptInv,
     ProbeRunsInv
     DEF Next

(* EngineStopped, one of the promises of the demo: no engine is left       *)
(* running by an end of run_demo, but by an uncaught exception.            *)
THEOREM EngineIsStopped == Spec => []EngineStopped
<1>1. MainInv => EngineStopped
  BY DEF MainInv, EngineInv, EngineStopped, InRunDemo
<1> QED
  BY <1>1, InitMainInv, NextMainInv, PTL DEF Spec

(* OneVoice: the main thread speaks only where the worker has ended.       *)
THEOREM VoicesTakeTurns == Spec => []OneVoice
<1>1. MainInv => OneVoice
  BY DEF MainInv, VoicesInv, OneVoice, Speaking
<1> QED
  BY <1>1, InitMainInv, NextMainInv, PTL DEF Spec

(* What the demo does with the probe.                                      *)
LEMMA NextProbe ==
  ASSUME [Next]_vars
  PROVE  \/ ProbeBegin \/ ProbeStep \/ ProbeInterrupted \/ ProbeDone
         \/ UNCHANGED probeVars
<1>1. ASSUME MainStep
      PROVE  ProbeBegin \/ ProbeStep \/ ProbeDone \/ UNCHANGED probeVars
  BY <1>1
     DEF MainStep, Main, BadArgument, EngineStart, EngineStop, Telemetry, Pass,
         CompareChart, CompareLive, CompareXfs, ProbeRuns, XfsMeasured, BlockBegin,
         BlockLine, Voice, Voiced, Spoke, Scorecard, StageLine, BenchmarkEnds, Join,
         Scored, EndOfScript, InterruptedProbe, Aws
<1> QED
  BY <1>1
     DEF Next, Beside, Answer, Aws, Interrupt, InterruptInProbe, EngineDies, vars

LEMMA NextProbeInv == ASSUME ProbeInv, [Next]_vars PROVE ProbeInv'
<1>1. CASE UNCHANGED probeVars
  BY <1>1
     DEF probeVars, ProbeInv, Progress, NothingSetUp, SomeSetUp, Attached, MountedLast
<1> QED
  BY <1>1, NextProbe, ProbeBeginInv, ProbeStepInv, ProbeInterruptedInv, ProbeDoneInv

LEMMA SpecProbeInv == Spec => []ProbeInv
<1>1. Init => ProbeInv
  BY ProbeInitInv DEF Init
<1> QED
  BY <1>1, NextProbeInv, PTL DEF Spec

(* TeardownComplete: whatever fails and wherever Ctrl-C comes, the probe   *)
(* takes down what it set up, unless its teardown itself was cut.          *)
THEOREM NothingLeftBehind == Spec => []TeardownComplete
<1>1. ProbeInv => TeardownComplete
  BY DEF ProbeInv, Progress, NothingSetUp, TeardownComplete
<1> QED
  BY <1>1, SpecProbeInv, PTL

(* ReadIsOnXfs: what is measured as XFS is read from this call's mount.    *)
THEOREM ReadsItsOwnMount == Spec => []ReadIsOnXfs
<1>1. ProbeInv => ReadIsOnXfs
  BY DEF ProbeInv, MountedLast, ReadIsOnXfs
<1> QED
  BY <1>1, SpecProbeInv, PTL

-----------------------------------------------------------------------------
(* The stages of a benchmark.                                              *)

(* Text k of all that the worker was given: taken already, or queued.      *)
TextAt(k) == IF k <= Len(tried) THEN tried[k] ELSE queue[k - Len(tried)]
Given == Len(tried) + Len(queue)

(* The stages shown so far come first, in their order.                     *)
InOrder == \A k \in 1 .. printed : TextAt(k) = StageTexts[k]

(* What the worker can be given to take.                                   *)
Texts == {"stage_0", "stage_1", "stage_2", "stage_3", "comment", None}

StageAt == pc \in {"benchmark", "scored"} \/ (pc = "join" /\ then = "scored")

(* While the launcher runs nothing else has been given; the close adds the *)
(* sentinel, which is taken last; then all of the stages have been taken.  *)
StagesInv ==
  /\ tried \in Seq(Texts) /\ queue \in Seq(Texts)
  /\ printed \in 0 .. 4
  /\ pc = "benchmark" =>
       announced = 1 .. printed /\ worker # "ended" /\ Given = printed /\ InOrder
  /\ pc = "join" /\ then = "scored" /\ worker # "ended" =>
       Given = printed + 1 /\ Len(queue) > 0 /\ queue[Len(queue)] = None /\ InOrder
  /\ pc = "scored" \/ (pc = "join" /\ then = "scored" /\ worker = "ended") =>
       Len(tried) = printed /\ InOrder

LEMMA StageTextsAre ==
  /\ DOMAIN StageTexts = 1 .. 4
  /\ \A k \in 1 .. 4 : StageTexts[k] \in Texts /\ StageTexts[k] # None
<1>1. DOMAIN StageTexts = 1 .. 4
  BY DEF StageTexts
<1>2. \A k : k \in 1 .. 4 <=> k \in {1, 2, 3, 4}
  OBVIOUS
<1>3. \A k \in {1, 2, 3, 4} : StageTexts[k] \in Texts /\ StageTexts[k] # None
  <2>1. /\ StageTexts[1] = "stage_0" /\ StageTexts[2] = "stage_1"
        /\ StageTexts[3] = "stage_2" /\ StageTexts[4] = "stage_3"
    BY DEF StageTexts
  <2> QED
    BY <2>1 DEF None, Texts
<1> QED
  BY <1>1, <1>2, <1>3

LEMMA NoneIsText == None \in Texts
BY DEF Texts

(* A text that is added comes after all others.                            *)
LEMMA AddedLast ==
  ASSUME tried \in Seq(Texts), queue \in Seq(Texts), NEW text \in Texts,
         tried' = tried, queue' = Append(queue, text)
  PROVE  /\ queue' \in Seq(Texts) /\ Len(queue') = Len(queue) + 1
         /\ Given' = Given + 1 /\ queue'[Len(queue')] = text
         /\ \A k \in 1 .. Given : TextAt(k)' = TextAt(k)
         /\ \A k : k = Given + 1 => TextAt(k)' = text
<1>1. /\ queue' \in Seq(Texts) /\ Len(queue') = Len(queue) + 1
      /\ queue'[Len(queue) + 1] = text
      /\ \A k \in 1 .. Len(queue) : queue'[k] = queue[k]
  BY AppendProperties
<1>2. Len(tried) \in Nat /\ Len(queue) \in Nat /\ Len(tried') = Len(tried)
  BY LenProperties
<1>3. Given' = Given + 1 /\ Given = Len(tried) + Len(queue)
  BY <1>1, <1>2 DEF Given
<1>4. ASSUME NEW k \in 1 .. Given PROVE TextAt(k)' = TextAt(k)
  <2>1. CASE k <= Len(tried)
    BY <1>2, <2>1 DEF TextAt
  <2>2. CASE k > Len(tried)
    <3>1. k - Len(tried) \in 1 .. Len(queue)
      BY <1>2, <1>3, <2>2
    <3>2. TextAt(k) = queue[k - Len(tried)]
      BY <1>2, <1>3, <2>2 DEF TextAt
    <3>3. TextAt(k)' = IF k <= Len(tried') THEN tried'[k] ELSE queue'[k - Len(tried')]
      BY DEF TextAt
    <3>4. TextAt(k)' = queue'[k - Len(tried)]
      BY <1>2, <1>3, <2>2, <3>3
    <3> QED
      BY <1>1, <3>1, <3>2, <3>4
  <2> QED
    BY <1>2, <1>3, <2>1, <2>2
<1>5. ASSUME NEW k, k = Given + 1 PROVE TextAt(k)' = text
  <2>1. TextAt(k)' = IF k <= Len(tried') THEN tried'[k] ELSE queue'[k - Len(tried')]
    BY DEF TextAt
  <2>2. ~(k <= Len(tried')) /\ k - Len(tried') = Len(queue) + 1
    BY <1>2, <1>3, <1>5
  <2> QED
    BY <1>1, <2>1, <2>2
<1> QED
  BY <1>1, <1>3, <1>4, <1>5

(* A text that is taken stays where it was among them.                     *)
LEMMA TakenStays ==
  ASSUME tried \in Seq(Texts), queue \in Seq(Texts), queue # <<>>,
         tried' = Append(tried, Head(queue)), queue' = Tail(queue)
  PROVE  /\ tried' \in Seq(Texts) /\ queue' \in Seq(Texts)
         /\ Len(tried') = Len(tried) + 1 /\ Len(queue') = Len(queue) - 1
         /\ Given' = Given
         /\ \A k \in 1 .. Given : TextAt(k)' = TextAt(k)
<1>1. /\ queue' \in Seq(Texts) /\ Len(queue') = Len(queue) - 1 /\ Len(queue) > 0
      /\ \A k \in 1 .. (Len(queue) - 1) : queue'[k] = queue[k + 1]
      /\ Head(queue) = queue[1] /\ queue[1] \in Texts
  OBVIOUS
<1>2. /\ tried' \in Seq(Texts) /\ Len(tried') = Len(tried) + 1
      /\ tried'[Len(tried) + 1] = queue[1]
      /\ \A k \in 1 .. Len(tried) : tried'[k] = tried[k]
  BY <1>1
<1>3. Len(tried) \in Nat /\ Len(queue) \in Nat
  OBVIOUS
<1>4. Given' = Given
  BY <1>1, <1>2, <1>3 DEF Given
<1>5. ASSUME NEW k \in 1 .. Given PROVE TextAt(k)' = TextAt(k)
  <2>1. CASE k <= Len(tried)
    BY <1>2, <1>3, <2>1 DEF Given, TextAt
  <2>2. CASE k = Len(tried) + 1
    BY <1>1, <1>2, <1>3, <2>2 DEF Given, TextAt
  <2>3. CASE k > Len(tried) + 1
    BY <1>1, <1>2, <1>3, <2>3 DEF Given, TextAt
  <2> QED
    BY <1>3, <2>1, <2>2, <2>3 DEF Given
<1> QED
  BY <1>1, <1>2, <1>4, <1>5

LEMMA InitStagesInv == Init => StagesInv
<1> SUFFICES ASSUME Init PROVE StagesInv
  OBVIOUS
<1>1. pc = "main" /\ printed = 0 /\ tried = <<>> /\ queue = <<>>
  BY DEF Init, VoiceInit
<1>2. tried \in Seq(Texts) /\ queue \in Seq(Texts)
  BY <1>1
<1> QED
  BY <1>1, <1>2 DEF StagesInv

(* Nowhere near a benchmark, only the types are at stake.                  *)
LEMMA ElsewhereStages ==
  ASSUME StagesInv, ~StageAt', tried' \in Seq(Texts), queue' \in Seq(Texts),
         UNCHANGED printed
  PROVE  StagesInv'
BY DEF StagesInv, StageAt

LEMMA SameStages ==
  ASSUME StagesInv, UNCHANGED <<pc, then, worker, tried, queue, announced, printed>>
  PROVE  StagesInv'
BY DEF StagesInv, InOrder, TextAt, Given

LEMMA GoneStages ==
  ASSUME StagesInv, ~StageAt', UNCHANGED <<tried, queue, printed>>
  PROVE  StagesInv'
BY ElsewhereStages DEF StagesInv

LEMMA ScorecardStages == ASSUME StagesInv, Scorecard PROVE StagesInv'
<1>1. /\ pc' = "benchmark" /\ tried' = <<>> /\ queue' = <<>>
      /\ worker' = "get" /\ announced' = {} /\ printed' = 0
  BY DEF Scorecard, StartWorker, Goto
<1>2. /\ tried' \in Seq(Texts) /\ queue' \in Seq(Texts)
      /\ Len(tried') = 0 /\ Len(queue') = 0
  BY <1>1
<1>3. announced' = 1 .. printed' /\ Given' = printed' /\ InOrder'
  BY <1>1, <1>2 DEF Given, InOrder
<1> QED
  BY <1>1, <1>2, <1>3 DEF StagesInv

LEMMA StageLineStages == ASSUME StagesInv, StageLine PROVE StagesInv'
<1>1. PICK stage \in {printed, printed + 1} \cap DOMAIN StageTexts :
        /\ printed' = stage /\ announced' = announced \cup {stage}
        /\ IF stage \in announced THEN UNCHANGED voiceVars
                                  ELSE Enqueue(StageTexts[stage])
  BY DEF StageLine, Announced
<1>2. /\ pc = "benchmark" /\ UNCHANGED <<pc, then>>
      /\ announced = 1 .. printed /\ worker # "ended" /\ Given = printed /\ InOrder
      /\ printed \in 0 .. 4 /\ stage \in 1 .. 4
      /\ tried \in Seq(Texts) /\ queue \in Seq(Texts)
  BY <1>1, StageTextsAre DEF StageLine, StagesInv
<1>3. CASE stage = printed
  <2>1. stage \in announced /\ announced' = announced
    BY <1>1, <1>2, <1>3
  <2> QED
    BY <1>1, <1>2, <1>3, <2>1, SameStages DEF voiceVars
<1>4. CASE stage = printed + 1
  <2>1. stage \notin announced
    BY <1>2, <1>4
  <2>2. /\ queue' = Append(queue, StageTexts[stage]) /\ UNCHANGED <<tried, worker>>
    BY <1>1, <2>1 DEF Enqueue
  <2>3. announced' = 1 .. printed'
    BY <1>1, <1>2, <1>4
  <2>4. /\ queue' \in Seq(Texts) /\ Given' = Given + 1
        /\ \A k \in 1 .. Given : TextAt(k)' = TextAt(k)
        /\ \A k : k = Given + 1 => TextAt(k)' = StageTexts[stage]
    BY <1>2, <2>2, AddedLast, StageTextsAre
  <2>5. InOrder'
    <3> SUFFICES ASSUME NEW k \in 1 .. printed' PROVE TextAt(k)' = StageTexts[k]
      BY DEF InOrder
    <3>1. CASE k = stage
      BY <1>2, <1>4, <2>4, <3>1
    <3>2. CASE k # stage
      BY <1>1, <1>2, <1>4, <2>4, <3>2 DEF InOrder
    <3> QED
      BY <3>1, <3>2
  <2> QED
    BY <1>1, <1>2, <1>4, <2>2, <2>3, <2>4, <2>5 DEF StagesInv
<1> QED
  BY <1>1, <1>3, <1>4

LEMMA BenchmarkEndsStages == ASSUME StagesInv, BenchmarkEnds PROVE StagesInv'
<1>1. /\ pc = "benchmark" /\ pc' = "join" /\ then' = "scored"
      /\ UNCHANGED <<worker, tried, printed>> /\ queue' = Append(queue, None)
  BY DEF BenchmarkEnds, Close, PutSentinel, WithSentinel, benchmark
<1>2. /\ worker # "ended" /\ Given = printed /\ InOrder
      /\ tried \in Seq(Texts) /\ queue \in Seq(Texts) /\ printed \in 0 .. 4
  BY <1>1 DEF StagesInv
<1>3. /\ queue' \in Seq(Texts) /\ Given' = Given + 1
      /\ Len(queue') = Len(queue) + 1 /\ queue'[Len(queue')] = None
      /\ \A k \in 1 .. Given : TextAt(k)' = TextAt(k)
  BY <1>1, <1>2, AddedLast, NoneIsText
<1>4. InOrder'
  BY <1>1, <1>2, <1>3 DEF InOrder
<1>5. Len(queue') > 0
  BY <1>2, <1>3
<1> QED
  BY <1>1, <1>2, <1>3, <1>4, <1>5 DEF StagesInv

LEMMA JoinStages == ASSUME StagesInv, MainInv, Join PROVE StagesInv'
<1>1. /\ pc = "join" /\ worker = "ended" /\ pc' = then /\ then' = then
      /\ UNCHANGED <<tried, queue, printed>>
  BY DEF Join, Joined, Goto, voiceVars, benchmark
<1>2. CASE then = "scored"
  BY <1>1, <1>2 DEF StagesInv, InOrder, TextAt
<1>3. CASE then = "aws_closed"
  BY <1>1, <1>3, GoneStages DEF StageAt
<1> QED
  BY <1>1, <1>2, <1>3 DEF MainInv, Control

(* The worker takes the first text, or the sentinel when that is first.    *)
LEMMA WorkerTakesStages ==
  ASSUME StagesInv, MainInv, WorkerTakes, UNCHANGED <<pc, then, announced, printed>>
  PROVE  StagesInv'
<1>1. /\ queue # <<>> /\ queue' = Tail(queue) /\ worker = "get"
      /\ tried \in Seq(Texts) /\ queue \in Seq(Texts) /\ printed \in 0 .. 4
  BY DEF WorkerTakes, StagesInv
<1>2. /\ queue' \in Seq(Texts) /\ Len(queue) > 0 /\ Head(queue) = queue[1]
      /\ Len(queue') = Len(queue) - 1 /\ Len(queue) \in Nat /\ Len(tried) \in Nat
      /\ Head(queue) \in Texts
      /\ Len(queue') > 0 => queue'[Len(queue')] = queue[Len(queue)]
  BY <1>1
<1>3. pc # "scored"
  BY <1>1 DEF MainInv, VoicesInv, WorkerAt
<1>4. CASE Head(queue) = None /\ worker' = "ended" /\ tried' = tried
  <2>1. ASSUME InOrder, StageAt, Given >= printed PROVE Len(tried) >= printed
    <3>1. TextAt(Len(tried) + 1) = None
      BY <1>2, <1>4 DEF TextAt
    <3>2. ASSUME Len(tried) < printed PROVE FALSE
      <4>1. Len(tried) + 1 \in 1 .. printed
        BY <1>1, <1>2, <3>2
      <4>2. StageTexts[Len(tried) + 1] # None
        BY <1>1, <4>1, StageTextsAre
      <4> QED
        BY <2>1, <3>1, <4>1, <4>2 DEF InOrder
    <3> QED
      BY <1>1, <1>2, <3>2
  <2>2. pc # "benchmark"
    BY <1>1, <1>2, <2>1 DEF StagesInv, Given, StageAt
  <2>3. CASE pc = "join" /\ then = "scored"
    <3>1. Given = printed + 1 /\ InOrder
      BY <1>1, <2>3 DEF StagesInv
    <3>2. Len(tried) = printed
      BY <1>1, <1>2, <2>1, <2>3, <3>1 DEF StageAt, Given
    <3>3. InOrder'
      BY <1>4, <3>1, <3>2 DEF InOrder, TextAt
    <3> QED
      BY <1>1, <1>2, <1>4, <2>3, <3>2, <3>3 DEF StagesInv
  <2> QED
    BY <1>1, <1>2, <1>3, <1>4, <2>2, <2>3, ElsewhereStages DEF StageAt
<1>5. CASE /\ Head(queue) # None /\ worker' = "speaking"
           /\ tried' = Append(tried, Head(queue))
  <2>1. /\ tried' \in Seq(Texts) /\ Given' = Given
        /\ \A k \in 1 .. Given : TextAt(k)' = TextAt(k)
    BY <1>1, <1>5, TakenStays
  <2>2. ASSUME InOrder, Given >= printed PROVE InOrder'
    BY <1>1, <1>2, <2>1, <2>2 DEF InOrder, Given
  <2>3. CASE pc = "benchmark"
    BY <1>1, <1>2, <1>5, <2>1, <2>2, <2>3 DEF StagesInv
  <2>4. CASE pc = "join" /\ then = "scored"
    <3>1. Given = printed + 1 /\ queue[Len(queue)] = None /\ InOrder
      BY <1>1, <2>4 DEF StagesInv
    <3>2. Len(queue') > 0
      BY <1>2, <1>5, <3>1
    <3> QED
      BY <1>1, <1>2, <1>5, <2>1, <2>2, <2>4, <3>1, <3>2 DEF StagesInv
  <2> QED
    BY <1>1, <1>2, <1>3, <2>1, <2>3, <2>4, ElsewhereStages DEF StageAt
<1> QED
  BY <1>4, <1>5 DEF WorkerTakes

(* The worker of the AWS demo and its commentary are not near a benchmark. *)
LEMMA AwsStages == ASSUME StagesInv, MainInv, Aws(AwsMain \/ Comment) PROVE StagesInv'
<1>1. UNCHANGED printed /\ tried \in Seq(Texts) /\ queue \in Seq(Texts)
  BY DEF Aws, benchmark, StagesInv
<1>2. CASE AwsWorker
  <2>1. pc' = "aws_key" /\ tried' = <<>> /\ queue' = <<>>
    BY <1>2 DEF AwsWorker, StartWorker, Goto
  <2>2. tried' \in Seq(Texts) /\ queue' \in Seq(Texts)
    BY <2>1, EmptySeq
  <2> QED
    BY <1>1, <2>1, <2>2, ElsewhereStages DEF StageAt
<1>3. CASE AwsLauncherEnds
  <2>1. /\ pc' = "join" /\ then' = "aws_closed" /\ tried' = tried
        /\ queue' = Append(queue, None)
    BY <1>3 DEF AwsLauncherEnds, Close, PutSentinel, WithSentinel
  <2>2. queue' \in Seq(Texts)
    BY <1>1, <2>1, AddedLast, NoneIsText
  <2> QED
    BY <1>1, <2>1, <2>2, ElsewhereStages DEF StageAt
<1>4. CASE Comment
  <2>1. commentary > 0 /\ UNCHANGED <<pc, then, tried>> /\ queue' = Append(queue, "comment")
    BY <1>4 DEF Comment, Enqueue
  <2>2. ~StageAt
    BY <2>1 DEF MainInv, CommentInv, CommentAt, StageAt
  <2>3. queue' \in Seq(Texts)
    BY <1>1, <2>1, AddedLast DEF Texts
  <2> QED
    BY <1>1, <2>1, <2>2, <2>3, ElsewhereStages DEF StageAt
<1>5. CASE \/ AwsKeyFound \/ AwsScorecard \/ AwsReturns
           \/ \E from, i : \E next \in {"aws_101", "aws_worker", "aws_no_key", "aws_parse",
                                        "aws_end", "aws_end_failed"} :
                AwsSays(from, i, next)
  <2>1. UNCHANGED <<tried, queue>>
    BY <1>5 DEF AwsKeyFound, AwsScorecard, AwsReturns, AwsSays, Speak, voiceVars, workerVars
  <2>2. pc' \in {"aws_ssh", "aws_parsed", "aws_parse_failed", "exited", "speaking"}
    BY <1>5 DEF AwsKeyFound, AwsScorecard, AwsReturns, AwsSays, Speak, Goto, Leave
  <2> QED
    BY <1>1, <2>1, <2>2, GoneStages DEF StageAt
<1> QED
  BY <1>2, <1>3, <1>4, <1>5 DEF Aws, AwsMain

(* What moves the main thread away from, or past, the places of a benchmark *)
(* and leaves the worker alone.                                            *)
LEMMA AwayStages ==
  ASSUME StagesInv, MainInv,
         \/ Main \/ BadArgument \/ EngineStart \/ EngineStop \/ Telemetry \/ Pass
         \/ CompareChart \/ CompareLive \/ CompareXfs \/ XfsMeasured
         \/ BlockBegin \/ BlockLine \/ Voice \/ Voiced \/ Spoke \/ Scored
         \/ EndOfScript \/ InterruptedProbe \/ Answer \/ Interrupt
  PROVE  StagesInv'
<1>1. CASE Main \/ BadArgument \/ EndOfScript \/ InterruptedProbe \/ Answer \/ Interrupt
  <2>1. UNCHANGED <<tried, queue, printed>>
    BY <1>1 DEF Main, BadArgument, EndOfScript, InterruptedProbe, Answer, Interrupt,
                voiceVars, benchmark
  <2>2. pc' \in {"exited", "aws", "line", "ask"}
    BY <1>1 DEF Main, BadArgument, EndOfScript, InterruptedProbe, Answer, Interrupt,
                Goto, Leave
  <2> QED
    BY <2>1, <2>2, GoneStages DEF StageAt
<1>2. CASE \/ EngineStart \/ EngineStop \/ Telemetry \/ Pass \/ CompareChart \/ CompareLive
           \/ CompareXfs \/ XfsMeasured \/ BlockBegin \/ BlockLine \/ Voiced \/ Scored
  <2>1. UNCHANGED <<tried, queue, printed>>
    BY <1>2 DEF EngineStart, EngineStop, Telemetry, Pass, CompareChart, CompareLive,
                CompareXfs, XfsMeasured, BlockBegin, BlockLine, Voiced, Scored,
                voiceVars, benchmark
  <2>2. pc' \in {"exited", "line", "probe"}
    BY <1>2 DEF EngineStart, EngineStop, Telemetry, Pass, CompareChart, CompareLive,
                CompareXfs, XfsMeasured, BlockBegin, BlockLine, Voiced, Scored,
                ToNextLine, Goto, Leave
  <2> QED
    BY <2>1, <2>2, GoneStages DEF StageAt
<1>3. CASE Voice \/ Spoke
  <2>1. UNCHANGED <<tried, queue, printed>>
    BY <1>3 DEF Voice, Spoke, Speak, workerVars, benchmark
  <2>2. pc' \notin {"benchmark", "join", "scored"}
    BY <1>3 DEF Voice, Spoke, Speak, Goto, Leave, MainInv, Control
  <2> QED
    BY <2>1, <2>2, GoneStages DEF StageAt
<1> QED
  BY <1>1, <1>2, <1>3

(* What goes on beside the main thread, and what it does within a place.   *)
LEMMA BesideStages ==
  ASSUME StagesInv, MainInv,
         \/ ProbeRuns \/ InterruptInProbe \/ EngineDies \/ UNCHANGED vars
         \/ Beside(SpeakStep) \/ Beside(WorkerStep)
  PROVE  StagesInv'
<1>1. CASE ProbeRuns \/ InterruptInProbe \/ EngineDies \/ UNCHANGED vars
  BY <1>1, SameStages
     DEF ProbeRuns, InterruptInProbe, EngineDies, vars, voiceVars, benchmark
<1>2. CASE Beside(SpeakStep)
  BY <1>2, SameStages
     DEF Beside, SpeakStep, Skips, Plays, Finishes, Raises, To, workerVars, benchmark
<1>3. CASE Beside(WorkerTakes)
  BY <1>3, WorkerTakesStages DEF Beside, benchmark
<1>4. CASE Beside(WorkerSpoke \/ WorkerWarns)
  <2>1. /\ UNCHANGED <<pc, then, tried, queue, announced, printed>>
        /\ worker = "speaking" /\ worker' = "get"
    BY <1>4 DEF Beside, WorkerSpoke, WorkerWarns, benchmark
  <2> QED
    BY <2>1 DEF StagesInv, InOrder, TextAt, Given
<1> QED
  BY <1>1, <1>2, <1>3, <1>4 DEF Beside, WorkerStep

LEMMA NextStagesInv == ASSUME StagesInv, MainInv, [Next]_vars PROVE StagesInv'
<1>1. CASE MainStep
  BY <1>1, AwayStages, BesideStages, ScorecardStages, StageLineStages,
     BenchmarkEndsStages, JoinStages, AwsStages
     DEF MainStep, Aws
<1> QED
  BY <1>1, AwayStages, BesideStages, AwsStages DEF Next, Aws

(* StagesAnnounced: once the voiceover of a benchmark is closed, each      *)
(* stage that was shown has been spoken of once and in the order shown.    *)
THEOREM EachStageOnce == Spec => []StagesAnnounced
<1>1. ASSUME StagesInv, pc = "scored" PROVE tried = SubSeq(StageTexts, 1, printed)
  <2>1. /\ tried \in Seq(Texts) /\ Len(tried) = printed /\ printed \in 0 .. 4 /\ InOrder
    BY <1>1 DEF StagesInv
  <2>2. \A k \in 1 .. 4 : StageTexts[k] \in Texts
    BY StageTextsAre
  <2>3. /\ SubSeq(StageTexts, 1, printed) \in Seq(Texts)
        /\ Len(SubSeq(StageTexts, 1, printed)) = printed
        /\ \A k \in 1 .. printed : SubSeq(StageTexts, 1, printed)[k] = StageTexts[k]
    <3>1. \A k \in 1 .. printed : StageTexts[k] \in Texts
      BY <2>1, <2>2
    <3>2. /\ SubSeq(StageTexts, 1, printed) \in Seq(Texts)
          /\ Len(SubSeq(StageTexts, 1, printed))
               = IF 1 <= printed THEN printed - 1 + 1 ELSE 0
          /\ \A i \in 1 .. (printed - 1 + 1) :
               SubSeq(StageTexts, 1, printed)[i] = StageTexts[1 + i - 1]
      BY <2>1, <3>1, SubSeqProperties
    <3> QED
      BY <2>1, <3>2
  <2>4. \A k \in 1 .. printed : tried[k] = StageTexts[k]
    BY <2>1 DEF InOrder, TextAt
  <2> QED
    BY <2>1, <2>3, <2>4, SeqEqual
<1>2. StagesInv => StagesAnnounced
  BY <1>1 DEF StagesAnnounced
<1>3. StagesInv /\ MainInv /\ [Next]_vars => StagesInv' /\ MainInv'
  BY NextStagesInv, NextMainInv
<1> QED
  BY <1>2, <1>3, InitStagesInv, InitMainInv, PTL DEF Spec

-----------------------------------------------------------------------------
(* The bars of the chart.                                                  *)

LEMMA ScaleIs ==
  ASSUME NEW legacy \in Nat, NEW bypass \in Nat
  PROVE  /\ Scale(legacy, bypass) \in Nat \ {0}
         /\ legacy <= Scale(legacy, bypass) /\ bypass <= Scale(legacy, bypass)
BY DEF Scale, Larger

LEMMA DividedInOrder ==
  ASSUME NEW a \in Nat, NEW b \in Nat, NEW c \in Nat \ {0}, a <= b
  PROVE  a \div c \in Nat /\ b \div c \in Nat /\ a \div c <= b \div c
OBVIOUS

LEMMA AtMostTheColumn ==
  ASSUME NEW a \in Nat, NEW c \in Nat \ {0}, a <= c
  PROVE  (a * 25) \div c \in 0 .. 25
OBVIOUS

LEMMA BarInColumn ==
  ASSUME NEW legacy \in Nat, NEW bypass \in Nat, NEW value \in {legacy, bypass}
  PROVE  Bar(value, legacy, bypass) \in 0 .. 25
<1>1. (value * 25) \div Scale(legacy, bypass) \in 0 .. 25
  BY ScaleIs, AtMostTheColumn
<1> QED
  BY <1>1 DEF Bar, Larger

LEMMA BarsInOrder ==
  ASSUME NEW legacy \in Nat, NEW bypass \in Nat, legacy >= bypass
  PROVE  Bar(legacy, legacy, bypass) >= Bar(bypass, legacy, bypass)
<1>1. (bypass * 25) \div Scale(legacy, bypass) <= (legacy * 25) \div Scale(legacy, bypass)
  <2>1. bypass * 25 \in Nat /\ legacy * 25 \in Nat /\ bypass * 25 <= legacy * 25
    OBVIOUS
  <2>2. Scale(legacy, bypass) \in Nat \ {0}
    BY ScaleIs
  <2> QED
    BY <2>1, <2>2, DividedInOrder
<1>2. /\ (bypass * 25) \div Scale(legacy, bypass) \in 0 .. 25
      /\ (legacy * 25) \div Scale(legacy, bypass) \in 0 .. 25
  BY ScaleIs, AtMostTheColumn
<1> QED
  BY <1>1, <1>2 DEF Bar, Larger

BarsFit ==
  chart # <<>> =>
    /\ Bar(chart[1], chart[1], chart[2]) \in 0 .. 25
    /\ Bar(chart[2], chart[1], chart[2]) \in 0 .. 25
    /\ chart[1] >= chart[2] =>
         Bar(chart[1], chart[1], chart[2]) >= Bar(chart[2], chart[1], chart[2])

ChartInv == chart = <<>> \/ \E legacy, bypass \in Latencies : chart = <<legacy, bypass>>

LEMMA NextChartInv == ASSUME ChartInv, [Next]_vars PROVE ChartInv'
<1>1. CASE \E legacy, bypass \in Latencies : Charted(legacy, bypass)
  BY <1>1 DEF Charted, ChartInv
<1>2. UNCHANGED chart \/ \E legacy, bypass \in Latencies : Charted(legacy, bypass)
  <2>1. ASSUME MainStep
        PROVE  \/ UNCHANGED chart
               \/ \E legacy, bypass \in Latencies : Charted(legacy, bypass)
    BY <2>1
       DEF MainStep, Main, BadArgument, EngineStart, EngineStop, Telemetry, Pass,
           CompareChart, CompareLive, CompareXfs, ProbeRuns, XfsMeasured, BlockBegin,
           BlockLine, Voice, Voiced, Spoke, Scorecard, StageLine, BenchmarkEnds, Join,
           Scored, EndOfScript, InterruptedProbe, Aws
  <2> QED
    BY <2>1 DEF Next, Beside, Answer, Aws, Interrupt, InterruptInProbe, EngineDies, vars
<1> QED
  BY <1>1, <1>2 DEF ChartInv

(* The bars of ChartFits: whatever is measured, they stay in their column  *)
(* of 25 and are in the order of the latencies.                            *)
THEOREM BarsStayInColumn == Spec => []BarsFit
<1>1. ASSUME ChartInv PROVE BarsFit
  <2>1. CASE chart = <<>>
    BY <2>1 DEF BarsFit
  <2>2. CASE \E legacy, bypass \in Latencies : chart = <<legacy, bypass>>
    <3>1. PICK legacy \in Latencies, bypass \in Latencies : chart = <<legacy, bypass>>
      BY <2>2
    <3>2. chart[1] = legacy /\ chart[2] = bypass
      BY <3>1
    <3> QED
      BY <3>2, BarInColumn, BarsInOrder, DemoAssumption DEF BarsFit
  <2> QED
    BY <1>1, <2>1, <2>2 DEF ChartInv
<1>2. Init => ChartInv
  BY DEF Init, ChartInv
<1> QED
  BY <1>1, <1>2, NextChartInv, PTL DEF Spec


(* The numbers on the last line.                                           *)
LEMMA TenToIs ==
  /\ TenTo[1] = 10 /\ TenTo[2] = 100 /\ TenTo[3] = 1000 /\ TenTo[4] = 10000
  /\ TenTo[5] = 100000 /\ TenTo[6] = 1000000 /\ TenTo[7] = 10000000
  /\ TenTo[8] = 100000000 /\ TenTo[9] = 1000000000
BY DEF TenTo

LEMMA TenToGrows ==
  ASSUME NEW j \in 1 .. 9, NEW k \in 1 .. 9, j <= k
  PROVE  TenTo[j] \in Nat /\ TenTo[j] <= TenTo[k]
BY TenToIs

(* A number below TenTo[k] has at most k digits.                           *)
LEMMA DigitsAtMost ==
  ASSUME NEW x \in Nat, NEW k \in 1 .. 9, x < TenTo[k]
  PROVE  Digits(x) \in 1 .. k
<1> DEFINE Has(d) == x < TenTo[d] /\ (d = 1 \/ x >= TenTo[d - 1])
<1>1. x < TenTo[9]
  BY TenToGrows
<1>2. \E d \in 1 .. 9 : Has(d)
  <2>1. Has(1) \/ Has(2) \/ Has(3) \/ Has(4) \/ Has(5)
          \/ Has(6) \/ Has(7) \/ Has(8) \/ Has(9)
    BY <1>1, TenToIs
  <2> QED
    BY <2>1
<1>3. Digits(x) \in 1 .. 9 /\ Has(Digits(x))
  BY <1>2 DEF Digits
<1>4. ASSUME NEW d \in 1 .. 9, Has(d), d > k PROVE FALSE
  <2>1. d - 1 \in 1 .. 9 /\ k <= d - 1
    BY <1>4
  <2>2. TenTo[k] <= TenTo[d - 1] /\ TenTo[k] \in Nat /\ TenTo[d - 1] \in Nat
    BY <2>1, TenToGrows
  <2> QED
    BY <1>4, <2>2
<1> HIDE DEF Has
<1> QED
  BY <1>3, <1>4

LEMMA QuotientAtMost ==
  ASSUME NEW a \in Nat, NEW c \in Nat \ {0}, NEW q \in Nat, a < (q + 1) * c
  PROVE  a \div c \in Nat /\ a \div c <= q
<1>1. a \div c \in Nat /\ (a \div c) * c <= a
  OBVIOUS
<1>2. ASSUME a \div c >= q + 1 PROVE FALSE
  <2>1. \A u, v, w \in Nat : u >= v => u * w >= v * w
    OBVIOUS
  <2>2. (a \div c) * c >= (q + 1) * c /\ (q + 1) * c \in Nat /\ (a \div c) * c \in Nat
    BY <1>1, <1>2, <2>1
  <2> QED
    BY <1>1, <2>2
<1> QED
  BY <1>1, <1>2

LEMMA RoundedAtMost ==
  ASSUME NEW a \in Nat, NEW d \in Nat \ {0}, NEW q \in Nat, 2 * a + d < (q + 1) * (2 * d)
  PROVE  Rounded(a, d) \in Nat /\ Rounded(a, d) <= q
BY QuotientAtMost DEF Rounded

(* Latencies below 10 ms.                                                  *)
LatenciesShown == \A l \in Latencies : l < 100000

LEMMA DeltaDigits ==
  ASSUME NEW delta \in Nat, delta < 100000
  PROVE  Digits(delta \div 10) \in 1 .. 4
<1>1. delta \div 10 \in Nat /\ delta \div 10 < TenTo[4]
  BY TenToIs
<1> QED
  BY <1>1, DigitsAtMost

LEMMA SpeedupDigits ==
  ASSUME NEW legacy \in Nat, NEW bypass \in Nat, legacy < 100000, bypass < 100000
  PROVE  LET speedup == Rounded(100 * legacy, Larger(100 * bypass, 1))
         IN  /\ Digits(speedup) \in 1 .. 7
             /\ legacy < bypass => Digits(speedup) = 1
             /\ bypass # 0 => Digits(speedup) \in 1 .. 6
<1> DEFINE d == Larger(100 * bypass, 1)
           speedup == Rounded(100 * legacy, d)
<1>1. CASE bypass = 0
  <2>1. d = 1
    BY <1>1 DEF Larger
  <2>2. speedup \in Nat /\ speedup <= 9999999
    BY <2>1, RoundedAtMost
  <2>3. Digits(speedup) \in 1 .. 7
    BY <2>2, DigitsAtMost, TenToIs
  <2> QED
    BY <1>1, <2>3
<1>2. CASE bypass # 0 /\ legacy < bypass
  <2>1. d = 100 * bypass
    BY <1>2 DEF Larger
  <2>2. speedup \in Nat /\ speedup <= 1
    BY <1>2, <2>1, RoundedAtMost
  <2>3. Digits(speedup) \in 1 .. 1
    BY <2>2, DigitsAtMost, TenToIs
  <2> QED
    BY <2>3
<1>3. CASE bypass # 0 /\ legacy >= bypass
  <2>1. d = 100 * bypass
    BY <1>3 DEF Larger
  <2>2. speedup \in Nat /\ speedup <= 999999
    BY <1>3, <2>1, RoundedAtMost
  <2>3. Digits(speedup) \in 1 .. 6
    BY <2>2, DigitsAtMost, TenToIs
  <2> QED
    BY <1>3, <2>3
<1> QED
  BY <1>1, <1>2, <1>3

LEMMA PercentDigits ==
  ASSUME NEW legacy \in Nat, NEW bypass \in Nat, NEW delta \in Nat,
         legacy < 100000, bypass < 100000, delta < 100000, delta <= Larger(legacy, bypass)
  PROVE  LET pct == Rounded(10000 * delta, Larger(100 * legacy, 1))
         IN  /\ Digits(pct) \in 1 .. 9
             /\ legacy # 0 => Digits(pct) \in 1 .. 8
             /\ legacy >= bypass => Digits(pct) \in 1 .. 3
<1> DEFINE d == Larger(100 * legacy, 1)
           pct == Rounded(10000 * delta, d)
<1>1. CASE legacy = 0
  <2>1. d = 1
    BY <1>1 DEF Larger
  <2>2. pct \in Nat /\ pct <= 999999999
    BY <2>1, RoundedAtMost
  <2>3. Digits(pct) \in 1 .. 9
    BY <2>2, DigitsAtMost, TenToIs
  <2>4. ASSUME bypass = 0 PROVE Digits(pct) \in 1 .. 1
    <3>1. pct \in Nat /\ pct <= 0
      BY <1>1, <2>1, <2>4, RoundedAtMost DEF Larger
    <3> QED
      BY <3>1, DigitsAtMost, TenToIs
  <2> QED
    BY <1>1, <2>3, <2>4
<1>2. CASE legacy # 0 /\ legacy < bypass
  <2>1. d = 100 * legacy
    BY <1>2 DEF Larger
  <2>2. pct \in Nat /\ pct <= 99999999
    <3>1. 2 * (10000 * delta) + d < (99999999 + 1) * (2 * d)
      BY <1>2, <2>1
    <3>2. 10000 * delta \in Nat /\ d \in Nat \ {0}
      BY <1>2, <2>1
    <3> HIDE DEF d
    <3> QED
      BY <3>1, <3>2, RoundedAtMost
  <2>3. Digits(pct) \in 1 .. 8
    BY <2>2, DigitsAtMost, TenToIs
  <2> QED
    BY <1>2, <2>3
<1>3. CASE legacy # 0 /\ legacy >= bypass
  <2>1. d = 100 * legacy /\ delta <= legacy
    BY <1>3 DEF Larger
  <2>2. pct \in Nat /\ pct <= 100
    BY <1>3, <2>1, RoundedAtMost
  <2>3. Digits(pct) \in 1 .. 3
    BY <2>2, DigitsAtMost, TenToIs
  <2> QED
    BY <2>3
<1> QED
  BY <1>1, <1>2, <1>3

(* The three numbers leave a blank before the border: at most 18 places.   *)
LEMMA NumbersFit ==
  ASSUME NEW legacy \in Nat, NEW bypass \in Nat, legacy < 100000, bypass < 100000
  PROVE  NumbersWidth(legacy, bypass) \in 0 .. 18
<1> DEFINE delta == Larger(legacy, bypass) - (IF legacy > bypass THEN bypass ELSE legacy)
           pct == Rounded(10000 * delta, Larger(100 * legacy, 1))
           speedup == Rounded(100 * legacy, Larger(100 * bypass, 1))
<1>1. delta \in Nat /\ delta < 100000 /\ delta <= Larger(legacy, bypass)
  BY DEF Larger
<1> HIDE DEF delta
<1>2. Digits(delta \div 10) \in 1 .. 4
  BY <1>1, DeltaDigits
<1>3. /\ Digits(pct) \in 1 .. 9
      /\ legacy # 0 => Digits(pct) \in 1 .. 8
      /\ legacy >= bypass => Digits(pct) \in 1 .. 3
  BY <1>1, PercentDigits
<1>4. /\ Digits(speedup) \in 1 .. 7
      /\ legacy < bypass => Digits(speedup) = 1
  BY SpeedupDigits
<1> HIDE DEF pct, speedup
<1>5. NumbersWidth(legacy, bypass)
        = ((IF legacy < bypass THEN 1 ELSE 0) + Digits(delta \div 10) + 2)
            + ((IF legacy < bypass THEN 1 ELSE 0) + Digits(pct)) + Digits(speedup)
  BY DEF NumbersWidth, delta, pct, speedup
<1> QED
  BY <1>2, <1>3, <1>4, <1>5

(* ChartFits: where no latency reaches 10 ms, the last line too is as wide *)
(* as the box, also with a kernel latency of 0 and with a bypass that is   *)
(* slower than the kernel.                                                 *)
THEOREM ChartsFit ==
  ASSUME LatenciesShown
  PROVE  Spec => []ChartFits
<1>1. ASSUME ChartInv PROVE ChartFits
  <2>1. CASE chart = <<>>
    BY <2>1 DEF ChartFits
  <2>2. CASE \E legacy, bypass \in Latencies : chart = <<legacy, bypass>>
    <3>1. PICK legacy \in Latencies, bypass \in Latencies : chart = <<legacy, bypass>>
      BY <2>2
    <3>2. chart[1] = legacy /\ chart[2] = bypass
      BY <3>1
    <3>3. legacy \in Nat /\ bypass \in Nat /\ legacy < 100000 /\ bypass < 100000
      BY DemoAssumption DEF LatenciesShown
    <3>4. SummaryWidth(legacy, bypass) = 72
      BY <3>3, NumbersFit DEF SummaryWidth, Larger
    <3> QED
      BY <3>2, <3>3, <3>4, BarInColumn, BarsInOrder DEF ChartFits
  <2> QED
    BY <1>1, <2>1, <2>2 DEF ChartInv
<1>2. Init => ChartInv
  BY DEF Init, ChartInv
<1> QED
  BY <1>1, <1>2, NextChartInv, PTL DEF Spec

-----------------------------------------------------------------------------
(* Here documents.                                                         *)

(* Induction over the naturals, for a set: from the well-foundedness of <. *)
Less == {p \in Nat \X Nat : p[1] < p[2]}

LEMMA NatSetInduction ==
  ASSUME NEW S, 0 \in S, \A n \in Nat : n \in S => n + 1 \in S
  PROVE  Nat \subseteq S
<1>1. IsWellFoundedOn(Less, Nat)
  BY Zenon, NatLessThanWellFounded DEF OpToRel, Less
<1>2. SUFFICES ASSUME Nat \ S # {} PROVE FALSE
  OBVIOUS
<1>3. PICK m \in Nat \ S : \A k \in Nat \ S : <<k, m>> \notin Less
  BY <1>1, <1>2, WFMin
<1>4. m # 0 /\ m - 1 \in Nat
  OBVIOUS
<1>5. m - 1 \in S
  <2>1. <<m - 1, m>> \in Less
    <3>1. <<m - 1, m>> \in Nat \X Nat /\ m - 1 < m
      BY <1>4
    <3> QED
      BY <3>1 DEF Less
  <2> QED
    BY <1>3, <1>4, <2>1
<1> QED
  BY <1>4, <1>5

(* g says what is awaited before each of the first n + 1 lines.            *)
Awaits(lines, n, g) ==
  g = [i \in 1 .. n + 1 |-> IF i = 1 THEN <<>> ELSE AwaitedAfter(lines[i - 1], g[i - 1])]

(* There is such a function, built line by line: the recursive definition  *)
(* of AwaitedIn means what it says.                                        *)
LEMMA AwaitedExists == \A lines : \A n \in Nat : \E g : Awaits(lines, n, g)
<1> SUFFICES ASSUME NEW lines PROVE \A n \in Nat : \E g : Awaits(lines, n, g)
  OBVIOUS
<1> DEFINE S == {n \in Nat : \E g : Awaits(lines, n, g)}
<1>1. 0 \in S
  <2> DEFINE g == [i \in 1 .. 1 |-> <<>>]
  <2>1. Awaits(lines, 0, g)
    BY DEF Awaits
  <2> QED
    BY <2>1
<1>2. ASSUME NEW n \in Nat, n \in S PROVE n + 1 \in S
  <2>1. PICK g : Awaits(lines, n, g)
    BY <1>2
  <2> DEFINE h == [i \in 1 .. (n + 1) + 1 |->
                     IF i = n + 2 THEN AwaitedAfter(lines[n + 1], g[n + 1]) ELSE g[i]]
  <2>2. \A i \in 1 .. n + 1 : h[i] = g[i]
    OBVIOUS
  <2>3. \A i \in 1 .. n + 1 : g[i] = IF i = 1 THEN <<>> ELSE AwaitedAfter(lines[i - 1], g[i - 1])
    BY <2>1 DEF Awaits
  <2>4. ASSUME NEW i \in 1 .. (n + 1) + 1
        PROVE  h[i] = IF i = 1 THEN <<>> ELSE AwaitedAfter(lines[i - 1], h[i - 1])
    <3>1. CASE i = n + 2
      BY <2>2, <3>1
    <3>2. CASE i \in 1 .. n + 1
      <4>1. CASE i = 1
        <5>1. h[i] = g[i]
          BY <2>2, <3>2
        <5>2. g[i] = <<>>
          BY <2>3, <3>2, <4>1
        <5> QED
          BY <4>1, <5>1, <5>2
      <4>2. CASE i # 1
        <5>1. i - 1 \in 1 .. n + 1 /\ h[i - 1] = g[i - 1]
          BY <2>2, <3>2, <4>2
        <5> QED
          BY <2>2, <2>3, <3>2, <4>2, <5>1
      <4> QED
        BY <4>1, <4>2
    <3> QED
      BY <3>1, <3>2
  <2>5. h = [i \in 1 .. (n + 1) + 1 |->
               IF i = 1 THEN <<>> ELSE AwaitedAfter(lines[i - 1], h[i - 1])]
    BY <2>4
  <2>6. Awaits(lines, n + 1, h)
    BY <2>5 DEF Awaits
  <2> QED
    BY <2>6
<1>3. Nat \subseteq S
  BY <1>1, <1>2, NatSetInduction
<1> QED
  BY <1>3

LEMMA AwaitedInIs ==
  ASSUME NEW lines, Len(lines) \in Nat
  PROVE  Awaits(lines, Len(lines), AwaitedIn(lines))
<1>1. \E g : Awaits(lines, Len(lines), g)
  BY AwaitedExists
<1> QED
  BY <1>1 DEF Awaits, AwaitedIn

LEMMA AwaitedLine ==
  ASSUME NEW lines \in Seq(Line)
  PROVE  /\ AwaitedIn(lines)[1] = <<>>
         /\ \A i \in 1 .. Len(lines) :
              AwaitedIn(lines)[i + 1] = AwaitedAfter(lines[i], AwaitedIn(lines)[i])
<1>1. Len(lines) \in Nat
  BY LenProperties
<1>2. DEFINE g == AwaitedIn(lines)
<1>3. g = [i \in 1 .. Len(lines) + 1 |->
             IF i = 1 THEN <<>> ELSE AwaitedAfter(lines[i - 1], g[i - 1])]
  BY <1>1, AwaitedInIs DEF Awaits
<1> HIDE DEF g
<1>4. g[1] = <<>>
  BY <1>1, <1>3
<1>5. ASSUME NEW i \in 1 .. Len(lines) PROVE g[i + 1] = AwaitedAfter(lines[i], g[i])
  <2>1. i + 1 \in 1 .. Len(lines) + 1 /\ i + 1 # 1 /\ (i + 1) - 1 = i
    BY <1>1
  <2> QED
    BY <1>3, <2>1
<1> QED
  BY <1>4, <1>5 DEF g

(* A directive of several steps stands at its line all the while.          *)
AtDirective == InRunDemo /\ pc # "line"

HereInv ==
  /\ script \in Seq(Line)
  /\ at \in 1 .. Len(script) + 1
  /\ in_block \in BOOLEAN
  /\ in_block => ~AtDirective
  /\ AtDirective =>
       at \in 1 .. Len(script) /\ script[at].is \in {"VOICE", "SCORECARD", "COMPARE_XFS"}
  /\ Ordinary =>
       /\ in_block <=> AwaitedIn(script)[at] # <<>>
       /\ in_block => block_delimiter = AwaitedIn(script)[at]

LEMMA InitHereInv == Init => HereInv
<1> SUFFICES ASSUME Init PROVE HereInv
  OBVIOUS
<1>1. script \in Seq(Line)
  BY DemoAssumption DEF Init, script
<1>2. AwaitedIn(script)[1] = <<>> /\ Len(script) \in Nat
  BY <1>1, AwaitedLine, LenProperties
<1>3. pc = "main" /\ at = 1 /\ in_block = FALSE
  BY DEF Init
<1>4. at \in 1 .. Len(script) + 1
  BY <1>2, <1>3
<1>5. ~AtDirective
  BY <1>3 DEF AtDirective, InRunDemo
<1> QED
  BY <1>1, <1>2, <1>3, <1>4, <1>5 DEF HereInv

(* Nothing but the place of the main thread changes.                       *)
LEMMA SameLineHere ==
  ASSUME HereInv, UNCHANGED <<command, at, in_block, block_delimiter>>,
         AtDirective' => AtDirective
  PROVE  HereInv'
BY DEF HereInv, script, Ordinary

(* A line that is no part of a here document, nor opens one.               *)
LEMMA NextLineHere ==
  ASSUME HereInv, ToNextLine, UNCHANGED command, ~in_block, at \in 1 .. Len(script),
         script[at].is # "cat"
  PROVE  HereInv'
<1>1. /\ pc' = "line" /\ at' = at + 1 /\ UNCHANGED <<in_block, block_delimiter, command>>
  BY DEF ToNextLine, Goto
<1>2. script' = script /\ (Ordinary' <=> Ordinary)
  BY <1>1 DEF script, Ordinary
<1>3. Ordinary => AwaitedIn(script)[at + 1] = <<>>
  BY AwaitedLine DEF HereInv, AwaitedAfter
<1>4. at' \in 1 .. Len(script) + 1 /\ ~AtDirective'
  BY <1>1, LenProperties DEF HereInv, AtDirective
<1> QED
  BY <1>1, <1>2, <1>3, <1>4 DEF HereInv

LEMMA BlockBeginHere == ASSUME HereInv, BlockBegin PROVE HereInv'
<1>1. /\ at <= Len(script) /\ ~in_block /\ script[at].is = "cat"
      /\ in_block' = TRUE /\ block_delimiter' = BlockDelimiter(script[at])
      /\ pc' = "line" /\ at' = at + 1 /\ UNCHANGED command
  BY DEF BlockBegin, Reached, AtLine, line, Goto, fixed
<1>2. script' = script /\ (Ordinary' <=> Ordinary)
  BY <1>1 DEF script, Ordinary
<1>3. at \in 1 .. Len(script) /\ at' \in 1 .. Len(script) + 1 /\ ~AtDirective'
  BY <1>1, LenProperties DEF HereInv, AtDirective
<1>4. ASSUME Ordinary
      PROVE  /\ AwaitedIn(script)[at + 1] = <<script[at].word>>
             /\ block_delimiter' = <<script[at].word>>
  <2>1. script[at].form = "word"
    BY <1>1, <1>3, <1>4, LenProperties DEF HereInv, Ordinary
  <2>2. AwaitedIn(script)[at] = <<>>
    BY <1>1, <1>4 DEF HereInv
  <2> QED
    BY <1>1, <1>3, <2>1, <2>2, AwaitedLine DEF HereInv, AwaitedAfter, BlockDelimiter
<1>5. \A w : <<w>> # <<>>
  OBVIOUS
<1> QED
  BY <1>1, <1>2, <1>3, <1>4, <1>5 DEF HereInv

LEMMA BlockLineHere == ASSUME HereInv, BlockLine PROVE HereInv'
<1>1. /\ at <= Len(script) /\ in_block
      /\ in_block' = ~BlockEnds(script[at], block_delimiter)
      /\ pc' = "line" /\ at' = at + 1 /\ UNCHANGED <<command, block_delimiter>>
  BY DEF BlockLine, AtLine, line, Goto, fixed
<1>2. script' = script /\ (Ordinary' <=> Ordinary)
  BY <1>1 DEF script, Ordinary
<1>3. at \in 1 .. Len(script) /\ at' \in 1 .. Len(script) + 1 /\ ~AtDirective'
  BY <1>1, LenProperties DEF HereInv, AtDirective
<1>4. in_block' \in BOOLEAN
  BY <1>1 DEF BlockEnds
<1>5. ASSUME Ordinary
      PROVE  /\ in_block' <=> AwaitedIn(script)[at + 1] # <<>>
             /\ in_block' => block_delimiter = AwaitedIn(script)[at + 1]
  <2>1. AwaitedIn(script)[at] # <<>> /\ block_delimiter = AwaitedIn(script)[at]
    BY <1>1, <1>5 DEF HereInv
  <2>2. AwaitedIn(script)[at + 1]
          = IF BlockEnds(script[at], block_delimiter) THEN <<>> ELSE AwaitedIn(script)[at]
    BY <1>3, <2>1, AwaitedLine DEF HereInv, AwaitedAfter, BlockEnds
  <2> QED
    BY <1>1, <2>1, <2>2
<1> QED
  BY <1>1, <1>2, <1>3, <1>4, <1>5 DEF HereInv
(* A directive of several steps begins at its line.                        *)
LEMMA DirectiveHere ==
  ASSUME HereInv, ~in_block, at <= Len(script),
         script[at].is \in {"VOICE", "SCORECARD", "COMPARE_XFS"},
         UNCHANGED <<command, at, in_block, block_delimiter>>
  PROVE  HereInv'
<1>1. script' = script /\ (Ordinary' <=> Ordinary)
  BY DEF script, Ordinary
<1>2. at \in 1 .. Len(script)
  BY LenProperties DEF HereInv
<1> QED
  BY <1>1, <1>2 DEF HereInv

(* The steps at a line of the script.                                      *)
LEMMA AtLineHere ==
  ASSUME HereInv,
         \/ BadArgument \/ EngineStart \/ EngineStop \/ Telemetry \/ Pass
         \/ CompareChart \/ CompareLive
  PROVE  HereInv'
<1>1. pc' = "exited" => ~AtDirective'
  BY DEF AtDirective, InRunDemo
<1>2. CASE BadArgument \/ (EngineStart /\ Leave("exception"))
  <2>1. UNCHANGED <<command, at, in_block, block_delimiter>> /\ pc' = "exited"
    BY <1>2 DEF BadArgument, EngineStart, ToNextLine, Goto, Leave, place, fixed
  <2> QED
    BY <1>1, <2>1, SameLineHere
<1>3. CASE \/ EngineStart /\ ToNextLine
           \/ EngineStop \/ Telemetry \/ Pass \/ CompareChart \/ CompareLive
  <2>1. /\ ToNextLine /\ UNCHANGED command /\ ~in_block /\ at <= Len(script)
        /\ script[at].is # "cat"
    BY <1>3 DEF EngineStart, EngineStop, Telemetry, Pass, CompareChart, CompareLive,
                Reached, AtLine, line, fixed
  <2>2. at \in 1 .. Len(script)
    BY <2>1, LenProperties DEF HereInv
  <2> QED
    BY <2>1, <2>2, NextLineHere
<1> QED
  BY <1>2, <1>3 DEF EngineStart

LEMMA BeginsHere ==
  ASSUME HereInv, CompareXfs \/ Voice \/ Scorecard
  PROVE  HereInv'
<1>1. /\ ~in_block /\ at <= Len(script)
      /\ script[at].is \in {"VOICE", "SCORECARD", "COMPARE_XFS"}
      /\ UNCHANGED <<command, at, in_block, block_delimiter>>
  BY DEF CompareXfs, Voice, Scorecard, Reached, AtLine, line, place, fixed
<1> QED
  BY <1>1, DirectiveHere

(* The end of a directive of several steps.                                *)
LEMMA EndsHere ==
  ASSUME HereInv, XfsMeasured \/ Voiced \/ Scored
  PROVE  HereInv'
<1>1. pc \in {"probe", "voiced", "scored"} /\ ToNextLine /\ UNCHANGED command
  BY DEF XfsMeasured, Voiced, Scored, fixed
<1>2. AtDirective
  BY <1>1 DEF AtDirective, InRunDemo
<1>3. at \in 1 .. Len(script) /\ script[at].is # "cat" /\ ~in_block
  BY <1>2 DEF HereInv
<1> QED
  BY <1>1, <1>3, NextLineHere

(* The steps that leave the line where it is.                              *)
LEMMA StaysHere ==
  ASSUME HereInv, MainInv,
         \/ Main \/ ProbeRuns \/ Spoke \/ StageLine \/ BenchmarkEnds \/ Join
         \/ EndOfScript \/ InterruptedProbe \/ Answer \/ Interrupt \/ InterruptInProbe
         \/ EngineDies \/ Beside(SpeakStep) \/ Beside(WorkerStep) \/ UNCHANGED vars
  PROVE  HereInv'
<1>1. UNCHANGED <<command, at, in_block, block_delimiter>>
  BY DEF Main, ProbeRuns, Spoke, StageLine, BenchmarkEnds, Join, EndOfScript,
         InterruptedProbe, Answer, Interrupt, InterruptInProbe, EngineDies, Beside,
         vars, place, fixed
<1>2. CASE \/ ProbeRuns \/ StageLine \/ InterruptInProbe \/ EngineDies
           \/ Beside(SpeakStep) \/ Beside(WorkerStep) \/ UNCHANGED vars
  <2>1. UNCHANGED <<pc, then>>
    BY <1>2 DEF ProbeRuns, StageLine, InterruptInProbe, EngineDies, Beside, vars
  <2> QED
    BY <1>1, <2>1, SameLineHere DEF AtDirective, InRunDemo
<1>3. CASE Main \/ EndOfScript \/ InterruptedProbe \/ Answer \/ Interrupt
  <2>1. pc' \in {"exited", "aws", "line", "ask"}
    BY <1>3 DEF Main, EndOfScript, InterruptedProbe, Answer, Interrupt, Goto, Leave
  <2> QED
    BY <1>1, <2>1, SameLineHere DEF AtDirective, InRunDemo
<1>4. CASE BenchmarkEnds
  <2>1. AtDirective
    BY <1>4 DEF BenchmarkEnds, AtDirective, InRunDemo
  <2> QED
    BY <1>1, <2>1, SameLineHere
<1>5. CASE Join \/ Spoke
  <2>1. /\ pc' = then \/ pc' \in {"exited", "aws_parse_failed"}
        /\ pc = "speaking" => then \in {"voiced", "aws_101", "aws_worker", "aws_no_key",
                                        "aws_parse", "aws_end", "aws_end_failed"}
        /\ pc = "join" => then \in {"scored", "aws_closed"}
        /\ pc \in {"speaking", "join"}
    BY <1>5 DEF Join, Spoke, Goto, Leave, MainInv, Control
  <2>2. AtDirective' => AtDirective
    BY <2>1 DEF AtDirective, InRunDemo
  <2> QED
    BY <1>1, <2>2, SameLineHere
<1> QED
  BY <1>2, <1>3, <1>4, <1>5

LEMMA AwsHere ==
  ASSUME HereInv, MainInv, Aws(AwsMain \/ Comment)
  PROVE  HereInv'
<1>1. UNCHANGED <<command, at, in_block, block_delimiter>>
  BY DEF Aws, place, fixed
<1>2. CASE Comment
  BY <1>1, <1>2, SameLineHere DEF Comment, AtDirective, InRunDemo
<1>3. CASE AwsMain
  <2>1. \/ pc' = "speaking" /\ then' \in {"aws_101", "aws_worker", "aws_no_key", "aws_parse",
                                          "aws_end", "aws_end_failed"}
        \/ pc' = "join" /\ then' = "aws_closed"
        \/ pc' \in {"aws_key", "aws_ssh", "aws_parsed", "aws_parse_failed", "exited"}
    BY <1>3
       DEF AwsMain, AwsSays, AwsWorker, AwsKeyFound, AwsLauncherEnds, AwsScorecard,
           AwsReturns, Speak, Close, Goto, Leave
  <2> QED
    BY <1>1, <2>1, SameLineHere DEF AtDirective, InRunDemo
<1> QED
  BY <1>2, <1>3 DEF Aws

LEMMA NextHereInv == ASSUME HereInv, MainInv, [Next]_vars PROVE HereInv'
<1>1. CASE MainStep
  BY <1>1, StaysHere, AtLineHere, BeginsHere, EndsHere, BlockBeginHere, BlockLineHere, AwsHere
     DEF MainStep, Aws
<1> QED
  BY <1>1, StaysHere, AwsHere DEF Next, Aws

(* HeredocsLikeBash: for every script whose delimiters are single words,   *)
(* the interpreter and bash agree on what is text and what is not.         *)
THEOREM ReadsHeredocs == Spec => []HeredocsLikeBash
<1>1. HereInv => HeredocsLikeBash
  BY DEF HereInv, HeredocsLikeBash
<1>2. HereInv /\ MainInv /\ [Next]_vars => HereInv' /\ MainInv'
  BY NextHereInv, NextMainInv
<1> QED
  BY <1>1, <1>2, InitHereInv, InitMainInv, PTL DEF Spec

-----------------------------------------------------------------------------
(* The files of the voice lines.                                           *)

(* The voice lines that the first k - 1 lines of a script can speak.       *)
Spoken(lines, k, kind) == {i \in 1 .. (k - 1) : lines[i].is = kind}
VoiceLines(lines, k) ==
  Cardinality(Spoken(lines, k, "VOICE")) + 4 * Cardinality(Spoken(lines, k, "SCORECARD"))

(* The indices of a script end below those of the AWS demo, and those of   *)
(* the commentary below the lines that follow it.                          *)
IndicesSuffice ==
  /\ COMMENTARY <= 8
  /\ \A c \in Commands : VoiceLines(c.script, Len(c.script) + 1) <= 100

LEMMA SpokenNext ==
  ASSUME NEW lines, NEW k \in Nat \ {0}, NEW kind
  PROVE  /\ Cardinality(Spoken(lines, k, kind)) \in Nat
         /\ Cardinality(Spoken(lines, k + 1, kind))
              = Cardinality(Spoken(lines, k, kind)) + (IF lines[k].is = kind THEN 1 ELSE 0)
<1>1. IsFiniteSet(Spoken(lines, k, kind))
  <2>1. IsFiniteSet(1 .. (k - 1))
    BY FS_Interval
  <2>2. Spoken(lines, k, kind) \in SUBSET (1 .. (k - 1))
    BY DEF Spoken
  <2> QED
    BY <2>1, <2>2, FS_Subset
<1>2. k \notin Spoken(lines, k, kind)
  BY DEF Spoken
<1>3. CASE lines[k].is = kind
  <2>1. Spoken(lines, k + 1, kind) = Spoken(lines, k, kind) \cup {k}
    BY <1>3 DEF Spoken
  <2> QED
    BY <1>1, <1>2, <1>3, <2>1, FS_AddElement, FS_CardinalityType
<1>4. CASE lines[k].is # kind
  <2>1. Spoken(lines, k + 1, kind) = Spoken(lines, k, kind)
    BY <1>4 DEF Spoken
  <2> QED
    BY <1>1, <1>4, <2>1, FS_CardinalityType
<1> QED
  BY <1>3, <1>4

LEMMA VoiceLinesNext ==
  ASSUME NEW lines, NEW k \in Nat \ {0}
  PROVE  /\ VoiceLines(lines, k) \in Nat /\ VoiceLines(lines, k + 1) \in Nat
         /\ VoiceLines(lines, k) <= VoiceLines(lines, k + 1)
         /\ lines[k].is = "VOICE" => VoiceLines(lines, k) + 1 <= VoiceLines(lines, k + 1)
         /\ lines[k].is = "SCORECARD" => VoiceLines(lines, k) + 4 <= VoiceLines(lines, k + 1)
<1>1. /\ Cardinality(Spoken(lines, k, "VOICE")) \in Nat
      /\ Cardinality(Spoken(lines, k + 1, "VOICE"))
           = Cardinality(Spoken(lines, k, "VOICE")) + (IF lines[k].is = "VOICE" THEN 1 ELSE 0)
  BY SpokenNext
<1>2. /\ Cardinality(Spoken(lines, k, "SCORECARD")) \in Nat
      /\ Cardinality(Spoken(lines, k + 1, "SCORECARD"))
           = Cardinality(Spoken(lines, k, "SCORECARD"))
               + (IF lines[k].is = "SCORECARD" THEN 1 ELSE 0)
  BY SpokenNext
<1> QED
  BY <1>1, <1>2 DEF VoiceLines

(* What has been played lies below b, but for a line just come to its end. *)
PlayedBelow(b, s) ==
  \A i \in Indices : files[i] = "played" => i < b \/ (i = b /\ voice[s] = "returned")

FilesTypeOK ==
  /\ command \in Commands /\ script \in Seq(Line) /\ at \in 1 .. Len(script) + 1
  /\ files \in [Indices -> {"absent", "written", "played"}]
  /\ index \in [Speakers -> Nat]
  /\ voice_index \in Nat /\ next_index \in Nat
  /\ tried \in Seq(Texts) /\ queue \in Seq(Texts) /\ commentary \in Nat

(* No one is about to write a file that was played.                        *)
Unplayed ==
  /\ \A s \in Speakers :
       (voice[s] = "synthesis" /\ index[s] \in Indices) => files[index[s]] # "played"
  /\ worker = "speaking" => index["worker"] = next_index

(* In the script, by voice_index.                                          *)
ScriptFiles ==
  /\ InRunDemo \/ pc \in {"main", "ask"} => voice_index <= VoiceLines(script, at)
  /\ pc \in {"main", "line", "ask", "probe"} => PlayedBelow(voice_index, "main")
  /\ pc = "speaking" /\ then = "voiced" =>
       /\ script[at].is = "VOICE"
       /\ index["main"] = voice_index /\ PlayedBelow(voice_index, "main")
  /\ pc = "voiced" => script[at].is = "VOICE" /\ PlayedBelow(voice_index + 1, "main")

Busy == IF worker = "speaking" THEN 1 ELSE 0

(* In a benchmark, by the index of the worker.                             *)
ScorecardFiles ==
  StageAt => /\ script[at].is = "SCORECARD"
             /\ PlayedBelow(next_index, "worker")
             /\ next_index + Busy <= voice_index + Len(tried)

KeyAt == pc \in {"aws_key", "aws_ssh"}
ClosingAt == pc = "join" /\ then = "aws_closed"
NoKeyAt == pc = "aws_no_key" \/ (pc = "speaking" /\ then = "aws_no_key")

(* How many lines the worker of the AWS demo will have spoken at most.     *)
CommentaryCounted ==
  /\ KeyAt \/ ClosingAt \/ NoKeyAt => next_index + Busy <= 102 + Len(tried)
  /\ KeyAt \/ NoKeyAt => Given + commentary <= COMMENTARY
  /\ ClosingAt =>
       /\ Len(tried) <= COMMENTARY
       /\ worker # "ended" =>
            /\ Given + commentary <= COMMENTARY + 1
            /\ \E k \in 1 .. Len(queue) : queue[k] = None

(* In the AWS demo, by the fixed indices and that of its worker.           *)
AwsFiles ==
  /\ pc = "aws" => PlayedBelow(100, "main")
  /\ pc = "speaking" /\ then = "aws_101" => index["main"] = 100 /\ PlayedBelow(100, "main")
  /\ pc = "aws_101" => PlayedBelow(101, "main")
  /\ pc = "speaking" /\ then = "aws_worker" => index["main"] = 101 /\ PlayedBelow(101, "main")
  /\ pc = "aws_worker" => PlayedBelow(102, "main")
  /\ KeyAt \/ ClosingAt => PlayedBelow(next_index, "worker")
  /\ NoKeyAt => \A i \in Indices : files[i] = "played" =>
       i < next_index \/ (i = next_index /\ voice["worker"] = "returned") \/ i = 199
  /\ NoKeyAt /\ pc = "speaking" => index["main"] = 199
  /\ pc = "aws_closed" => PlayedBelow(110, "main")
  /\ pc = "speaking" /\ then = "aws_parse" => index["main"] = 110 /\ PlayedBelow(110, "main")
  /\ pc \in {"aws_parse", "aws_parsed", "aws_parse_failed"} => PlayedBelow(111, "main")
  /\ pc = "speaking" /\ then = "aws_end" => index["main"] = 111 /\ PlayedBelow(111, "main")

FilesInv ==
  FilesTypeOK /\ Unplayed /\ ScriptFiles /\ ScorecardFiles /\ CommentaryCounted /\ AwsFiles

LEMMA InitFilesInv == Init => FilesInv
<1> SUFFICES ASSUME Init PROVE FilesInv
  OBVIOUS
<1>1. /\ pc = "main" /\ voice_index = 0 /\ at = 1 /\ command \in Commands /\ commentary = 0
      /\ voice = [s \in Speakers |-> "silent"] /\ index = [s \in Speakers |-> 0]
      /\ files = [i \in Indices |-> "absent"] /\ queue = <<>> /\ next_index = 0
      /\ worker = "none" /\ tried = <<>>
  BY DEF Init, VoiceInit
<1>2. script \in Seq(Line) /\ Len(script) \in Nat
  BY <1>1, DemoAssumption, LenProperties DEF script
<1>3. tried \in Seq(Texts) /\ queue \in Seq(Texts)
  BY <1>1, EmptySeq
<1>4. at \in 1 .. Len(script) + 1
  BY <1>1, <1>2
<1>5. FilesTypeOK
  BY <1>1, <1>2, <1>3, <1>4 DEF FilesTypeOK
<1>6. Unplayed
  BY <1>1 DEF Unplayed
<1>7. ScriptFiles
  <2>1. VoiceLines(script, 1) \in Nat
    BY VoiceLinesNext
  <2> QED
    BY <1>1, <2>1 DEF ScriptFiles, PlayedBelow
<1>8. ScorecardFiles /\ CommentaryCounted /\ AwsFiles
  BY <1>1 DEF ScorecardFiles, StageAt, CommentaryCounted, AwsFiles, KeyAt, ClosingAt, NoKeyAt
<1> QED
  BY <1>5, <1>6, <1>7, <1>8 DEF FilesInv

(* What the steps leave alone, of what the types and Unplayed are about.   *)
LEMMA SameTypes ==
  ASSUME FilesInv, UNCHANGED <<voiceVars, voice_index, at, command, commentary>>
  PROVE  FilesTypeOK' /\ Unplayed'
BY DEF FilesInv, FilesTypeOK, Unplayed, voiceVars, script

LEMMA StayFiles ==
  ASSUME FilesInv, UNCHANGED <<pc, then, voiceVars, voice_index, at, command, commentary>>
  PROVE  FilesInv'
<1>1. FilesTypeOK' /\ Unplayed'
  BY SameTypes
<1>2. ScriptFiles' /\ ScorecardFiles'
  BY DEF FilesInv, ScriptFiles, ScorecardFiles, StageAt, InRunDemo, PlayedBelow, Busy,
         script, voiceVars
<1>3. CommentaryCounted' /\ AwsFiles'
  BY DEF FilesInv, CommentaryCounted, AwsFiles, KeyAt, ClosingAt, NoKeyAt, PlayedBelow,
         Busy, Given, voiceVars
<1> QED
  BY <1>1, <1>2, <1>3 DEF FilesInv

(* The places where nothing is said of the files.                          *)
LEMMA ExitFiles ==
  ASSUME FilesInv, pc' = "exited",
         UNCHANGED <<voiceVars, voice_index, at, command, commentary>>
  PROVE  FilesInv'
<1>1. FilesTypeOK' /\ Unplayed'
  BY SameTypes
<1>2. ScriptFiles' /\ ScorecardFiles' /\ CommentaryCounted' /\ AwsFiles'
  BY DEF ScriptFiles, ScorecardFiles, CommentaryCounted, AwsFiles, StageAt, InRunDemo,
         KeyAt, ClosingAt, NoKeyAt
<1> QED
  BY <1>1, <1>2 DEF FilesInv

(* On, or back, to a place of the script where no voice speaks.            *)
LEMMA ScriptFilesStep ==
  ASSUME FilesInv, pc' \in {"line", "probe", "ask"}, at' \in 1 .. Len(script) + 1,
         FilesTypeOK', Unplayed',
         voice_index' <= VoiceLines(script', at'),
         PlayedBelow(voice_index, "main")'
  PROVE  FilesInv'
<1>1. ScriptFiles'
  BY DEF ScriptFiles
<1>2. ScorecardFiles' /\ CommentaryCounted' /\ AwsFiles'
  BY DEF ScorecardFiles, CommentaryCounted, AwsFiles, StageAt, KeyAt, ClosingAt, NoKeyAt
<1> QED
  BY <1>1, <1>2 DEF FilesInv

LEMMA SamePlayed ==
  ASSUME UNCHANGED <<files, voice, voice_index>>, PlayedBelow(voice_index, "main")
  PROVE  PlayedBelow(voice_index, "main")'
BY DEF PlayedBelow

(* A line without a voice.                                                 *)
LEMMA LineFiles ==
  ASSUME FilesInv, ToNextLine, pc \in {"line", "probe"}, at <= Len(script),
         UNCHANGED <<voiceVars, voice_index, command, commentary>>
  PROVE  FilesInv'
<1>1. /\ pc' = "line" /\ at' = at + 1 /\ script' = script
      /\ at \in Nat \ {0} /\ Len(script) \in Nat /\ at' \in 1 .. Len(script) + 1
  BY LenProperties DEF ToNextLine, Goto, FilesInv, FilesTypeOK, script
<1>2. FilesTypeOK' /\ Unplayed'
  BY <1>1 DEF FilesInv, FilesTypeOK, Unplayed, voiceVars
<1>3. voice_index' <= VoiceLines(script', at')
  <2>1. voice_index <= VoiceLines(script, at) /\ voice_index \in Nat
    BY DEF FilesInv, FilesTypeOK, ScriptFiles, InRunDemo
  <2> QED
    BY <1>1, <2>1, VoiceLinesNext
<1>4. PlayedBelow(voice_index, "main")'
  BY SamePlayed DEF FilesInv, ScriptFiles, voiceVars
<1> QED
  BY <1>1, <1>2, <1>3, <1>4, ScriptFilesStep

LEMMA LinesFiles ==
  ASSUME FilesInv, HereInv,
         \/ EngineStart \/ EngineStop \/ Telemetry \/ Pass \/ CompareChart \/ CompareLive
         \/ BlockBegin \/ BlockLine \/ XfsMeasured
  PROVE  FilesInv'
<1>1. CASE EngineStart /\ Leave("exception")
  <2>1. /\ pc' = "exited"
        /\ UNCHANGED <<voiceVars, voice_index, at, command, commentary>>
    BY <1>1 DEF EngineStart, ToNextLine, Goto, Leave, aws, fixed, place
  <2> QED
    BY <2>1, ExitFiles
<1>2. CASE \/ EngineStart /\ ToNextLine
           \/ EngineStop \/ Telemetry \/ Pass \/ CompareChart \/ CompareLive \/ XfsMeasured
  <2>1. /\ ToNextLine /\ pc \in {"line", "probe"}
        /\ UNCHANGED <<voiceVars, voice_index, command, commentary>>
    BY <1>2 DEF EngineStart, EngineStop, Telemetry, Pass, CompareChart, CompareLive,
                XfsMeasured, Reached, AtLine, aws, fixed
  <2>2. pc = "line" => at <= Len(script)
    BY <1>2, <2>1 DEF EngineStart, EngineStop, Telemetry, Pass, CompareChart, CompareLive,
                XfsMeasured, Reached, AtLine
  <2>3. pc = "probe" => at <= Len(script)
    BY LenProperties DEF HereInv, AtDirective, InRunDemo
  <2> QED
    BY <2>1, <2>2, <2>3, LineFiles
<1>3. CASE BlockBegin \/ BlockLine
  <2>1. /\ pc = "line" /\ pc' = "line" /\ at <= Len(script) /\ at' = at + 1
        /\ UNCHANGED <<voiceVars, voice_index, command, commentary>>
    BY <1>3 DEF BlockBegin, BlockLine, Reached, AtLine, Goto, aws, fixed
  <2>2. /\ script' = script
        /\ at \in Nat \ {0} /\ Len(script) \in Nat /\ at' \in 1 .. Len(script) + 1
    BY <2>1, LenProperties DEF FilesInv, FilesTypeOK, script
  <2>3. FilesTypeOK' /\ Unplayed'
    BY <2>1, <2>2 DEF FilesInv, FilesTypeOK, Unplayed, voiceVars
  <2>4. voice_index' <= VoiceLines(script', at')
    <3>1. voice_index <= VoiceLines(script, at) /\ voice_index \in Nat
      BY <2>1 DEF FilesInv, FilesTypeOK, ScriptFiles, InRunDemo
    <3> QED
      BY <2>1, <2>2, <3>1, VoiceLinesNext
  <2>5. PlayedBelow(voice_index, "main")'
    BY <2>1, SamePlayed DEF FilesInv, ScriptFiles, voiceVars
  <2> QED
    BY <2>1, <2>2, <2>3, <2>4, <2>5, ScriptFilesStep
<1> QED
  BY <1>1, <1>2, <1>3 DEF EngineStart

(* The line stays, and no voice speaks there.                              *)
LEMMA SameLineFiles ==
  ASSUME FilesInv, pc \in {"main", "line"}, pc' \in {"line", "probe", "ask"},
         UNCHANGED <<voiceVars, voice_index, command, at, commentary>>
  PROVE  FilesInv'
<1>1. FilesTypeOK' /\ Unplayed'
  BY SameTypes
<1>2. voice_index' <= VoiceLines(script', at')
  BY DEF FilesInv, ScriptFiles, InRunDemo, script
<1>3. PlayedBelow(voice_index, "main")'
  BY SamePlayed DEF FilesInv, ScriptFiles, voiceVars
<1>4. at' \in 1 .. Len(script) + 1
  BY DEF FilesInv, FilesTypeOK
<1> QED
  BY <1>1, <1>2, <1>3, <1>4, ScriptFilesStep

LEMMA PlacesFiles ==
  ASSUME FilesInv,
         \/ BadArgument \/ CompareXfs \/ EndOfScript \/ InterruptedProbe \/ Interrupt
         \/ Aws(AwsReturns) \/ ProbeRuns \/ InterruptInProbe \/ EngineDies
         \/ UNCHANGED vars \/ Aws(AwsKeyFound)
  PROVE  FilesInv'
<1>1. CASE BadArgument \/ InterruptedProbe \/ Interrupt \/ Aws(AwsReturns)
  <2>1. /\ pc' = "exited"
        /\ UNCHANGED <<voiceVars, voice_index, at, command, commentary>>
    BY <1>1 DEF BadArgument, InterruptedProbe, Interrupt, Aws, AwsReturns, Leave,
                aws, fixed, place
  <2> QED
    BY <2>1, ExitFiles
<1>2. CASE CompareXfs \/ EndOfScript
  <2>1. /\ pc = "line" /\ pc' \in {"probe", "ask"}
        /\ UNCHANGED <<voiceVars, voice_index, at, command, commentary>>
    BY <1>2 DEF CompareXfs, EndOfScript, Reached, AtLine, Goto, aws, fixed, place
  <2> QED
    BY <2>1, SameLineFiles
<1>3. CASE ProbeRuns \/ InterruptInProbe \/ EngineDies \/ UNCHANGED vars
  BY <1>3, StayFiles
     DEF ProbeRuns, InterruptInProbe, EngineDies, vars, aws, fixed, place
<1>4. CASE Aws(AwsKeyFound)
  <2>1. /\ pc = "aws_key" /\ pc' = "aws_ssh"
        /\ UNCHANGED <<voiceVars, voice_index, at, command, commentary>>
    BY <1>4 DEF Aws, AwsKeyFound, Goto, fixed, place
  <2>2. ScriptFiles' /\ ScorecardFiles'
    BY <2>1 DEF ScriptFiles, ScorecardFiles, StageAt, InRunDemo
  <2>3. CommentaryCounted' /\ AwsFiles'
    BY <2>1 DEF FilesInv, CommentaryCounted, AwsFiles, KeyAt, ClosingAt, NoKeyAt,
                PlayedBelow, Busy, Given, voiceVars
  <2> QED
    BY <2>1, <2>2, <2>3, SameTypes DEF FilesInv
<1> QED
  BY <1>1, <1>2, <1>3, <1>4

(* Where no voice speaks, what was played lies strictly below the bound.   *)
AllBelow(b) == \A i \in Indices : files[i] = "played" => i < b

LEMMA QuietBelow ==
  ASSUME NEW s, NEW b, PlayedBelow(b, s), voice[s] # "returned"
  PROVE  AllBelow(b)
BY DEF PlayedBelow, AllBelow

LEMMA BelowPlayed == ASSUME NEW b, NEW s, AllBelow(b) PROVE PlayedBelow(b, s)
BY DEF PlayedBelow, AllBelow

(* The main thread begins to speak a line that nobody played.              *)
LEMMA SpeakTypes ==
  ASSUME FilesInv, MainInv, NEW i \in Nat, NEW next, Speak(i, next),
         i \in Indices => files[i] # "played",
         UNCHANGED <<voice_index, at, command, commentary>>
  PROVE  FilesTypeOK' /\ Unplayed'
<1>1. /\ voice' = [voice EXCEPT !["main"] = "synthesis"]
      /\ index' = [index EXCEPT !["main"] = i]
      /\ UNCHANGED <<files, queue, next_index, worker, tried>>
  BY DEF Speak, SpeakBegin, workerVars
<1>2. /\ voice'["worker"] = voice["worker"] /\ index'["worker"] = index["worker"]
      /\ index'["main"] = i /\ index' \in [Speakers -> Nat]
  BY <1>1 DEF MainInv, VoicesInv, FilesInv, FilesTypeOK, Speakers
<1>3. FilesTypeOK'
  BY <1>1, <1>2 DEF FilesInv, FilesTypeOK, script
<1>4. Unplayed'
  BY <1>1, <1>2 DEF FilesInv, Unplayed, Speakers
<1> QED
  BY <1>3, <1>4

LEMMA SpeakBelow ==
  ASSUME NEW b, NEW i, NEW next, Speak(i, next), AllBelow(b)
  PROVE  PlayedBelow(b, "main")'
BY DEF Speak, SpeakBegin, AllBelow, PlayedBelow

LEMMA SpokenIndex ==
  ASSUME FilesInv, NEW i, NEW next, Speak(i, next)
  PROVE  /\ pc' = "speaking" /\ then' = next /\ index'["main"] = i
         /\ UNCHANGED <<files, queue, next_index, worker, tried>>
BY DEF Speak, SpeakBegin, workerVars, FilesInv, FilesTypeOK, Speakers

LEMMA VoiceFiles == ASSUME FilesInv, MainInv, Voice PROVE FilesInv'
<1>1. /\ pc = "line" /\ script[at].is = "VOICE" /\ Speak(voice_index, "voiced")
      /\ UNCHANGED <<voice_index, at, command, commentary>>
  BY DEF Voice, Reached, AtLine, line, place, fixed, aws
<1>2. voice_index \in Nat /\ voice["main"] = "silent"
  BY <1>1, QuietAtLine DEF FilesInv, FilesTypeOK
<1>3. AllBelow(voice_index)
  BY <1>1, <1>2, QuietBelow DEF FilesInv, ScriptFiles
<1>4. FilesTypeOK' /\ Unplayed'
  <2>1. voice_index \in Indices => files[voice_index] # "played"
    BY <1>2, <1>3 DEF AllBelow
  <2> QED
    BY <1>1, <1>2, <2>1, SpeakTypes
<1>5. /\ pc' = "speaking" /\ then' = "voiced" /\ index'["main"] = voice_index
      /\ PlayedBelow(voice_index, "main")'
  <2>1. \A i \in Indices : files'[i] = "played" => i < voice_index
    BY <1>1, <1>3, SpokenIndex DEF AllBelow
  <2> QED
    BY <1>1, <2>1, SpokenIndex DEF PlayedBelow
<1>6. ScriptFiles'
  <2>1. voice_index <= VoiceLines(script, at)
    BY <1>1 DEF FilesInv, ScriptFiles, InRunDemo
  <2>2. script' = script
    BY <1>1 DEF script
  <2> QED
    BY <1>1, <1>5, <2>1, <2>2 DEF ScriptFiles
<1>7. ScorecardFiles' /\ CommentaryCounted' /\ AwsFiles'
  BY <1>5 DEF ScorecardFiles, CommentaryCounted, AwsFiles, StageAt, KeyAt, ClosingAt, NoKeyAt
<1> QED
  BY <1>4, <1>6, <1>7 DEF FilesInv

LEMMA VoicedFiles == ASSUME FilesInv, MainInv, HereInv, Voiced PROVE FilesInv'
<1>1. /\ pc = "voiced" /\ ToNextLine /\ voice_index' = voice_index + 1
      /\ UNCHANGED <<voiceVars, command, commentary>>
  BY DEF Voiced, NextIndex, fixed, aws
<1>2. /\ pc' = "line" /\ at' = at + 1 /\ script' = script /\ script[at].is = "VOICE"
      /\ voice_index \in Nat /\ at \in Nat \ {0}
  BY <1>1 DEF ToNextLine, Goto, script, FilesInv, ScriptFiles, FilesTypeOK
<1>3. at' \in 1 .. Len(script) + 1
  BY <1>1, <1>2, LenProperties DEF HereInv, AtDirective, InRunDemo
<1>4. FilesTypeOK' /\ Unplayed'
  BY <1>1, <1>2, <1>3 DEF FilesInv, FilesTypeOK, Unplayed, voiceVars
<1>5. voice_index' <= VoiceLines(script', at')
  <2>1. voice_index <= VoiceLines(script, at)
    BY <1>1 DEF FilesInv, ScriptFiles, InRunDemo
  <2> QED
    BY <1>1, <1>2, <2>1, VoiceLinesNext
<1>6. PlayedBelow(voice_index, "main")'
  BY <1>1 DEF FilesInv, ScriptFiles, PlayedBelow, voiceVars
<1> QED
  BY <1>2, <1>3, <1>4, <1>5, <1>6, ScriptFilesStep

LEMMA AtMostBelow ==
  ASSUME NEW b \in Nat, NEW s, PlayedBelow(b, s)
  PROVE  AllBelow(b + 1)
BY IndicesAssumption DEF PlayedBelow, AllBelow

LEMMA SpokeFiles == ASSUME FilesInv, MainInv, Spoke PROVE FilesInv'
<1>1. /\ pc = "speaking" /\ voice["main"] \in {"returned", "raised"}
      /\ voice' = [voice EXCEPT !["main"] = "silent"]
      /\ UNCHANGED <<index, files, queue, next_index, worker, tried>>
      /\ UNCHANGED <<voice_index, at, command, commentary>>
      /\ then \in {"voiced", "aws_101", "aws_worker", "aws_no_key", "aws_parse",
                   "aws_end", "aws_end_failed"}
  BY DEF Spoke, workerVars, place, fixed, aws, MainInv, Control
<1>2. /\ voice'["worker"] = voice["worker"] /\ voice'["main"] = "silent"
      /\ script' = script
  BY <1>1 DEF MainInv, VoicesInv, Speakers, script
<1>3. FilesTypeOK' /\ Unplayed'
  BY <1>1, <1>2 DEF FilesInv, FilesTypeOK, Unplayed, Speakers
<1>4. \A b, s : AllBelow(b) => PlayedBelow(b, s)'
  BY <1>1 DEF AllBelow, PlayedBelow
<1>5. CASE pc' = then
  <2>1. CASE then = "voiced"
    <3>1. voice_index \in Nat /\ PlayedBelow(voice_index, "main")
      BY <1>1, <2>1 DEF FilesInv, FilesTypeOK, ScriptFiles
    <3>2. \A i \in Indices : files'[i] = "played" => i < voice_index + 1
      BY <1>1, <3>1, AtMostBelow DEF AllBelow
    <3>3. PlayedBelow(voice_index + 1, "main")'
      BY <1>1, <3>2 DEF PlayedBelow
    <3>4. ScriptFiles'
      BY <1>1, <1>2, <1>5, <2>1, <3>3 DEF FilesInv, ScriptFiles, InRunDemo
    <3>5. ScorecardFiles' /\ CommentaryCounted' /\ AwsFiles'
      BY <1>5, <2>1 DEF ScorecardFiles, CommentaryCounted, AwsFiles, StageAt, KeyAt,
                        ClosingAt, NoKeyAt
    <3> QED
      BY <1>3, <3>4, <3>5 DEF FilesInv
  <2>2. CASE then = "aws_no_key"
    <3>1. ScriptFiles' /\ ScorecardFiles'
      BY <1>5, <2>2 DEF ScriptFiles, ScorecardFiles, StageAt, InRunDemo
    <3>2. CommentaryCounted'
      BY <1>1, <1>5, <2>2 DEF FilesInv, CommentaryCounted, KeyAt, ClosingAt, NoKeyAt,
                              Busy, Given
    <3>3. AwsFiles'
      BY <1>1, <1>2, <1>5, <2>2 DEF FilesInv, AwsFiles, KeyAt, ClosingAt, NoKeyAt
    <3> QED
      BY <1>3, <3>1, <3>2, <3>3 DEF FilesInv
  <2>3. CASE then \in {"aws_101", "aws_worker", "aws_parse", "aws_end", "aws_end_failed"}
    <3>1. ScriptFiles' /\ ScorecardFiles' /\ CommentaryCounted'
      BY <1>5, <2>3 DEF ScriptFiles, ScorecardFiles, CommentaryCounted, StageAt,
                        InRunDemo, KeyAt, ClosingAt, NoKeyAt
    <3>2. /\ then = "aws_101" => AllBelow(100 + 1)
          /\ then = "aws_worker" => AllBelow(101 + 1)
          /\ then = "aws_parse" => AllBelow(110 + 1)
      BY <1>1, AtMostBelow DEF FilesInv, AwsFiles
    <3>3. /\ then = "aws_101" => PlayedBelow(101, "main")'
          /\ then = "aws_worker" => PlayedBelow(102, "main")'
          /\ then = "aws_parse" => PlayedBelow(111, "main")'
      BY <1>4, <3>2
    <3>4. AwsFiles'
      BY <1>5, <2>3, <3>3 DEF AwsFiles, KeyAt, ClosingAt, NoKeyAt
    <3> QED
      BY <1>3, <3>1, <3>4 DEF FilesInv
  <2> QED
    BY <1>1, <2>1, <2>2, <2>3
<1>6. CASE pc' = "aws_parse_failed" /\ voice["main"] = "raised" /\ then = "aws_end"
  <2>1. AllBelow(111)
    BY <1>1, <1>6, QuietBelow DEF FilesInv, AwsFiles
  <2>2. PlayedBelow(111, "main")'
    BY <1>4, <2>1
  <2>3. ScriptFiles' /\ ScorecardFiles' /\ CommentaryCounted' /\ AwsFiles'
    BY <1>6, <2>2 DEF ScriptFiles, ScorecardFiles, CommentaryCounted, AwsFiles, StageAt,
                      InRunDemo, KeyAt, ClosingAt, NoKeyAt
  <2> QED
    BY <1>3, <2>3 DEF FilesInv
<1>7. CASE pc' = "exited"
  <2>1. ScriptFiles' /\ ScorecardFiles' /\ CommentaryCounted' /\ AwsFiles'
    BY <1>7 DEF ScriptFiles, ScorecardFiles, CommentaryCounted, AwsFiles, StageAt,
                InRunDemo, KeyAt, ClosingAt, NoKeyAt
  <2> QED
    BY <1>3, <2>1 DEF FilesInv
<1> QED
  BY <1>5, <1>6, <1>7 DEF Spoke, Goto, Leave

(* No part of a script speaks more lines than the whole.                   *)
LEMMA VoiceLinesWithin ==
  ASSUME IndicesSuffice, command \in Commands, script \in Seq(Line),
         at \in 1 .. Len(script) + 1
  PROVE  VoiceLines(script, at) <= 100
<1>1. VoiceLines(script, Len(script) + 1) <= 100 /\ Len(script) \in Nat
  BY LenProperties DEF IndicesSuffice, script
<1>2. ASSUME NEW kind
      PROVE  /\ Cardinality(Spoken(script, at, kind)) \in Nat
             /\ Cardinality(Spoken(script, Len(script) + 1, kind)) \in Nat
             /\ Cardinality(Spoken(script, at, kind))
                  <= Cardinality(Spoken(script, Len(script) + 1, kind))
  <2>1. IsFiniteSet(1 .. Len(script))
    BY <1>1, FS_Interval
  <2>2. Spoken(script, Len(script) + 1, kind) \in SUBSET (1 .. Len(script))
    BY <1>1 DEF Spoken
  <2>3. Spoken(script, at, kind) \in SUBSET Spoken(script, Len(script) + 1, kind)
    BY <1>1 DEF Spoken
  <2>4. IsFiniteSet(Spoken(script, Len(script) + 1, kind))
    BY <2>1, <2>2, FS_Subset
  <2> QED
    BY <2>3, <2>4, FS_Subset, FS_CardinalityType
<1>3. /\ Cardinality(Spoken(script, at, "VOICE")) \in Nat
      /\ Cardinality(Spoken(script, Len(script) + 1, "VOICE")) \in Nat
      /\ Cardinality(Spoken(script, at, "VOICE"))
           <= Cardinality(Spoken(script, Len(script) + 1, "VOICE"))
  BY <1>2
<1>4. /\ Cardinality(Spoken(script, at, "SCORECARD")) \in Nat
      /\ Cardinality(Spoken(script, Len(script) + 1, "SCORECARD")) \in Nat
      /\ Cardinality(Spoken(script, at, "SCORECARD"))
           <= Cardinality(Spoken(script, Len(script) + 1, "SCORECARD"))
  BY <1>2
<1> QED
  BY <1>1, <1>3, <1>4 DEF VoiceLines

(* The script has been played, or was never begun: the AWS demo starts.    *)
LEMMA AwsBeginsFiles ==
  ASSUME FilesInv, MainInv, IndicesSuffice, pc \in {"main", "ask"}, pc' = "aws",
         UNCHANGED <<voiceVars, voice_index, at, command, commentary>>
  PROVE  FilesInv'
<1>1. voice_index <= VoiceLines(script, at) /\ AllBelow(voice_index) /\ voice_index \in Nat
  <2>1. voice["main"] = "silent"
    BY DEF MainInv, VoicesInv
  <2> QED
    BY <2>1, QuietBelow DEF FilesInv, FilesTypeOK, ScriptFiles
<1>2. VoiceLines(script, at) <= 100
  BY VoiceLinesWithin DEF FilesInv, FilesTypeOK
<1>3. AllBelow(100)
  <2>1. VoiceLines(script, at) \in Nat
    BY VoiceLinesNext DEF FilesInv, FilesTypeOK
  <2> QED
    BY <1>1, <1>2, <2>1, IndicesAssumption DEF AllBelow
<1>4. PlayedBelow(100, "main")'
  BY <1>3 DEF AllBelow, PlayedBelow, voiceVars
<1>5. ScriptFiles' /\ ScorecardFiles' /\ CommentaryCounted' /\ AwsFiles'
  BY <1>4 DEF ScriptFiles, ScorecardFiles, CommentaryCounted, AwsFiles, StageAt,
              InRunDemo, KeyAt, ClosingAt, NoKeyAt
<1> QED
  BY <1>5, SameTypes DEF FilesInv

LEMMA MainFiles == ASSUME FilesInv, MainInv, IndicesSuffice, Main \/ Answer PROVE FilesInv'
<1>1. /\ pc \in {"main", "ask"}
      /\ UNCHANGED <<voiceVars, voice_index, at, command, commentary>>
      /\ pc' \in {"aws", "exited"} \/ (pc = "main" /\ pc' = "line")
  BY DEF Main, Answer, Goto, Leave, place, fixed, aws
<1> QED
  BY <1>1, AwsBeginsFiles, ExitFiles, SameLineFiles

(* The benchmark.                                                          *)
LEMMA NotInAws ==
  ASSUME pc' \in {"benchmark", "scored"} \/ (pc' = "join" /\ then' = "scored"),
         script[at].is = "SCORECARD", UNCHANGED <<at, script>>,
         FilesTypeOK', Unplayed',
         voice_index' <= VoiceLines(script, at),
         PlayedBelow(next_index, "worker")',
         (next_index + Busy)' <= (voice_index + Len(tried))'
  PROVE  FilesInv'
<1>1. ScriptFiles' /\ ScorecardFiles'
  BY DEF ScriptFiles, ScorecardFiles
<1>2. CommentaryCounted' /\ AwsFiles'
  BY DEF CommentaryCounted, AwsFiles, KeyAt, ClosingAt, NoKeyAt
<1> QED
  BY <1>1, <1>2 DEF FilesInv

LEMMA ScorecardKeepsFiles ==
  ASSUME FilesInv, MainInv, StagesInv', Scorecard
  PROVE  FilesInv'
<1>1. /\ pc = "line" /\ pc' = "benchmark" /\ script[at].is = "SCORECARD"
      /\ worker' = "get" /\ queue' = <<>> /\ next_index' = voice_index /\ tried' = <<>>
      /\ UNCHANGED <<voice, index, files, voice_index, at, command, commentary>>
  BY DEF Scorecard, Reached, AtLine, line, StartWorker, Goto, place, fixed, aws
<1>2. script' = script /\ voice_index \in Nat /\ voice_index <= VoiceLines(script, at)
  BY <1>1 DEF script, FilesInv, FilesTypeOK, ScriptFiles, InRunDemo
<1>3. FilesTypeOK' /\ Unplayed'
  BY <1>1, <1>2 DEF FilesInv, FilesTypeOK, Unplayed, StagesInv
<1>4. AllBelow(voice_index)
  BY <1>1, QuietAtLine, QuietBelow DEF FilesInv, ScriptFiles
<1>5. PlayedBelow(next_index, "worker")'
  BY <1>1, <1>4 DEF AllBelow, PlayedBelow
<1>6. (next_index + Busy)' <= (voice_index + Len(tried))'
  <2>1. Len(tried') = 0 /\ Busy' = 0
    BY <1>1, EmptySeq DEF Busy
  <2> QED
    BY <1>1, <1>2, <2>1
<1> QED
  BY <1>1, <1>2, <1>3, <1>5, <1>6, NotInAws

LEMMA BenchmarkFiles ==
  ASSUME FilesInv, MainInv, StagesInv',
         StageLine \/ BenchmarkEnds \/ (Join /\ then = "scored")
  PROVE  FilesInv'
<1>1. /\ StageAt /\ (pc' = "benchmark" \/ (pc' = "join" /\ then' = "scored") \/ pc' = "scored")
      /\ UNCHANGED <<voice, index, files, next_index, worker, tried>>
      /\ UNCHANGED <<voice_index, at, command, commentary>>
  BY DEF StageLine, BenchmarkEnds, Join, Enqueue, Close, PutSentinel, Goto, StageAt,
         voiceVars, place, fixed, aws
<1>2. script' = script /\ voice_index <= VoiceLines(script, at)
  BY <1>1 DEF script, FilesInv, ScriptFiles, InRunDemo, StageAt
<1>3. FilesTypeOK' /\ Unplayed'
  BY <1>1, <1>2 DEF FilesInv, FilesTypeOK, Unplayed, StagesInv
<1>4. script[at].is = "SCORECARD" /\ PlayedBelow(next_index, "worker")'
  BY <1>1 DEF FilesInv, ScorecardFiles, PlayedBelow
<1>5. (next_index + Busy)' <= (voice_index + Len(tried))'
  BY <1>1 DEF FilesInv, ScorecardFiles, Busy
<1> QED
  BY <1>1, <1>2, <1>3, <1>4, <1>5, NotInAws

LEMMA ScoredFiles ==
  ASSUME FilesInv, MainInv, HereInv, StagesInv, Scored
  PROVE  FilesInv'
<1>1. /\ pc = "scored" /\ ToNextLine /\ voice_index' = next_index
      /\ UNCHANGED <<voiceVars, command, commentary>>
  BY DEF Scored, fixed, aws
<1>2. /\ pc' = "line" /\ at' = at + 1 /\ script' = script /\ at \in Nat \ {0}
      /\ next_index \in Nat /\ voice_index \in Nat
  BY <1>1 DEF ToNextLine, Goto, script, FilesInv, FilesTypeOK
<1>3. at' \in 1 .. Len(script) + 1
  BY <1>1, <1>2, LenProperties DEF HereInv, AtDirective, InRunDemo
<1>4. FilesTypeOK' /\ Unplayed'
  BY <1>1, <1>2, <1>3 DEF FilesInv, FilesTypeOK, Unplayed, voiceVars
<1>5. worker # "speaking" /\ voice["worker"] = "silent"
  BY <1>1, QuietAtLine DEF MainInv, VoicesInv
<1>6. /\ script[at].is = "SCORECARD" /\ voice_index <= VoiceLines(script, at)
      /\ PlayedBelow(next_index, "worker")
      /\ next_index + Busy <= voice_index + Len(tried)
      /\ Len(tried) = printed /\ printed \in 0 .. 4
  BY <1>1 DEF FilesInv, ScriptFiles, InRunDemo, ScorecardFiles, StageAt, StagesInv
<1>7. voice_index' <= VoiceLines(script', at')
  <2>1. next_index <= voice_index + 4
    BY <1>2, <1>5, <1>6 DEF Busy
  <2>2. /\ VoiceLines(script, at) \in Nat /\ VoiceLines(script, at + 1) \in Nat
        /\ VoiceLines(script, at) + 4 <= VoiceLines(script, at + 1)
    BY <1>2, <1>6, VoiceLinesNext
  <2>3. next_index <= VoiceLines(script, at + 1)
    BY <1>2, <1>6, <2>1, <2>2
  <2> QED
    BY <1>1, <1>2, <2>3
<1>8. PlayedBelow(voice_index, "main")'
  <2>1. AllBelow(next_index)
    BY <1>5, <1>6, QuietBelow
  <2> QED
    BY <1>1, <2>1 DEF AllBelow, PlayedBelow, voiceVars
<1> QED
  BY <1>2, <1>3, <1>4, <1>7, <1>8, ScriptFilesStep

-----------------------------------------------------------------------------
(* The files in the AWS demo.                                              *)

(* Once the AWS demo has begun only its own part says anything.            *)
LEMMA InAws ==
  ASSUME FilesTypeOK', Unplayed', CommentaryCounted', AwsFiles',
         \/ pc' \in {"aws", "aws_101", "aws_worker", "aws_key", "aws_no_key", "aws_ssh",
                     "aws_closed", "aws_parse", "aws_parsed", "aws_parse_failed", "aws_end",
                     "aws_end_failed"}
         \/ pc' = "speaking" /\ then' # "voiced" /\ then' # "scored"
         \/ pc' = "join" /\ then' = "aws_closed"
  PROVE  FilesInv'
<1>1. ScriptFiles' /\ ScorecardFiles'
  BY DEF ScriptFiles, ScorecardFiles, StageAt, InRunDemo
<1> QED
  BY <1>1 DEF FilesInv

(* The commentary cannot reach the indices of the lines that follow it.    *)
LEMMA CommentaryWithin ==
  ASSUME FilesInv, IndicesSuffice, KeyAt \/ ClosingAt \/ NoKeyAt
  PROVE  next_index + Busy <= 110 /\ next_index <= 110
<1>1. /\ next_index \in Nat /\ Len(tried) \in Nat /\ Len(queue) \in Nat
      /\ commentary \in Nat
  BY LenProperties DEF FilesInv, FilesTypeOK
<1>2. Len(tried) <= COMMENTARY /\ next_index + Busy <= 102 + Len(tried)
  BY <1>1, DemoAssumption DEF FilesInv, CommentaryCounted, Given
<1>3. Busy \in {0, 1}
  BY DEF Busy
<1> QED
  BY <1>1, <1>2, <1>3, DemoAssumption DEF IndicesSuffice

LEMMA AwsClosedFiles ==
  ASSUME FilesInv, MainInv, IndicesSuffice, Join, then = "aws_closed"
  PROVE  FilesInv'
<1>1. /\ pc = "join" /\ worker = "ended" /\ pc' = "aws_closed"
      /\ UNCHANGED <<voiceVars, voice_index, at, command, commentary>>
  BY DEF Join, Joined, Goto, place, fixed, aws
<1>2. AllBelow(next_index) /\ next_index <= 110 /\ next_index \in Nat
  <2>1. voice["worker"] = "silent"
    BY <1>1 DEF MainInv, VoicesInv
  <2>2. ClosingAt
    BY <1>1 DEF ClosingAt
  <2> QED
    BY <2>1, <2>2, QuietBelow, CommentaryWithin DEF FilesInv, FilesTypeOK, AwsFiles
<1>3. PlayedBelow(110, "main")'
  BY <1>1, <1>2, IndicesAssumption DEF AllBelow, PlayedBelow, voiceVars
<1>4. CommentaryCounted' /\ AwsFiles'
  BY <1>1, <1>3 DEF CommentaryCounted, AwsFiles, KeyAt, ClosingAt, NoKeyAt
<1> QED
  BY <1>1, <1>4, SameTypes, InAws

(* A line of the AWS demo, of which only the bound is said.                *)
LEMMA AwsSpeakFiles ==
  ASSUME FilesInv, MainInv, NEW i \in Nat, NEW next, Speak(i, next), AllBelow(i),
         \/ next = "aws_101" /\ i = 100
         \/ next = "aws_worker" /\ i = 101
         \/ next = "aws_parse" /\ i = 110
         \/ next = "aws_end" /\ i = 111
         \/ next = "aws_end_failed",
         UNCHANGED <<voice_index, at, command, commentary>>
  PROVE  FilesInv'
<1>1. FilesTypeOK' /\ Unplayed'
  BY SpeakTypes DEF AllBelow
<1>2. pc' = "speaking" /\ then' = next /\ index'["main"] = i /\ UNCHANGED files
  BY SpokenIndex
<1>3. PlayedBelow(i, "main")'
  BY <1>2 DEF AllBelow, PlayedBelow
<1>4. CommentaryCounted' /\ AwsFiles'
  BY <1>2, <1>3 DEF CommentaryCounted, AwsFiles, KeyAt, ClosingAt, NoKeyAt
<1> QED
  BY <1>1, <1>2, <1>4, InAws

LEMMA AwsSaysFiles ==
  ASSUME FilesInv, MainInv, NEW from, NEW i, NEW next,
         \/ from = "aws" /\ i = 100 /\ next = "aws_101"
         \/ from = "aws_101" /\ i = 101 /\ next = "aws_worker"
         \/ from = "aws_closed" /\ i = 110 /\ next \in {"aws_parse", "aws_end_failed"}
         \/ from = "aws_parsed" /\ i = 111 /\ next = "aws_end"
         \/ from = "aws_parse_failed" /\ i = 111 /\ next = "aws_end_failed",
         Aws(AwsSays(from, i, next))
  PROVE  FilesInv'
<1>1. /\ pc = from /\ Speak(i, next) /\ i \in Nat
      /\ UNCHANGED <<voice_index, at, command, commentary>>
  BY DEF Aws, AwsSays, place, fixed
<1>2. PlayedBelow(i, "main")
  BY <1>1 DEF FilesInv, AwsFiles
<1>3. voice["main"] = "silent"
  BY <1>1, QuietAtLine
<1> QED
  BY <1>1, <1>2, <1>3, QuietBelow, AwsSpeakFiles

LEMMA NoKeyFiles ==
  ASSUME FilesInv, MainInv, IndicesSuffice, Aws(AwsSays("aws_key", 199, "aws_no_key"))
  PROVE  FilesInv'
<1>1. /\ pc = "aws_key" /\ Speak(199, "aws_no_key")
      /\ UNCHANGED <<voice_index, at, command, commentary>>
  BY DEF Aws, AwsSays, place, fixed
<1>2. KeyAt /\ ~ClosingAt
  BY <1>1 DEF KeyAt, ClosingAt
<1>3. /\ pc' = "speaking" /\ then' = "aws_no_key" /\ index'["main"] = 199
      /\ UNCHANGED <<files, queue, next_index, worker, tried>>
      /\ voice'["worker"] = voice["worker"]
  <2>1. /\ pc' = "speaking" /\ then' = "aws_no_key" /\ index'["main"] = 199
        /\ UNCHANGED <<files, queue, next_index, worker, tried>>
    BY <1>1, SpokenIndex
  <2>2. voice'["worker"] = voice["worker"]
    BY <1>1 DEF Speak, SpeakBegin, MainInv, VoicesInv, Speakers
  <2> QED
    BY <2>1, <2>2
<1>4. next_index <= 110 /\ next_index \in Nat /\ PlayedBelow(next_index, "worker")
  BY <1>2, CommentaryWithin DEF FilesInv, FilesTypeOK, AwsFiles
<1>5. FilesTypeOK' /\ Unplayed'
  <2>1. 199 \in Indices => files[199] # "played"
    BY <1>4 DEF PlayedBelow
  <2> QED
    BY <1>1, <2>1, SpeakTypes
<1>6. CommentaryCounted'
  BY <1>1, <1>2, <1>3 DEF FilesInv, CommentaryCounted, KeyAt, ClosingAt, NoKeyAt, Busy, Given
<1>7. AwsFiles'
  BY <1>3, <1>4 DEF AwsFiles, PlayedBelow, KeyAt, ClosingAt, NoKeyAt
<1> QED
  BY <1>3, <1>5, <1>6, <1>7, InAws

LEMMA AwsWorkerFiles ==
  ASSUME FilesInv, MainInv, Aws(AwsWorker)
  PROVE  FilesInv'
<1>1. /\ pc = "aws_worker" /\ pc' = "aws_key" /\ commentary' = COMMENTARY
      /\ worker' = "get" /\ queue' = <<>> /\ next_index' = 102 /\ tried' = <<>>
      /\ UNCHANGED <<voice, index, files, voice_index, at, command>>
  BY DEF Aws, AwsWorker, StartWorker, Goto, place, fixed
<1>2. tried' \in Seq(Texts) /\ queue' \in Seq(Texts) /\ Len(tried') = 0 /\ Len(queue') = 0
  BY <1>1, EmptySeq
<1>3. FilesTypeOK' /\ Unplayed'
  BY <1>1, <1>2, DemoAssumption DEF FilesInv, FilesTypeOK, Unplayed, script
<1>4. AllBelow(102)
  BY <1>1, QuietAtLine, QuietBelow DEF FilesInv, AwsFiles
<1>5. PlayedBelow(next_index, "worker")'
  BY <1>1, <1>4 DEF AllBelow, PlayedBelow
<1>6. CommentaryCounted'
  BY <1>1, <1>2, DemoAssumption DEF CommentaryCounted, KeyAt, ClosingAt, NoKeyAt, Busy, Given
<1>7. AwsFiles'
  BY <1>1, <1>5 DEF AwsFiles, KeyAt, ClosingAt, NoKeyAt
<1> QED
  BY <1>1, <1>3, <1>6, <1>7, InAws

LEMMA AwsLauncherEndsFiles ==
  ASSUME FilesInv, Aws(AwsLauncherEnds)
  PROVE  FilesInv'
<1>1. /\ pc = "aws_ssh" /\ pc' = "join" /\ then' = "aws_closed"
      /\ queue' = Append(queue, None)
      /\ UNCHANGED <<voice, index, files, next_index, worker, tried>>
      /\ UNCHANGED <<voice_index, at, command, commentary>>
  BY DEF Aws, AwsLauncherEnds, Close, PutSentinel, WithSentinel, place, fixed
<1>2. /\ tried \in Seq(Texts) /\ queue \in Seq(Texts) /\ commentary \in Nat
      /\ Len(tried) \in Nat /\ Len(queue) \in Nat
  BY LenProperties DEF FilesInv, FilesTypeOK
<1>3. /\ queue' \in Seq(Texts) /\ Len(queue') = Len(queue) + 1 /\ Given' = Given + 1
      /\ queue'[Len(queue')] = None
  BY <1>1, <1>2, AddedLast, NoneIsText
<1>4. FilesTypeOK' /\ Unplayed'
  BY <1>1, <1>3 DEF FilesInv, FilesTypeOK, Unplayed, script
<1>5. CommentaryCounted'
  <2>1. /\ next_index + Busy <= 102 + Len(tried) /\ Given + commentary <= COMMENTARY
    BY <1>1 DEF FilesInv, CommentaryCounted, KeyAt
  <2>2. Len(tried') <= COMMENTARY /\ (Given + commentary)' <= COMMENTARY + 1
    BY <1>1, <1>2, <1>3, <2>1, DemoAssumption DEF Given
  <2>3. Len(queue') \in 1 .. Len(queue')
    BY <1>2, <1>3
  <2>4. Busy' = Busy
    BY <1>1 DEF Busy
  <2> QED
    BY <1>1, <1>3, <2>1, <2>2, <2>3, <2>4 DEF CommentaryCounted, KeyAt, ClosingAt, NoKeyAt
<1>6. AwsFiles'
  BY <1>1 DEF FilesInv, AwsFiles, PlayedBelow, KeyAt, ClosingAt, NoKeyAt
<1> QED
  BY <1>1, <1>4, <1>5, <1>6, InAws

LEMMA AwsScorecardFiles ==
  ASSUME FilesInv, Aws(AwsScorecard)
  PROVE  FilesInv'
<1>1. /\ pc = "aws_parse" /\ pc' \in {"aws_parsed", "aws_parse_failed"}
      /\ UNCHANGED <<voiceVars, voice_index, at, command, commentary>>
  BY DEF Aws, AwsScorecard, Goto, place, fixed
<1>2. CommentaryCounted' /\ AwsFiles'
  BY <1>1 DEF FilesInv, CommentaryCounted, AwsFiles, PlayedBelow, KeyAt, ClosingAt,
              NoKeyAt, voiceVars
<1> QED
  BY <1>1, <1>2, SameTypes, InAws

LEMMA CommentFiles ==
  ASSUME FilesInv, MainInv, Aws(Comment)
  PROVE  FilesInv'
<1>1. /\ commentary > 0 /\ commentary' = commentary - 1 /\ queue' = Append(queue, "comment")
      /\ UNCHANGED <<voice, index, files, next_index, worker, tried>>
      /\ UNCHANGED <<pc, then, voice_index, at, command>> /\ pc # "exited"
  BY DEF Aws, Comment, Enqueue, place, fixed
<1>2. /\ tried \in Seq(Texts) /\ queue \in Seq(Texts) /\ commentary \in Nat
      /\ Len(tried) \in Nat /\ Len(queue) \in Nat /\ commentary' \in Nat
  BY <1>1, LenProperties DEF FilesInv, FilesTypeOK
<1>3. /\ queue' \in Seq(Texts) /\ Len(queue') = Len(queue) + 1 /\ Given' = Given + 1
  BY <1>1, <1>2, AddedLast DEF Texts
<1>4. \A k \in 1 .. Len(queue) : k \in 1 .. Len(queue') /\ queue'[k] = queue[k]
  BY <1>1, <1>2, <1>3, AppendProperties
<1>5. FilesTypeOK' /\ Unplayed'
  BY <1>1, <1>2, <1>3 DEF FilesInv, FilesTypeOK, Unplayed, script
<1>6. CommentaryCounted'
  <2>1. Busy' = Busy /\ (Given + commentary)' = Given + commentary /\ Given \in Nat
    BY <1>1, <1>2, <1>3 DEF Busy, Given
  <2>2. /\ KeyAt \/ ClosingAt \/ NoKeyAt => next_index + Busy <= 102 + Len(tried)
        /\ KeyAt \/ NoKeyAt => Given + commentary <= COMMENTARY
        /\ ClosingAt =>
             /\ Len(tried) <= COMMENTARY
             /\ worker # "ended" =>
                  /\ Given + commentary <= COMMENTARY + 1
                  /\ \E k \in 1 .. Len(queue) : queue[k] = None
    BY DEF FilesInv, CommentaryCounted
  <2>3. KeyAt' = KeyAt /\ ClosingAt' = ClosingAt /\ NoKeyAt' = NoKeyAt
    BY <1>1 DEF KeyAt, ClosingAt, NoKeyAt
  <2>4. (\E k \in 1 .. Len(queue) : queue[k] = None)
           => \E k \in 1 .. Len(queue') : queue'[k] = None
    BY <1>4
  <2> QED
    BY <1>1, <2>1, <2>2, <2>3, <2>4 DEF CommentaryCounted
<1>7. AwsFiles'
  BY <1>1 DEF FilesInv, AwsFiles, PlayedBelow, KeyAt, ClosingAt, NoKeyAt
<1>8. ScriptFiles' /\ ScorecardFiles'
  <2>1. pc \in {"aws_key", "aws_no_key", "aws_ssh", "aws_closed", "aws_parse", "aws_parsed",
                "aws_parse_failed", "aws_end", "aws_end_failed"}
        \/ (pc = "speaking" /\ then # "voiced") \/ (pc = "join" /\ then # "scored")
    BY <1>1, <1>2 DEF MainInv, CommentInv, CommentAt
  <2>2. (pc = "speaking" => then # "scored") /\ (pc = "join" => then # "voiced")
    BY DEF MainInv, Control
  <2>3. ~InRunDemo /\ ~StageAt
    BY <2>1, <2>2 DEF StageAt, InRunDemo
  <2>4. /\ ~InRunDemo' /\ ~StageAt'
        /\ pc' \notin {"main", "ask", "line", "probe", "voiced"}
        /\ ~(pc' = "speaking" /\ then' = "voiced")
    BY <1>1, <2>1, <2>3 DEF StageAt, InRunDemo
  <2> QED
    BY <2>4 DEF ScriptFiles, ScorecardFiles
<1> QED
  BY <1>5, <1>6, <1>7, <1>8 DEF FilesInv

-----------------------------------------------------------------------------
(* The files while the voices speak.                                       *)

(* Where the worker is awake, and what bounds its index.                   *)
LEMMA WorkerAwake ==
  ASSUME FilesInv, MainInv, IndicesSuffice, worker \in {"get", "speaking"}, pc # "exited"
  PROVE  /\ StageAt \/ KeyAt \/ ClosingAt \/ NoKeyAt
         /\ pc \notin {"main", "line", "ask", "probe", "voiced", "aws", "aws_101",
                       "aws_worker", "aws_closed", "aws_parse", "aws_parsed",
                       "aws_parse_failed"}
         /\ pc = "speaking" => then = "aws_no_key"
         /\ voice["main"] # "silent" => NoKeyAt /\ index["main"] = 199
         /\ NoKeyAt => next_index <= 110
<1>1. WorkerAt
  BY DEF MainInv, VoicesInv
<1>2. pc = "join" => then \in {"scored", "aws_closed"}
  BY DEF MainInv, Control
<1>3. /\ StageAt \/ KeyAt \/ ClosingAt \/ NoKeyAt
      /\ pc \notin {"main", "line", "ask", "probe", "voiced", "aws", "aws_101",
                    "aws_worker", "aws_closed", "aws_parse", "aws_parsed",
                    "aws_parse_failed"}
      /\ pc = "speaking" => then = "aws_no_key"
  BY <1>1, <1>2 DEF WorkerAt, StageAt, KeyAt, ClosingAt, NoKeyAt
<1>4. voice["main"] # "silent" => pc = "speaking"
  BY DEF MainInv, VoicesInv
<1>5. NoKeyAt /\ pc = "speaking" => index["main"] = 199
  BY DEF FilesInv, AwsFiles
<1>6. NoKeyAt => next_index <= 110
  BY CommentaryWithin
<1> QED
  BY <1>3, <1>4, <1>5, <1>6 DEF NoKeyAt

(* What the worker is to play next nobody has played yet.                  *)
WorkerBound(i) == i < next_index \/ (i = next_index /\ voice["worker"] = "returned")

LEMMA WorkerBoundIs ==
  ASSUME FilesInv, StageAt \/ KeyAt \/ ClosingAt \/ NoKeyAt
  PROVE  \A i \in Indices : files[i] = "played" => WorkerBound(i) \/ (NoKeyAt /\ i = 199)
BY DEF FilesInv, ScorecardFiles, AwsFiles, PlayedBelow, WorkerBound

(* A step of the worker keeps the bounds of the files.                     *)
LEMMA WorkerFiles ==
  ASSUME FilesInv, MainInv, IndicesSuffice, worker \in {"get", "speaking"}, pc # "exited",
         UNCHANGED <<pc, then, voice_index, at, command, commentary>>,
         FilesTypeOK', Unplayed', CommentaryCounted', index'["main"] = index["main"],
         \A i \in Indices :
           files'[i] = "played" => WorkerBound(i)' \/ (NoKeyAt /\ i = 199),
         next_index + Busy <= voice_index + Len(tried) =>
           (next_index + Busy)' <= (voice_index + Len(tried))'
  PROVE  FilesInv'
<1>1. /\ StageAt \/ KeyAt \/ ClosingAt \/ NoKeyAt
      /\ pc \notin {"main", "line", "ask", "probe", "voiced", "aws", "aws_101",
                    "aws_worker", "aws_closed", "aws_parse", "aws_parsed",
                    "aws_parse_failed"}
      /\ pc = "speaking" => then = "aws_no_key"
      /\ NoKeyAt /\ pc = "speaking" => index["main"] = 199
  BY WorkerAwake DEF FilesInv, AwsFiles
<1>2. /\ StageAt' = StageAt /\ KeyAt' = KeyAt /\ ClosingAt' = ClosingAt
      /\ NoKeyAt' = NoKeyAt /\ InRunDemo' = InRunDemo /\ script' = script
  BY DEF StageAt, KeyAt, ClosingAt, NoKeyAt, InRunDemo, script
<1>3. ~NoKeyAt => PlayedBelow(next_index, "worker")'
  BY DEF PlayedBelow, WorkerBound
<1>4. ScriptFiles'
  BY <1>1, <1>2 DEF FilesInv, ScriptFiles
<1>5. StageAt => ~NoKeyAt
  BY DEF StageAt, NoKeyAt
<1>6. ScorecardFiles'
  BY <1>2, <1>3, <1>5 DEF FilesInv, ScorecardFiles
<1>7. KeyAt \/ ClosingAt => ~NoKeyAt
  BY DEF KeyAt, ClosingAt, NoKeyAt
<1>8. NoKeyAt' => \A i \in Indices : files'[i] = "played" =>
        i < next_index' \/ (i = next_index' /\ voice'["worker"] = "returned") \/ i = 199
  BY <1>2 DEF WorkerBound
<1>9. AwsFiles'
  BY <1>1, <1>2, <1>3, <1>7, <1>8 DEF AwsFiles
<1> QED
  BY <1>4, <1>6, <1>9 DEF FilesInv

LEMMA WorkerTakesFiles ==
  ASSUME FilesInv, MainInv, IndicesSuffice, Beside(WorkerTakes)
  PROVE  FilesInv'
<1>1. /\ worker = "get" /\ queue # <<>> /\ queue' = Tail(queue) /\ next_index' = next_index
      /\ pc # "exited"
      /\ UNCHANGED <<pc, then, voice_index, at, command, commentary, files>>
  BY DEF Beside, WorkerTakes, SpeakBegin, place, fixed, aws
<1>2. /\ tried \in Seq(Texts) /\ queue \in Seq(Texts) /\ next_index \in Nat
      /\ Len(tried) \in Nat /\ Len(queue) \in Nat /\ commentary \in Nat
  BY LenProperties DEF FilesInv, FilesTypeOK
<1>3. /\ queue' \in Seq(Texts) /\ Len(queue') = Len(queue) - 1 /\ Len(queue) > 0
      /\ \A k \in 1 .. (Len(queue) - 1) : queue'[k] = queue[k + 1]
      /\ Head(queue) = queue[1] /\ Head(queue) \in Texts
  <2>1. /\ queue' \in Seq(Texts) /\ Len(queue') = Len(queue) - 1 /\ Head(queue) \in Texts
        /\ \A k \in 1 .. Len(queue') : queue'[k] = queue[k + 1]
    BY <1>1, <1>2, HeadTailProperties
  <2>2. Len(queue) > 0
    BY <1>1, <1>2, EmptySeq
  <2>3. Head(queue) = queue[1]
    BY <1>2
  <2> QED
    BY <2>1, <2>2, <2>3
<1>4. script' = script
  BY <1>1 DEF script
<1>5. \A i \in Indices : files[i] = "played" => WorkerBound(i) \/ (NoKeyAt /\ i = 199)
  BY <1>1, WorkerAwake, WorkerBoundIs
<1>6. CASE /\ Head(queue) = None /\ worker' = "ended"
           /\ UNCHANGED <<voice, index, tried>>
  <2>1. FilesTypeOK' /\ Unplayed'
    BY <1>1, <1>3, <1>4, <1>6 DEF FilesInv, FilesTypeOK, Unplayed
  <2>2. Busy = 0 /\ Busy' = 0 /\ Given' = Given - 1
    BY <1>1, <1>2, <1>3, <1>6 DEF Busy, Given
  <2>3. CommentaryCounted'
    <3>1. KeyAt' = KeyAt /\ ClosingAt' = ClosingAt /\ NoKeyAt' = NoKeyAt
      BY <1>1 DEF KeyAt, ClosingAt, NoKeyAt
    <3>2. KeyAt \/ NoKeyAt => (Given + commentary)' <= COMMENTARY
      BY <1>1, <1>2, <2>2, DemoAssumption DEF FilesInv, CommentaryCounted, Given
    <3> QED
      BY <1>1, <1>6, <2>2, <3>1, <3>2 DEF FilesInv, CommentaryCounted
  <2>4. \A i \in Indices : files'[i] = "played" => WorkerBound(i)' \/ (NoKeyAt /\ i = 199)
    BY <1>1, <1>5, <1>6 DEF WorkerBound
  <2>5. next_index + Busy <= voice_index + Len(tried) =>
          (next_index + Busy)' <= (voice_index + Len(tried))'
    BY <1>1, <1>6, <2>2
  <2> QED
    BY <1>1, <1>6, <2>1, <2>3, <2>4, <2>5, WorkerFiles
<1>7. CASE /\ Head(queue) # None /\ worker' = "speaking"
           /\ tried' = Append(tried, Head(queue)) /\ SpeakBegin("worker", next_index)
  <2>1. /\ voice["worker"] = "silent"
        /\ voice' = [voice EXCEPT !["worker"] = "synthesis"]
        /\ index' = [index EXCEPT !["worker"] = next_index]
    BY <1>7 DEF SpeakBegin
  <2>2. /\ tried' \in Seq(Texts) /\ Len(tried') = Len(tried) + 1 /\ Given' = Given
    BY <1>1, <1>2, <1>7, TakenStays
  <2>3. /\ voice'["main"] = voice["main"] /\ voice'["worker"] = "synthesis"
        /\ index'["main"] = index["main"] /\ index'["worker"] = next_index
        /\ index' \in [Speakers -> Nat]
    BY <1>2, <2>1 DEF MainInv, VoicesInv, FilesInv, FilesTypeOK, Speakers
  <2>4. next_index \in Indices => files[next_index] # "played"
    <3>1. NoKeyAt => next_index <= 110
      BY <1>1, WorkerAwake
    <3> QED
      BY <1>2, <1>5, <2>1, <3>1 DEF WorkerBound
  <2>5. FilesTypeOK'
    BY <1>1, <1>3, <1>4, <2>2, <2>3 DEF FilesInv, FilesTypeOK
  <2>6. Unplayed'
    BY <1>1, <2>3, <2>4 DEF FilesInv, Unplayed, Speakers
  <2>7. Busy = 0 /\ Busy' = 1
    BY <1>1, <1>7 DEF Busy
  <2>8. CommentaryCounted'
    <3>1. KeyAt' = KeyAt /\ ClosingAt' = ClosingAt /\ NoKeyAt' = NoKeyAt
      BY <1>1 DEF KeyAt, ClosingAt, NoKeyAt
    <3>2. /\ KeyAt \/ ClosingAt \/ NoKeyAt => next_index + Busy <= 102 + Len(tried)
          /\ KeyAt \/ NoKeyAt => Given + commentary <= COMMENTARY
          /\ ClosingAt =>
               /\ Given + commentary <= COMMENTARY + 1
               /\ \E k \in 1 .. Len(queue) : queue[k] = None
      BY <1>1 DEF FilesInv, CommentaryCounted
    <3>3. KeyAt \/ ClosingAt \/ NoKeyAt => (next_index + Busy)' <= 102 + Len(tried')
      BY <1>1, <1>2, <2>2, <2>7, <3>2
    <3>4. KeyAt \/ NoKeyAt => (Given + commentary)' <= COMMENTARY
      BY <1>1, <2>2, <3>2
    <3>5. ASSUME ClosingAt
          PROVE  \E k \in 1 .. Len(queue') : queue'[k] = None
      <4>1. PICK k \in 1 .. Len(queue) : queue[k] = None
        BY <3>2, <3>5
      <4>2. k # 1
        BY <1>3, <1>7, <4>1
      <4>3. k - 1 \in 1 .. (Len(queue) - 1) /\ (k - 1) + 1 = k
        BY <1>2, <4>1, <4>2
      <4> QED
        BY <1>3, <4>1, <4>3
    <3>6. ASSUME ClosingAt
          PROVE  Len(tried') <= COMMENTARY /\ (Given + commentary)' <= COMMENTARY + 1
      <4>1. (Given + commentary)' <= COMMENTARY + 1
        BY <1>1, <2>2, <3>2, <3>6
      <4>2. Len(queue') > 0
        BY <1>2, <1>3, <3>5, <3>6
      <4> QED
        BY <1>1, <1>2, <1>3, <2>2, <4>1, <4>2, DemoAssumption DEF Given
    <3> QED
      BY <3>1, <3>3, <3>4, <3>5, <3>6 DEF CommentaryCounted
  <2>9. \A i \in Indices : files'[i] = "played" => WorkerBound(i)' \/ (NoKeyAt /\ i = 199)
    BY <1>1, <1>5, <2>1 DEF WorkerBound
  <2>10. next_index + Busy <= voice_index + Len(tried) =>
           (next_index + Busy)' <= (voice_index + Len(tried))'
    BY <1>1, <1>2, <2>2, <2>7 DEF FilesInv, FilesTypeOK
  <2> QED
    BY <1>1, <2>3, <2>5, <2>6, <2>8, <2>9, <2>10, WorkerFiles
<1> QED
  BY <1>6, <1>7 DEF Beside, WorkerTakes

LEMMA WorkerEndsLineFiles ==
  ASSUME FilesInv, MainInv, IndicesSuffice, Beside(WorkerSpoke \/ WorkerWarns)
  PROVE  FilesInv'
<1>1. /\ worker = "speaking" /\ worker' = "get" /\ pc # "exited"
      /\ voice' = [voice EXCEPT !["worker"] = "silent"]
      /\ \/ voice["worker"] = "returned" /\ next_index' = next_index + 1
         \/ voice["worker"] = "raised" /\ next_index' = next_index
      /\ UNCHANGED <<pc, then, voice_index, at, command, commentary, files, index, queue,
                     tried>>
  BY DEF Beside, WorkerSpoke, WorkerWarns, NextIndex, place, fixed, aws
<1>2. /\ next_index \in Nat /\ voice'["main"] = voice["main"] /\ voice'["worker"] = "silent"
      /\ script' = script /\ Len(tried) \in Nat /\ voice_index \in Nat
  BY <1>1, LenProperties
     DEF FilesInv, FilesTypeOK, MainInv, VoicesInv, Speakers, script
<1>3. FilesTypeOK' /\ Unplayed'
  BY <1>1, <1>2 DEF FilesInv, FilesTypeOK, Unplayed, Speakers
<1>4. Busy = 1 /\ Busy' = 0
  BY <1>1 DEF Busy
<1>5. CommentaryCounted'
  <2>1. KeyAt' = KeyAt /\ ClosingAt' = ClosingAt /\ NoKeyAt' = NoKeyAt /\ Given' = Given
    BY <1>1 DEF KeyAt, ClosingAt, NoKeyAt, Given
  <2>2. KeyAt \/ ClosingAt \/ NoKeyAt => (next_index + Busy)' <= 102 + Len(tried')
    BY <1>1, <1>2, <1>4 DEF FilesInv, CommentaryCounted
  <2> QED
    BY <1>1, <2>1, <2>2 DEF FilesInv, CommentaryCounted
<1>6. \A i \in Indices : files'[i] = "played" => WorkerBound(i)' \/ (NoKeyAt /\ i = 199)
  <2>1. \A i \in Indices : files[i] = "played" => WorkerBound(i) \/ (NoKeyAt /\ i = 199)
    BY <1>1, WorkerAwake, WorkerBoundIs
  <2> QED
    BY <1>1, <1>2, <2>1, IndicesAssumption DEF WorkerBound
<1>7. next_index + Busy <= voice_index + Len(tried) =>
        (next_index + Busy)' <= (voice_index + Len(tried))'
  BY <1>1, <1>2, <1>4
<1> QED
  BY <1>1, <1>3, <1>5, <1>6, <1>7, WorkerFiles

(* What a step of speak does: a file is only written that nobody played,   *)
(* and is played by the end of the line alone.                             *)
LEMMA SpeakEffect ==
  ASSUME FilesInv, MainInv, NEW s \in Speakers,
         Skips(s) \/ Plays(s) \/ Finishes(s) \/ Raises(s)
  PROVE  /\ voice[s] \in {"synthesis", "playing"}
         /\ voice'[s] \in {"playing", "returned", "raised"}
         /\ \A t \in Speakers : t # s => voice'[t] = voice[t]
         /\ UNCHANGED <<index, queue, next_index, worker, tried>>
         /\ files' \in [Indices -> {"absent", "written", "played"}]
         /\ \A i \in Indices : files'[i] = "played" =>
              files[i] = "played" \/ (i = index[s] /\ voice'[s] = "returned")
         /\ \A i \in Indices : files[i] = "played" => files'[i] = "played"
<1>1. /\ voice \in [Speakers -> {"silent", "synthesis", "playing", "returned", "raised"}]
      /\ files \in [Indices -> {"absent", "written", "played"}]
  BY DEF MainInv, VoicesInv, FilesInv, FilesTypeOK
<1>2. /\ voice[s] \in {"synthesis", "playing"}
      /\ \E to \in {"playing", "returned", "raised"} : voice' = [voice EXCEPT ![s] = to]
      /\ UNCHANGED <<index, queue, next_index, worker, tried>>
  BY DEF Skips, Plays, Finishes, Raises, To, workerVars
<1>3. /\ voice'[s] \in {"playing", "returned", "raised"}
      /\ \A t \in Speakers : t # s => voice'[t] = voice[t]
  BY <1>1, <1>2
<1>4. CASE files' = files
  BY <1>1, <1>2, <1>3, <1>4
<1>5. CASE files' = [files EXCEPT ![index[s]] = "written"] /\ voice[s] = "synthesis"
  <2>1. index[s] \in Indices => files[index[s]] # "played"
    BY <1>5 DEF FilesInv, Unplayed
  <2> QED
    BY <1>1, <1>2, <1>3, <1>5, <2>1
<1>6. CASE files' = [files EXCEPT ![index[s]] = "played"] /\ voice'[s] = "returned"
  BY <1>1, <1>2, <1>3, <1>6
<1>7. Finishes(s) => voice'[s] = "returned"
  BY <1>1 DEF Finishes, To
<1> QED
  BY <1>4, <1>5, <1>6, <1>7 DEF Skips, Plays, Finishes, Raises, To

LEMMA WorkerSpeaksFiles ==
  ASSUME FilesInv, MainInv, IndicesSuffice, pc # "exited",
         UNCHANGED <<pc, then, voice_index, at, command, commentary>>,
         Skips("worker") \/ Plays("worker") \/ Finishes("worker") \/ Raises("worker")
  PROVE  FilesInv'
<1>1. /\ voice["worker"] \in {"synthesis", "playing"}
      /\ voice'["worker"] \in {"playing", "returned", "raised"}
      /\ voice'["main"] = voice["main"]
      /\ UNCHANGED <<index, queue, next_index, worker, tried>>
      /\ files' \in [Indices -> {"absent", "written", "played"}]
      /\ \A i \in Indices : files'[i] = "played" =>
           files[i] = "played" \/ (i = index["worker"] /\ voice'["worker"] = "returned")
  BY SpeakEffect DEF Speakers
<1>2. worker = "speaking" /\ index["worker"] = next_index /\ next_index \in Nat
  BY <1>1 DEF MainInv, VoicesInv, FilesInv, FilesTypeOK, Unplayed
<1>3. /\ voice["main"] # "silent" => NoKeyAt /\ index["main"] = 199
      /\ NoKeyAt => next_index <= 110
  BY <1>2, WorkerAwake
<1>4. FilesTypeOK'
  BY <1>1 DEF FilesInv, FilesTypeOK, script
<1>5. Unplayed'
  <2>1. ASSUME voice["main"] = "synthesis", index["main"] \in Indices
        PROVE  files'[index["main"]] # "played"
    BY <1>1, <1>2, <1>3, <2>1 DEF FilesInv, Unplayed, Speakers
  <2> QED
    BY <1>1, <1>2, <2>1 DEF Unplayed, Speakers
<1>6. CommentaryCounted'
  BY <1>1 DEF FilesInv, CommentaryCounted, KeyAt, ClosingAt, NoKeyAt, Busy, Given
<1>7. \A i \in Indices : files'[i] = "played" => WorkerBound(i)' \/ (NoKeyAt /\ i = 199)
  <2>1. \A i \in Indices : files[i] = "played" => WorkerBound(i) \/ (NoKeyAt /\ i = 199)
    BY <1>2, WorkerAwake, WorkerBoundIs
  <2> QED
    BY <1>1, <1>2, <2>1 DEF WorkerBound
<1>8. next_index + Busy <= voice_index + Len(tried) =>
        (next_index + Busy)' <= (voice_index + Len(tried))'
  BY <1>1 DEF Busy
<1> QED
  BY <1>1, <1>2, <1>4, <1>5, <1>6, <1>7, <1>8, WorkerFiles

LEMMA MainSpeaksFiles ==
  ASSUME FilesInv, MainInv, IndicesSuffice, pc # "exited",
         UNCHANGED <<pc, then, voice_index, at, command, commentary>>,
         Skips("main") \/ Plays("main") \/ Finishes("main") \/ Raises("main")
  PROVE  FilesInv'
<1>1. /\ voice["main"] \in {"synthesis", "playing"}
      /\ voice'["main"] \in {"playing", "returned", "raised"}
      /\ voice'["worker"] = voice["worker"]
      /\ UNCHANGED <<index, queue, next_index, worker, tried>>
      /\ files' \in [Indices -> {"absent", "written", "played"}]
      /\ \A i \in Indices : files'[i] = "played" =>
           files[i] = "played" \/ (i = index["main"] /\ voice'["main"] = "returned")
  BY SpeakEffect DEF Speakers
<1>2. /\ pc = "speaking"
      /\ then \in {"voiced", "aws_101", "aws_worker", "aws_no_key", "aws_parse", "aws_end",
                   "aws_end_failed"}
      /\ then # "aws_no_key" => worker \in {"none", "ended"} /\ voice["worker"] = "silent"
  BY <1>1 DEF MainInv, Control, VoicesInv
<1>3. FilesTypeOK' /\ script' = script
  BY <1>1 DEF FilesInv, FilesTypeOK, script
<1>4. NoKeyAt <=> then = "aws_no_key"
  BY <1>2 DEF NoKeyAt
<1>5. Unplayed'
  <2>1. ASSUME voice["worker"] = "synthesis", index["worker"] \in Indices
        PROVE  files'[index["worker"]] # "played"
    <3>1. worker = "speaking" /\ NoKeyAt
      BY <1>2, <1>4, <2>1 DEF MainInv, VoicesInv
    <3>2. index["main"] = 199 /\ index["worker"] <= 110 /\ index["worker"] \in Nat
      BY <1>1, <1>2, <3>1, WorkerAwake DEF FilesInv, FilesTypeOK, Unplayed
    <3> QED
      BY <1>1, <2>1, <3>2 DEF FilesInv, Unplayed, Speakers
  <2> QED
    BY <1>1, <2>1 DEF FilesInv, Unplayed, Speakers
<1>6. CommentaryCounted'
  BY <1>1 DEF FilesInv, CommentaryCounted, KeyAt, ClosingAt, NoKeyAt, Busy, Given
<1>7. ASSUME NEW b, index["main"] = b, PlayedBelow(b, "main")
      PROVE  \A i \in Indices : files'[i] = "played" =>
               i < b \/ (i = b /\ voice'["main"] = "returned")
  BY <1>1, <1>7 DEF PlayedBelow
<1>8. ScriptFiles'
  <2>1. CASE then = "voiced"
    <3>1. /\ index["main"] = voice_index /\ PlayedBelow(voice_index, "main")
          /\ voice_index <= VoiceLines(script, at) /\ script[at].is = "VOICE"
      BY <1>2, <2>1 DEF FilesInv, ScriptFiles, InRunDemo
    <3>2. PlayedBelow(voice_index, "main")'
      BY <1>7, <3>1 DEF PlayedBelow
    <3> QED
      BY <1>1, <1>2, <1>3, <2>1, <3>1, <3>2 DEF ScriptFiles
  <2>2. CASE then # "voiced"
    BY <1>2, <2>2 DEF ScriptFiles, InRunDemo
  <2> QED
    BY <2>1, <2>2
<1>9. ScorecardFiles'
  BY <1>2 DEF ScorecardFiles, StageAt
<1>10. AwsFiles'
  <2>1. /\ then = "aws_101" => index["main"] = 100 /\ PlayedBelow(100, "main")
        /\ then = "aws_worker" => index["main"] = 101 /\ PlayedBelow(101, "main")
        /\ then = "aws_parse" => index["main"] = 110 /\ PlayedBelow(110, "main")
        /\ then = "aws_end" => index["main"] = 111 /\ PlayedBelow(111, "main")
    BY <1>2 DEF FilesInv, AwsFiles
  <2>2. /\ then = "aws_101" => PlayedBelow(100, "main")'
        /\ then = "aws_worker" => PlayedBelow(101, "main")'
        /\ then = "aws_parse" => PlayedBelow(110, "main")'
        /\ then = "aws_end" => PlayedBelow(111, "main")'
    BY <1>7, <2>1 DEF PlayedBelow
  <2>3. ASSUME then = "aws_no_key"
        PROVE  /\ index["main"] = 199
               /\ \A i \in Indices : files'[i] = "played" =>
                    i < next_index \/ (i = next_index /\ voice["worker"] = "returned") \/ i = 199
    BY <1>1, <1>2, <1>4, <2>3 DEF FilesInv, AwsFiles
  <2> QED
    BY <1>1, <1>2, <2>1, <2>2, <2>3 DEF AwsFiles, KeyAt, ClosingAt, NoKeyAt
<1> QED
  BY <1>3, <1>5, <1>6, <1>8, <1>9, <1>10 DEF FilesInv

LEMMA BesideFiles ==
  ASSUME FilesInv, MainInv, IndicesSuffice, Beside(SpeakStep) \/ Beside(WorkerStep)
  PROVE  FilesInv'
<1>1. CASE Beside(SpeakStep)
  <2>1. /\ pc # "exited" /\ SpeakStep
        /\ UNCHANGED <<pc, then, voice_index, at, command, commentary>>
    BY <1>1 DEF Beside, place, fixed, aws
  <2> QED
    BY <2>1, MainSpeaksFiles, WorkerSpeaksFiles DEF SpeakStep, Speakers
<1> QED
  BY <1>1, WorkerTakesFiles, WorkerEndsLineFiles DEF Beside, WorkerStep

LEMMA NextFilesInv ==
  ASSUME FilesInv, MainInv, HereInv, StagesInv, IndicesSuffice, [Next]_vars
  PROVE  FilesInv'
<1>1. StagesInv'
  BY NextStagesInv
<1>2. ASSUME Aws(AwsMain) PROVE FilesInv'
  BY <1>2, AwsSaysFiles, NoKeyFiles, AwsWorkerFiles, AwsLauncherEndsFiles,
     AwsScorecardFiles, PlacesFiles
     DEF Aws, AwsMain
<1>3. ASSUME Join PROVE FilesInv'
  BY <1>1, <1>3, BenchmarkFiles, AwsClosedFiles DEF Join, MainInv, Control
<1>4. CASE MainStep
  BY <1>1, <1>2, <1>3, <1>4, MainFiles, LinesFiles, PlacesFiles, VoiceFiles, VoicedFiles,
     SpokeFiles, ScorecardKeepsFiles, BenchmarkFiles, ScoredFiles
     DEF MainStep
<1> QED
  BY <1>4, BesideFiles, MainFiles, PlacesFiles, CommentFiles DEF Next

LEMMA VoiceStep ==
  ASSUME [Next]_vars
  PROVE  UNCHANGED files \/ Beside(SpeakStep)
<1>1. ASSUME Aws(AwsMain \/ Comment) PROVE UNCHANGED files
  BY <1>1 DEF Aws, AwsMain, AwsSays, AwsWorker, AwsKeyFound, AwsLauncherEnds, AwsScorecard,
              AwsReturns, Comment, Speak, SpeakBegin, StartWorker, Close, PutSentinel,
              Enqueue, voiceVars
<1>2. ASSUME MainStep PROVE UNCHANGED files
  BY <1>1, <1>2
     DEF MainStep, Main, BadArgument, EngineStart, EngineStop, Telemetry, Pass,
         CompareChart, CompareLive, CompareXfs, ProbeRuns, XfsMeasured, BlockBegin,
         BlockLine, Voice, Voiced, Spoke, Scorecard, StageLine, BenchmarkEnds, Join,
         Scored, EndOfScript, InterruptedProbe, Speak, SpeakBegin, StartWorker, Close,
         PutSentinel, Enqueue, voiceVars, Aws
<1>3. ASSUME Beside(WorkerStep) PROVE UNCHANGED files
  BY <1>3 DEF Beside, WorkerStep, WorkerTakes, WorkerSpoke, WorkerWarns, SpeakBegin
<1> QED
  BY <1>1, <1>2, <1>3
     DEF Next, Answer, Interrupt, InterruptInProbe, EngineDies, vars, voiceVars, Aws

(* FilesKept: where the indices suffice, a voice line that was played to   *)
(* its end is not written again by either thread.                          *)
THEOREM PlayedFilesKept ==
  ASSUME IndicesSuffice
  PROVE  Spec => FilesKept
<1>1. ASSUME FilesInv, MainInv, [Next]_vars
      PROVE  [\A i \in Indices : files[i] = "played" => files'[i] = "played"]_voiceVars
  <2>1. CASE UNCHANGED files
    BY <2>1
  <2>2. CASE Beside(SpeakStep)
    BY <1>1, <2>2, SpeakEffect DEF Beside, SpeakStep
  <2> QED
    BY <1>1, <2>1, <2>2, VoiceStep
<1>2. FilesInv /\ MainInv /\ HereInv /\ StagesInv /\ [Next]_vars
        => FilesInv' /\ MainInv' /\ HereInv' /\ StagesInv'
  BY NextFilesInv, NextMainInv, NextHereInv, NextStagesInv
<1> QED
  BY <1>1, <1>2, InitFilesInv, InitMainInv, InitHereInv, InitStagesInv, PTL
     DEF Spec, FilesKept
-----------------------------------------------------------------------------
(* What a close waits for.                                                 *)

(* While the main thread is in the join of a close, the worker has ended,  *)
(* or has the sentinel before it and is about to take a text or in speak.  *)
CloseCanEnd ==
  pc = "join" =>
    \/ worker = "ended"
    \/ /\ worker = "get" \/ (worker = "speaking" /\ voice["worker"] # "silent")
       /\ \E k \in 1 .. Len(queue) : queue[k] = None

WithWorker == {"benchmark", "aws_key", "aws_ssh", "join"}

CloseInvariant ==
  /\ pc \in WithWorker => worker # "none"
  /\ pc = "join" /\ worker # "ended" => \E k \in 1 .. Len(queue) : queue[k] = None
  /\ worker = "speaking" => voice["worker"] # "silent"

(* The main thread goes where there is no worker to wait for.              *)
LEMMA ElsewhereClose ==
  ASSUME CloseInvariant, pc' \notin WithWorker, worker' = worker,
         voice'["worker"] = voice["worker"]
  PROVE  CloseInvariant'
BY DEF CloseInvariant, WithWorker

(* It stays where it is, and may add a text to the queue.                  *)
LEMMA AddedClose ==
  ASSUME CloseInvariant, StagesInv, StagesInv', UNCHANGED <<pc, worker, voice>>,
         queue' = queue \/ \E text : queue' = Append(queue, text)
  PROVE  CloseInvariant'
<1>1. queue \in Seq(Texts) /\ queue' \in Seq(Texts)
  BY DEF StagesInv
<1>2. ASSUME NEW k \in 1 .. Len(queue) PROVE k \in 1 .. Len(queue') /\ queue'[k] = queue[k]
  BY <1>1
<1> QED
  BY <1>2 DEF CloseInvariant

LEMMA AwayClose ==
  ASSUME CloseInvariant, MainInv,
         \/ Main \/ BadArgument \/ EngineStart \/ EngineStop \/ Telemetry \/ Pass
         \/ CompareChart \/ CompareLive \/ CompareXfs \/ XfsMeasured
         \/ BlockBegin \/ BlockLine \/ Voice \/ Voiced \/ Spoke \/ Join \/ Scored
         \/ EndOfScript \/ InterruptedProbe \/ Answer \/ Interrupt
  PROVE  CloseInvariant'
<1>1. CASE Main \/ BadArgument \/ EndOfScript \/ InterruptedProbe \/ Answer \/ Interrupt
  <2>1. UNCHANGED <<voice, worker>>
    BY <1>1 DEF Main, BadArgument, EndOfScript, InterruptedProbe, Answer, Interrupt, voiceVars
  <2>2. pc' \in {"exited", "aws", "line", "ask"}
    BY <1>1 DEF Main, BadArgument, EndOfScript, InterruptedProbe, Answer, Interrupt,
                Goto, Leave
  <2> QED
    BY <2>1, <2>2, ElsewhereClose DEF WithWorker
<1>2. CASE \/ EngineStart \/ EngineStop \/ Telemetry \/ Pass \/ CompareChart \/ CompareLive
           \/ CompareXfs \/ XfsMeasured \/ BlockBegin \/ BlockLine \/ Voiced \/ Scored
  <2>1. UNCHANGED <<voice, worker>>
    BY <1>2 DEF EngineStart, EngineStop, Telemetry, Pass, CompareChart, CompareLive,
                CompareXfs, XfsMeasured, BlockBegin, BlockLine, Voiced, Scored, voiceVars
  <2>2. pc' \in {"exited", "line", "probe"}
    BY <1>2 DEF EngineStart, EngineStop, Telemetry, Pass, CompareChart, CompareLive,
                CompareXfs, XfsMeasured, BlockBegin, BlockLine, Voiced, Scored,
                ToNextLine, Goto, Leave
  <2> QED
    BY <2>1, <2>2, ElsewhereClose DEF WithWorker
<1>3. CASE Voice \/ Spoke \/ Join
  <2>1. worker' = worker /\ voice'["worker"] = voice["worker"]
    BY <1>3 DEF Voice, Spoke, Join, Speak, SpeakBegin, workerVars, voiceVars, MainInv,
                VoicesInv, Speakers
  <2>2. pc' \notin WithWorker
    BY <1>3 DEF Voice, Spoke, Join, Speak, Goto, Leave, MainInv, Control, WithWorker
  <2> QED
    BY <2>1, <2>2, ElsewhereClose
<1> QED
  BY <1>1, <1>2, <1>3

LEMMA StartWorkerClose ==
  ASSUME MainInv, Scorecard \/ Aws(AwsWorker)
  PROVE  CloseInvariant'
<1>1. worker' = "get" /\ pc' \in {"benchmark", "aws_key"}
  BY DEF Scorecard, Aws, AwsWorker, StartWorker, Goto
<1> QED
  BY <1>1 DEF CloseInvariant

(* The close puts the sentinel into the queue of a worker that exists.     *)
LEMMA ClosesClose ==
  ASSUME CloseInvariant, StagesInv, BenchmarkEnds \/ Aws(AwsLauncherEnds)
  PROVE  CloseInvariant'
<1>1. /\ queue' = Append(queue, None) /\ UNCHANGED <<voice, worker>>
      /\ pc \in WithWorker
  BY DEF BenchmarkEnds, Aws, AwsLauncherEnds, Close, PutSentinel, WithSentinel, WithWorker
<1>2. Len(queue') \in 1 .. Len(queue') /\ queue'[Len(queue')] = None
  <2>1. queue \in Seq(Texts)
    BY DEF StagesInv
  <2>2. Len(queue') = Len(queue) + 1 /\ queue'[Len(queue) + 1] = None /\ Len(queue) \in Nat
    BY <1>1, <2>1, NoneIsText, AppendProperties, LenProperties
  <2> QED
    BY <2>2
<1> QED
  BY <1>1, <1>2 DEF CloseInvariant

LEMMA AwsClose ==
  ASSUME CloseInvariant, MainInv, StagesInv, StagesInv', Aws(AwsMain \/ Comment)
  PROVE  CloseInvariant'
<1>1. ASSUME NEW from, NEW i, NEW next, AwsSays(from, i, next)
      PROVE  CloseInvariant'
  <2>1. worker' = worker /\ voice'["worker"] = voice["worker"] /\ pc' = "speaking"
    BY <1>1 DEF AwsSays, Speak, SpeakBegin, workerVars, MainInv, VoicesInv, Speakers
  <2> QED
    BY <2>1, ElsewhereClose DEF WithWorker
<1>2. CASE AwsKeyFound
  BY <1>2 DEF AwsKeyFound, Goto, voiceVars, CloseInvariant, WithWorker
<1>3. CASE AwsScorecard \/ AwsReturns
  <2>1. UNCHANGED <<voice, worker>> /\ pc' \in {"aws_parsed", "aws_parse_failed", "exited"}
    BY <1>3 DEF AwsScorecard, AwsReturns, Goto, Leave, voiceVars
  <2> QED
    BY <2>1, ElsewhereClose DEF WithWorker
<1>4. CASE Comment
  BY <1>4, AddedClose DEF Comment, Enqueue
<1> QED
  BY <1>1, <1>2, <1>3, <1>4, StartWorkerClose, ClosesClose DEF Aws, AwsMain

(* The worker takes what is before the sentinel, and ends when it is next. *)
LEMMA WorkerClose ==
  ASSUME CloseInvariant, MainInv, StagesInv, Beside(WorkerStep)
  PROVE  CloseInvariant'
<1>1. CASE WorkerTakes
  <2>1. /\ queue \in Seq(Texts) /\ queue # <<>> /\ queue' = Tail(queue)
        /\ worker = "get" /\ pc' = pc
    BY <1>1 DEF WorkerTakes, Beside, StagesInv
  <2>2. CASE worker' = "ended"
    BY <2>1, <2>2 DEF CloseInvariant
  <2>3. CASE Head(queue) # None
    <3>1. worker' = "speaking" /\ voice'["worker"] # "silent"
      BY <1>1, <2>3 DEF WorkerTakes, SpeakBegin, MainInv, VoicesInv, Speakers
    <3>2. ASSUME NEW k \in 1 .. Len(queue), queue[k] = None
          PROVE  k - 1 \in 1 .. Len(queue') /\ queue'[k - 1] = None
      <4>1. Head(queue) = queue[1] /\ k \in Nat /\ k # 1
        BY <2>1, <2>3, <3>2
      <4>2. Len(queue') = Len(queue) - 1 /\ Len(queue) \in Nat
        BY <2>1
      <4>3. k - 1 \in 1 .. Len(queue')
        BY <4>1, <4>2
      <4> QED
        BY <2>1, <3>2, <4>1, <4>3
    <3> QED
      BY <2>1, <3>1, <3>2 DEF CloseInvariant
  <2> QED
    BY <1>1, <2>2, <2>3 DEF WorkerTakes
<1>2. CASE WorkerSpoke \/ WorkerWarns
  BY <1>2 DEF WorkerSpoke, WorkerWarns, Beside, CloseInvariant
<1> QED
  BY <1>1, <1>2 DEF Beside, WorkerStep

LEMMA BesideClose ==
  ASSUME CloseInvariant, MainInv, StagesInv, StagesInv',
         \/ ProbeRuns \/ InterruptInProbe \/ EngineDies \/ StageLine \/ UNCHANGED vars
         \/ Beside(SpeakStep)
  PROVE  CloseInvariant'
<1>1. CASE ProbeRuns \/ InterruptInProbe \/ EngineDies \/ StageLine \/ UNCHANGED vars
  <2>1. UNCHANGED <<pc, worker, voice>>
    BY <1>1 DEF ProbeRuns, InterruptInProbe, EngineDies, StageLine, Enqueue, vars, voiceVars
  <2>2. queue' = queue \/ \E text : queue' = Append(queue, text)
    BY <1>1 DEF ProbeRuns, InterruptInProbe, EngineDies, StageLine, Enqueue, vars, voiceVars
  <2> QED
    BY <2>1, <2>2, AddedClose
<1>2. CASE Beside(SpeakStep)
  <2>1. PICK s \in Speakers : Skips(s) \/ Plays(s) \/ Finishes(s) \/ Raises(s)
    BY <1>2 DEF Beside, SpeakStep
  <2>2. /\ UNCHANGED <<pc, worker, queue>>
        /\ \E to \in {"playing", "returned", "raised"} : voice' = [voice EXCEPT ![s] = to]
    BY <1>2, <2>1 DEF Beside, Skips, Plays, Finishes, Raises, To, workerVars
  <2>3. voice'["worker"] = voice["worker"] \/ voice'["worker"] # "silent"
    BY <2>2 DEF MainInv, VoicesInv, Speakers
  <2> QED
    BY <2>2, <2>3 DEF CloseInvariant
<1> QED
  BY <1>1, <1>2

LEMMA NextClose ==
  CloseInvariant /\ MainInv /\ StagesInv /\ [Next]_vars => CloseInvariant'
<1> SUFFICES ASSUME CloseInvariant, MainInv, StagesInv, [Next]_vars PROVE CloseInvariant'
  OBVIOUS
<1>1. StagesInv'
  BY NextStagesInv
<1>2. CASE MainStep
  BY <1>1, <1>2, AwayClose, BesideClose, StartWorkerClose, ClosesClose, AwsClose
     DEF MainStep, Aws
<1> QED
  BY <1>1, <1>2, AwayClose, BesideClose, WorkerClose, AwsClose DEF Next, Aws

(* VoiceoverWorker.close never waits for a worker that was not told to     *)
(* end, in the benchmark or in the AWS demo, whatever the commentary still *)
(* adds to the queue.                                                      *)
THEOREM ClosesCanEnd == Spec => []CloseCanEnd
<1>1. Init => CloseInvariant
  BY DEF Init, VoiceInit, CloseInvariant, WithWorker
<1>2. CloseInvariant /\ MainInv => CloseCanEnd
  BY DEF CloseInvariant, WithWorker, MainInv, VoicesInv, CloseCanEnd
<1>3. MainInv /\ StagesInv /\ [Next]_vars => MainInv' /\ StagesInv'
  BY NextMainInv, NextStagesInv
<1> QED
  BY <1>1, <1>2, <1>3, InitMainInv, InitStagesInv, NextClose, PTL DEF Spec
=============================================================================
