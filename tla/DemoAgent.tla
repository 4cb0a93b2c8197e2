----------------------------- MODULE DemoAgent -----------------------------
(***************************************************************************)
(* The demo agent (vibe_demo_agent/vibe_demo_agent.py): the interpreter of *)
(* scenario scripts (run_demo), the question that follows, and the AWS     *)
(* demo (run_aws_demo).  The main thread runs one line at a time; beside   *)
(* it run the worker of a voiceover, the commentary thread of the AWS demo *)
(* and the engine.  Engine.tla has the engine and its manager in detail;   *)
(* here a handle is held or not and the process behind it lives or not.    *)
(* Ctrl-C may come once, at any moment.                                    *)
(***************************************************************************)
EXTENDS VoiceoverWorker, Probe, Integers

CONSTANTS
  Commands,    (* command lines: see the assumption                        *)
  Latencies,   (* what a probe or the telemetry shows, in tenths of a us   *)
  COMMENTARY   (* texts of the commentary thread, 6 in the code            *)

(* A line of a script is what it is, with the validity of its arguments    *)
(* for a directive that has any; the word of a here document and what      *)
(* stands beside it for "cat"; a word and its indentation for the line     *)
(* that can end one.  A command line has a script, which may not be found, *)
(* hosts, and the answer the user will give to the question.               *)
WithArguments == {"TELEMETRY", "COMPARE_CHART", "COMPARE_LIVE", "COMPARE_XFS",
                  "SCORECARD", "WAIT"}
Line ==
  [is : WithArguments, valid : BOOLEAN]
    \cup [is : {"ENGINE_START", "ENGINE_STOP", "VOICE", "comment", "shell"}]
    \cup [is : {"cat"}, word : STRING, form : {"word", "dash", "redirect"}]
    \cup [is : {"word"}, word : STRING, indented : BOOLEAN]

ASSUME DemoAssumption ==
  /\ \A c \in Commands :
       /\ c.azure_host \in BOOLEAN /\ c.aws_host \in BOOLEAN
       /\ c.aws_only \in BOOLEAN /\ c.found \in BOOLEAN /\ c.answer \in BOOLEAN
       /\ c.script \in Seq(Line)
  /\ Latencies \subseteq Nat
  /\ COMMENTARY \in Nat

VARIABLES
  command,                    (* the command line                          *)
  pc, then,                   (* of the main thread; after speak or join   *)
  left,                       (* how the process ended                     *)
  at,                         (* the line of the script                    *)
  in_block, block_delimiter,  (* reading a here document                   *)
  voice_index,
  engine,                     (* none, alive, dead (a handle is held)      *)
  chart,                      (* the comparison on the screen              *)
  announced, printed,         (* stages spoken of; printed by the launcher *)
  commentary,                 (* texts still to come                       *)
  returncode,                 (* of the remote launcher                    *)
  interrupted                 (* Ctrl-C has been pressed (bound)           *)

place == <<at, in_block, block_delimiter>>
benchmark == <<announced, printed>>
aws == <<commentary, returncode>>
fixed == <<command, interrupted>>
vars == <<voiceVars, probeVars, fixed, pc, then, left, place, voice_index, engine,
          chart, benchmark, aws>>

script == command.script
line == script[at]

Init ==
  /\ VoiceInit /\ ProbeInit
  /\ command \in Commands /\ interrupted = FALSE
  /\ pc = "main" /\ then = "" /\ left = "no"
  /\ at = 1 /\ in_block = FALSE /\ block_delimiter = <<>>
  /\ voice_index = 0 /\ engine = "none" /\ chart = <<>>
  /\ announced = {} /\ printed = 0
  /\ commentary = 0 /\ returncode = 0

Goto(p) == pc' = p /\ UNCHANGED <<then, left>>
Leave(how) == pc' = "exited" /\ left' = how /\ UNCHANGED then

(* The main program; run_demo exits when it does not find the script.      *)
Main ==
  /\ pc = "main"
  /\ IF ~command.aws_host \/ ~(command.aws_only \/ command.azure_host)
       THEN Leave("usage")
     ELSE IF command.aws_only THEN Goto("aws")
     ELSE IF command.found THEN Goto("line")
     ELSE Leave("exit")
  /\ UNCHANGED <<voiceVars, probeVars, fixed, place, voice_index, engine, chart,
                 benchmark, aws>>

-----------------------------------------------------------------------------
(* One line of the script.                                                 *)
AtLine == pc = "line" /\ at <= Len(script)
Reached(kind) == AtLine /\ ~in_block /\ line.is = kind
Valid == line.is \in WithArguments => line.valid

ToNextLine == Goto("line") /\ at' = at + 1 /\ UNCHANGED <<in_block, block_delimiter>>

(* int() and float() of the arguments are outside the try of a directive.  *)
BadArgument ==
  /\ AtLine /\ ~in_block /\ ~Valid
  /\ Leave("exception")
  /\ UNCHANGED <<voiceVars, probeVars, fixed, place, voice_index, engine, chart,
                 benchmark, aws>>

(* start raises while a handle is held, whether the process lives or not.  *)
EngineStart ==
  /\ Reached("ENGINE_START")
  /\ \/ engine = "none" /\ engine' = "alive" /\ ToNextLine
     \/ engine # "none" /\ Leave("exception") /\ UNCHANGED <<engine, place>>
  /\ UNCHANGED <<voiceVars, probeVars, fixed, voice_index, chart, benchmark, aws>>

EngineStop ==
  /\ Reached("ENGINE_STOP")
  /\ engine' = "none"
  /\ ToNextLine
  /\ UNCHANGED <<voiceVars, probeVars, fixed, voice_index, chart, benchmark, aws>>

(* ENGINE_SUMMARY and TELEMETRY catch whatever the sink raises.            *)
Telemetry ==
  /\ Reached("TELEMETRY") /\ Valid
  /\ ToNextLine
  /\ UNCHANGED <<voiceVars, probeVars, fixed, voice_index, engine, chart, benchmark,
                 aws>>

(* A pause, a comment, a line of shell.                                    *)
Pass ==
  /\ \E kind \in {"WAIT", "comment", "shell", "word"} : Reached(kind)
  /\ Valid
  /\ ToNextLine
  /\ UNCHANGED <<voiceVars, probeVars, fixed, voice_index, engine, chart, benchmark,
                 aws>>

(* render_comparison_chart: bars of 25 characters scaled to the larger     *)
(* latency (at least 1 us), and a last line with three numbers between 53  *)
(* characters of text, padded to the 72 of the box.                        *)
Larger(a, b) == IF a > b THEN a ELSE b
ScaleLegacy(legacy, bypass) == Larger(legacy, 10)
Scale(legacy, bypass) == Larger(Larger(legacy, bypass), 10)

Bar(value, legacy, bypass) ==
  LET n == (value * 25) \div Scale(legacy, bypass)
  IN  IF value > 0 THEN Larger(n, 1) ELSE n

TenTo == <<10, 100, 1000, 10000, 100000, 1000000, 10000000, 100000000, 1000000000>>
Digits(n) == CHOOSE d \in 1 .. 9 : n < TenTo[d] /\ (d = 1 \/ n >= TenTo[d - 1])
Rounded(n, d) == (2 * n + d) \div (2 * d)

NumbersWidth(legacy, bypass) ==
  LET delta == Larger(legacy, bypass) - (IF legacy > bypass THEN bypass ELSE legacy)
      minus == IF legacy < bypass THEN 1 ELSE 0
      pct == Rounded(10000 * delta, Larger(100 * legacy, 1))
      speedup == Rounded(100 * legacy, Larger(100 * bypass, 1))
  IN  (minus + Digits(delta \div 10) + 2) + (minus + Digits(pct)) + Digits(speedup)

SummaryWidth(legacy, bypass) ==
  LET text == 53 + NumbersWidth(legacy, bypass)
  IN  text + Larger(72 - text, 1)

Charted(legacy, bypass) == chart' = <<legacy, bypass>>

CompareChart ==
  /\ Reached("COMPARE_CHART") /\ Valid
  /\ \E legacy, bypass \in Latencies : Charted(legacy, bypass)
  /\ ToNextLine
  /\ UNCHANGED <<voiceVars, probeVars, fixed, voice_index, engine, benchmark, aws>>

(* measure_kernel_latency_us, and the telemetry, or 3.8 without it.        *)
CompareLive ==
  /\ Reached("COMPARE_LIVE") /\ Valid
  /\ \E legacy, bypass \in Latencies : Charted(legacy, bypass)
  /\ ToNextLine
  /\ UNCHANGED <<voiceVars, probeVars, fixed, voice_index, engine, benchmark, aws>>

CompareXfs ==
  /\ Reached("COMPARE_XFS") /\ Valid
  /\ ProbeBegin
  /\ Goto("probe")
  /\ UNCHANGED <<voiceVars, fixed, place, voice_index, engine, chart, benchmark, aws>>

XfsMeasured ==
  /\ pc = "probe" /\ probe = "returned"
  /\ ProbeDone
  /\ \E legacy, bypass \in Latencies : Charted(legacy, bypass)
  /\ ToNextLine
  /\ UNCHANGED <<voiceVars, fixed, voice_index, engine, benchmark, aws>>

ProbeRuns ==
  /\ pc = "probe" /\ ProbeStep
  /\ UNCHANGED <<voiceVars, fixed, pc, then, left, place, voice_index, engine, chart,
                 benchmark, aws>>

-----------------------------------------------------------------------------
(* Here documents.  The delimiter is all that stands after "<<", without   *)
(* quotes; it is compared with a whole line, blanks at both ends removed.  *)
BlockDelimiter(l) == IF l.form = "word" THEN <<l.word>> ELSE <<l.form, l.word>>

BlockBegin ==
  /\ Reached("cat")
  /\ in_block' = TRUE /\ block_delimiter' = BlockDelimiter(line)
  /\ Goto("line") /\ at' = at + 1
  /\ UNCHANGED <<voiceVars, probeVars, fixed, voice_index, engine, chart, benchmark,
                 aws>>

AnyWordEnds(l, delimiter) == l.is = "word"
BlockEnds(l, delimiter) == l.is = "word" /\ <<l.word>> = delimiter

BlockLine ==
  /\ AtLine /\ in_block
  /\ in_block' = ~BlockEnds(line, block_delimiter)
  /\ Goto("line") /\ at' = at + 1
  /\ UNCHANGED <<voiceVars, probeVars, fixed, block_delimiter, voice_index, engine,
                 chart, benchmark, aws>>

-----------------------------------------------------------------------------
(* speak in the main thread: # VOICE and # HIRE_ME.                        *)
Speak(i, next) ==
  /\ SpeakBegin("main", i)
  /\ pc' = "speaking" /\ then' = next
  /\ UNCHANGED <<workerVars, left>>

Voice ==
  /\ Reached("VOICE")
  /\ Speak(voice_index, "voiced")
  /\ UNCHANGED <<probeVars, fixed, place, voice_index, engine, chart, benchmark, aws>>

Voiced ==
  /\ pc = "voiced"
  /\ voice_index' = NextIndex(voice_index)
  /\ ToNextLine
  /\ UNCHANGED <<voiceVars, probeVars, fixed, engine, chart, benchmark, aws>>

(* An exception of speak ends the agent; but after the AWS scorecard it is *)
(* caught, and the handler speaks again.                                   *)
Spoke ==
  /\ pc = "speaking"
  /\ \/ voice["main"] = "returned" /\ Goto(then)
     \/ voice["main"] = "raised" /\ then = "aws_end" /\ Goto("aws_parse_failed")
     \/ voice["main"] = "raised" /\ then # "aws_end" /\ Leave("exception")
  /\ voice' = [voice EXCEPT !["main"] = "silent"]
  /\ UNCHANGED <<index, files, workerVars, probeVars, fixed, place, voice_index,
                 engine, chart, benchmark, aws>>

(* A step of a thread beside the main one; they end with the process.      *)
Beside(A) ==
  /\ A
  /\ pc # "exited"
  /\ UNCHANGED <<probeVars, fixed, pc, then, left, place, voice_index, engine, chart,
                 benchmark, aws>>

-----------------------------------------------------------------------------
(* # SCORECARD.  run_benchmark hands the launcher's stage lines to         *)
(* stage_cb and returns or raises; the worker is closed either way.        *)
StageTexts == <<"stage_0", "stage_1", "stage_2", "stage_3">>

Scorecard ==
  /\ Reached("SCORECARD") /\ Valid
  /\ StartWorker(voice_index)
  /\ announced' = {} /\ printed' = 0
  /\ Goto("benchmark")
  /\ UNCHANGED <<probeVars, fixed, place, voice_index, engine, chart, aws>>

(* A line of the stage at hand (each has several) or of the next one.      *)
AnnouncedStill(stage) == announced
Announced(stage) == announced \cup {stage}

StageLine ==
  /\ pc = "benchmark"
  /\ \E stage \in {printed, printed + 1} \cap DOMAIN StageTexts :
       /\ printed' = stage
       /\ announced' = Announced(stage)
       /\ IF stage \in announced THEN UNCHANGED voiceVars
                                 ELSE Enqueue(StageTexts[stage])
  /\ UNCHANGED <<probeVars, fixed, pc, then, left, place, voice_index, engine, chart,
                 aws>>

(* close: the sentinel, and the join after which the main thread goes on.  *)
Close(next) ==
  /\ PutSentinel
  /\ pc' = "join" /\ then' = next
  /\ UNCHANGED left

BenchmarkEnds ==
  /\ pc = "benchmark"
  /\ Close("scored")
  /\ UNCHANGED <<probeVars, fixed, place, voice_index, engine, chart, benchmark, aws>>

Join ==
  /\ pc = "join" /\ Joined
  /\ Goto(then)
  /\ UNCHANGED <<voiceVars, probeVars, fixed, place, voice_index, engine, chart,
                 benchmark, aws>>

Scored ==
  /\ pc = "scored"
  /\ voice_index' = next_index
  /\ ToNextLine
  /\ UNCHANGED <<voiceVars, probeVars, fixed, engine, chart, benchmark, aws>>

-----------------------------------------------------------------------------
(* The end of run_demo stops an engine that is running; so does its        *)
(* handler of KeyboardInterrupt, which then exits with 0.                  *)
StoppedNot == engine
Stopped == IF engine = "alive" THEN "none" ELSE engine

EndOfScript ==
  /\ pc = "line" /\ at > Len(script)
  /\ engine' = Stopped
  /\ Goto("ask")
  /\ UNCHANGED <<voiceVars, probeVars, fixed, place, voice_index, chart, benchmark,
                 aws>>

Answer ==
  /\ pc = "ask"
  /\ IF command.answer THEN Goto("aws") ELSE Leave("exit")
  /\ UNCHANGED <<voiceVars, probeVars, fixed, place, voice_index, engine, chart,
                 benchmark, aws>>

(* The places inside run_demo.                                             *)
InRunDemo ==
  \/ pc \in {"line", "probe", "benchmark", "voiced", "scored"}
  \/ pc \in {"speaking", "join"} /\ then \in {"voiced", "scored"}

(* The stop after the last line is outside the try: there, as in the rest  *)
(* of the agent, Ctrl-C is an exception that nothing catches.              *)
InTry == InRunDemo /\ ~(pc = "line" /\ at > Len(script))

Interrupt ==
  /\ ~interrupted /\ interrupted' = TRUE
  /\ pc \notin {"main", "exited", "probe"}
  /\ IF InTry THEN engine' = Stopped /\ Leave("interrupt")
              ELSE UNCHANGED engine /\ Leave("exception")
  /\ UNCHANGED <<command, voiceVars, probeVars, place, voice_index, chart, benchmark,
                 aws>>

(* In the probe the exception passes through its finally block.            *)
InterruptInProbe ==
  /\ ~interrupted /\ interrupted' = TRUE
  /\ pc = "probe" /\ ProbeInterrupted
  /\ UNCHANGED <<command, voiceVars, pc, then, left, place, voice_index, engine,
                 chart, benchmark, aws>>

InterruptedProbe ==
  /\ pc = "probe" /\ probe = "raised"
  /\ ProbeDone
  /\ engine' = Stopped /\ Leave("interrupt")
  /\ UNCHANGED <<voiceVars, fixed, place, voice_index, chart, benchmark, aws>>

EngineDies ==
  /\ engine = "alive" /\ pc # "exited"
  /\ engine' = "dead"
  /\ UNCHANGED <<voiceVars, probeVars, fixed, pc, then, left, place, voice_index,
                 chart, benchmark, aws>>

-----------------------------------------------------------------------------
(* The AWS demo, spoken with fixed indices.                                *)
AwsSays(from, i, next) ==
  /\ pc = from
  /\ Speak(i, next)
  /\ UNCHANGED <<commentary, returncode>>

AwsWorker ==
  /\ pc = "aws_worker"
  /\ StartWorker(102)
  /\ commentary' = COMMENTARY
  /\ Goto("aws_key")
  /\ UNCHANGED returncode

(* Without the key of the host run_aws_demo returns at once, None, and     *)
(* neither closes the worker nor waits for it.                             *)
AwsKeyFound ==
  /\ pc = "aws_key"
  /\ Goto("aws_ssh")
  /\ UNCHANGED <<voiceVars, commentary, returncode>>

AwsLauncherEnds ==
  /\ pc = "aws_ssh"
  /\ returncode' \in {0, 1}
  /\ Close("aws_closed")
  /\ UNCHANGED commentary

AwsScorecard ==
  /\ pc = "aws_parse"
  /\ (Goto("aws_parsed") \/ Goto("aws_parse_failed"))
  /\ UNCHANGED <<voiceVars, commentary, returncode>>

AwsReturns ==
  /\ pc \in {"aws_no_key", "aws_end", "aws_end_failed"}
  /\ Leave("exit")
  /\ UNCHANGED <<voiceVars, commentary, returncode>>

(* The commentary thread follows a timetable of its own.                   *)
Comment ==
  /\ commentary > 0 /\ pc # "exited"
  /\ commentary' = commentary - 1
  /\ Enqueue("comment")
  /\ UNCHANGED <<pc, then, left, returncode>>

AwsMain ==
  \/ AwsSays("aws", 100, "aws_101")
  \/ AwsSays("aws_101", 101, "aws_worker")
  \/ AwsWorker
  \/ AwsSays("aws_key", 199, "aws_no_key") \/ AwsKeyFound
  \/ AwsLauncherEnds
  \/ returncode = 0 /\ AwsSays("aws_closed", 110, "aws_parse")
  \/ returncode # 0 /\ AwsSays("aws_closed", 110, "aws_end_failed")
  \/ AwsScorecard
  \/ AwsSays("aws_parsed", 111, "aws_end")
  \/ AwsSays("aws_parse_failed", 111, "aws_end_failed")
  \/ AwsReturns

Aws(A) ==
  /\ A
  /\ UNCHANGED <<probeVars, fixed, place, voice_index, engine, chart, benchmark>>

-----------------------------------------------------------------------------
MainStep ==
  \/ Main
  \/ BadArgument \/ EngineStart \/ EngineStop \/ Telemetry \/ Pass
  \/ CompareChart \/ CompareLive \/ CompareXfs \/ ProbeRuns \/ XfsMeasured
  \/ BlockBegin \/ BlockLine
  \/ Voice \/ Voiced \/ Spoke
  \/ Scorecard \/ StageLine \/ BenchmarkEnds \/ Join \/ Scored
  \/ EndOfScript \/ InterruptedProbe
  \/ Aws(AwsMain)

Next ==
  \/ MainStep
  \/ Beside(SpeakStep) \/ Beside(WorkerStep)
  \/ Answer \/ Aws(Comment)
  \/ Interrupt \/ InterruptInProbe \/ EngineDies

Spec == Init /\ [][Next]_vars

(* Threads are scheduled; child processes, remote commands and the speech  *)
(* service come to an end.  Nobody has to answer or to interrupt, and the  *)
(* commentary may come at any time or not at all.                          *)
FairSpec ==
  /\ Spec
  /\ WF_vars(MainStep)
  /\ WF_vars(Beside(SpeakStep)) /\ WF_vars(Beside(WorkerStep))

-----------------------------------------------------------------------------
(* Properties.                                                             *)

(* The audience hears one voice at a time: the main thread speaks only     *)
(* when the worker has been joined.  Without the SSH key the agent speaks  *)
(* while the commentary may be running: this line is excepted.             *)
OneVoice ==
  (Speaking("main") /\ then # "aws_no_key") => ~Speaking("worker")

(* When the voiceover of a benchmark has been closed, each stage the       *)
(* launcher has shown was spoken of (or tried) once, in the order shown,   *)
(* however many lines it printed and however far the voice was behind.     *)
StagesAnnounced ==
  pc = "scored" => tried = SubSeq(StageTexts, 1, printed)

(* "Ensure engine is stopped after script completes" (line 558), and after *)
(* Ctrl-C at any moment, in the finally block of a probe too.  An uncaught *)
(* exception leaves the engine running: those ends are excepted.           *)
EngineStopped ==
  (pc \in {"ask", "aws", "exited"} /\ left # "exception") => engine # "alive"

(* Scripts whose delimiters are single words and whose ending lines are    *)
(* not indented.                                                           *)
Ordinary ==
  \A i \in DOMAIN script :
    /\ script[i].is = "cat" => script[i].form = "word"
    /\ script[i].is = "word" => ~script[i].indented

(* The word bash waits for: after a line, and before each line.            *)
AwaitedAfter(l, word) ==
  IF word = <<>> THEN IF l.is = "cat" THEN <<l.word>> ELSE <<>>
  ELSE IF l.is = "word" /\ <<l.word>> = word THEN <<>> ELSE word

AwaitedIn(lines) ==
  LET awaited[i \in 1 .. Len(lines) + 1] ==
        IF i = 1 THEN <<>> ELSE AwaitedAfter(lines[i - 1], awaited[i - 1])
  IN  awaited

(* The interpreter agrees with bash on which lines belong to a here        *)
(* document, so that none of them is taken for a directive and no command  *)
(* for text, in ordinary scripts.                                          *)
HeredocsLikeBash == Ordinary => (in_block <=> AwaitedIn(script)[at] # <<>>)

(* The bars of a chart stay inside their column and are in the order of    *)
(* the latencies, the bypass slower than the kernel or not measured (0)    *)
(* included, and the last line is as wide as the box.                      *)
ChartFits ==
  chart # <<>> =>
    LET legacy == chart[1]
        bypass == chart[2]
    IN  /\ Bar(legacy, legacy, bypass) \in 0 .. 25
        /\ Bar(bypass, legacy, bypass) \in 0 .. 25
        /\ legacy >= bypass => Bar(legacy, legacy, bypass) >= Bar(bypass, legacy, bypass)
        /\ SummaryWidth(legacy, bypass) = 72

(* The demo comes to its end or to the question: no close waits for a      *)
(* worker that has not been told to end, whatever the voice does, and the  *)
(* commentary that is still being queued does not keep the worker busy.    *)
DemoEnds == pc # "ask" ~> pc \in {"ask", "exited"}
=============================================================================
