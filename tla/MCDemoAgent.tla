---------------------------- MODULE MCDemoAgent ----------------------------
(* Instances of DemoAgent for TLC.                                         *)
EXTENDS DemoAgent

D(kind) == [is |-> kind]
With(kind) == [is |-> kind, valid |-> TRUE]
Cat(word, form) == [is |-> "cat", word |-> word, form |-> form]
Word(word) == [is |-> "word", word |-> word, indented |-> FALSE]

Run(lines) == [script |-> lines, found |-> TRUE, aws_only |-> FALSE,
               azure_host |-> TRUE, aws_host |-> TRUE, answer |-> FALSE]

(* A scorecard between two voice lines; an engine and two probes; a chart; *)
(* here documents with directives inside, well formed and not; arguments   *)
(* that are no numbers; an engine started twice.                           *)
Scored2 == <<D("VOICE"), With("SCORECARD"), D("VOICE")>>
Probed == <<D("ENGINE_START"), With("COMPARE_XFS"), With("COMPARE_XFS"),
            D("ENGINE_STOP"), With("COMPARE_LIVE")>>
Charts == <<With("TELEMETRY"), With("COMPARE_CHART")>>
Blocks == <<Cat("EOF", "word"), D("VOICE"), Word("END"), Word("EOF"),
            Cat("END", "word"), D("ENGINE_START"), Word("EOF"), Word("END"),
            D("ENGINE_START"), With("WAIT")>>
Swallowed == <<Cat("EOF", "redirect"), Word("EOF"), D("VOICE")>>
Invalid == <<D("ENGINE_START"), D("shell"), [is |-> "WAIT", valid |-> FALSE]>>
Twice == <<D("ENGINE_START"), D("comment"), D("ENGINE_START")>>

AllCommands ==
  {Run(s) : s \in {Scored2, Probed, Charts, Blocks, Swallowed, Invalid, Twice}}
    \cup {[Run(<<D("VOICE")>>) EXCEPT !.answer = TRUE],
          [Run(<<>>) EXCEPT !.aws_only = TRUE], [Run(<<>>) EXCEPT !.found = FALSE],
          [Run(<<>>) EXCEPT !.aws_host = FALSE]}

(* No I/O yet, a dd that failed, the fallback value, a kernel, a slow disk.*)
SomeLatencies == {0, 2, 38, 140, 30000}
SomeIndices == (0 .. 7) \cup (100 .. 111) \cup {199}
=============================================================================
