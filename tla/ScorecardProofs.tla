-------------------------- MODULE ScorecardProofs --------------------------
(***************************************************************************)
(* Proofs about Scorecard for any hosts, any measurements and any number   *)
(* of benchmarks: what stands on the scorecard, and where it comes from.   *)
(***************************************************************************)
EXTENDS Scorecard, TLAPS

(* The runner past the exit status of the launcher, and past detection.    *)
Fetching == {"fetch", "again qd1", "again mid", "try 16", "try 32", "shown"}
Accepted == {"detect"} \cup Fetching

TypeOK ==
  /\ request \in Requests
  /\ files \in [Files -> {Empty} \cup [run : Nat, job : Jobs \cup Totals]]
  /\ \A f \in Files : files[f] # Empty => files[f].job \in Contents(f)
  /\ place \in [Runs -> 0 .. Parse]
  /\ run \in Nat
  /\ pc \in {"idle", "start", "failed", "streaming", "returned"} \cup Accepted
  /\ pc # "idle" => run \in Runs
  /\ fetched \in 0 .. 6
  /\ results \in [Slots -> [run : Nat, lat : Nat, iops : Nat]]

(* A benchmark that has not begun has no launcher.                         *)
FutureRuns ==
  \A r \in Runs :
    (r > run \/ (r = run /\ pc = "start")) => place[r] = 0 /\ r \notin completed

Running == run \in Runs /\ place[run] # 0

(* The launchers beside that of this benchmark are older ones.             *)
RivalsKnown ==
  /\ pc = "start" => rivals = {}
  /\ (Running \/ run \in completed) =>
       \A r \in Runs : place[r] # 0 => r = run \/ r \in rivals

(* Once the launcher has emptied the files, nothing older is in them.      *)
FilesOfThisRun ==
  ((Running /\ place[run] # Truncate) \/ run \in completed) =>
    \A f \in Files : f[2] # "32" => files[f].run \in {0, run} \cup rivals

(* The runner goes on only when this launcher has completed.               *)
GoesOnCompleted ==
  /\ (pc = "returned" /\ returncode = 0) \/ pc \in Accepted => run \in completed

LabelKnown ==
  (pc \in Fetching /\ ~AgainstProbe(request)) =>
    s3label \in {"SPDK bdevperf", Backend(request)}

ResultsOfThisRun ==
  /\ (request.qd_mid = "16" /\ ~alt_used) =>
       \A s \in Slots : results[s].run \in {0, run} \cup rivals
  /\ alt_used => pc = "shown"

IInv ==
  /\ TypeOK
  /\ FutureRuns
  /\ RivalsKnown
  /\ FilesOfThisRun
  /\ GoesOnCompleted
  /\ LabelKnown
  /\ ResultsOfThisRun

-----------------------------------------------------------------------------
LEMMA RoundedIsNat ==
  ASSUME NEW n \in Nat
  PROVE  Rounded(n, 10) \in Nat /\ Rounded(n, 20) \in Nat
BY DEF Rounded

LEMMA JobFields ==
  ASSUME NEW j \in Jobs
  PROVE  /\ j.read_lat \in Nat /\ j.write_lat \in Nat
         /\ j.read_iops \in Nat /\ j.write_iops \in Nat
<1>1. Jobs \subseteq [read_lat : Nat, write_lat : Nat, read_iops : Nat, write_iops : Nat]
  BY ScorecardAssumption
<1>2. j \in [read_lat : Nat, write_lat : Nat, read_iops : Nat, write_iops : Nat]
  BY <1>1
<1> QED
  BY <1>2

LEMMA ParseIs == Parse = 8
BY DEF Parse, Measured

LEMMA FilesKnown ==
  Files = {<<"x", "1">>, <<"x", "16">>, <<"x", "32">>, <<"fuse", "1">>, <<"fuse", "16">>,
           <<"fuse", "32">>, <<"bdevperf", "lat">>, <<"bdevperf", "mid">>}
<1>1. DOMAIN Measured = 1 .. 6
  BY DEF Measured
<1>2. {Measured[k] : k \in 1 .. 6} =
        {<<"x", "1">>, <<"x", "16">>, <<"fuse", "1">>, <<"fuse", "16">>,
         <<"bdevperf", "lat">>, <<"bdevperf", "mid">>}
  BY DEF Measured
<1> QED
  BY <1>1, <1>2 DEF Files

(* The commands that write a file.                                         *)
LEMMA FileOfCommand ==
  ASSUME NEW p \in 0 .. Parse, p \notin {0, Truncate, Parse}
  PROVE  File(p) \in Files
<1>1. Parse = 8 /\ p - 1 \in 1 .. 6
  BY DEF Parse, Truncate, Measured
<1>2. DOMAIN Measured = 1 .. 6
  BY DEF Measured
<1> QED
  BY <1>1, <1>2 DEF File, Files

LEMMA NextPlaceKnown ==
  ASSUME NEW p \in 1 .. Parse
  PROVE  NextPlace(p) \in 0 .. Parse /\ NextPlace(Truncate) # 0
BY DEF NextPlace, Parse, Measured, Truncate

LEMMA SlotsAndFiles ==
  /\ Len(Order) = 6
  /\ \A k \in 1 .. 6 :
       /\ Order[k].slot \in Slots
       /\ Order[k].file[2] = "32" => request.qd_mid = "32"
       /\ request \in Requests => Order[k].file \in Files
<1>1. /\ Len(Order) = 6
      /\ \A k \in 1 .. 6 : Order[k].slot \in Slots
  BY DEF Order, Slots
<1>2. ASSUME NEW k \in 1 .. 6
      PROVE  Order[k].file[2] = "32" => request.qd_mid = "32"
  BY DEF Order
<1>3. ASSUME NEW k \in 1 .. 6, request \in Requests
      PROVE  Order[k].file \in Files
  <2>1. request.qd_mid \in {"16", "32"}
    BY <1>3, ScorecardAssumption
  <2> QED
    BY <2>1, FilesKnown DEF Order
<1> QED
  BY <1>1, <1>2, <1>3

(* What is parsed of a file has numbers in its columns and comes from the  *)
(* run that wrote it.                                                      *)
LEMMA ParsedKnown ==
  ASSUME TypeOK, NEW f \in Files, NEW c \in {files[f], Empty}
  PROVE  /\ ParsedAs(f, c) \in [run : Nat, lat : Nat, iops : Nat]
         /\ ParsedAs(f, c).run \in {0, files[f].run}
<1>1. CASE c = Empty
  BY <1>1 DEF ParsedAs, StageResult
<1>2. CASE c # Empty
  <2>1. c.run \in Nat /\ c.run = files[f].run /\ c.job \in Contents(f)
    BY <1>2 DEF TypeOK
  <2>2. CASE f[1] = "bdevperf"
    <3>1. c.job.lat \in Nat /\ c.job.iops \in Nat
      BY <2>1, <2>2, ScorecardAssumption DEF Contents
    <3> QED
      BY <1>2, <2>1, <2>2, <3>1 DEF ParsedAs, ParseBdevperf
  <2>3. CASE f[1] # "bdevperf"
    <3>1. /\ c.job.read_lat + c.job.write_lat \in Nat
          /\ c.job.read_iops + c.job.write_iops \in Nat
      <4>1. c.job \in Jobs
        BY <2>1, <2>3 DEF Contents
      <4> QED
        BY <4>1, JobFields
    <3> QED
      BY <1>2, <2>1, <2>3, <3>1, RoundedIsNat DEF ParsedAs, ParseFio
  <2> QED
    BY <2>2, <2>3
<1> QED
  BY <1>1, <1>2

LEMMA InitIInv == Init => IInv
<1> SUFFICES ASSUME Init PROVE IInv
  OBVIOUS
<1>1. PICK depths \in {{}, {"1", "16"}, {"1", "32"}}, job \in Jobs :
        files = [f \in Files |-> IF f[2] \in depths THEN [run |-> 1, job |-> job]
                                                    ELSE Empty]
  BY DEF Init
<1>2. \A f \in Files :
        /\ files[f] \in {Empty} \cup [run : Nat, job : Jobs \cup Totals]
        /\ files[f] # Empty => files[f].job \in Contents(f)
        /\ files[f].run \in {0, 1}
  <2> SUFFICES ASSUME NEW f \in Files
               PROVE  /\ files[f] \in {Empty} \cup [run : Nat, job : Jobs \cup Totals]
                      /\ files[f] # Empty => files[f].job \in Contents(f)
                      /\ files[f].run \in {0, 1}
    OBVIOUS
  <2>1. CASE f[2] \notin depths
    BY <1>1, <2>1 DEF Empty
  <2>2. CASE f[2] \in depths
    <3>1. f[1] # "bdevperf"
      BY <2>2, FilesKnown
    <3> QED
      BY <1>1, <2>2, <3>1 DEF Contents
  <2> QED
    BY <2>1, <2>2
<1>3. TypeOK
  <2>1. results \in [Slots -> [run : Nat, lat : Nat, iops : Nat]]
    BY DEF Init, NoResults, StageResult
  <2>2. files \in [Files -> {Empty} \cup [run : Nat, job : Jobs \cup Totals]]
    BY <1>1, <1>2
  <2>3. place \in [Runs -> 0 .. Parse]
    <3>1. place = [r \in Runs |-> 0]
      BY DEF Init
    <3> QED
      BY <3>1, ParseIs
  <2>4. pc = "idle" /\ run = 1 /\ fetched = 0 /\ request \in Requests
    BY DEF Init
  <2> QED
    BY <1>2, <2>1, <2>2, <2>3, <2>4 DEF TypeOK
<1>4. FutureRuns /\ RivalsKnown /\ GoesOnCompleted /\ LabelKnown
  <2>1. /\ pc = "idle" /\ run = 1 /\ completed = {1}
        /\ \A r \in Runs : place[r] = 0
    BY DEF Init
  <2> QED
    BY <2>1 DEF FutureRuns, RivalsKnown, GoesOnCompleted, LabelKnown, Accepted, Fetching
<1>5. FilesOfThisRun
  BY <1>2 DEF Init, FilesOfThisRun
<1>6. ResultsOfThisRun
  BY DEF Init, ResultsOfThisRun, NoResults, StageResult
<1> QED
  BY <1>3, <1>4, <1>5, <1>6 DEF IInv

(* A launcher empties or writes a file; it is this run's or a rival's.     *)
LEMMA LauncherStepIInv ==
  ASSUME IInv, NEW r \in Runs, LauncherStep(r)
  PROVE  IInv'
<1> DEFINE p == place[r]
<1> USE DEF IInv
<1>1. /\ p \in 1 .. Parse /\ p # 0 /\ Parse \in Nat
      /\ place' = [place EXCEPT ![r] = IF connected[r] THEN NextPlace(p) ELSE 0]
      /\ UNCHANGED <<request, connected, run, pc, returncode, fetched, results, s3label,
                     cpu_desc, rivals, failures, alt_used>>
  BY ParseIs DEF LauncherStep, TypeOK, runner
<1>2. /\ completed' \in {completed, completed \cup {r}}
      /\ completed' # completed => p # Truncate
  BY <1>1, NextPlaceKnown DEF LauncherStep
<1>3. \/ p = Truncate /\ files' = [f \in Files |-> Emptied(f)]
      \/ /\ p # Truncate
         /\ \E f \in Files : \E job \in Contents(f) :
              files' = [files EXCEPT ![f] = [run |-> r, job |-> job]]
      \/ p # Truncate /\ files' = files
  <2>1. p \notin {Truncate, Parse} => File(p) \in Files
    BY <1>1, FileOfCommand
  <2>2. Parse # Truncate
    BY ParseIs DEF Truncate
  <2> QED
    BY <1>1, <2>1, <2>2 DEF LauncherStep
<1>4. \A f \in Files : Contents(f) \subseteq Jobs \cup Totals
  BY DEF Contents
<1>5. r \in Nat /\ run \in Nat /\ r <= run /\ ~(r = run /\ pc = "start")
  BY <1>1 DEF FutureRuns, TypeOK, Runs
<1> HIDE DEF p
<1>6. TypeOK'
  <2>1. place' \in [Runs -> 0 .. Parse]
    BY <1>1, NextPlaceKnown DEF TypeOK
  <2>2. /\ files' \in [Files -> {Empty} \cup [run : Nat, job : Jobs \cup Totals]]
        /\ \A f \in Files : files'[f] # Empty => files'[f].job \in Contents(f)
    <3>1. CASE files' = [f \in Files |-> Emptied(f)]
      BY <3>1 DEF TypeOK, Emptied
    <3>2. ASSUME NEW f \in Files, NEW job \in Contents(f),
                 files' = [files EXCEPT ![f] = [run |-> r, job |-> job]]
          PROVE  /\ files' \in [Files -> {Empty} \cup [run : Nat, job : Jobs \cup Totals]]
                 /\ \A g \in Files : files'[g] # Empty => files'[g].job \in Contents(g)
      BY <1>4, <1>5, <3>2 DEF TypeOK
    <3>3. CASE files' = files
      BY <3>3 DEF TypeOK
    <3> QED
      BY <1>3, <3>1, <3>2, <3>3
  <2> QED
    BY <1>1, <2>1, <2>2 DEF TypeOK
<1>7. FutureRuns'
  BY <1>1, <1>2, <1>5 DEF FutureRuns, TypeOK
<1>8. (Running' \/ run' \in completed') => Running \/ run \in completed
  BY <1>1, <1>2 DEF Running, TypeOK, p
<1>9. RivalsKnown'
  BY <1>1, <1>8 DEF RivalsKnown, TypeOK, p
<1>10. FilesOfThisRun'
  <2> SUFFICES ASSUME (Running' /\ place'[run] # Truncate) \/ run \in completed',
                      NEW f \in Files, f[2] # "32"
               PROVE  files'[f].run \in {0, run} \cup rivals
    BY <1>1 DEF FilesOfThisRun
  <2>1. r = run \/ r \in rivals
    BY <1>1, <1>8 DEF RivalsKnown, p
  <2>2. CASE p = Truncate
    BY <1>3, <2>2 DEF Emptied, Empty
  <2>3. CASE p # Truncate
    <3>1. files[f].run \in {0, run} \cup rivals
      BY <1>1, <1>2, <2>3 DEF FilesOfThisRun, Running, TypeOK, p
    <3>2. files'[f] = files[f] \/ files'[f].run = r
      BY <1>3, <2>3 DEF TypeOK
    <3> QED
      BY <2>1, <3>1, <3>2
  <2> QED
    BY <2>2, <2>3
<1>11. GoesOnCompleted' /\ LabelKnown' /\ ResultsOfThisRun'
  BY <1>1, <1>2 DEF GoesOnCompleted, LabelKnown, ResultsOfThisRun
<1> QED
  BY <1>6, <1>7, <1>9, <1>10, <1>11

(* A launcher that ends early leaves files and results as they are.        *)
LEMMA LauncherEndsIInv ==
  ASSUME IInv, NEW r \in Runs, LauncherFails(r) \/ ConnectionLost(r)
  PROVE  IInv'
<1> USE DEF IInv
<1>1. /\ place' \in {place, [place EXCEPT ![r] = 0]}
      /\ UNCHANGED <<request, files, completed, run, pc, returncode, fetched, results,
                     s3label, rivals, alt_used>>
  BY DEF LauncherFails, ConnectionLost, runner
<1>2. TypeOK'
  BY <1>1, ParseIs DEF TypeOK
<1>3. FutureRuns' /\ RivalsKnown' /\ FilesOfThisRun'
  BY <1>1 DEF FutureRuns, RivalsKnown, FilesOfThisRun, Running, TypeOK
<1>4. GoesOnCompleted' /\ LabelKnown' /\ ResultsOfThisRun'
  BY <1>1 DEF GoesOnCompleted, LabelKnown, ResultsOfThisRun
<1> QED
  BY <1>2, <1>3, <1>4

LEMMA BeginIInv == ASSUME IInv, Begin PROVE IInv'
<1> USE DEF IInv
<1>1. /\ run' = run + 1 /\ run + 1 \in Runs /\ run \in Nat
      /\ pc' \in {"start", "failed"}
      /\ fetched' = 0 /\ results' = NoResults /\ alt_used' = FALSE /\ rivals' = {}
      /\ UNCHANGED <<request, files, place, completed>>
  <2>1. /\ run' = run + 1 /\ run < MaxRuns
        /\ fetched' = 0 /\ results' = NoResults /\ alt_used' = FALSE /\ rivals' = {}
        /\ UNCHANGED <<request, files, place, completed>>
    BY DEF Begin, host
  <2>2. pc' \in {"start", "failed"}
    BY DEF Begin, ValidationFails, To
  <2>3. run + 1 \in Runs /\ run \in Nat
    <3>1. run \in Nat /\ MaxRuns \in Nat
      BY ScorecardAssumption DEF TypeOK
    <3> QED
      BY <2>1, <3>1 DEF Runs
  <2> QED
    BY <2>1, <2>2, <2>3
<1>2. TypeOK'
  BY <1>1 DEF TypeOK, NoResults, StageResult
<1>3. place[run + 1] = 0 /\ run + 1 \notin completed
  BY <1>1 DEF FutureRuns
<1>4. FutureRuns'
  BY <1>1, <1>3 DEF FutureRuns, Runs
<1>5. RivalsKnown' /\ FilesOfThisRun'
  BY <1>1, <1>3 DEF RivalsKnown, FilesOfThisRun, Running
<1>6. GoesOnCompleted' /\ LabelKnown' /\ ResultsOfThisRun'
  BY <1>1 DEF GoesOnCompleted, LabelKnown, ResultsOfThisRun, Accepted, Fetching,
              NoResults, StageResult
<1> QED
  BY <1>2, <1>4, <1>5, <1>6

LEMMA StartLauncherIInv == ASSUME IInv, StartLauncher PROVE IInv'
<1> USE DEF IInv
<1>1. /\ pc = "start" /\ pc' = "streaming" /\ run \in Runs
      /\ place' = [place EXCEPT ![run] = Truncate]
      /\ rivals = {} /\ rivals' = {r \in Runs : place[r] # 0}
      /\ UNCHANGED <<request, files, completed, run, returncode, fetched, results,
                     s3label, alt_used>>
  BY DEF StartLauncher, To, TypeOK, RivalsKnown
<1>2. TypeOK'
  BY <1>1, ParseIs DEF TypeOK, Truncate
<1>3. FutureRuns'
  BY <1>1 DEF FutureRuns, TypeOK, Runs
<1>4. RivalsKnown'
  BY <1>1 DEF RivalsKnown, TypeOK
<1>5. run \notin completed
  BY <1>1 DEF FutureRuns
<1>6. FilesOfThisRun'
  BY <1>1, <1>5 DEF FilesOfThisRun, TypeOK
<1>7. GoesOnCompleted' /\ LabelKnown' /\ ResultsOfThisRun'
  BY <1>1 DEF GoesOnCompleted, LabelKnown, ResultsOfThisRun, Accepted, Fetching
<1> QED
  BY <1>2, <1>3, <1>4, <1>6, <1>7

(* ssh gives 0 only when the connection held and the launcher gave 0.      *)
LEMMA WaitedIInv == ASSUME IInv, Waited PROVE IInv'
<1> USE DEF IInv
<1>1. /\ pc = "streaming" /\ pc' = "returned"
      /\ returncode' = 0 => run \in completed
      /\ UNCHANGED <<request, files, place, completed, run, fetched, results, s3label,
                     rivals, alt_used>>
  BY DEF Waited, To
<1>2. TypeOK'
  BY <1>1 DEF TypeOK
<1>3. FutureRuns' /\ RivalsKnown' /\ FilesOfThisRun'
  BY <1>1 DEF FutureRuns, RivalsKnown, FilesOfThisRun, Running
<1>4. GoesOnCompleted' /\ LabelKnown' /\ ResultsOfThisRun'
  BY <1>1 DEF GoesOnCompleted, LabelKnown, ResultsOfThisRun, Accepted, Fetching
<1> QED
  BY <1>2, <1>3, <1>4

(* What the runner does after wait leaves the host and the run alone.      *)
LEMMA AfterWait ==
  ASSUME IInv, UNCHANGED <<request, files, place, completed, run, rivals>>,
         TypeOK', pc # "idle", pc' # "start",
         GoesOnCompleted', LabelKnown', ResultsOfThisRun'
  PROVE  IInv'
<1> USE DEF IInv
<1>1. FutureRuns' /\ RivalsKnown' /\ FilesOfThisRun'
  BY DEF FutureRuns, RivalsKnown, FilesOfThisRun, Running
<1> QED
  BY <1>1

LEMMA CheckReturncodeIInv == ASSUME IInv, CheckReturncode PROVE IInv'
<1>1. /\ pc = "returned" /\ pc' \in {"detect", "failed"}
      /\ pc' = "detect" => returncode = 0
      /\ UNCHANGED <<request, files, place, completed, run, rivals, returncode, fetched,
                     results, s3label, alt_used>>
  BY DEF CheckReturncode, Accepts, To, Asking, host
<1>2. TypeOK' /\ GoesOnCompleted' /\ LabelKnown' /\ ResultsOfThisRun'
  BY <1>1 DEF IInv, TypeOK, GoesOnCompleted, LabelKnown, ResultsOfThisRun, Accepted,
              Fetching
<1> QED
  BY <1>1, <1>2, AfterWait

LEMMA DetectIInv == ASSUME IInv, Detect PROVE IInv'
<1>1. /\ pc = "detect" /\ pc' = "fetch"
      /\ \E vendor \in {request.cloud, ""} : s3label' = Stage3Label(vendor)
      /\ UNCHANGED <<request, files, place, completed, run, rivals, returncode, fetched,
                     results, alt_used>>
  BY DEF Detect, To, Asking, host
<1>2. ~AgainstProbe(request') => s3label' \in {"SPDK bdevperf", Backend(request')}
  <2>1. request.cloud \in {"azure", "aws", "unknown"}
    BY ScorecardAssumption DEF IInv, TypeOK
  <2> QED
    BY <1>1, <2>1 DEF Stage3Label, Backend, AgainstProbe, ProbedDriver
<1>3. TypeOK' /\ GoesOnCompleted' /\ LabelKnown' /\ ResultsOfThisRun'
  BY <1>1, <1>2 DEF IInv, TypeOK, GoesOnCompleted, LabelKnown, ResultsOfThisRun,
              Accepted, Fetching
<1> QED
  BY <1>1, <1>3, AfterWait

(* A result read from a file of this run is of this run.                   *)
LEMMA ResultRead ==
  ASSUME IInv, NEW f \in Files, NEW c \in {files[f], Empty}, NEW s \in Slots,
         run \in completed
  PROVE  /\ [results EXCEPT ![s] = ParsedAs(f, c)]
              \in [Slots -> [run : Nat, lat : Nat, iops : Nat]]
         /\ f[2] # "32" => ParsedAs(f, c).run \in {0, run} \cup rivals
<1>1. ParsedAs(f, c) \in [run : Nat, lat : Nat, iops : Nat]
  BY ParsedKnown, Zenon DEF IInv
<1>2. ParsedAs(f, c).run \in {0, files[f].run}
  BY ParsedKnown, Zenon DEF IInv
<1> QED
  BY <1>1, <1>2 DEF IInv, TypeOK, FilesOfThisRun

LEMMA FetchIInv == ASSUME IInv, Fetch PROVE IInv'
<1> DEFINE o == Order[fetched + 1]
<1>1. /\ pc = "fetch" /\ pc' = pc
      /\ fetched' = fetched + 1
      /\ UNCHANGED <<request, files, place, completed, run, rivals, returncode,
                     s3label, alt_used>>
      /\ \E c \in {files[o.file], Empty} :
           results' = [results EXCEPT ![o.slot] = ParsedAs(o.file, c)]
  BY DEF Fetch, Asking, host
<1>2. /\ fetched + 1 \in 1 .. 6
      /\ o.file \in Files /\ o.slot \in Slots
      /\ o.file[2] = "32" => request.qd_mid = "32"
  <2>1. fetched + 1 \in 1 .. 6
    BY SlotsAndFiles DEF Fetch, IInv, TypeOK
  <2> QED
    BY <2>1, SlotsAndFiles DEF IInv, TypeOK
<1>3. run \in completed /\ ~alt_used
  BY <1>1 DEF IInv, GoesOnCompleted, ResultsOfThisRun, Accepted, Fetching
<1> HIDE DEF o
<1>4. /\ results' \in [Slots -> [run : Nat, lat : Nat, iops : Nat]]
      /\ request.qd_mid = "16" =>
           \A s \in Slots : results'[s].run \in {0, run} \cup rivals
  <2>1. PICK c \in {files[o.file], Empty} :
               results' = [results EXCEPT ![o.slot] = ParsedAs(o.file, c)]
    BY <1>1
  <2>2. /\ results' \in [Slots -> [run : Nat, lat : Nat, iops : Nat]]
        /\ o.file[2] # "32" => ParsedAs(o.file, c).run \in {0, run} \cup rivals
    BY <1>2, <1>3, <2>1, ResultRead
  <2> QED
    BY <1>2, <1>3, <2>1, <2>2 DEF IInv, TypeOK, ResultsOfThisRun
<1>5. TypeOK'
  BY <1>1, <1>2, <1>4 DEF IInv, TypeOK
<1>6. GoesOnCompleted' /\ LabelKnown' /\ ResultsOfThisRun'
  BY <1>1, <1>3, <1>4 DEF IInv, GoesOnCompleted, LabelKnown, ResultsOfThisRun
<1> QED
  BY <1>1, <1>5, <1>6, AfterWait

LEMMA FetchedIInv == ASSUME IInv, Fetched PROVE IInv'
<1>1. /\ pc = "fetch" /\ pc' \in {"again qd1", "shown"}
      /\ UNCHANGED <<request, files, place, completed, run, rivals, returncode, fetched,
                     results, s3label, alt_used>>
  BY DEF Fetched, To, Asking, host
<1>2. TypeOK' /\ GoesOnCompleted' /\ LabelKnown' /\ ResultsOfThisRun'
  BY <1>1 DEF IInv, TypeOK, GoesOnCompleted, LabelKnown, ResultsOfThisRun, Accepted,
              Fetching
<1> QED
  BY <1>1, <1>2, AfterWait

(* A second reading of a file; only the last one looks at a file that the  *)
(* launcher of this run does not write.                                    *)
LEMMA AgainIInv ==
  ASSUME IInv, NEW from \in {"again qd1", "again mid", "try 16", "try 32"},
         NEW f \in Files, NEW s \in Slots,
         NEW found \in Fetching \ {"fetch"}, NEW not \in Fetching \ {"fetch"},
         f[2] = "32" => from = "try 32",
         from = "try 32" => found = "shown",
         Again(from, f, s, found, not)
  PROVE  IInv'
<1>1. PICK c \in {files[f], Empty} :
        /\ pc' = IF c = Empty THEN not ELSE found
        /\ results' = IF c = Empty THEN results
                      ELSE [results EXCEPT ![s] = ParsedAs(f, c)]
        /\ alt_used' = (from = "try 32" /\ c # Empty)
  BY DEF Again, To
<1>2. /\ pc = from /\ from \in Fetching
      /\ UNCHANGED <<request, files, place, completed, run, rivals, returncode, fetched,
                     s3label>>
  BY DEF Again, Fetching, host
<1>3. run \in completed /\ ~alt_used
  BY <1>2 DEF IInv, GoesOnCompleted, ResultsOfThisRun, Accepted
<1>4. /\ results' \in [Slots -> [run : Nat, lat : Nat, iops : Nat]]
      /\ (request.qd_mid = "16" /\ ~alt_used') =>
           \A k \in Slots : results'[k].run \in {0, run} \cup rivals
  <2>1. CASE c = Empty
    BY <1>1, <1>3, <2>1 DEF IInv, TypeOK, ResultsOfThisRun
  <2>2. CASE c # Empty
    <3>1. /\ results' \in [Slots -> [run : Nat, lat : Nat, iops : Nat]]
          /\ f[2] # "32" => ParsedAs(f, c).run \in {0, run} \cup rivals
      BY <1>1, <1>3, <2>2, ResultRead
    <3> QED
      BY <1>1, <1>3, <2>2, <3>1 DEF IInv, TypeOK, ResultsOfThisRun
  <2> QED
    BY <2>1, <2>2
<1>5. pc' \in Fetching /\ (alt_used' => pc' = "shown") /\ pc' # "start" /\ pc # "idle"
  BY <1>1, <1>2 DEF Fetching
<1>6. TypeOK'
  BY <1>2, <1>4, <1>5 DEF IInv, TypeOK, Accepted, Fetching
<1>7. GoesOnCompleted' /\ LabelKnown' /\ ResultsOfThisRun'
  BY <1>2, <1>3, <1>4, <1>5 DEF IInv, GoesOnCompleted, LabelKnown, ResultsOfThisRun
<1> QED
  BY <1>2, <1>5, <1>6, <1>7, AfterWait

LEMMA AwsAgainIInv == ASSUME IInv, AwsAgain PROVE IInv'
<1>1. /\ {<<"x", "1">>, <<"x", "16">>, <<"x", "32">>} \subseteq Files
      /\ {<<"kernel", "qd1">>, <<"kernel", "mid">>} \subseteq Slots
      /\ {"again mid", "try 16", "try 32", "shown"} \subseteq Fetching \ {"fetch"}
  BY FilesKnown DEF Slots, Fetching
<1>2. CASE Again("again qd1", <<"x", "1">>, <<"kernel", "qd1">>, "again mid", "again mid")
  BY <1>1, <1>2, AgainIInv
<1>3. CASE Again("again mid", <<"x", "16">>, <<"kernel", "mid">>, "shown", "try 16")
  BY <1>1, <1>3, AgainIInv
<1>4. CASE Again("try 16", <<"x", "16">>, <<"kernel", "mid">>, "shown", "try 32")
  BY <1>1, <1>4, AgainIInv
<1>5. CASE Again("try 32", <<"x", "32">>, <<"kernel", "mid">>, "shown", "shown")
  BY <1>1, <1>5, AgainIInv
<1> QED
  BY <1>2, <1>3, <1>4, <1>5 DEF AwsAgain

-----------------------------------------------------------------------------
LEMMA NextIInv == IInv /\ [Next]_vars => IInv'
<1> SUFFICES ASSUME IInv, [Next]_vars PROVE IInv'
  OBVIOUS
<1>1. CASE \E r \in Runs : LauncherStep(r) \/ LauncherFails(r) \/ ConnectionLost(r)
  BY <1>1, LauncherStepIInv, LauncherEndsIInv, Zenon
<1>2. CASE Begin \/ StartLauncher \/ Waited
  BY <1>2, BeginIInv, StartLauncherIInv, WaitedIInv, Zenon
<1>3. CASE CheckReturncode \/ Detect \/ Fetch \/ Fetched \/ AwsAgain
  BY <1>3, CheckReturncodeIInv, DetectIInv, FetchIInv, FetchedIInv, AwsAgainIInv, Zenon
<1>4. CASE UNCHANGED vars
  <2> USE <1>4 DEF vars, host, runner, IInv
  <2>1. TypeOK'
    BY DEF TypeOK
  <2>2. FutureRuns' /\ RivalsKnown' /\ FilesOfThisRun'
    BY DEF FutureRuns, RivalsKnown, FilesOfThisRun, Running
  <2>3. GoesOnCompleted' /\ LabelKnown' /\ ResultsOfThisRun'
    BY DEF GoesOnCompleted, LabelKnown, ResultsOfThisRun
  <2> QED
    BY <2>1, <2>2, <2>3
<1> QED
  BY <1>1, <1>2, <1>3, <1>4, Zenon DEF Next

LEMMA IInvHolds == Spec => []IInv
BY InitIInv, NextIInv, PTL DEF Spec

(* Nothing stale is shown: whatever was left on the host, by however many  *)
(* earlier runs, and whichever calls of ssh fail, each number comes from   *)
(* this run or from a launcher that was still there when it began.         *)
THEOREM NothingStale == Spec => []ShownIsThisRun
<1>1. IInv => ShownIsThisRun
  BY DEF IInv, ResultsOfThisRun, ShownIsThisRun
<1> QED
  BY <1>1, IInvHolds, PTL

(* A scorecard means that its launcher came to the end without an error.   *)
THEOREM CardOnlyOfCompleted == Spec => []NoCardAfterFailure
<1>1. IInv => NoCardAfterFailure
  BY DEF IInv, GoesOnCompleted, NoCardAfterFailure, Accepted, Fetching
<1> QED
  BY <1>1, IInvHolds, PTL

(* The label over stage 3 (_build_results) names the backend that measured *)
(* it, or none, unless DEMO_STAGE3_DRIVER overrode the launcher's probe    *)
(* with another.                                                           *)
THEOREM LabelsTrue == Spec => []LabelTrue
<1>1. IInv => LabelTrue
  BY DEF IInv, LabelKnown, LabelTrue, Fetching
<1> QED
  BY <1>1, IInvHolds, PTL

-----------------------------------------------------------------------------
(* In a column of any numbers the best row that has one is highlighted: no *)
(* zero wins over a number.                                                *)
LEMMA LeastIsHighlighted ==
  ASSUME NEW column \in [Rows -> Nat], NEW t \in Rows, column[t] > 0
  PROVE  \E u \in BestLat(column) : column[u] \in 1 .. column[t]
<1>1. Rows = {1, 2, 3}
  BY DEF Rows, Tiers
<1>2. /\ column[1] \in Nat /\ column[2] \in Nat /\ column[3] \in Nat
      /\ t \in {1, 2, 3}
  BY <1>1
<1> HIDE DEF Rows
<1>3. PICK u \in {1, 2, 3} :
        /\ column[u] > 0 /\ column[u] <= column[t]
        /\ \A v \in {1, 2, 3} : column[v] > 0 =>
             column[u] < column[v] \/ (column[u] = column[v] /\ u <= v)
  BY <1>2
<1> QED
  BY <1>1, <1>2, <1>3 DEF BestLat, Shown

LEMMA GreatestIsHighlighted ==
  ASSUME NEW column \in [Rows -> Nat], NEW t \in Rows, column[t] > 0
  PROVE  \E u \in BestIops(column) : column[u] >= column[t]
<1>1. Rows = {1, 2, 3}
  BY DEF Rows, Tiers
<1>2. /\ column[1] \in Nat /\ column[2] \in Nat /\ column[3] \in Nat
      /\ t \in {1, 2, 3}
  BY <1>1
<1>3. PICK u \in {1, 2, 3} :
        /\ column[u] > 0 /\ column[u] >= column[t]
        /\ \A v \in {1, 2, 3} : column[v] > 0 =>
             column[u] > column[v] \/ (column[u] = column[v] /\ u >= v)
  BY <1>2
<1> QED
  BY <1>1, <1>2, <1>3 DEF BestIops, Shown

(* So the highlighting is right for whatever was measured.                 *)
THEOREM HighlightsBest == Spec => []BestIsBest
<1>1. ASSUME IInv, NEW box \in {"qd1", "mid"}
      PROVE  /\ Column(box, "lat") \in [Rows -> Nat]
             /\ Column(box, "iops") \in [Rows -> Nat]
  <2>1. \A t \in Rows : <<Tiers[t], box>> \in Slots
    BY DEF Rows, Tiers, Slots
  <2>2. \A s \in Slots : results[s].lat \in Nat /\ results[s].iops \in Nat
    BY <1>1 DEF IInv, TypeOK
  <2> QED
    BY <2>1, <2>2 DEF Column
<1>2. ASSUME IInv, NEW box \in {"qd1", "mid"},
             NEW lat, lat = Column(box, "lat"), NEW iops, iops = Column(box, "iops")
      PROVE  /\ \A t \in Highlighted(box) : lat[t] > 0 \/ iops[t] > 0
             /\ \A t \in Rows :
                  /\ lat[t] > 0 => \E u \in Highlighted(box) : lat[u] \in 1 .. lat[t]
                  /\ iops[t] > 0 => \E u \in Highlighted(box) : iops[u] >= iops[t]
  <2>1. lat \in [Rows -> Nat] /\ iops \in [Rows -> Nat]
    BY <1>1, <1>2
  <2>2. Highlighted(box) = BestLat(lat) \cup BestIops(iops)
    BY <1>2 DEF Highlighted
  <2>3. \A t \in Highlighted(box) : lat[t] > 0 \/ iops[t] > 0
    BY <2>2 DEF BestLat, BestIops, Shown
  <2> QED
    BY <2>1, <2>2, <2>3, LeastIsHighlighted, GreatestIsHighlighted
<1>3. IInv => BestIsBest
  BY <1>2, Zenon DEF BestIsBest
<1> QED
  BY <1>3, IInvHolds, PTL

-----------------------------------------------------------------------------
(* Division by a constant rounds to the nearest: the arithmetic of the two *)
(* scorecards.                                                             *)
LEMMA RoundedTwice ==
  ASSUME NEW s \in Nat
  PROVE  /\ Rounded(5 * s, 100) = Rounded(s, 20)
         /\ 10 * Rounded(Rounded(s, 20), 10) - Rounded(s, 20) \in -5 .. 5
<1>1. Rounded(5 * s, 100) = Rounded(s, 20)
  BY DEF Rounded
<1>2. ASSUME NEW m \in Nat
      PROVE  10 * Rounded(m, 10) - m \in -5 .. 5
  BY DEF Rounded
<1> QED
  BY <1>1, <1>2, RoundedIsNat

LEMMA RoundedUpOrCut ==
  ASSUME NEW s \in Nat
  PROVE  Rounded(s, 10) - (s \div 10) \in {0, 1}
BY DEF Rounded

(* The scorecards of runner and launcher agree for whatever was measured.  *)
THEOREM ScorecardsAgree == Spec => []AgreesWithLauncher
<1>1. ASSUME TypeOK, NEW f \in Files, files[f] # Empty
      PROVE  Agree(f, files[f])
  <2>1. files[f].job \in Contents(f)
    BY <1>1 DEF TypeOK
  <2>2. CASE f[1] = "bdevperf"
    <3> DEFINE lat == files[f].job.lat
               iops == files[f].job.iops
    <3>1. lat \in Nat /\ iops \in Nat
      BY <2>1, <2>2, ScorecardAssumption DEF Contents
    <3>2. /\ ParsedAs(f, files[f]).lat = lat
          /\ ParsedAs(f, files[f]).iops = iops \div 10
          /\ LauncherLat(f, files[f]) = lat
          /\ LauncherIops(f, files[f]) = Rounded(iops, 10)
      BY <1>1, <2>2 DEF ParsedAs, ParseBdevperf, LauncherLat, LauncherIops
    <3> HIDE DEF lat, iops
    <3>3. 10 * Rounded(lat, 10) - lat \in -5 .. 5
      BY <3>1 DEF Rounded
    <3> QED
      BY <3>1, <3>2, <3>3, RoundedUpOrCut DEF Agree, Displayed
  <2>3. CASE f[1] # "bdevperf"
    <3> DEFINE lat == files[f].job.read_lat + files[f].job.write_lat
               iops == files[f].job.read_iops + files[f].job.write_iops
    <3>1. lat \in Nat /\ iops \in Nat
      <4>1. files[f].job \in Jobs
        BY <2>1, <2>3 DEF Contents
      <4> QED
        BY <4>1, JobFields
    <3>2. /\ ParsedAs(f, files[f]).lat = Rounded(lat, 20)
          /\ ParsedAs(f, files[f]).iops = iops \div 10
          /\ LauncherLat(f, files[f]) = Rounded(5 * lat, 100)
          /\ LauncherIops(f, files[f]) = Rounded(iops, 10)
      BY <1>1, <2>3 DEF ParsedAs, ParseFio, LauncherLat, LauncherIops
    <3> HIDE DEF lat, iops
    <3> QED
      BY <3>1, <3>2, RoundedTwice, RoundedUpOrCut, RoundedIsNat DEF Agree, Displayed
  <2> QED
    BY <2>2, <2>3
<1>2. IInv => AgreesWithLauncher
  BY <1>1 DEF IInv, AgreesWithLauncher
<1> QED
  BY <1>2, IInvHolds, PTL
=============================================================================
