----------------------------- MODULE Scorecard -----------------------------
(***************************************************************************)
(* The benchmark runner (vibe_demo_agent/benchmark_runner.py), on this or  *)
(* on a remote host, and the scorecard of the AWS demo                     *)
(* (vibe_demo_agent.py).  It starts the launcher, waits for its end, asks  *)
(* the host what it is, reads the result files one by one and shows what   *)
(* it parsed.  On a remote host each of these is a call of ssh that may    *)
(* fail.                                                                   *)
(*                                                                         *)
(* Launcher.tla has the launcher in detail; here only the result files it  *)
(* empties and writes, in order, and its own parsing count.  A launcher    *)
(* whose connection is lost runs on until it next writes a line, so it can *)
(* meet the launcher of a repeated benchmark.                              *)
(***************************************************************************)
EXTENDS Integers, Sequences

CONSTANTS
  Requests,    (* hosts, and what is asked of them: see the assumption     *)
  Jobs,        (* what a fio can measure                                   *)
  Totals,      (* what a bdevperf can measure                              *)
  MaxFailures, (* bound of the model on failing calls of ssh in a run      *)
  MaxRuns      (* bound of the model; run 1 was by hand                    *)

(* aws_demo tells run_aws_demo from run_benchmark.  driver is              *)
(* DEMO_STAGE3_DRIVER in the environment of the launcher, "" if not set: a *)
(* local run inherits that of the runner, a remote one has that of the     *)
(* host.  fio gives the mean latencies of reads and writes in ns and I/Os  *)
(* per 10 s; bdevperf gives a latency in 1/100 us and I/Os per 10 s, in a  *)
(* Total line whose I/Os per second do not round to 0.                     *)
ASSUME ScorecardAssumption ==
  /\ \A q \in Requests :
       /\ q.cloud \in {"azure", "aws", "unknown"}
       /\ q.cpu \in {"N2", "V1", "V2"}
       /\ q.driver \in {"", "kernel", "vfio-pci"}
       /\ q.spdk \in BOOLEAN /\ q.aws_demo \in BOOLEAN /\ q.local \in BOOLEAN
       /\ q.aws_demo => ~q.local
       /\ q.qd_mid \in {"16", "32"}
  /\ Jobs \subseteq [read_lat : Nat, write_lat : Nat, read_iops : Nat, write_iops : Nat]
  /\ Totals \subseteq [lat : Nat, iops : Nat] /\ \A total \in Totals : total.iops >= 5
  /\ MaxFailures \in Nat /\ MaxRuns \in Nat

(* In the order of the launcher with --executive-demo.                     *)
Measured == <<<<"x", "1">>, <<"x", "16">>, <<"fuse", "1">>, <<"fuse", "16">>,
              <<"bdevperf", "lat">>, <<"bdevperf", "mid">>>>
Files == {Measured[i] : i \in DOMAIN Measured} \cup {<<"x", "32">>, <<"fuse", "32">>}
Runs == 1 .. MaxRuns
Empty == [run |-> 0]

VARIABLES
  request,
  files,            (* on the host: content, and the run that wrote it     *)
  place,            (* per run: the command its launcher is at, 0 for none *)
  connected,        (* per run: is its ssh connection up?                  *)
  completed,        (* runs whose launcher returned 0                      *)
  run, pc,          (* of the runner                                       *)
  returncode,       (* of ssh                                              *)
  fetched,          (* files fetched by _build_results so far              *)
  results,          (* BenchmarkResults: the six StageResults              *)
  s3label, cpu_desc,
  rivals,           (* runs still on the host when this one began          *)
  failures,         (* calls of ssh that failed                            *)
  alt_used          (* was an alternative file name needed (history)?      *)

host == <<files, place, connected, completed>>
runner == <<run, pc, returncode, fetched, results, s3label, cpu_desc, rivals, failures,
            alt_used>>
vars == <<request, host, runner>>

Slots == {"kernel", "fuse", "spdk"} \X {"qd1", "mid"}
StageResult == [run |-> 0, lat |-> 0, iops |-> 0]
NoResults == [s \in Slots |-> StageResult]

Init ==
  /\ request \in Requests
  /\ \E depths \in {{}, {"1", "16"}, {"1", "32"}}, job \in Jobs :
       files = [f \in Files |-> IF f[2] \in depths THEN [run |-> 1, job |-> job]
                                                   ELSE Empty]
  /\ place = [r \in Runs |-> 0]
  /\ connected = [r \in Runs |-> FALSE]
  /\ completed = {1}
  /\ run = 1 /\ pc = "idle" /\ returncode = 0
  /\ fetched = 0 /\ results = NoResults
  /\ s3label = "" /\ cpu_desc = ""
  /\ rivals = {} /\ failures = 0 /\ alt_used = FALSE

-----------------------------------------------------------------------------
(* The launcher of run r.                                                  *)
Truncate == 1
Parse == Len(Measured) + 2
File(p) == Measured[p - 1]

(* DEMO_MAX_STAGE=1 ends it after the baseline; without SPDK there is no   *)
(* stage 3.                                                                *)
NextPlace(p) ==
  IF request.aws_demo /\ p = 3 THEN 0
  ELSE IF ~request.spdk /\ p = 5 THEN Parse
  ELSE IF p = Parse THEN 0
  ELSE p + 1

(* What it measures stage 3 with: DEMO_STAGE3_DRIVER, or what fits the     *)
(* cloud it finds.                                                         *)
ProbedDriver(q) == IF q.cloud = "azure" THEN "kernel" ELSE "vfio-pci"
STAGE3_DRIVER(q) == IF q.driver # "" THEN q.driver ELSE ProbedDriver(q)
Backend(q) == IF STAGE3_DRIVER(q) = "kernel" THEN "bdev_uring" ELSE "bdev_nvme"

(* The files of depth 32 are not among those it empties.                   *)
EmptiedNone(f) == files[f]
Emptied(f) == IF f[2] = "32" THEN files[f] ELSE Empty

Contents(f) == IF f[1] = "bdevperf" THEN Totals ELSE Jobs

LauncherStep(r) ==
  LET p == place[r]
  IN  /\ p # 0
      /\ \/ /\ p = Truncate
            /\ files' = [f \in Files |-> Emptied(f)]
         \/ /\ p \notin {Truncate, Parse}
            /\ \E job \in Contents(File(p)) :
                 files' = [files EXCEPT ![File(p)] = [run |-> r, job |-> job]]
         \/ p = Parse /\ UNCHANGED files
      /\ place' = [place EXCEPT ![r] = IF connected[r] THEN NextPlace(p) ELSE 0]
      /\ completed' = IF connected[r] /\ NextPlace(p) = 0 THEN completed \cup {r}
                                                          ELSE completed
      /\ UNCHANGED <<request, connected, runner>>

(* A command fails: the script ends with an error.                         *)
LauncherFails(r) ==
  /\ place[r] # 0
  /\ place' = [place EXCEPT ![r] = 0]
  /\ UNCHANGED <<request, files, connected, completed, runner>>

ConnectionLost(r) ==
  /\ connected[r] /\ ~request.local
  /\ connected' = [connected EXCEPT ![r] = FALSE]
  /\ UNCHANGED <<request, files, place, completed, runner>>

-----------------------------------------------------------------------------
(* The runner.                                                             *)
To(p) == pc' = p
Asking == UNCHANGED <<request, host, run, returncode, rivals, alt_used>>

(* _validate_remote_benchmark_host: a command that cannot be asked for is  *)
(* missing.  Neither a local run nor the AWS demo asks.                    *)
ValidationFails == ~request.local /\ ~request.aws_demo /\ To("failed")

Begin ==
  /\ pc \in {"idle", "failed", "shown"} /\ run < MaxRuns
  /\ run' = run + 1
  /\ (To("start") \/ ValidationFails)
  /\ returncode' = 0 /\ fetched' = 0 /\ results' = NoResults
  /\ s3label' = "" /\ cpu_desc' = "" /\ alt_used' = FALSE /\ failures' = 0
  /\ rivals' = {}
  /\ UNCHANGED <<request, host>>

StartLauncher ==
  /\ pc = "start"
  /\ To("streaming")
  /\ place' = [place EXCEPT ![run] = Truncate]
  /\ connected' = [connected EXCEPT ![run] = TRUE]
  /\ rivals' = {r \in Runs : place[r] # 0}
  /\ UNCHANGED <<request, files, completed, run, returncode, fetched, results,
                 s3label, cpu_desc, failures, alt_used>>

(* The end of proc.stdout, and wait: 255 if the connection was lost.       *)
Waited ==
  /\ pc = "streaming"
  /\ place[run] = 0 \/ ~connected[run]
  /\ returncode' = IF ~connected[run] THEN 255 ELSE IF run \in completed THEN 0 ELSE 1
  /\ connected' = [connected EXCEPT ![run] = FALSE]
  /\ To("returned")
  /\ UNCHANGED <<request, files, place, completed, run, fetched, results, s3label,
                 cpu_desc, rivals, failures, alt_used>>

AcceptsAnything == TRUE
Accepts == returncode = 0

CheckReturncode ==
  /\ pc = "returned"
  /\ To(IF Accepts THEN "detect" ELSE "failed")
  /\ UNCHANGED <<fetched, results, s3label, cpu_desc, failures>> /\ Asking

(* ssh_run_line: the answer, or nothing; a local file may be missing too.  *)
Fails == failures < MaxFailures /\ failures' = failures + 1
Answers(known) == \/ known /\ UNCHANGED failures
                  \/ ~known /\ Fails

CpuDesc(part) == IF part = "" THEN "ARM64" ELSE part

CloudLabel(cloud, cpu) ==
  IF cloud = "azure" THEN <<"Azure Cobalt 100", cpu>>
  ELSE IF cloud # "aws" THEN <<cpu>>
  ELSE <<IF cpu = "V2" THEN "AWS Graviton4"
         ELSE IF cpu = "V1" THEN "AWS Graviton3" ELSE "AWS Graviton", cpu>>

Stage3LabelUring(cloud) == IF cloud = "aws" THEN "bdev_nvme" ELSE "bdev_uring"
Stage3Label(cloud) ==
  IF cloud = "azure" THEN "bdev_uring"
  ELSE IF cloud = "aws" THEN "bdev_nvme" ELSE "SPDK bdevperf"

Detect ==
  /\ pc = "detect"
  /\ \E vendor \in {request.cloud, ""}, part \in {request.cpu, ""} :
       /\ Answers(vendor # "" /\ part # "")
       /\ s3label' = Stage3Label(vendor)
       /\ cpu_desc' = CloudLabel(vendor, CpuDesc(part))
  /\ To("fetch")
  /\ UNCHANGED <<fetched, results>> /\ Asking

-----------------------------------------------------------------------------
(* Parsing.  Latencies in 1/100 us.                                        *)
Rounded(n, d) == (2 * n + d) \div (2 * d)

ParseFioSum(c) ==
  [run |-> c.run, lat |-> Rounded(c.job.read_lat + c.job.write_lat, 10),
   iops |-> (c.job.read_iops + c.job.write_iops) \div 10]

ParseFio(c) ==
  [run |-> c.run, lat |-> Rounded(c.job.read_lat + c.job.write_lat, 20),
   iops |-> (c.job.read_iops + c.job.write_iops) \div 10]

ParseBdevperf(c) == [run |-> c.run, lat |-> c.job.lat, iops |-> c.job.iops \div 10]

ParsedAs(f, c) ==
  IF c = Empty THEN StageResult
  ELSE IF f[1] = "bdevperf" THEN ParseBdevperf(c) ELSE ParseFio(c)

(* A file is read from the disk of this host, or with ssh, which can fail. *)
LocalRead(c, f) == c = files[f] /\ UNCHANGED failures
SshRead(c, f) == \/ c = files[f] /\ UNCHANGED failures
                 \/ c = Empty /\ Fails
Read(c, f) == IF request.local THEN LocalRead(c, f) ELSE SshRead(c, f)

(* The files in the order of _build_results, with the runner's own qd_mid. *)
Order ==
  <<[slot |-> <<"kernel", "qd1">>, file |-> <<"x", "1">>],
    [slot |-> <<"kernel", "mid">>, file |-> <<"x", request.qd_mid>>],
    [slot |-> <<"fuse", "qd1">>, file |-> <<"fuse", "1">>],
    [slot |-> <<"fuse", "mid">>, file |-> <<"fuse", request.qd_mid>>],
    [slot |-> <<"spdk", "qd1">>, file |-> <<"bdevperf", "lat">>],
    [slot |-> <<"spdk", "mid">>, file |-> <<"bdevperf", "mid">>]>>

Fetch ==
  /\ pc = "fetch" /\ fetched < Len(Order)
  /\ fetched' = fetched + 1
  /\ LET o == Order[fetched + 1]
     IN  \E c \in {files[o.file], Empty} :
           /\ Read(c, o.file)
           /\ results' = [results EXCEPT ![o.slot] = ParsedAs(o.file, c)]
  /\ UNCHANGED <<pc, s3label, cpu_desc>> /\ Asking

Fetched ==
  /\ pc = "fetch" /\ fetched = Len(Order)
  /\ To(IF request.aws_demo THEN "again qd1" ELSE "shown")
  /\ UNCHANGED <<fetched, results, s3label, cpu_desc, failures>> /\ Asking

(* run_aws_demo reads the two kernel files once more, and the second one   *)
(* under two names if it was not there.                                    *)
Again(from, f, slot, found, not) ==
  /\ pc = from
  /\ \E c \in {files[f], Empty} :
       /\ SshRead(c, f)
       /\ To(IF c = Empty THEN not ELSE found)
       /\ results' = IF c = Empty THEN results
                     ELSE [results EXCEPT ![slot] = ParsedAs(f, c)]
       /\ alt_used' = (from = "try 32" /\ c # Empty)
  /\ UNCHANGED <<request, host, run, returncode, rivals, fetched, s3label, cpu_desc>>

AwsAgain ==
  \/ Again("again qd1", <<"x", "1">>, <<"kernel", "qd1">>, "again mid", "again mid")
  \/ Again("again mid", <<"x", "16">>, <<"kernel", "mid">>, "shown", "try 16")
  \/ Again("try 16", <<"x", "16">>, <<"kernel", "mid">>, "shown", "try 32")
  \/ Again("try 32", <<"x", "32">>, <<"kernel", "mid">>, "shown", "shown")

Next ==
  \/ \E r \in Runs : LauncherStep(r) \/ LauncherFails(r) \/ ConnectionLost(r)
  \/ Begin \/ StartLauncher \/ Waited \/ CheckReturncode
  \/ Detect \/ Fetch \/ Fetched \/ AwsAgain

Spec == Init /\ [][Next]_vars

-----------------------------------------------------------------------------
(* The scorecard on the screen: render_deterministic_scorecard.            *)
Tiers == <<"fuse", "kernel", "spdk">>   (* min and max break ties by name   *)
Rows == DOMAIN Tiers

Column(box, field) == [t \in Rows |-> results[<<Tiers[t], box>>][field]]

All(column) == Rows
Shown(column) == {t \in Rows : column[t] > 0}

BestLat(column) ==
  {t \in Shown(column) : \A u \in Shown(column) :
     column[t] < column[u] \/ (column[t] = column[u] /\ t <= u)}
BestIops(column) ==
  {t \in Shown(column) : \A u \in Shown(column) :
     column[t] > column[u] \/ (column[t] = column[u] /\ t >= u)}

Highlighted(box) == BestLat(Column(box, "lat")) \cup BestIops(Column(box, "iops"))

(* Two decimals, from 1000 us on one.                                      *)
Displayed(lat) == IF lat < 100000 THEN lat ELSE 10 * Rounded(lat, 10)

(* The launcher's own scorecard: jq and awk on the same files.  (From a    *)
(* log without a Total line, or with 0 there, it takes the last running    *)
(* line instead; no such log is among the Totals.)                         *)
LauncherLat(f, c) ==
  IF f[1] = "bdevperf" THEN c.job.lat
  ELSE Rounded(5 * (c.job.read_lat + c.job.write_lat), 100)
LauncherIops(f, c) ==
  Rounded(IF f[1] = "bdevperf" THEN c.job.iops
          ELSE c.job.read_iops + c.job.write_iops, 10)

-----------------------------------------------------------------------------
(* Properties.                                                             *)

(* "No stale JSON reuse" (ARCHITECT_BRIEF_DETERMINISTIC_DEMO.md:75): what  *)
(* is shown was measured by the run just made, or by a launcher that had   *)
(* lost its connection and was still on the host when this one began.  Two *)
(* cases are excepted, because stale numbers are shown there: a script     *)
(* that asks for another depth than 16, and the AWS demo's second name.    *)
ShownIsThisRun ==
  (pc = "shown" /\ request.qd_mid = "16" /\ ~alt_used) =>
    \A s \in Slots : results[s].run \in {0, run} \cup rivals

(* A scorecard is shown only for a launcher that came to its end without   *)
(* an error, with all it was asked to measure: not for one that failed or  *)
(* whose connection was lost in the middle.                                *)
NoCardAfterFailure == pc = "shown" => run \in completed

(* "bdev_uring" or "bdev_nvme" stands over the numbers of stage 3 only if  *)
(* that is what measured them, also when the host could not be asked what  *)
(* it is, and the launcher decided for itself.  Excepted is a launcher     *)
(* whose DEMO_STAGE3_DRIVER says otherwise than the cloud: the runner does *)
(* not know the variable, and its label is wrong there.                    *)
AgainstProbe(q) == (STAGE3_DRIVER(q) = "kernel") # (ProbedDriver(q) = "kernel")

LabelTrue ==
  (pc = "shown" /\ ~AgainstProbe(request)) =>
    s3label \in {"SPDK bdevperf", Backend(request)}

(* In each box a highlighted row has a number, and none that has a number  *)
(* is better than the highlighted ones in both columns: a file that could  *)
(* not be fetched never wins with its zeros.                               *)
BestIsBest ==
  pc = "shown" =>
    \A box \in {"qd1", "mid"} :
      LET lat == Column(box, "lat")
          iops == Column(box, "iops")
      IN  /\ \A t \in Highlighted(box) : lat[t] > 0 \/ iops[t] > 0
          /\ \A t \in Rows :
               /\ lat[t] > 0 => \E u \in Highlighted(box) : lat[u] \in 1 .. lat[t]
               /\ iops[t] > 0 => \E u \in Highlighted(box) : iops[u] >= iops[t]

Agree(f, c) ==
  LET r == ParsedAs(f, c)
  IN  /\ Displayed(r.lat) - LauncherLat(f, c) \in -5 .. 5
      /\ r.lat < 100000 => r.lat = LauncherLat(f, c)
      /\ LauncherIops(f, c) - r.iops \in {0, 1}

(* The two scorecards of one run agree ("match the bash script's jq/awk    *)
(* expressions", line 75): latencies to the digits the runner shows, I/Os  *)
(* per second to one, because the runner cuts off where awk rounds.        *)
AgreesWithLauncher ==
  \A f \in Files : files[f] # Empty => Agree(f, files[f])
=============================================================================
