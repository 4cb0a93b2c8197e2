# Verification of dataplane-emu

TLA+ models of dataplane-emu, from its lock-free queues to the Python agent that
demonstrates them, TLC runs that check them on small instances, and TLAPS proofs
about the native code, the engine's control plane and the launcher for every size
and number of participants. Paths are given as in this repository, whose root is `src/` (so the engine is
`src/src/main.cpp`).

Run a check with `tlc -config <X>.cfg <Module>`, the proofs of a
module with `tlapm <Module>Proofs.tla`. `PROJECT.json` lists every run, what it checks, the
source lines each definition stands for, and the hazards the properties are
aimed at.

## 1. The system

dataplane-emu emulates an NVMe data path in user space. It has two native
programs that share a queue, a shared library that puts this queue under an
unmodified application, and a Python control plane that runs demonstrations.

| Component | State it keeps | Operations | Talks to |
|---|---|---|---|
| `SqCqEmulator` (`src/src/sq_cq.cpp`) | two rings of 1024 slots, the doorbells `sq_tail` and `cq_tail`, `is_running`, the last latency | `submit_io`, `host_submit_and_poll` (one host thread), `nvme_device_loop` (one device thread), `shutdown` (anyone) | shared memory with acquire and release |
| Fake FD table and libc entry points (`src/src/intercept.cpp`) | per slot an atomic state, size and position | `alloc`, `release`, `lookup` under `open`, `close`, `read`, `write`, `pread`, `pwrite`, `lseek64` | called by every application thread; the emulator pool |
| `EmulatorPool` (same file) | a counter, 128 emulators with their device threads, a thread-local per application thread | `allocate`, `shutdown_all` from the library destructor | starts and joins device threads, shuts emulators down |
| `LockFreeIorRing` (`src/src/dataplane_ring.cpp`) | one 64-bit word: pointer and 8-bit version | `enqueue_io_buffer`, `process_next_io` | shared memory |
| Engine process (`src/src/main.cpp`) | one emulator, its device thread, the telemetry mapping, the FUSE mount | start, SPDK probe, benchmark, wait, bypass, SIGINT handler | stdout markers, the telemetry file, FUSE |
| `EngineManager` (`src/vibe_demo_agent/engine_manager.py`) | process handle, two events, drain threads | `start`, `wait_healthy`, `stop` | the engine, by pipe and signal |
| `TelemetrySink` (`telemetry_sink.py`) | a read-only mapping | `open`, `snapshot`, `close` | the telemetry file |
| Latency probes (same file) | an image file, a loop device, a mount | `measure_kernel_latency_us`, `measure_xfs_latency_us`, with set-up and teardown | commands under sudo |
| Demo agent (`vibe_demo_agent.py`) | position in the script, here document being read, voice index, `VoiceoverWorker` with a queue and a thread, engine handle | twelve directives, shell lines, `run_aws_demo` | all of the above, the launcher, ssh, the speech service |
| `ElisionTracker` (`intercept.hpp`, `intercept.cpp`) | tracked ranges, fault counters, bailout flag | `track`, `handle_fault` | userfaultfd; no caller yet |
| FUSE bridge (`src/src/fuse_bridge`) | a block-device FD | stateless handlers | libfuse |
| Deterministic launcher (`launch_arm_neoverse_demo_deterministic.sh`) | which driver the NVMe device is bound to, what is mounted, the result files | stages with a clean-up trap | the engine, sysfs, FUSE, SPDK |
| Benchmark runner (`benchmark_runner.py`) | the results fetched so far | `run_benchmark` here or over ssh, detection of the host, parsing, scorecard | the launcher, by exit status and files; the host, by one ssh per question |
| The rest | none of its own | SPDK probe, build scripts, documents | |

### Where it is hard

* The two threads of a queue pair share slots without a lock. Everything rests
  on four acquire or release operations, on a full test that uses a stale
  value, and on slots that are reused.
* A blocking call polls without a time limit and the device loop looks at
  `is_running` only between batches.
* `alloc` scans a table that others change; `read` and `write` load the
  position before the I/O and add to it afterwards.
* A claim in the pool is three steps (counter, thread, handle), and the
  destructor of the library goes over the same arrays. A forked child has copies of
  both and none of the threads.
* Every process with the library writes into one file, which the next program truncates.
* The tag of the IOR word has eight bits.
* An engine can die at any instruction (SIGINT, SIGKILL) while the control
  plane reads what it wrote. The telemetry file outlives engines and is
  truncated by the next one; marker lines of one engine can be read late.
* The launcher hands one device from the kernel to a bridge to a user-space
  driver, and may fail or be interrupted at any command. Its trap knows only
  what two variables tell it.
* The agent has a voice of its own, a worker that speaks from a queue and a
  third thread that fills it; Ctrl-C comes at any moment, in a `finally` too.
* A probe sets up a file system in eight commands that may fail, hang, or
  fail after they have done their work.
* A remote launcher survives its ssh connection, and each answer of the host
  is a call that may fail on its own.

Each of these is one or more entries of `hazards` in `PROJECT.json`, with its
line and the properties that cover it.

### What makes each component correct

* **Queue pair**: no data race on a slot; each I/O is served once, in order,
  from its own entry; at most a ring is in flight; a blocking call returns
  only when its own I/O is complete, and does return; the latency is of that
  I/O; the device loop ends after shutdown.
* **Fake FDs**: a slot has one owner; a held FD stays open; no slot leaks; `open`
  fails only for want of slots; each call acts on the offset once, as if in one step.
* **Pool**: one thread per emulator; the counter balances; `shutdown_all` joins
  every thread and stays inside its arrays.
* **Library**: the telemetry of a running program stays as it is until another
  process comes or goes; a call returns, in a child process too (it does not: section 6).
* **IOR word**: no update is lost; a stale exchange fails; the consumer
  sees the payload it was given.
* **Engine and control plane**: what is shown after a health check belongs to
  the engine just started and is complete; no engine is left behind, unless Ctrl-C
  comes where the code cannot help it; a stop ends; the health flag is true.
* **Launcher**: the device is given back however a run ends; nothing is left
  mounted or running; tiers do not share the device.
* **Demo agent**: one voice at a time; each stage announced once; no voice file
  overwritten; the engine stopped at the end; here documents end where bash ends them;
  the demo comes to its end.
* **Probe**: everything set up is taken down; the number called XFS was read
  from the file system just made.
* **Runner**: what is shown was measured by this run, which came to its end;
  labels and marks are true; it agrees with the launcher's own scorecard.

## 2. The modules

| Module | Models | Source |
|---|---|---|
| `QueuePair` | the contract of an emulator: three counters | none: an abstract specification |
| `SqCq` | `SqCqEmulator`, with its memory orders | `sq_cq.cpp`, `sq_cq.hpp` |
| `SqCqProofs`, `FakeFdProofs`, `EmulatorPoolProofs`, `IorRingProofs`, `EngineProofs`, `LauncherProofs`, `DemoAgentProofs`, `ScorecardProofs` | theorems about the module of the name | |
| `OpenFiles` | the contract of `open`, `close`, `read`, `write` and `lseek` | none: an abstract specification |
| `FakeFd` | FD table and the calls on it | `intercept.cpp`, `intercept.hpp` |
| `Dispenser` | the contract of the pool: each queue given once, for good | none: an abstract specification |
| `EmulatorPool` | pool and library shutdown | `intercept.cpp`, `intercept.hpp` |
| `Preload` | programs under `LD_PRELOAD` that share the telemetry block and fork | `intercept.cpp` |
| `IorRing` | `LockFreeIorRing` | `dataplane_ring.cpp` |
| `Engine` | engine process, manager, sink and interpreter together | `main.cpp`, `vibe_demo_agent/` |
| `Launcher` | launcher and its engine | `launch_arm_neoverse_demo_deterministic.sh` |
| `VoiceoverWorker` | `speak` in two threads, and the worker | `vibe_demo_agent.py` |
| `Probe` | `measure_xfs_latency_us`, `measure_kernel_latency_us` | `telemetry_sink.py` |
| `DemoAgent` | the agent: main program, script, AWS demo; extends the two above | `vibe_demo_agent.py`, the chart of `telemetry_sink.py` |
| `Scorecard` | runner, remote launchers, result files, the AWS scorecard | `benchmark_runner.py`, `vibe_demo_agent.py`, the launcher's parsing |
| `MC*` | the constants of the runs | |

They meet in these places. `SqCq` implements `QueuePair`, `FakeFd` implements `OpenFiles` and
`EmulatorPool` implements `Dispenser`, each through a refinement mapping. `EmulatorPool` and `Engine` use of a queue only what `SqCq` shows of it:
the device loop serves until `shutdown` and then ends (`DeviceStops`).
`EmulatorPool` in turn shows that each emulator has a single host thread
(`ImplementsDispenser`), which `SqCq` takes for granted. `Preload` builds on both: an
allocation is one step, an I/O is complete when there is a device thread for it. `Launcher` has an engine
of its own, reduced to what a process without the Python manager shows a
shell script: forked, running, mounted, gone. `DemoAgent` is composed of the
voice, the probe and the interpreter, which share the main thread; its engine is
a handle and a process that lives or not, because `Engine` has the
manager in detail, and its benchmark is the sequence of stage lines the
callback sees, because `Scorecard` has the rest. `Scorecard` has of each launcher the
files it empties and writes, in order; `Launcher` has what happens to the machine.

### SqCq: state and actions

The variables have the names of the code. Tails and local counters are 64-bit
in the code and never wrap; the model lets them grow up to `MaxSubmit`. The
16-bit `sq_head_pointer` is taken modulo `PtrModulus`. A slot holds the number
of its I/O instead of a command.

| Action | Code |
|---|---|
| `SubmitCheck` | `submit_io` up to the full test, both for a bare call and for one inside `host_submit_and_poll`, which tries again on a full ring |
| `FillSlot`, `PublishSq` | the write to the slot and the release store of `sq_tail` |
| `PollCq`, `Reap` | the polling loop, and what it does on completion |
| `LoadSqTail` | one turn of the device loop up to the batch |
| `ServeEntry`, `PublishCq` | one entry of the batch; the release store of `cq_tail` |
| `DeviceExit`, `Shutdown` | the loop condition turning false; `shutdown` |

*Memory order.* A load may return any value stored since the last one its
thread saw (`sqStores`, `cqStores`: the stores that can still be read). A release
store carries its thread's progress (`HostRelease`, `DeviceRelease`), an acquire
load takes it over (`HostAcquire`, `DeviceAcquire`). A slot access races when
an earlier conflicting access of the other thread has not been taken over
in this way. Replacing one order by relaxed is a change of one of these
definitions, and the race properties find it. The model assumes
sequential execution inside a thread; reorderings the compiler may make
between plain accesses are covered by the race properties (a program without
races cannot observe them). `is_running` is relaxed on both sides; a stale
`true` is a device that runs on, which the model allows because `DeviceExit` is
not forced.

The device loop binds a reference to the request and does nothing with it yet. The
model reads the slot at that point, so its properties hold for the loop
as it is meant to be completed.

### FakeFd

One action per atomic access: `OpenBegin`, `OpenSkip`, `OpenClaim`, `OpenFail`,
`OpenInit` for the scan of `alloc`; `CloseLookup`, `CloseRelease`; `IoBegin`,
`IoPerform` or `IoNoEmulator`, `IoAdvance` for `read` and `write` (the two take
the same steps: the emulator ignores the direction); `SeekSet`, `SeekCur`,
`SeekEnd`, `SeekStore`. The state of the code is `state`, `file_size`,
`file_pos`; `held` is the application's view, and
`tooMany` remembers whether opens and FDs exceeded the table during an `open`.

The contract is `OpenFiles`: a set of open FDs, an offset for each, and calls that take one step.
The offset of a held FD is `file_pos` plus what was transferred and has not been added
yet (`PositionOf`). An `open` happens at its last step (`OpenInit`), a `close` at its
first (`CloseLookup`, where the application lets go of the FD), a transfer at the I/O
(`IoPerform`), a seek at the store (`SeekStore`). On a shared FD the contract is weaker, because
the code is: a transfer may start at an offset the FD had before, but counts once all the same.

The application is a correct one: it uses an FD between `open` and `close` and,
unless the FD is one of `SharedFds`, in one thread at a time. The calls that
fall through to libc, `fstat` and the no-ops change no state and are left out.

### EmulatorPool

`ClaimIndex` is the `fetch_add`, `ReturnIndex` the `fetch_sub` of a claim
beyond the pool; `StartDevice` and `StoreHandle` are the constructor of the thread
and the assignment of its handle. `LoadCount`, `StopOne`, `StopsDone`, `JoinOne`,
`JoinsDone` are `shutdown_all`. `Quiescent` says whether the destructor runs
only when no thread is inside a call, which is what an orderly exit gives.

A `Dispenser` gives a queue nobody has, to keep, or refuses when none is left. A claim is a
`Give` or a `Refuse` in the step of the `fetch_add`; `StoreHandle` and `SubmitAgain` are a `Use`,
`IoReturns` is `Done`, `CallFails` is `AcceptRefusal`, and the rest, the `fetch_sub` included, is hidden.
What is left is read off the counter, less the overdrafts (`Left`): it is the number of emulators nobody
has only if the counter balances.

### Preload

A process is in its constructor (`Truncate`, `Size`, `MapTelemetry`, or `NoTelemetry` on
an error), runs, or is in its destructor (`JoinsForever`, `FiniTelemetry`). A call
is `Submit`, `Completion` and the stores into the block (`Count`), whose values
are left out. The application makes threads and
processes (`PthreadCreate`, `Fork`), before or after its first call. A forked process runs at once,
without the constructor, and `program` leads from it to the process that was started. A fork
copies the thread-local pointer and the handles of the pool: `emulator[t]` is the process that has the device thread behind
`tl_emulator`, and a call whose emulator is in another process is never completed. Joining a
copied handle is undefined, so it returns or does not. There is one telemetry
`file`, since its path is fixed: its size, the `engine_alive` in it, and who truncated it, made
the block or finished it last (`by`). A store into it between the truncation and the
resizing by another program ends the process (`InitFaults`, `Faults`, `FiniFaults`); a
destructor stores 0 for all (`FiniTelemetry`).

### IorRing

There is one atomic location, so a stale load is the same as an early load by a
slow thread. `headView` and `sees` follow the payload contents that a
release publishes and an acquire takes over; the exchange of a producer
continues the release sequence of the one before.

### Engine

`phase` is the place of the engine's main thread; a pending SIGINT may be
taken at each step. The telemetry file is one record: truncated, sized and
written in the order of the code. `pipe` counts the marker lines not yet read.
`drain[e]` is the drain thread of engine `e`; the two pipes of a process are
merged, since only markers matter. `agent` is the interpreter. A start is `Popen`
(`EngineStart`), its return (`PopenReturns`) and the drain threads (`StartDrains`). Ctrl-C
(`Interrupt`) comes at any moment inside the `try`, in `Popen`, in a wait or in a stop under way,
and leads to the handler; nothing catches it in the handler's stop or in the one
after the script (`InterruptAtEnd`). `ctrl_c` records where it came. Three
command lines occur in the scripts: benchmark, bypass, and bypass with SPDK.

### Launcher

`pc` is the place in the script. A command or a group of commands that changes
the machine is one action; a command that fails (`set -e`)
or an interrupt is `Abort`, possible before each. `ensure_userspace_stage3_driver`
is split where the device is in different hands: `RememberDriver`,
`OverrideDriver`, `Unbind`, `Bind`, then `Verify` or `AttachFails`, which restores
the driver once before the trap does so again. `StopEngine` and the trap
(`CleanupDevice`, `CleanupMounts`) share what `kill` and `pkill` achieve
(`AfterKill`, `AfterPkill`).
The machine outlives a run, so a second run starts from what the first has left.

`setup.sh` belongs to SPDK: `reset` gives the device to the kernel driver, and
the call without an argument may take it away. The kernel is assumed to
bind its own driver when asked to and no override forbids it.

### VoiceoverWorker, Probe and DemoAgent

`pc` is the place of the main thread: at a line of the script, in a probe, in a
benchmark, in `speak`, in `close`, at the question, or in the AWS demo. A directive is an action
guarded by `Reached`, which carries the order of the tests in `run_demo`. `speak` is
split where another thread can come between: synthesis, the written file, the end of the
player (`SpeakBegin`, `Plays`, `Finishes`), and may return without a
sound (`Skips`) or raise (`Raises`). `close` is the sentinel (`PutSentinel`) and the join
(`Joined`). A voice file is `absent`, `written` or `played`; an index that is
used twice is an overwritten file.

`Probe` runs the eight commands of `Setup` and the four of `Teardown`. Each has
an effect or none, and reports success or not, in any combination a time limit
allows; `excused` remembers the cases in which nothing can be done: a
`losetup` that attached a device without giving its name, and a failed or
interrupted command of the teardown itself. `mounts` is a stack, as in the
kernel, so that a call can find the mount of an earlier one under its own.

A command line (`Commands`) has a script, and a script is a sequence of kinds of lines;
here documents keep the word and the way it was written. Latencies are in
tenths of a microsecond.

### Scorecard

`files` is the directory on the host; a content names the run that wrote it.
`place[r]` is the command the launcher of run `r` is at, `connected[r]` its ssh connection:
a launcher without one goes on until it next writes a line. The runner asks
one question per action (`Detect` asks two), and `SshRead` and `Answers` may fail
`MaxFailures` times in a run. `results`, `s3label` and `cpu_desc` are the fields of
`BenchmarkResults`. The card on the screen is a function of them (`Highlighted`,
`Displayed`), compared with what `jq` and `awk` make of the same files
(`LauncherLat`, `LauncherIops`). Numbers are integers in a unit fine enough for every rounding
to be a division.

## 3. The runs

Each of them finishes within two minutes on two workers.

| Run | Instance | Checks |
|---|---|---|
| `sqcq` | 3 slots, 9 submissions, head pointer modulo 4 | types, races on both rings, service from the right entry, latency; `QueuePair`; `PollReturns`; `DeviceStops` |
| `fakefd` | 3 threads, 3 FDs of which one is shared, a file of 2 bytes | slot ownership (one owner, held FDs stay open, no leak), failure only beyond capacity; `OpenFiles` |
| `pool` | 4 threads, 2 emulators | implements `Dispenser` (single owner, balance), orderly shutdown |
| `preload` | 3 threads in 3 processes, of up to 2 programs | the telemetry of a running process is disturbed by others only |
| `ior` | 2 producers, 3 payloads, 5 enqueues, version modulo 2 | version, ABA only on wrap, visibility, lock-freedom |
| `engine` | 2 engines, 3 command lines, a benchmark of 2 I/Os | fresh and complete telemetry, no orphan, stops and unwinds end |
| `launcher` | 2 runs, 6 ways to start one, 3 probes | device given back, clean-up, one user of the device and no rebinding in use |
| `demo` | 11 command lines, 2 probe calls, 2 texts of commentary, 5 latencies | one voice, stages announced, files kept, engine stopped, here documents, chart, teardown, XFS number, the end |
| `scorecard` | 7 requests, 3 runs, 2 failing calls of ssh per run | fresh numbers, no card after a failure, label, best row, agreement with the launcher |
| `pool_exit_race`, `engine_alive`, `preload_fork` | see section 6 | one documented statement each, which the code violates |

**Why the bounds are enough to be of interest.**
*sqcq*: nine submissions go three times round a ring of three, so each slot is
reused twice, and the host can be a full ring ahead while the device is
inside a batch; the pointer wraps more than once. The safety properties
are proved for all sizes (section 5), so these bounds limit only liveness.
*fakefd*: three threads with opens and closes overlapping reach both an
exactly sufficient table and an overcommitted one; transfers of two bytes in a file
of two are full, short after a seek, and empty, and seeks go before its start and beyond its
end; positions are capped by `MaxPos` = 3.
*pool*: two threads can be beyond the pool at the same time, which is what could
upset the counter. *preload*: three processes are two programs, of which one may have a child, or a
parent with two generations; two programs are what it takes to truncate a file in use.
Threads and processes are interchangeable (symmetry; no liveness is checked there).
*preload_fork*: one program that makes a call and forks is what the claim is about.
*ior*: the version wraps twice in five enqueues. *engine*:
two engines are what it takes for a late marker, a stale file or a stale handle of an
earlier one. *launcher*: the second run meets what the first left (driver,
mounts), and no action looks further back; the six starts cover both
backends of stage 3, a refused driver, no SPDK, a stop after stage 1, no
`DEMO_MAX_STAGE`. *demo*: each command line brings one mechanism to the point
where it can go wrong (two voices and a benchmark between them, two probes in a
row with an engine running, nested here documents, bad arguments, an engine
started twice, the AWS demo with and without its key), and Ctrl-C may cut each
of them anywhere; two texts suffice for one before and one after the
sentinel. Charts are checked for latencies from 0 to 3 ms.
*scorecard*: the first run was by hand and may have left files of any depth; the
second may lose its connection and still be running when the third
begins. The seven requests are of both clouds and neither, over ssh and local, one of them with
`DEMO_STAGE3_DRIVER` against the probe. Two failures in a run leave any pair of files, or a file and the
vendor, unknown.

Deadlock is checked where the system cannot stop. `sqcq`, the pool, preloaded programs, the engine,
the launcher, the agent and the runner can come to their proper end and say so in their configuration.

## 4. Fairness

* **SqCq.** Both threads are scheduled, and a store becomes visible to a thread
  that keeps loading in finite time (C++17, [intro.progress] paragraph 18). So weak
  fairness is put on the loads of the *newest* value and on each local step.
  `DeviceExit` has strong fairness: the loop condition is tested at every turn
  but is not enabled inside a batch. Nothing obliges anyone to submit or to call `shutdown`.
  `PollReturns` therefore excuses a call whose emulator was shut down.
* **EmulatorPool.** Device loops see the shutdown (`SqCq!DeviceStops`); the
  destructor's thread and threads inside a call are scheduled.
* **Preload** (for `preload_fork`). Device threads complete what is submitted, and threads inside
  a call are scheduled. Nobody has to call or to exit, and no join has to end.
* **IorRing.** Producers are scheduled, and an exchange that finds what it
  expects does not fail spuriously for ever.
* **Engine.** Threads are scheduled and the time limit of `stop` expires, after which SIGKILL is
  certain. Nothing is assumed of `fusermount3`, of FUSE, or of
  the delivery of SIGINT: `FinishReturns` holds without them.
* **DemoAgent.** The three threads are scheduled; child processes, remote
  commands and the speech service come to an end, as the agent itself assumes (it waits for
  them without a limit). Nobody has to answer the question or to press
  Ctrl-C, and the commentary thread may be as late as it likes.

`FakeFd`, `Launcher` and `Scorecard` have safety properties only and assume nothing.

## 5. The proofs

`SqCqProofs` proves, for every `QUEUE_SIZE` > 0, every `PtrModulus` above it and
every number of submissions (`QueueAssumption`, which the code meets with 1024
and 65536):

| Theorem | States |
|---|---|
| `TypeCorrect` | `Spec => []TypeOK` |
| `SqSlotsRaceFree`, `CqSlotsRaceFree` | no data race on a slot of either ring |
| `InOrderService` | each I/O is served from its own entry |
| `BoundedInFlight` | at most one ring in flight |
| `LatencyPairsOneIo` | the latency is of one I/O, that of the call |
| `HeadPointerDecodes` | the truncated head pointer is unambiguous |
| `Refinement` | `Spec => QP!Spec`: the two threads implement the queue pair |

All rest on one inductive invariant, `IInv`, the conjunction of

* `TypeOK`;
* `DeviceInOrder`: completed, consumed, loaded and published entries are in this order, and
  outside a batch the first three agree;
* `StoresCarryProgress`: each doorbell store that can still be read carries
  exactly the progress its value stands for. It also says that a store of `sq_tail`
  beyond the published completions was made after the last read of a
  completion. This is what makes the completion ring free of races: the code
  has no release of its own for those reads, and the next submission serves
  as one because a polling host reads a completion only when all is complete;
* `HostWithinRing`: the host's decisions are right for the *stale* value it
  sees, which is never ahead of the real one;
* `RingContents`: the last `QUEUE_SIZE` entries written are the ones in each ring;
* `LatencyOfOneIo`.

None of the properties is inductive alone: that a served slot holds its entry
needs the bound on the host, the bound needs what the host may have seen, and
that needs what stores carry. There is one lemma per action (`SubmitCheckIInv`
and so on); `SlotDistinct`, two entries less than a ring apart have different
slots, is the arithmetic behind all of them. `Refinement` maps `FillSlot`,
`LoadSqTail`, `ServeEntry`, failed polls and `DeviceExit` to stutters, and `PublishSq`, `PublishCq`, `Reap`
and `Shutdown` to the four actions of `QueuePair`.

The other proofs have the same shape: an `IInv` made of named parts, one lemma per
action, the property from the invariant.

| Theorem | States | For every |
|---|---|---|
| `SlotsOwned`, `ScanMissesNothing` (`FakeFdProofs`) | `SlotOwnership`, `FailsOnlyBeyondCapacity` | finite set of threads, number of slots, set of shared FDs |
| `Refinement` | `Spec => Files!Spec`: the table implements `OpenFiles` | the same, file size, sizes of transfers and offsets of seeks |
| `OneThreadPerEmulator` (`EmulatorPoolProofs`) | `Spec => []PoolAccounted`: one holder each, the counter is exact | size of the pool, finite set of threads |
| `Refinement` | `Spec => Queues!Spec`: the pool implements `Dispenser` | the same, orderly exit or not |
| `QuiescentShutdown` | `ShutdownJoinsAll`, if the destructor runs between calls (`Quiescent`) | the same |
| `EnqueuesCounted`, `AbaBounded`, `PayloadVisible` (`IorRingProofs`) | version, ABA, visibility | number of producers, payloads and enqueues, width of the version |
| `NoEngineLeft`, `TelemetryFresh`, `TelemetryComplete` (`EngineProofs`) | `NoOrphan`, `FreshAfterHealthy`, `SummaryComplete` | command lines, number of engines, length of the benchmark |
| `GivesDeviceBack`, `CleansUp`, `TiersDoNotShare` (`LauncherProofs`) | `DeviceGivenBack`, `CleanupComplete`, `DeviceNotShared` | set of ways to start it, number of runs and of probes |
| `NothingStale`, `CardOnlyOfCompleted`, `LabelsTrue`, `HighlightsBest`, `ScorecardsAgree` (`ScorecardProofs`) | `ShownIsThisRun`, `NoCardAfterFailure`, `LabelTrue`, `BestIsBest`, `AgreesWithLauncher` | hosts, requests, measured numbers, number of runs and of failing calls |
| `EngineIsStopped`, `VoicesTakeTurns`, `EachStageOnce` (`DemoAgentProofs`) | `EngineStopped`, `OneVoice`, `StagesAnnounced` | set of command lines and scripts, latencies, length of the commentary, number of probe calls |
| `NothingLeftBehind`, `ReadsItsOwnMount` | `TeardownComplete`, `ReadIsOnXfs` | the same |
| `ReadsHeredocs` | `HeredocsLikeBash` | the same, and so scripts of any length |
| `PlayedFilesKept` | `FilesKept`, if the indices suffice (`IndicesSuffice`) | the same |
| `BarsStayInColumn` | the bars of `ChartFits` | two latencies |
| `ChartsFit` | `ChartFits`, if no latency reaches 10 ms (`LatenciesShown`) | the same |

* *FakeFd*. A slot that is open and not held belongs to one thread, which is on its way
  into `open` or out of `close`: `CallsExclusive` says that there is only one and `OpenOwned`
  that there is one. `HeldReady` says that a held slot has been initialised.
* *EmulatorPool*. `LocalMatches` ties the thread-local pointer to the index claimed,
  `GivenInOrder` says that indices are given in order, so that those below the
  count are the ones given away, and `OrderlyExit` what `shutdown_all` has done so far. The
  counting is with the cardinalities of the library's theorems on finite sets. The refinement rests on
  `PoolAccounted`: an overdraft exists only when all are given away, so a claim beyond the pool is
  a refusal with nothing left, also when other threads have overdrawn before, and one inside it meets no overdraft.
* *IorRing*. `ExpectedIsOld` dates the word a producer compares with: it is the
  head after some earlier number of enqueues. An exchange that succeeds has the same
  version as that number, and `PointersCarryContent` says what a pointer in the head
  carries with it, also when others have enqueued since.
* *Engine*. `HandleKnown`: the manager holds the newest engine or none, the drain threads of all
  others have ended, and without a handle no engine lives. So a health event is from the
  engine held, and `MarkerIsLate` says how far that engine is; `BlockIsOwn` and
  `SnapshotIsOwn` follow the file and the last snapshot from there.
* *Launcher*. `DriverRemembered` says that whenever the device is not
  with the kernel driver the trap knows where it came from; `DriverKnown` and `TiersApart` give driver,
  mounts and engine for each place in the script.

* *FakeFd, the scan*. `ScanBound` counts, at every slot `j` the scan of a thread has passed, what can
  still take a slot from `j` on: the held FDs there and the other threads on their way
  (`Taken`). Unless the table was exceeded meanwhile they leave one slot free, and so the
  scan never gets past the last one.
* *FakeFd, the refinement*. A transfer adds to the position one step after it was made, and several
  threads may be between the two. `Pending` is the set of the units still to be added, so that a
  sum over threads is the cardinality of a set: the I/O adds as many units to it (`PendingGrows`)
  as the `fetch_add` takes away (`PendingShrinks`), and the offset of the contract moves only at
  the first. `AtPosition` says where a call under way stands: a transfer at the
  position, or on a shared FD at or behind it, so that it finds no less than is left; a
  seek with its target counted from a base that stays as it is, because `AloneUnlessShared`
  gives it the FD for itself.
* *Scorecard*. `GoesOnCompleted` says that the runner fetches only what a
  launcher that has completed left, and `FilesOfThisRun` that such a launcher has emptied
  all files before; `RivalsKnown` and `FutureRuns` say which other launchers can have
  written since. The two theorems about numbers need types only: the first compares two
  roundings, the second a choice among three rows any of which may be missing.
* *DemoAgent, its threads*. `MainInv`: where the main thread is decides who may speak
  (`VoicesInv`), whether there is an engine (`EngineInv`) and how far the commentary can be
  (`CommentInv`). `StagesInv` adds what was given to the voice, which is the
  texts tried, the one being spoken and those queued together (`Given`), always a
  beginning of the list of stages (`InOrder`).
* *Probe*. `Progress` is the state of file system, device and directory for
  each of the twelve commands, as long as nothing is excused; `MountedLast` holds even then,
  because `mounts` is a stack.
* *Here documents*. What bash does is the function `AwaitedIn`, by recursion over
  the lines. `AwaitedExists` proves that such a function exists for every script, so
  that the recursion means what it says. `HereInv` says that the interpreter awaits the same word
  when it is at a line, and is not inside a text at the directives that take several steps.
* *Voice files*. `FilesInv` bounds the indices that either thread will still use: in a script by the
  lines already passed (`ScriptFiles`, `VoiceLines`), in a benchmark by the stages
  spoken (`ScorecardFiles`), in the AWS demo by the texts given to the worker
  (`CommentaryCounted`). `IndicesSuffice` is the one hypothesis here that a script can fail: the code numbers the lines of the AWS
  demo from 100 on whatever the script has spoken, and those after the commentary from
  110, so that a script of more than 100 spoken lines, four of them for each benchmark, or a commentary of more than 8
  texts (there are 6) would overwrite files that were played. `scenario_1.sh`, the script of the repository,
  speaks at most 11.
* *Chart*. The bars fit whatever the latencies. The numbers of the last line are as wide as their
  digits: `DigitsAtMost` bounds these by the powers of ten, and `DeltaDigits`, `SpeedupDigits` and
  `PercentDigits` bound difference, ratio and percentage. `LatenciesShown` is needed: from 10 ms on, with a
  kernel latency of 0, the line can be wider than the box.

Induction over the natural numbers is used in the form of sets (`NatSetInduction`: every set of
numbers that is not empty has a least one, from the library's theorems on
well-founded relations), because the library's own theorem takes a predicate.

**Of liveness**, the part that is an invariant is proved: where the code waits, what it waits for
is possible. With it, TLC's runs are left to show that fairness then brings it about.

| Theorem | States |
|---|---|
| `NeverBothWait` (`SqCqProofs`, for `PollReturns`) | while the emulator runs, the newest `cq_tail` ends the wait of a call, or the device is in a batch, or the newest `sq_tail` starts one |
| `JoinsCanEnd` (`EmulatorPoolProofs`, for `ShutdownReturns`) | a join waits only for a device loop that was told to stop, orderly exit or not |
| `RetriesOnlyForProgress` (`IorRingProofs`, for `LockFree`) | an exchange does not find what it expects only if an enqueue has succeeded since its load |
| `StopJoinsCanEnd` (`EngineProofs`, for `FinishReturns`) | `stop` joins the drain thread, ended or never started, of a dead engine; the engine a started device thread that was told to stop |
| `ClosesCanEnd` (`DemoAgentProofs`, for `DemoEnds`) | `close` joins a worker that has ended or has the sentinel in its queue |

TLC alone checks

* liveness (`PollReturns`, `DeviceStops`, `ShutdownReturns`, `LockFree`,
  `FinishReturns`, `DemoEnds`): that what is possible does happen.
  Temporal reasoning with `ENABLED` is out of the prover's reach.

## 6. Where code and comments disagree

Each of these is a run that shows a short behaviour in which the statement quoted fails.

* `pool_exit_race`: "Shutdown all emulators and join device threads"
  (`intercept.hpp:223`) fails for a thread inside its first call when the
  destructor runs. With `Quiescent` it holds.
* `engine_alive`: `engine_alive` is documented as 0 when the engine does not
  service I/O (`telemetry.hpp:50`); no way of stopping it gets to the store of 0.
* `preload_fork`: a child forked by a thread that has made a call inherits a pointer to a queue
  without a device thread. The runbook (`docs/RETROSPECTIVE_AND_RUNBOOK.md:150`) says that
  the parent's device thread completes such calls about every 300 ms; but the rings of the
  child are private copies, and the call never returns. A child of a thread that has not
  made a call gets an emulator of its own.

Noted without a run. In the native code and the launcher:

* The FD table is called thread-safe (`intercept.hpp:130`), but two threads that
  read one FD at the same time get the same bytes while the position advances by
  both. What does hold is `ImplementsOpenFiles`.
* `alloc` promises -1 "on exhaustion" (`intercept.hpp:114`), but its scan can pass
  a slot that is freed afterwards while the next one is taken. What does
  hold is `FailsOnlyBeyondCapacity`.
* The tag of the IOR word "forces the CAS to fail" (`dataplane_ring.cpp:61`), except
  after exactly 256 enqueues. What does hold is `AbaOnlyOnWrap`.
* The first process with the library to run its destructor stores `engine_alive` = 0 into
  the block that all of them use, while the others still serve I/O, and a program that starts
  empties it. `DisturbedByOthers` says that nothing else does.
* "Each application thread" gets an emulator (`intercept.hpp:208`), but those of
  ended threads are never given out again.
* Line 18 of the launcher prints `$DEMO_MAX_STAGE` under `set -u`, so the command line of
  `README.md:283` ends at once, although line 16 has a default. The runner does not set the
  variable either. One of the starts of the `launcher` run is without it.
* An interrupt between the fork of the engine and `ENGINE_PID=$!` (lines 492 and
  493) can leave it running: `kill` has no number, and `pkill` does not know the
  process by its name before `exec`. `CleanupComplete` excepts this moment.
* `uio_pci_generic` is accepted at line 396 and by the brief (line 68), bound
  when asked for, and refused at line 687.
* When `setup.sh` has taken the device for a user-space driver and stage 2 fails,
  the script does not give it back, and the next start refuses it.

In the demo agent and the runner:

* "No stale JSON reuse" (`docs/emulator/ARCHITECT_BRIEF_DETERMINISTIC_DEMO.md:75`)
  fails when a script asks for a depth other than 16: the launcher measures and
  empties the files of depths 1 and 16 (`--executive-demo`), the runner reads
  those of the depth asked for (`benchmark_runner.py:424`). The AWS demo's second
  name, `x_qd32.json`, has the same fault. `ShownIsThisRun` excepts both.
* The parsers "match the bash script's jq/awk expressions exactly"
  (`benchmark_runner.py:75`): latencies do, up to the one decimal shown from
  1000 us on, but I/Os per second are cut off where `awk` rounds, and with several
  Total lines in a log one takes the first and the other the last. Without a Total line, or with
  one of no I/Os, the launcher falls back to the last line of the running output (line 789) and
  the runner shows 0; `Totals` leaves such logs out.
* `measure_kernel_latency_us` returns "a fallback estimate on error"
  (`telemetry_sink.py:276`), but the exit status of `dd` is not looked at. The
  bypass latency of 3.8, when there is no telemetry, is charted like a measured one.
* Ctrl-C ends the interpreter with the engine alive in its own session if it comes in
  `Popen`, before the handle is stored (`engine_manager.py:77`), or in the stop of the handler or
  after the script (`vibe_demo_agent.py:554` and 559), which are outside the `try`. `NoOrphan` excepts
  both, by the place where the last Ctrl-C came. A refused second start
  and a bus error end it without a stop as well (`agent` is then "raised" or "bus error").
* "Ensure engine is stopped after script completes" (`vibe_demo_agent.py:558`): an
  uncaught exception (an argument that is no number, `# ENGINE_START` with the
  handle of a dead engine, a missing player), a Ctrl-C in that last stop among them,
  leaves it running. `EngineStopped` excepts these ends. The AWS demo has no handler for Ctrl-C at all.
* Without the SSH key the AWS demo speaks while the commentary does, and never
  closes the worker. `OneVoice` excepts this line.
* Everything after `<<` is taken for the delimiter of a here document, so `<<EOF > file`,
  `<<-EOF` or an indented last line is read differently by bash, and the rest of the script
  is swallowed. `HeredocsLikeBash` is about plain delimiters.
* A skipped stage 3 is "SKIPPED" on the launcher's card; the runner shows the
  label of the backend above N/A.
* The launcher lets `DEMO_STAGE3_DRIVER` decide on the backend before it probes (line 51), and a
  local run inherits the variable (`benchmark_runner.py:328`); the runner's label follows the
  probe alone, and is wrong where the two disagree. `LabelTrue` excepts this (`AgainstProbe`).
* A bypass latency of 0 (no I/O yet) is charted as a speed-up by thousands.
* The box of the scorecard is one character narrower at its top (`_box_top`).
* `TelemetrySink.open` of an empty file leaves its file descriptor behind.

## 7. Not modelled

* `ElisionTracker`: nothing calls it, so the code does not say what it is given or which
  thread serves the faults, and a model would have to invent both. `track` reports success although
  `register_range` may have failed (line 251), and nobody looks at `bailed_out`.
* An exit during a call: the destructor may unmap the telemetry block between the test of
  `g_telemetry` and the store (line 66). `Preload` lets a process end between
  calls; `pool_exit_race` shows the same disorder for device threads.
* FUSE handlers (stateless), the SPDK probe (one outcome in `Engine`), what a shell line
  of a script does, the instance type and disk model on the scorecard,
  `render_live_scorecard` (not called), the generators of diagrams under
  `docs/`, build and set-up scripts.
* A second close of an FD by the application, a seek racing a read on one FD, the
  emulators of ended threads (kept for good), a process that survives SIGKILL.
* SIGKILL of the launcher, a second interrupt while its trap runs, two launchers by hand at once
  (two of the runner's are in `Scorecard`).
* Skew between the timestamp counters of two cores, tearing between fields of the telemetry
  block, and the wrap of 64-bit counters.

## 8. Plan

Done: the queue pair, the FD table and the pool, each with its contract and the proof that it keeps it; programs
under `LD_PRELOAD`; the IOR word; the engine with its control plane; the launcher; the demo agent with
voice, probes and AWS demo; the runner with its scorecard; proofs of every safety
property the runs check.

Next, in this order:

1. The lemmas on finite sets, intervals and sequences that several of the proof modules repeat.
