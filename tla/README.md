# Verification of cuwacunu_torch

`cuwacunu_torch` is a C++ research system for trading models: sources of market
data, tensor models trained in "waves", a replay environment with paper
execution, and a set of "Hero" tools that launch jobs, record evidence about them
and answer questions about that evidence. Most of its lines are numerical code or
validation of configuration. What can go wrong in ways a test hardly reaches is
elsewhere: several processes share one *runtime root* of files without locks, jobs
die halfway, tools call each other as child processes with a deadline, experiments
run their tasks in threads, and a websocket client runs two threads of its own
beside its callers. This project models those parts in TLA+, checks them with TLC on small
instances and proves the properties that matter most with TLAPS.

Contents

1. Inventory of the system
2. Modules and how they correspond to the code
3. Runs: what each one checks, bounds, fairness
4. Proofs
5. Findings
6. What is left out, and why
7. Where to go on

Paths below are relative to `src/src/include/` unless they start with `src/`.

## 1. Inventory of the system

### 1.1 Components

| Component | Code | State it keeps | Operations | Model |
|---|---|---|---|---|
| Text installers | `terminal_facts.h`, `exposure_ledger.h`, `config_provenance.h`, `job_layout.h` (four copies of one routine) | a target file, a temporary file, an open stream | write to temporary, rename, in two copies remove and rename again | `TextInstall`, `AtomicFile` |
| Spawn registry and launch | `kikijyeba/protocol/config_provenance.h`, `hero/runtime_hero/runtime/job_runner.h`, `job_layout.h` | registry file, layout marker, attempt directories, `component_spawn.ref` | upsert, id assignment, resolution, reservation of an attempt | `SpawnRegistry` |
| Runtime job | `job_runner.h`, `job_state.h`, `job_manifest.h`, `terminal_facts.h` | `job.manifest`, report, `job.state`, three terminal facts, Lattice sidecars | claim, write, fail, crash | `RuntimeJob` |
| Lattice exposure ledger | `hero/lattice_hero/lattice/exposure/exposure_ledger.h` | none of its own: it scans the job directories | scan, derive exposure facts | the scan's verdict is in `RuntimeJob` |
| Websocket client | `src/src/impl/piaabo/network/curl/websocket_api/curl_websocket_api.cpp` | maps of session state: flags, TX and RX deques, RX buffer, handles, two threads | `ws_init`, `ws_finalize`, writes, awaits, loops, callback | `WebsocketSession` |
| Marshal Hero | `hero/marshal_hero/marshal/tool_handler.h`, `paper_online_session_handoff.h` | receipts | plan, dry run and run of a session handoff; inspection and advice | the handoff: `SessionHandoff` |
| Environment Hero | `src/src/impl/hero/environment_hero/hero_environment_tools.cpp` | admission fact, session root | admission check and issue, session validate and run; readiness, replay tools | admission and session: `SessionHandoff` |
| MCP transport | `hero/mcp_cli_client.h`, `mcp_stdio_transport.h` | a child process and its pipes | call a tool, time it out, capture its output; stdio framing | the client: `McpProcess` |
| Replay environment | `kikijyeba/environment` | tasks, futures, reports; an episode; a portfolio | run an experiment, run an episode, step a world | the experiment: `ExperimentRunner`, `SerialExperiment` |
| Ujcamei sources | `ujcamei/source` | CSV, raw and normalized caches, mappings, cursors | build, normalise, check freshness, map; slicing, sampling | the caches: `SourceCache` |
| Runtime Hero tools | `src/src/impl/hero/runtime_hero` | none of their own | argument validation, wave plans, reports | not modelled |
| Config Hero | `hero/config_hero` | one config file and its backups | preview, save, roll back | not modelled |
| Lattice targets and splits | `hero/lattice_hero` | none | classification of facts, interval arithmetic | not modelled |
| Cajtucu paper execution | `cajtucu/execution/paper_backend.h` | a ledger of cash and positions | sizing, fills, fees, rejection | not modelled |
| idydb, dlogs | `piaabo/db`, `piaabo/log` | a row store; a ring buffer | insert, query; append, drain | not modelled |
| Models, training loops, parsers, digests, terminal UI, legacy tree | `wikimyei`, `jkimyei`, `piaabo/*`, `iinuji`, `src/.deprecated` | tensors, text | numerical code, parsing, drawing | out of scope |

### 1.2 How the parts interact

A launch (`job_runner_t::run`) loads its configuration, writes the layout marker,
registers the *component spawn* (a fingerprint of the configured component) in the
registry and gets a short id for it, reserves an attempt directory below
`<id>_<fingerprint>`, captures a receipt of the configuration, registers the spawn
again with that receipt, writes `component_spawn.ref` and `job.manifest`, and
calls the delegate that trains or evaluates. Then it writes `job.state`, three
terminal facts (result, checkpoint I/O, numeric health), the Lattice sidecars
(exposure, training update, checkpoint), and `job.state` once more. Nothing but
the file system connects the processes: a second launch, or Lattice's scan, sees
whatever files there are at that moment. The marker, the registry and the `ref`
are installed through the shared `<path>.tmp`, the facts and sidecars through
unique temporary names, and `job.manifest` and `job.state` are truncated and
written in place.

A paper-online session goes through two Heroes. Marshal's handoff tool calls three
Environment tools, each as a child process whose output it captures until the
child is gone or a deadline passes: the admission check, the validation of the
session and its run. The run writes eight logs, then `job.manifest`, `job.state`,
the exposure fact and at last the session fact with the digests of the logs, into
a root it refuses when the `job.manifest` is there already. Marshal then looks
whether the session fact exists and replaces its receipt. The admission itself is
issued by an operator, at any time.

A replay experiment runs every policy over every bundle. Its tasks run in threads
(`std::async`), a batch at a time; the calling thread takes the results in order,
and an exception in it waits for the rest of the batch before it leaves the call.

The datasets of all these processes come from CSV files through two caches beside
the file, a binary form and a normalized one. Whoever loads a source rebuilds a
cache that is not strictly newer than what it was made from, in place and without
a lock, and maps the result.

The websocket client is independent of all that. `ws_init` creates the session's
maps and two threads. The TX thread waits on a condition variable for frames in a
deque and hands them to `curl_ws_send`; the RX thread runs the curl multi loop,
whose callback appends to a buffer and moves whole messages to a second deque.
Callers push frames and wait, with a timeout, for the response to an id.
`ws_finalize` sets `shutdown_requested`, queues the close frame, waits with
timeouts, joins both threads and cleans up.

### 1.3 What is hard, and what makes each part correct

*Installers.* A process can die between any two system calls; with a shared
temporary name two processes truncate, overwrite and rename each other's file, each
stream writes from its own offset 0, so that a short text over a longer one leaves
the tail of that, and a stream opened before a rename writes into the *installed*
file after it. Correct means:
a reader sees a whole text, a file never vanishes, the routine is an atomic
write.

*Registry and launch.* The upsert reads, changes and installs the registry
without a lock. Ids are not stored but recomputed on every read, in the order of
the fingerprints. Correct means: the registry stays readable, ids of a family are
unambiguous, a launch that registered can be resolved, no two launches share an
attempt directory, no id denotes the spawn of another component, every launch
ends.

*Jobs.* Any write may fail, the handler of the failure itself writes, a job may
die anywhere, and the scan reads at any time. Correct means: Lattice credits a
mutation only to a job whose delegate trained; the files of an attempt come from
one job; terminal facts agree with the state; evidence at rest is never
rewritten; jobs end.

*Session handoff.* The child may hang, write too much, fail at any of its twelve
writes, be killed by the deadline just before or just after the last one, or
survive a Marshal that died. Correct means: the captured text is the whole output
up to the cap; a handoff returns though its child hangs, and leaves no writer
behind; the session fact agrees with the logs it attests; a receipt that says
`executed`, or that there is no session fact, tells the truth.

*Experiment.* Tasks end in any order, any of them may fail, and the call may be
left by an exception with a batch in flight. Correct means: the effect is that of
running the tasks one after the other, no thread outlives the call, a failure that
is not tolerated wastes less than one batch, and the report passes its own
validation.

*Source caches.* The comparison of modification times has to stand for "made from
the present CSV, whole, normalised once": with coarse file times, a CSV that is
replaced at any moment (also between the three times a build opens a file),
processes that build at once, builds that are abandoned halfway and builds that end
short without an error.

*Websocket.* The owner's waits have timeouts, so it may come to the cleanup with
threads in any state; an awaiter releases the mutex between seeing its response
and taking it. Correct means: handles outlive the threads, frames go out in order
and none is stranded, no message is lost or returned twice, calls return.

`PROJECT.json` lists every hazard at its line with the properties that cover it.

## 2. Modules and how they correspond to the code

`PROJECT.json` maps each definition to the lines it models. Operators whose names
carry a suffix (`OpenTmp_InPlace`, `Fail_KeepsFacts`, ...) are mutants: plausible
bugs that no specification uses, kept to show that each property can be broken.

### `AtomicFile`, `TextInstall`

`AtomicFile` is the promise: `content[f]` changes only by replacing it with a
whole text in one step. `TextInstall` is the routine, one step per system call:
`OpenTmp` (truncating open), `WriteTmp` (the bytes reach the file when the stream
closes, over what it holds by then: `Overlaid`), `Rename`, and on failure `RenameFails`, `RemoveTarget`, `RenameAgain`,
`RenameAgainFails`. `UniqueFile` says which files are written with which naming
scheme: the copies in `config_provenance.h` and `job_layout.h` use `<path>.tmp` and
remove the target before a second rename; those in `terminal_facts.h` and
`exposure_ledger.h` use a unique name, and remove only that. `Torn` are the texts no
writer wrote, and `Mixed(t, c)` those that `t` over `c` may leave. `fd[p]` follows the *file* a stream is open on
when the file is renamed or unlinked. `lost` is a history variable: the files of
which a flush failed, in which case the code, which does not test the stream after
its flush, installs a truncated file. `ImplementsAtomicFile` is the refinement,
with `content` the part of `target` that has unique temporary names.

### `SpawnRegistry` (composes `TextInstall`)

A launch per process: `Launch`, `MarkerReturns`, the upserts `UpsertReads` /
`UpsertUnassignable` / `UpsertReturns` (three places in the launch, `UpsertPc`),
`Reserve` or `ReserveThrows`, `Capture` or `CaptureFails`, `WriteRef`, `RefReturns`, `WriteManifest`,
`CrashLaunch`. Every file goes through the steps of `TextInstall` with the shared
temporary name, so the launches interleave inside an install as well.

The registry is a function from fingerprints to `missing`, `unlinked` or `linked`
(whether the config receipt is set): all that the resolver asks of an entry. Ids
are recomputed by `AssignIds` as the code does, in the order of the fingerprints:
the assignment in which every entry has its first candidate that no earlier entry
of its family has (`FirstFree`), of which there is exactly one;
the candidate ids of a fingerprint, in the code characters of its digest, are the
parameter `Candidate`, so collisions and exhaustion can be chosen. `Resolves` is
`resolve_component_spawn_id`. `MaxConcurrent = 1` gives launches one after the
other.

Where two registry texts mix in the shared temporary file, the lines of the tail
replace fields of entries with their index. Where the cut falls is left open: a torn
text reads as any registry with no more entries than the text on top, each an entry
of one of the two or (`Stray`) a mixture of two (`TornReads`). A torn registry for
which the assignment throws stands for a family whose 512 candidates are used up.

### `RuntimeJob`

`file[d][l]` is the file with leaf `l` in directory `d`: who wrote it, the status
it records, and whether it records training. Actions follow
`run_channel_graph_first`: `Start` and `ClaimExplicit` (the two checks of an
explicit `--job-dir`), `ReserveAttempt`, `OpenManifest` / `WriteManifest` (two
steps, since it is written in place), `DelegateReports` (the periodic report of a
training loop), `DelegateCompletes`, `DelegateThrows`, `OpenState` / `WriteState`,
`WriteFact` three times, `WriteExposure`, `WriteCheckpointFacts`,
`WriteFinalState`, and `Fail`, the handler every exception after the manifest
reaches. `CreditsMutation(d)` is what the Lattice scan says of a directory at this
moment: its exposure sidecar if there is one, else what it derives from the
manifest, the state and the report.

"Trained" abstracts `optimizer_steps > 0`; `checkpoint_written`, the other half of
`model_state_mutated`, implies it, since the launchers write a checkpoint only after
an optimizer step. All three facts bind the status of the job (in the `fact_id`, the
result fact also in a field); the health fact says nothing about training. The periodic report is on, as in the
default configuration. Facts and sidecars are installed in one step each: they
use unique temporary names, for which `TextInstall` proves that an install is
atomic. The source-analytics, forecast and replay sidecars are left out: no
property looks at them, and their failure is the same exception as that of the
exposure sidecar.

### `WebsocketSession`

One session with one owner (`owner`, the position in `ws_init` and
`ws_finalize`), the TX thread, the RX thread, libcurl (`NetworkStep`: connection
and callback), writers and awaiters. Code under one hold of the session mutex is
one step; a wait on a condition variable is a step that may be taken with or
without its condition, since every wait has a timeout. `Incoming` is what the
server sends: for each message the id it answers and the number of chunks in which
libcurl delivers it; `arrived` and `part` say how many messages, and how many
chunks of the next one, were delivered; `MaxBuffer` is the cap of the receive
buffer, in chunks.
`accepted`, `taken` and `got` are history variables. libcurl and the server are
external: they may do anything in the order TCP allows, at any pace.

### `McpProcess`

`run_process` and `call_tool`. The loop of the caller is three steps: `PollChild`
(`waitpid(WNOHANG)`), `TimeoutKills` (the kill and the blocking `waitpid`) and
`SelectDrains` (`select` and `drain_fd`); the child writes, blocks on a full pipe
and exits in between. stdout and stderr, which are treated alike, are one stream;
output is counted in chunks. `append_capped` is modelled with its exact boundary:
the flag is set also by a text that fills the cap exactly. The child itself starts
no process: a grandchild that keeps the pipe open would keep the caller in its
loop also after the kill.

### `SessionHandoff` (composes `McpProcess`)

`stage[h]` is Marshal's place in the handoff: the calls `check`, `validate` and
`run` (`CallTool`, `Conclude`), the look at the session fact (`Sample`), the receipt
(`RemoveReceipt`, `InstallReceipt`; the copy of the installer in this header removes
the old file before the rename). `epc[h]` is the place of the Environment child.
`DispatchState` is the state the receipt reports. A request is reduced to what
Marshal finds of it locally, whether its readiness proof is fresh, whether
Environment accepts the session, and how long its result is. `root[f]` is the
handoff whose text file `f` has, so that mixed files can be told. `overlapped` is
a history variable: two runs were writing at once. `MarshalCrashes` leaves the
child of a session run behind, which writes on until it prints into the closed
pipe. A write that fails (`WriteThrows`) and a kill leave what was written.

### `ExperimentTasks`, `SerialExperiment`, `ExperimentRunner`

`ExperimentTasks` is a call: bundles, policy ids, `max_parallel_jobs`,
`continue_on_failure` and the outcome `run_task` has for each task. A policy id is
the sequence of the pieces that the bars in it separate: all that
`failure_belongs_to_policy` and `require_failure_field` can tell of an id.
`SerialExperiment` is the promise, one task after the other.
`ExperimentRunner` is both overloads of `run_replay_experiment`: the vector
overload validates all the bundles and lists the tasks first, the source overload
fetches bundles while tasks run; `Launch`, `LaunchFails` (`std::async` throws),
`RunInline`, `Take` (`future.get()` of the first future left), `Unwound` (the
destructors wait), `Report` with the counting part of
`validate_replay_experiment_report`. The statistics in the summaries are left out.

### `SourceCache`

One CSV, its raw and its normalized cache, and the processes that load it. A file
is a row of chunks, the value of a chunk the version of the CSV it came from, and
for the normalized cache how often it was normalised. Every check and every write
is a step of its own, and a stream writes at its own offset whatever another
process did to the file. Modification times have the resolution of `Tick`. A build
reads the CSV for its step (`InferDelta`), opens it to convert it (`OpenCsv`) and
truncates the raw cache (`OpenRaw`) in three steps; records of one version on the
grid of another are `Garbled`. `Abandon` is an exception or the death of a process
anywhere. `CloseRawShort` and `CloseNormShort` are the ends nobody notices: the loop
over the lines takes a read error for the end of the file, and the close that writes
what is left in a stream is not tested. The history variables `rawClean`,
`normClean` and `calm` say which of these disturbances happened. `RawFresh`,
`NormFresh` and `ServedFresh` are what holds of caches that had none; what the
comment in the code promises without such a condition is `AlwaysUpToDate`, and it is
violated (finding 3).

### Proof modules

`TextInstallProofs`, `SpawnRegistryProofs`, `RuntimeJobProofs`,
`WebsocketSessionProofs`, `SessionHandoffProofs`, `ExperimentRunnerProofs` and
`SourceCacheProofs` extend their components; see section 4. The `MC*` modules give
constants their values and the symmetry sets.

## 3. Runs

| Run | Instance | Properties | Shows |
|---|---|---|---|
| `install_mixed` | 3 writers, 2 texts that may mix, one file with unique and one with a shared temporary name; open, flush and rename may fail; crashes | `TypeOK`, `InstalledWhole`, `ImplementsAtomicFile` | with unique names a text that is truncated or mixed is installed only after a failed flush, and the routine is an atomic write, under which an installed file never vanishes |
| `spawn_serial` | 3 launches in sequence, 4 fingerprints in 2 families, colliding and exhausted candidates, crashes | `SpawnTypeOK`, `LaunchResolves`, `IdsUnambiguous`, `FiledUnderItsId`, `SpawnsNeverForgotten` | without concurrency a launch resolves, is filed under its id and forgets no other, whatever crashed before |
| `spawn_concurrent` | 2 launches at the same time, 3 fingerprints of one family with colliding and exhausted candidates, mixed texts | `AttemptsExclusive`, `RegistryReadable`, `LaunchesEnd` | what survives when registry updates are lost, mixed or removed; launches end though they take each other's temporary file |
| `spawn_unlocked` (violation) | 2 launches at the same time, 2 fingerprints with candidates of their own | `LaunchResolves` | finding 1 |
| `job_dirs` | 2 jobs, one attempt index and one `--job-dir`, every write may fail, crashes | `TypeOK`, `AttemptSingleWriter`, `TerminalFactsAgree`, `RestingDirsImmutable` | one writer per attempt, facts agree with the state, evidence at rest is never rewritten |
| `job_ending` | 2 jobs, train and dry run, one attempt index, every write may fail, crashes | `CreditMeansTrained`, `JobsEnd` | Lattice credits what was done, jobs end whatever fails |
| `job_latefailure` (violation) | 1 job, every write may fail | `CreditMeansCompleted` | finding 2 |
| `ws_session` | 2 writers, 2 awaiters of one id, the owner, both threads, 2 messages that fit, one of them with that id | `TypeOK`, `NoUseAfterFree`, `TxFifo`, `FlushedBeforeFree`, `MessagesAccounted`, `LostToRival`, `CallsReturn` | shutdown is safe however the waits time out; responses are neither lost nor duplicated; calls return |
| `handoff_session` | 2 handoffs in sequence, 5 kinds of request, 2 of the 8 logs, pipe of 1 chunk, capture of 3; deadlines, hanging children, failing writes, crashes of Marshal | `TypeOK`, `FactMatchesLogs`, `ExecutedIsRecorded`, `DeniedStaysDenied`, `CapturedWhole`, `QuietAfterReturn`, `HandoffsReturn` | facts and receipts tell the truth, nothing is captured in part unnoticed, no writer stays behind, handoffs return |
| `experiment` | both overloads, parallelism 1, 2 and 3 (as `max_parallel_jobs` 0), up to 3 bundles and 2 policies, every outcome of the tasks | `TypeOK`, `NoneLeftBehind`, `BoundedWaste`, `ReportAccepted`, `ImplementsSerial` | the parallel experiment implements the serial one |
| `source_cache` | 2 processes, 2 calls, 2 chunks, a CSV replaced once, 4 ticks; builds abandoned or short | `TypeOK`, `RawFresh`, `NormFresh`, `ServedFresh` | what the comparison of times guarantees |
| `cache_replaced` (violation) | 1 process, 2 calls, 2 ticks, a CSV replaced once, no faults | `AlwaysUpToDate` | finding 3 |

**Bounds.** Three writers over two files let two of them collide on one file while
a third works elsewhere; with unique names a fourth adds nothing new, and the
proofs cover any number. In the registry the conflicts are between two launches
(one loses the other's update, or writes over its text) or between an early, a late
and a repeated launch (hence three in sequence); four fingerprints give one pair with
a second candidate and one pair without. With three fingerprints of which two share
their only candidate, two texts can mix to a registry for which the assignment
throws. Two jobs suffice for every conflict over a directory;
`MaxAttempts = 1` makes one of them run out. In the websocket model two writers can
stand before and after the shutdown; two awaiters of the same id are the rivals.
Two handoffs in sequence give every conflict the handoff has, since the run of the
first may still be writing when the second begins; of the logs two are enough to
stop between them, the capture of three chunks holds the plain results and cuts
the one with a payload, and the pipe of one chunk blocks the child. Three bundles
of two policies fill a batch of three across two bundles and leave a rest; one call
has a policy id that begins with another and a bar. Two calls
of two processes are two builds that overlap, or a build and a load that takes the
cache as it is; the invariants also say what a later call would find, and three
calls with three ticks (7 million states) give the same result. Four ticks put a build before, in and
after the tick of a replacement.

**Deadlock** is checked in the runs of the installers, the registry, the jobs and
the websocket: those models stutter only when every launch or job has ended
(`AllEnded`) or every websocket call has returned (`AllReturned`). It is not
checked in `handoff_session`, `experiment` and `source_cache`, whose behaviours end
when the calls they have are made; that they do not end too early is what
`HandoffsReturn` and the fairness of `SerialExperiment` say for the first two.

**Fairness.** Weak fairness of each process (`LaunchStep(r)`, `Run(j)`,
`OwnerStep`, `TxStep`, `RxStep`, an awaiter's wait): the operating system schedules
what can run, and every wait of the websocket code has a timeout (or is a `join`
of a thread that has one). Nothing is assumed about crashes, the network, the
server, callers that have not called yet, or which of two outcomes a call has. A
training loop may report any number of times but is assumed to end:
`DelegateReports` is outside the fair action `Run`, and `Run` includes the end of
the delegate. In the handoff, fairness is Marshal's own (`Progress`) and that of
its clock (`Deadline`); nothing is assumed of the child, which may hang anywhere.
The experiment assumes that its threads are scheduled and that every episode is
finite (its number of steps is bounded by its spec); the serial specification then
demands that the call ends.

## 4. Proofs

All theorems hold for every value of the constants that satisfies the named
assumptions (`InstallAssumption`, `SpawnAssumption`, `JobAssumption`,
`SessionAssumption`, `McpAssumption`, `HandoffAssumption`, `TasksAssumption`,
`SourceCacheAssumption`), which only say that the model's special values differ
from the ordinary ones, that flags are Boolean and numbers natural, that
fingerprints are ordered like numbers and each has a list of candidate ids, and
that the calls of an experiment are well formed. Every safety invariant and every
action property of the passing runs is stated by a theorem. Four theorems have a
further hypothesis, written out in their statement: `Serial` (three times) and
`AllFit`, below.

**`TextInstallProofs`.** `TypeCorrect` for both naming schemes. For the files with
unique names, `OwnTmp` (no stream is ever open on the installed file and no writer
reaches the removal of the target) is inductive by itself.
`InstalledWhole` is not inductive: one has to know what is in the temporary file
when it is renamed. `OwnFile` says it (the truncated file while the stream is open,
since nobody else has its name; a whole text when it is about to be renamed, or its
flush failed), the frame lemma `TmpFrame` shows that no other writer disturbs it,
and `WholeTmp`, which collects both, is inductive. It gives `UniqueInstalledWhole`
and, as each rename is then an `AtomicFile` write and every other step a stutter,
`UniqueImplements`.

**`SpawnRegistryProofs`.** The provers have no induction over data, but they can use
that a non-empty set of numbers has a least element (`LeastNat`, from the
library's `WFMin`). A counterexample to a statement about the assignment would be a
set of fingerprints; its least member is given an id that depends only on smaller
ones, for which the statement holds. In that way `AssignIds` is shown to exist, to
be unique, and to depend for each fingerprint on the smaller ones only.
`IdsStayUnambiguous` follows for any registry. `RegistryStaysReadable` and
`SpawnTypeCorrect` rest on `RegistrySound`: whatever two launches do to the shared
temporary file, what can end up under the registry's name is a whole registry for
which the assignment succeeded, no file, an empty one, which reads as a registry
without entries, or a mixed text. Of a mixed text nothing is claimed: it may read as
anything, and the assignment may throw for it at every launch from then on. The proofs of the
installer are reused: `StepProjects` shows that each step of a launch is, on the
files, a step of `TextInstall` (`InstallPart`). `AttemptsStayExclusive` needs only
that a reservation takes a directory nobody has. These four hold for any number of
launches at the same time.

`SerialLaunchesResolve`, `SerialFiledUnderItsId` and `SerialSpawnsKept` are proved
under `Serial`, one launch at a time and no failing flush, and the last also for
renames that do not fail. The conditions matter: `spawn_unlocked` violates
`LaunchResolves` with two launches, a flush that fails installs a registry without
entries, which violates `LaunchResolves` and `SpawnsNeverForgotten`, and after a
failed rename the routine removes the registry before it tries again (TLC shows each
on the instance of `spawn_serial` with that fault). The inductive invariant
`SerialInv` says, at each place of the launch, what the registry on disk and the text
to be installed have in common: an upsert installs what it read, plus its own entry;
and that no text is ever written over another. `FiledInv` adds that the id a launch
got from its first upsert is the one that the registry gives its spawn until it is
done, as nobody else registers in between; it holds for any candidates.

**`RuntimeJobProofs`.** `TypeCorrect`. `StepTouches` is the frame lemma: a step of
job `j` changes only files of its own directory and only `j`'s memory. `Owned`
(no two jobs hold the same attempt; the files of an attempt were written by a job
that holds it) is inductive with the type invariant and gives
`AttemptsHaveOneWriter`; together with the frame lemma it gives the action
property `EvidenceStays` (`RestingDirsImmutable`), for explicit directories too.
`CreditIsEarned` (`CreditMeansTrained`) needs `Honest`: every file of an attempt
that records training, and the memory of its job, agree with what the delegate of
a train wave reported, in each intermediate state of the job.
`TerminalFactsStayConsistent` (`TerminalFactsAgree`) is about jobs that have ended; its
invariant `Agree` speaks of every moment: the facts that the present round has
written (of the three, those before the next one) carry the status in the job's
memory, and claim a changed model exactly when it says so (`FactFits`), and so does `job.state` when the job has ended. A failure changes
memory and starts the round again, which is why the facts of the completed job do
not survive it.

**`WebsocketSessionProofs`.** `IInv` is the conjunction of `SendType`, `Lifecycle`
(which threads are joined at each position of the owner), `Blocked` (after
`shutdown_requested` nothing is queued, and the close frame was last) and `TxFifo`.
It gives `HandlesOutliveThreads`, `TransmitIsFifo` and `NothingLeftBehind` for any
number of writers and awaiters and any messages. `TypeCorrect` (`SessionType`) needs
it too, as the types of the owner's fields depend on its place. For the receiving
side, `RivalInv` relates an awaiter that has seen its response, and has released the
mutex since, to the deque: the response is still there or a rival of the same id
took it, which gives `LossesHaveARival`. `NoMessageLostOrDoubled`
(`MessagesAccounted`) has the hypothesis `AllFit`, that no message of the server is
over the cap: a single one that is corrupts those behind it (section 5). Then the buffer is exactly the part of the next message that was delivered
(`BufferInv`), and the deque and the awaiters share out the messages that arrived,
each in one place (`SharesInv`).

**`SessionHandoffProofs`.** The invariant is built in layers. `CallOf` is one call of
`McpProcess`: what was captured is what left the pipe, up to the cap, and the loop
ends only with the child gone and the pipe empty; `CallsCaptureWhole` is its
conclusion, for any sizes of pipe and cap. `StageOf` relates Marshal's stage to the
call: outside a call it has no child, unless it crashed. `RunOf` says what the child
of a session run has written at each of its places. From these, `SoleWriter`: unless
two runs overlapped there is at most one writer, its files are still its own and
there is no fact yet; when there is one, the logs are those it digested
(`FactAttestsLogs`). `FactOf`, `FactOnDisk` and `ReceiptInv` carry that from the tool's
result over the captured reply to the receipt (`ExecutedHasFact`, `DenialIsFinal`).
`FactOnDisk`, which no property mentions, is needed because the refusal of a used
root looks at `job.manifest` and not at the fact. `ReturnedIsQuiet` is an action
property: whoever writes is an alive child, and by `StageOf` a handoff that is done
has none. All hold for any number of handoffs
at the same time; the run has two in sequence. The invariant was checked by TLC
before it was proved, also with two handoffs at once.

**`ExperimentRunnerProofs`.** `IInv` has a part for the futures (they are the tasks
after the handled ones, in order; nothing else is at work; fewer than a batch
while tasks are launched), for the place in the loops of each overload, for the
two result lists (together the first tasks, each once, each in the list its outcome
says) and for the waste. `NoTaskOutlives`, `WasteBounded` and `TypeCorrect` follow
directly. `ReportsAccepted` needs counting: the tasks of a policy among the
handled ones are those completed plus those failed, as the two lists are disjoint
and without repetition. `Refinement` shows that the initial states and every step
map to `SerialExperiment`: `Take` and `RunInline` to `Handle`, a report to `Return`
or, with an id that contains a bar, to `Throw`, the rest to stuttering.

**`SourceCacheProofs`.** The theorems are about undisturbed caches (`rawClean`,
`normClean`, `calm`) in behaviours in which other builds are abandoned, short,
garbled or overtaken by a new CSV. The freshness properties speak of caches at rest,
so `IInv` says what holds during builds: clean builds of the raw cache all write the
present CSV, which is compared when they truncate the file, and one of them has
written everything up to its place (`InvRawBuild`); a
clean cache at rest is one version throughout, the present one unless the CSV was
replaced in or after the tick of its last write (`InvRawRest`); the only build of a
clean normalized cache has normalised once what lies before its place
(`InvNormBuild`). One lemma per action, one step per part of `IInv`.

**Only model-checked.** The liveness properties `JobsEnd`, `LaunchesEnd`,
`CallsReturn` and `HandoffsReturn`, and the fairness in `ImplementsSerial`: liveness
under fairness is out of the prover's reach.

## 5. Findings

1. `spawn_unlocked`: every process writes the registry through the same
   `<registry>.tmp`, which it truncates first (`config_provenance.h:167`). Of two
   launches the second opens that file when the first has written it and not yet
   renamed it: the first installs an empty registry, its upsert returns an id, and when
   it comes to its manifest the id does not resolve.
2. `job_latefailure`: the exposure sidecar of a completed job is written before
   the last `job.state`; when that write throws, the job ends as failed with the
   sidecar in place, and the scan prefers the sidecar (`job_runner.h:903`).
3. `cache_replaced`: the comment at the check says "We will *always* ensure the raw
   cache is up-to-date w.r.t. the CSV" (`memory_mapped_datafile.h:842`). A CSV replaced
   after a build has opened it (859) is older than the cache that holds the replaced
   one; every later load takes that cache for up to date. `AlwaysUpToDate` fails as
   well with `Faults = {"abandon"}` and a CSV that never changes, when a build is
   abandoned after its truncation (866; an irregular line in the middle of the CSV is
   enough), and with two processes, when one looks while the other is building (845).

Further observations, made while modelling, that no run of its own shows:

- The upsert reads the registry, changes it in memory and installs it without a lock
  (`config_provenance.h:669`). A launch that read it before another installed its
  entry installs a whole registry without that entry: a second, longer way to
  violate `LaunchResolves`.
- Ids are recomputed from all entries in fingerprint order on every read
  (`config_provenance.h:548`), also without any concurrency. A spawn registered
  later, which sorts first and proposes the same id, takes it over: the id in the
  manifest of the earlier launch resolves to the other spawn, and its next run moves
  to another id and directory. What holds, and is proved, is that ids are unambiguous
  at any time and that the attempts of serial launches are filed under the id their
  manifest records.
- The no-overwrite check of a `--job-dir` and the first write into it are apart
  (`job_runner.h:257`): two launches at the same time pass the check, and one truncates
  the manifest of the other. Directories at rest survive it (`RestingDirsImmutable`).
- The websocket's receive buffer is cleared when it passes its cap, but the rest of the
  message still arrives and stays in it, and the messages after it are appended to that
  and never recognised (`curl_websocket_api.cpp:942`). `MessagesAccounted` is violated
  with a message of four chunks, a buffer of two, and a message of one chunk behind it.
- A session run refuses a root only when its `job.manifest` is there, the ninth file
  it writes (`hero_environment_tools.cpp:3204`), where the environment's README says
  that it "refuses to overwrite an existing session root". The logs of a run that was
  killed early are overwritten by the next one, and two runs that pass the check
  before either writes the manifest mix their files; hence the condition
  `overlapped` in `FactMatchesLogs` and `ExecutedIsRecorded`.
- A timed-out call whose child had just written the session fact gives a receipt
  with `run_blocked` and `session_fact_exists`: both are true, and a caller has to
  look at the second.
- A raw cache whose last flush is lost when the stream closes, or whose CSV could not
  be read to its end, is short, and no error is raised
  (`memory_mapped_datafile.h:1095`): it is taken for up to date like an abandoned one.
- Two processes that refresh the normalized cache at once may normalise a record
  twice, and the result stays strictly newer than the raw cache.
- A policy id that contains a bar makes the report of an experiment with a tolerated
  failure of that policy invalid, and the call throws after all its tasks ran
  (`experiment_runner.h:681`).

## 6. What is left out, and why

- Numerical code (`wikimyei`, `jkimyei`, tensors): out of a model checker's reach.
  A delegate is reduced to reports, an optimizer step count above zero or not, an
  end or an exception.
- Parsers, digests, formatting: sequential and character-level. Texts are model
  values, fingerprints numbers (their order matters), id candidates parameters.
- Lattice's classification of targets: a very large set of pure predicates over
  facts without state of their own.
- A second, concurrent `ws_finalize` of one session, and libcurl's behaviour when
  a handle is used by two threads: listed as hazards without a property.
- The text of a failure record of an experiment: `failure_belongs_to_policy` searches
  the whole record, the message of the exception included, and a message that happens
  to contain `|policy=id|` would count for that policy; the model compares ids only.
  Nor is an exception of `run_task` that is not a `std::exception` modelled.
- Where exactly two registry texts are cut when they mix, and a field cut in half.
- The contents of a mapped cache that another process truncates, and a CSV replaced
  by one with an older time: hazards without a property.
- A grandchild of an MCP tool that keeps the pipe open, and edits of the admission
  fact behind the tools' back.
- Cajtucu's paper backend: one sequential call over floating-point amounts.
- The step of the replay world and the episode runner: numerical, sequential; an
  episode is one outcome in `ExperimentRunner`.
- The Runtime, Config and inspection tools: validation and rendering of files whose
  writing is modelled.
- idydb (a byte format behind a file lock) and dlogs (every access under one mutex).
- The legacy tree and the terminal UI.

The modelled share of the lines is small, and stays so: the repository is mostly
tensor code, generated reports and predicates over text fields.

## 7. Where to go on

1. Proofs: `CreditMeansTrained` for explicit directories whose jobs do not overlap;
   `MessagesAccounted` for the messages before the first one over the cap.
2. The readiness certification in front of the admission, so that the chain from
   readiness to session is one composition.
3. Split intervals and cursor arithmetic against a reference definition.
