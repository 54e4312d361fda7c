-------------------------- MODULE ExperimentRunner --------------------------
(***************************************************************************)
(* run_replay_experiment, both overloads: the calling thread and the tasks *)
(* it runs with std::async.                                                *)
(*                                                                         *)
(* The futures of a batch are taken in the order of the tasks, each        *)
(* waiting for its task.  An exception in the calling thread (a failed     *)
(* task, a refused bundle, no thread) destroys the futures that are left,  *)
(* and the destructor of each waits for its task.  The overload with a     *)
(* source fetches bundles while tasks of earlier ones run.                 *)
(***************************************************************************)
EXTENDS ExperimentTasks, FiniteSets

VARIABLES args,       \* the call
          pc,         \* where the calling thread stands
          fetched,    \* bundles taken from the source (bundle_index)
          policy,     \* policies of the bundle that were reached (policy_index)
          next,       \* next task to start (next, task_index)
          attempted,  \* attempted_count
          futures,    \* the futures not yet taken
          running,    \* the tasks whose thread is at work
          episodes,   \* the tasks in episode_reports
          failures    \* the tasks in failures

vars == <<args, pc, fetched, policy, next, attempted, futures, running, episodes,
          failures>>

Left == {"returned", "thrown"}
PC == {"begin", "fetch", "launch", "drain", "final", "report", "unwind"} \cup Left

TypeOK ==
    /\ args \in ArgsOf
    /\ pc \in PC
    /\ fetched \in 0 .. Len(args.bundles)
    /\ policy \in 0 .. Policies(args)
    /\ next \in 0 .. TaskCount(args)
    /\ attempted \in 0 .. TaskCount(args)
    /\ futures \in Seq(Task(args))
    /\ running \in SUBSET Task(args)
    /\ episodes \in Seq(Task(args))
    /\ failures \in Seq(Task(args))

Init ==
    /\ args \in ArgsOf
    /\ pc = "begin"
    /\ fetched = 0 /\ policy = 0 /\ next = 0 /\ attempted = 0
    /\ futures = <<>> /\ running = {}
    /\ episodes = <<>> /\ failures = <<>>

-----------------------------------------------------------------------------
(* The calling thread *)

\* The overload with a vector checks all the bundles and lists all the tasks
\* first; the one with a source begins to fetch.
Begin ==
    /\ pc = "begin"
    /\ IF args.form = "vector"
       THEN LET good == Len(args.bundles) > 0 /\ AllAccepted(args)
            IN  /\ pc' = IF good THEN "launch" ELSE "thrown"
                /\ fetched' = Len(args.bundles)
                /\ attempted' = IF good THEN TaskCount(args) ELSE 0
       ELSE pc' = "fetch" /\ UNCHANGED <<fetched, attempted>>
    /\ UNCHANGED <<args, policy, next, futures, running, episodes, failures>>

\* next_bundle, and the checks of the bundle.
Fetch ==
    /\ pc = "fetch" /\ fetched < Len(args.bundles)
    /\ fetched' = fetched + 1
    /\ policy' = 0
    /\ pc' = IF Accepted(args, fetched + 1) THEN "launch" ELSE "unwind"
    /\ UNCHANGED <<args, next, attempted, futures, running, episodes, failures>>

\* The source is at its end: the futures that are left are drained.
FetchEnds ==
    /\ pc = "fetch" /\ fetched = Len(args.bundles)
    /\ pc' = "final"
    /\ UNCHANGED <<args, fetched, policy, next, attempted, futures, running, episodes,
                   failures>>

\* Where the calling thread goes when the policy loop has come to q, n tasks were
\* started and no batch is to be drained.
Onward(q, n) ==
    CASE args.form = "vector" -> IF n < TaskCount(args) THEN "launch" ELSE "report"
      [] args.form = "source" -> IF q < Policies(args) THEN "launch" ELSE "fetch"

AfterLaunch_OneMore(q, n, k) ==
    IF k > Parallelism(args) \/ (args.form = "vector" /\ n = TaskCount(args))
    THEN "drain" ELSE Onward(q, n)

\* The same when k futures are held: a full batch is drained, and the vector's
\* last one as it is.
AfterLaunch(q, n, k) ==
    IF k >= Parallelism(args) \/ (args.form = "vector" /\ n = TaskCount(args))
    THEN "drain" ELSE Onward(q, n)

Reach_CountsAgain ==
    next' = next + 1 /\ attempted' = attempted + 1 /\ policy' = policy + 1

\* The next task is reached.  The source counts it as attempted here.
Reach ==
    /\ next' = next + 1
    /\ IF args.form = "source"
       THEN attempted' = attempted + 1 /\ policy' = policy + 1
       ELSE UNCHANGED <<attempted, policy>>

\* std::async.
Launch ==
    /\ pc = "launch" /\ Parallelism(args) > 1
    /\ Reach
    /\ futures' = Append(futures, next)
    /\ running' = running \cup {next}
    /\ pc' = AfterLaunch(policy', next', Len(futures'))
    /\ UNCHANGED <<args, fetched, episodes, failures>>

\* std::async throws: no thread can be started.
LaunchFails ==
    /\ pc = "launch" /\ Parallelism(args) > 1
    /\ Reach
    /\ pc' = "unwind"
    /\ UNCHANGED <<args, fetched, futures, running, episodes, failures>>

HandleResult_NotRecorded(t, to) ==
    IF args.ok[t]
    THEN episodes' = Append(episodes, t) /\ pc' = to /\ UNCHANGED failures
    ELSE pc' = (IF args.keepGoing THEN to ELSE "unwind") /\ UNCHANGED <<episodes, failures>>

\* handle_result for task t; to is where the thread goes on.
HandleResult(t, to) ==
    IF args.ok[t]
    THEN /\ episodes' = Append(episodes, t)
         /\ pc' = to
         /\ UNCHANGED failures
    ELSE /\ failures' = Append(failures, t)
         /\ pc' = IF args.keepGoing THEN to ELSE "unwind"
         /\ UNCHANGED episodes

\* Without parallelism the calling thread runs the task itself.
RunInline ==
    /\ pc = "launch" /\ Parallelism(args) = 1
    /\ Reach
    /\ HandleResult(next, Onward(policy', next'))
    /\ UNCHANGED <<args, fetched, futures, running>>

Take_FirstReady ==
    /\ pc \in {"drain", "final"} /\ futures # <<>>
    /\ \E k \in 1 .. Len(futures) :
          /\ futures[k] \notin running
          /\ HandleResult(futures[k], pc)
          /\ futures' = SubSeq(futures, 1, k - 1) \o SubSeq(futures, k + 1, Len(futures))
    /\ UNCHANGED <<args, fetched, policy, next, attempted, running>>

\* future.get() of the first future that is left, once its task has ended.
Take ==
    /\ pc \in {"drain", "final"} /\ futures # <<>>
    /\ Head(futures) \notin running
    /\ HandleResult(Head(futures), pc)
    /\ futures' = Tail(futures)
    /\ UNCHANGED <<args, fetched, policy, next, attempted, running>>

\* No future is left.
Drained ==
    /\ pc \in {"drain", "final"} /\ futures = <<>>
    /\ pc' = IF pc = "final" THEN "report" ELSE Onward(policy, next)
    /\ UNCHANGED <<args, fetched, policy, next, attempted, futures, running, episodes,
                   failures>>

Unwound_Detached ==
    /\ pc = "unwind"
    /\ futures' = <<>>
    /\ pc' = "thrown"
    /\ UNCHANGED <<args, fetched, policy, next, attempted, running, episodes, failures>>

\* The destructors of the futures have waited for their tasks.
Unwound ==
    /\ pc = "unwind"
    /\ \A k \in 1 .. Len(futures) : futures[k] \notin running
    /\ futures' = <<>>
    /\ pc' = "thrown"
    /\ UNCHANGED <<args, fetched, policy, next, attempted, running, episodes, failures>>

-----------------------------------------------------------------------------
(* The report *)

\* failure_belongs_to_policy looks for "|policy=" id "|" in the failure record,
\* whose own id may go on after the bar.
FailureBelongsTo(t, p) ==
    LET own == args.ids[PolicyIndex(args, t)] IN
    Len(args.ids[p]) <= Len(own) /\ SubSeq(own, 1, Len(args.ids[p])) = args.ids[p]

Indices(s) == {s[k] : k \in 1 .. Len(s)}
AttemptedBy(p) == Cardinality({t \in 0 .. attempted - 1 : PolicyIndex(args, t) = p})
CompletedBy(p) == Cardinality({k \in 1 .. Len(episodes) : PolicyIndex(args, episodes[k]) = p})
FailedBy(p) == Cardinality({k \in 1 .. Len(failures) : FailureBelongsTo(failures[k], p)})

\* validate_replay_experiment_report, of the summaries of
\* build_policy_summaries.  The policy field of a failure record ends at the
\* first bar.
ReportValid ==
    /\ attempted = Len(episodes) + Len(failures)
    /\ \A p \in 1 .. Policies(args) : AttemptedBy(p) = CompletedBy(p) + FailedBy(p)
    /\ Cardinality(Indices(episodes) \cup Indices(failures)) = attempted
    /\ \A t \in Indices(episodes) \cup Indices(failures) : t < attempted
    /\ \A t \in Indices(failures) : Len(args.ids[PolicyIndex(args, t)]) = 1

\* A source without bundles is an error; otherwise the report is built and
\* validated.
Report ==
    /\ pc = "report"
    /\ pc' = IF attempted > 0 /\ ReportValid THEN "returned" ELSE "thrown"
    /\ UNCHANGED <<args, fetched, policy, next, attempted, futures, running, episodes,
                   failures>>

-----------------------------------------------------------------------------
\* run_task comes to its end in its own thread.
TaskEnds(t) ==
    /\ t \in running
    /\ running' = running \ {t}
    /\ UNCHANGED <<args, pc, fetched, policy, next, attempted, futures, episodes,
                   failures>>

CallStep ==
    \/ Begin \/ Fetch \/ FetchEnds \/ Launch \/ LaunchFails \/ RunInline
    \/ Take \/ Drained \/ Unwound \/ Report

Next == CallStep \/ \E t \in Task(args) : TaskEnds(t)

\* The threads are scheduled, and every episode is finite.
Spec == Init /\ [][Next]_vars /\ WF_vars(Next)

-----------------------------------------------------------------------------
\* What the caller sees of the call.
Outcome ==
    CASE pc = "returned" -> "returned"
      [] pc \in {"unwind", "thrown"} -> "thrown"
      [] OTHER -> "running"

Serial == INSTANCE SerialExperiment WITH outcome <- Outcome

\* The parallel experiment implements the serial one: whatever the parallelism,
\* the overload and the order in which the tasks end, the reports and the
\* failures come in the order of the tasks, each task once, nothing after the
\* failure that ends the call, and the call ends.
ImplementsSerial == Serial!Spec

\* No task outlives the call: when run_replay_experiment is left, also by an
\* exception with a batch in flight, no thread is at work.
NoneLeftBehind == pc \in Left => running = {}

\* At most par tasks are at work at a time, and when failures are not tolerated
\* fewer than par tasks are started after the first one that fails.
BoundedWaste ==
    /\ Cardinality(running) <= Parallelism(args)
    /\ \A t, u \in Task(args) :
          ~ args.keepGoing /\ ~ args.ok[u] /\ u <= t /\ t < next => t < u + Parallelism(args)

\* The validation of the finished report accepts it, with failures or without,
\* when no policy id contains a bar.
ReportAccepted == pc = "report" /\ attempted > 0 /\ PlainIds(args) => ReportValid
=============================================================================
