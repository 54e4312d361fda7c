-------------------------- MODULE SerialExperiment --------------------------
(***************************************************************************)
(* What a replay experiment promises its caller, whatever the parallelism: *)
(* the tasks take their effect one after the other in the order of their   *)
(* numbers, each exactly once.                                             *)
(***************************************************************************)
EXTENDS ExperimentTasks

VARIABLES args,       \* the call
          episodes,   \* the tasks with a report, in the order of the reports
          failures,   \* the tasks with a failure record
          outcome     \* of the call: running, returned, thrown

serialVars == <<args, episodes, failures, outcome>>

\* Tasks handled so far, and the next one.
Handled == Len(episodes) + Len(failures)

Init ==
    /\ args \in ArgsOf
    /\ episodes = <<>> /\ failures = <<>>
    /\ outcome = "running"

\* The next task has its effect.  A failure ends the call unless
\* continue_on_failure.
Handle ==
    /\ outcome = "running" /\ Handled \in Task(args)
    /\ IF args.ok[Handled]
       THEN /\ episodes' = Append(episodes, Handled)
            /\ UNCHANGED <<failures, outcome>>
       ELSE /\ failures' = Append(failures, Handled)
            /\ outcome' = IF args.keepGoing THEN "running" ELSE "thrown"
            /\ UNCHANGED episodes
    /\ UNCHANGED args

\* A report is returned when there is nothing left to do.
Return ==
    /\ outcome = "running"
    /\ Handled = TaskCount(args) /\ Handled > 0 /\ AllAccepted(args)
    /\ outcome' = "returned"
    /\ UNCHANGED <<args, episodes, failures>>

\* The call throws for another reason than a failed task: there is no bundle, a
\* bundle is refused, no thread can be started, or the report is not accepted.
Throw ==
    /\ outcome = "running"
    /\ \/ Len(args.bundles) = 0 \/ ~ AllAccepted(args)
       \/ Parallelism(args) > 1 /\ Handled < TaskCount(args)
       \/ ~ PlainIds(args) /\ failures # <<>>
    /\ outcome' = "thrown"
    /\ UNCHANGED <<args, episodes, failures>>

Next == Handle \/ Return \/ Throw

Spec == Init /\ [][Next]_serialVars /\ WF_serialVars(Next)
=============================================================================
