-------------------------- MODULE ExperimentTasks --------------------------
(***************************************************************************)
(* What run_replay_experiment of the Kikijyeba environment is called with: *)
(* the replay bundles, the policies, the options, and the outcome that     *)
(* run_task has for each pair of bundle and policy.  Tasks are numbered    *)
(* from 0, the policies of the first bundle before those of the second.    *)
(***************************************************************************)
EXTENDS Integers, Sequences

CONSTANTS Identity,   \* pairs of runtime_run_id and environment_run_id
          Invalid,    \* a bundle that does not validate, or that its source
                      \* cannot produce, or with a blank identity
          Piece,      \* the pieces of policy ids between bars
          Hardware,   \* hardware_concurrency
          ArgsOf      \* the calls, see IsCall

\* form is the overload: bundles from a vector, or from a source one by one.  A
\* bundle is its identity.  A policy id is the sequence of the pieces that the
\* bars in it separate: "a|b" is <<"a", "b">>.  jobs is max_parallel_jobs, and ok
\* the outcome of each task.
IsCall(a) ==
    /\ a.form \in {"vector", "source"}
    /\ a.jobs \in Nat
    /\ a.keepGoing \in BOOLEAN
    /\ a.bundles \in Seq(Identity \cup {Invalid})
    /\ a.ids \in Seq(Seq(Piece) \ {<<>>})
    /\ a.ok \in [0 .. Len(a.bundles) * Len(a.ids) - 1 -> BOOLEAN]

\* resolve_parallelism.
Parallelism(a) == IF a.jobs > 0 THEN a.jobs ELSE IF Hardware > 0 THEN Hardware ELSE 1

Policies(a) == Len(a.ids)
TaskCount(a) == Len(a.bundles) * Policies(a)
Task(a) == 0 .. TaskCount(a) - 1
PolicyIndex(a, t) == (t % Policies(a)) + 1

\* validate_policy_factories: at least one, and the ids differ.
FactoriesValid(a) ==
    Policies(a) > 0 /\ \A p, q \in 1 .. Policies(a) : a.ids[p] = a.ids[q] => p = q

ASSUME TasksAssumption ==
    /\ Invalid \notin Identity
    /\ Hardware \in Nat
    /\ \A a \in ArgsOf : IsCall(a) /\ FactoriesValid(a)

\* bind_experiment_identity_from_spec and validate_replay_episode_bundle: the
\* bundle is valid and of the identity of the first one.
Accepted(a, b) == a.bundles[b] # Invalid /\ a.bundles[b] = a.bundles[1]
AllAccepted(a) == \A b \in 1 .. Len(a.bundles) : Accepted(a, b)

\* No policy id contains a bar.
PlainIds(a) == \A p \in 1 .. Policies(a) : Len(a.ids[p]) = 1
=============================================================================
