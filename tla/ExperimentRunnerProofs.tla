----------------------- MODULE ExperimentRunnerProofs -----------------------
(***************************************************************************)
(* Proofs about the experiment runner, for every call: no task is left     *)
(* behind, the waste after a failure is bounded, and the parallel          *)
(* experiment implements the serial one (its safety part).                 *)
(***************************************************************************)
EXTENDS ExperimentRunner, FiniteSetTheorems, FunctionTheorems, TLAPS

Handled == Len(episodes) + Len(failures)

Over == pc \in {"unwind", "thrown"}

\* The futures are those of the tasks after the handled ones, in order, and no
\* other task is at work.
InOrder == \A k \in 1 .. Len(futures) : futures[k] = Handled + k - 1

InvFutures ==
    /\ InOrder
    /\ running \subseteq Indices(futures)
    /\ Handled + Len(futures) <= next
    /\ next <= Handled + Parallelism(args)
    /\ ~ Over => next = Handled + Len(futures)
    /\ Len(futures) <= Parallelism(args)
    /\ pc \in {"begin", "fetch", "launch"} => Len(futures) < Parallelism(args)
    /\ pc \in {"report", "returned", "thrown"} => futures = <<>>

\* Where the two overloads stand in their loops.
InvVector ==
    args.form = "vector" /\ pc # "begin" /\ ~ Over =>
        /\ pc \notin {"fetch", "final"}
        /\ attempted = TaskCount(args)
        /\ Len(args.bundles) > 0
        /\ AllAccepted(args)
        /\ pc \in {"report", "returned"} => next = TaskCount(args)

\* The tasks of the bundles fetched so far, which were all accepted.
Fetched == fetched * Policies(args)
FetchedAccepted == \A b \in 1 .. fetched : Accepted(args, b)

InvSource ==
    args.form = "source" =>
        /\ attempted = next
        /\ fetched = 0 => next = 0
        /\ fetched > 0 => next + Policies(args) = Fetched + policy
        /\ pc \in {"launch", "drain"} => fetched > 0
        /\ pc = "fetch" /\ fetched > 0 => policy = Policies(args)
        /\ pc = "launch" => policy < Policies(args)
        /\ pc \in {"final", "report", "returned"} =>
              fetched = Len(args.bundles) /\ next = TaskCount(args)
        /\ ~ Over => FetchedAccepted

InvPlace ==
    /\ pc = "begin" => next = 0 /\ attempted = 0 /\ fetched = 0 /\ policy = 0
    /\ pc = "launch" => next < TaskCount(args)
    /\ InvVector
    /\ InvSource

\* A list without repetitions; a list of tasks below t.
Distinct(s) == \A j, k \in 1 .. Len(s) : s[j] = s[k] => j = k
Below(s, t) == \A k \in 1 .. Len(s) : s[k] < t

\* The tasks handled are the first ones, each in the list its outcome says.
InvLists ==
    /\ \A k \in 1 .. Len(episodes) : episodes[k] < Handled /\ args.ok[episodes[k]]
    /\ \A k \in 1 .. Len(failures) : failures[k] < Handled /\ ~ args.ok[failures[k]]
    /\ Distinct(episodes)
    /\ Distinct(failures)
    /\ \A t \in 0 .. Handled - 1 : t \in Indices(episodes) \cup Indices(failures)
    /\ ~ Over /\ ~ args.keepGoing => failures = <<>>

\* Few tasks were reached after a failure that ended the call.
InvWaste ==
    ~ args.keepGoing => \A u \in Indices(failures) : next <= u + Parallelism(args)

IInv == TypeOK /\ InvFutures /\ InvPlace /\ InvLists /\ InvWaste

-----------------------------------------------------------------------------
\* What is assumed of a call, in terms of the operators of ExperimentTasks.
LEMMA CallFacts ==
    ASSUME NEW a \in ArgsOf
    PROVE  /\ a.form \in {"vector", "source"}
           /\ a.keepGoing \in BOOLEAN
           /\ Policies(a) \in Nat \ {0}
           /\ Len(a.bundles) \in Nat
           /\ TaskCount(a) \in Nat
           /\ TaskCount(a) = Len(a.bundles) * Policies(a)
           /\ Parallelism(a) \in Nat \ {0}
           /\ a.ok \in [Task(a) -> BOOLEAN]
  <1>1. IsCall(a) /\ FactoriesValid(a) /\ Hardware \in Nat
    BY TasksAssumption
  <1>2. Len(a.bundles) \in Nat /\ Len(a.ids) \in Nat
    BY <1>1 DEF IsCall
  <1>3. Policies(a) \in Nat \ {0}
    BY <1>1, <1>2 DEF FactoriesValid, Policies
  <1>4. TaskCount(a) \in Nat /\ TaskCount(a) = Len(a.bundles) * Policies(a)
    BY <1>2, <1>3 DEF TaskCount
  <1>5. Parallelism(a) \in Nat \ {0}
    BY <1>1 DEF Parallelism, IsCall
  <1>6. a.ok \in [Task(a) -> BOOLEAN]
    BY <1>1 DEF IsCall, Task, TaskCount, Policies
  <1> QED
    BY <1>1, <1>2, <1>3, <1>4, <1>5, <1>6 DEF IsCall

\* One more bundle is as many more tasks as there are policies.
LEMMA OneMoreBundle ==
    ASSUME NEW f \in Nat, NEW p \in Nat
    PROVE  (f + 1) * p = f * p + p
  OBVIOUS

\* The tasks of the bundles fetched so far are tasks of the call.
LEMMA FetchedTasks ==
    ASSUME NEW f \in Nat, NEW n \in Nat, NEW p \in Nat, f <= n
    PROVE  f * p <= n * p
  OBVIOUS

\* A call with a bundle has a task.
LEMMA SomeTask ==
    ASSUME NEW n \in Nat \ {0}, NEW p \in Nat \ {0}
    PROVE  n * p > 0
  OBVIOUS

\* No task is at work before the call.
LEMMA InitInv == Init => IInv
  <1> SUFFICES ASSUME Init PROVE IInv
    OBVIOUS
  <1>1. TypeOK
    BY CallFacts DEF Init, TypeOK, PC, Left
  <1>2. InvFutures
    BY CallFacts DEF Init, InvFutures, InOrder, Handled, Over, Indices
  <1>3. InvPlace
    BY CallFacts DEF Init, InvPlace, InvVector, InvSource, FetchedAccepted, Over
  <1>4. InvLists /\ InvWaste
    BY DEF Init, InvLists, InvWaste, Handled, Over, Indices, Distinct
  <1> QED
    BY <1>1, <1>2, <1>3, <1>4 DEF IInv

\* What is in a list after t is appended.
LEMMA AppendIndices ==
    ASSUME NEW S, NEW s \in Seq(S), NEW t \in S
    PROVE  Indices(Append(s, t)) = Indices(s) \cup {t}
  <1> DEFINE r == Append(s, t)
  <1>1. /\ Len(s) \in Nat /\ Len(r) = Len(s) + 1 /\ r[Len(s) + 1] = t
        /\ \A k \in 1 .. Len(s) : r[k] = s[k]
    OBVIOUS
  <1> HIDE DEF r
  <1>2. Indices(r) \subseteq Indices(s) \cup {t}
    BY <1>1 DEF Indices
  <1>3. (\A k \in 1 .. Len(s) : s[k] \in Indices(r)) /\ t \in Indices(r)
    BY <1>1 DEF Indices
  <1>4. Indices(r) = Indices(s) \cup {t}
    BY <1>2, <1>3 DEF Indices
  <1> QED
    BY <1>4 DEF r

\* A list of tasks below t stays one without repetitions when t is appended.
LEMMA AppendNew ==
    ASSUME NEW S, S \subseteq Nat, NEW s \in Seq(S), NEW t \in S,
           Below(s, t), Distinct(s), NEW r, r = Append(s, t)
    PROVE  /\ r \in Seq(S)
           /\ Len(r) = Len(s) + 1
           /\ Distinct(r)
  <1>0. \A x, y \in Nat : x < y => x # y
    OBVIOUS
  <1>1. /\ Len(s) \in Nat /\ r \in Seq(S) /\ Len(r) = Len(s) + 1 /\ r[Len(s) + 1] = t
        /\ \A k \in 1 .. Len(s) : r[k] = s[k] /\ s[k] \in S
    OBVIOUS
  <1>3. Distinct(r)
    <2> SUFFICES ASSUME NEW j \in 1 .. Len(r), NEW k \in 1 .. Len(r), r[j] = r[k]
                 PROVE  j = k
      BY DEF Distinct
    <2>1. CASE j <= Len(s) /\ k <= Len(s)
      BY <1>1, <2>1 DEF Distinct
    <2>2. CASE j <= Len(s) /\ k > Len(s)
      <3>1. r[j] = s[j] /\ s[j] < t /\ s[j] \in Nat /\ r[k] = t /\ t \in Nat
        BY <1>1, <2>2 DEF Below
      <3> QED
        BY <1>0, <3>1, Zenon
    <2>3. CASE j > Len(s) /\ k <= Len(s)
      <3>1. r[k] = s[k] /\ s[k] < t /\ s[k] \in Nat /\ r[j] = t /\ t \in Nat
        BY <1>1, <2>3 DEF Below
      <3> QED
        BY <1>0, <3>1, Zenon
    <2>4. CASE j > Len(s) /\ k > Len(s)
      BY <1>1, <2>4
    <2> QED
      BY <1>1, <2>1, <2>2, <2>3, <2>4
  <1> QED
    BY <1>1, <1>3

\* The conjuncts of InvLists in terms of the sets of the tasks in the lists.
LEMMA ListsAsSets ==
    InvLists <=>
        /\ \A u \in Indices(episodes) : u < Handled /\ args.ok[u]
        /\ \A u \in Indices(failures) : u < Handled /\ ~ args.ok[u]
        /\ Distinct(episodes)
        /\ Distinct(failures)
        /\ \A t \in 0 .. Handled - 1 : t \in Indices(episodes) \cup Indices(failures)
        /\ ~ Over /\ ~ args.keepGoing => failures = <<>>
  <1>1. (\A k \in 1 .. Len(episodes) : episodes[k] < Handled /\ args.ok[episodes[k]])
        <=> \A u \in Indices(episodes) : u < Handled /\ args.ok[u]
    BY DEF Indices
  <1>2. (\A k \in 1 .. Len(failures) : failures[k] < Handled /\ ~ args.ok[failures[k]])
        <=> \A u \in Indices(failures) : u < Handled /\ ~ args.ok[u]
    BY DEF Indices
  <1> QED
    BY <1>1, <1>2 DEF InvLists

\* handle_result of the first task not handled keeps the lists in order.
LEMMA HandleKeepsLists ==
    ASSUME IInv, NEW t \in Task(args), NEW to \in PC, t = Handled,
           HandleResult(t, to), args' = args, to \notin {"unwind", "thrown"}, ~ Over,
           next' <= t + Parallelism(args)
    PROVE  /\ InvLists' /\ InvWaste'
           /\ Handled' = Handled + 1
           /\ episodes' \in Seq(Task(args))
           /\ failures' \in Seq(Task(args))
           /\ pc' \in {to, "unwind"}
  <1>1. /\ episodes \in Seq(Task(args)) /\ failures \in Seq(Task(args))
        /\ Len(episodes) \in Nat /\ Len(failures) \in Nat /\ args \in ArgsOf
        /\ Task(args) \subseteq Nat /\ t \in Nat
    BY CallFacts DEF IInv, TypeOK, Task
  <1>1a. Indices(episodes) \subseteq Nat /\ Indices(failures) \subseteq Nat
    BY <1>1 DEF Indices
  <1>2. args.ok[t] \in BOOLEAN /\ args.keepGoing \in BOOLEAN
    BY <1>1, CallFacts
  <1>3. /\ \A u \in Indices(episodes) : u < Handled /\ args.ok[u]
        /\ \A u \in Indices(failures) : u < Handled /\ ~ args.ok[u]
        /\ Distinct(episodes)
        /\ Distinct(failures)
        /\ \A u \in 0 .. Handled - 1 : u \in Indices(episodes) \cup Indices(failures)
        /\ ~ args.keepGoing => failures = <<>>
    BY ListsAsSets DEF IInv
  <1>4. Below(episodes, t) /\ Below(failures, t)
    BY DEF IInv, InvLists, Below
  <1>5. CASE args.ok[t]
    <2>1. episodes' = Append(episodes, t) /\ failures' = failures /\ pc' = to
      BY <1>5 DEF HandleResult
    <2>2. /\ episodes' \in Seq(Task(args)) /\ Len(episodes') = Len(episodes) + 1
          /\ Distinct(episodes')
          /\ Indices(episodes') = Indices(episodes) \cup {t}
      <3>1. /\ Task(args) \subseteq Nat /\ episodes \in Seq(Task(args)) /\ t \in Task(args)
            /\ episodes' = Append(episodes, t)
        BY <1>1, <2>1
      <3>2. Below(episodes, t) /\ Distinct(episodes)
        BY <1>3, <1>4
      <3>3. episodes' \in Seq(Task(args)) /\ Len(episodes') = Len(episodes) + 1
        BY <3>1
      <3>4. Distinct(episodes')
        BY <3>1, <3>2, AppendNew
      <3>5. Indices(Append(episodes, t)) = Indices(episodes) \cup {t}
        BY <3>1, AppendIndices
      <3> QED
        BY <3>1, <3>3, <3>4, <3>5
    <2>3. Handled' = Handled + 1
      BY <1>1, <2>1, <2>2 DEF Handled
    <2>4. /\ \A u \in Indices(episodes') : u < Handled' /\ args'.ok[u]
          /\ \A u \in Indices(failures') : u < Handled' /\ ~ args'.ok[u]
          /\ \A u \in 0 .. Handled' - 1 : u \in Indices(episodes') \cup Indices(failures')
      BY <1>1, <1>3, <1>5, <1>1a, <2>1, <2>2, <2>3
    <2>5. ~ Over' /\ ~ args'.keepGoing => failures' = <<>>
      BY <1>3, <2>1
    <2>6. InvLists'
      BY <1>3, <2>1, <2>2, <2>4, <2>5 DEF InvLists, Indices
    <2>7. InvWaste'
      BY <1>3, <2>1 DEF InvWaste, Indices
    <2> QED
      BY <1>1, <2>1, <2>2, <2>3, <2>6, <2>7
  <1>6. CASE ~ args.ok[t]
    <2>1. /\ failures' = Append(failures, t) /\ episodes' = episodes
          /\ pc' = IF args.keepGoing THEN to ELSE "unwind"
      BY <1>6 DEF HandleResult
    <2>2. /\ failures' \in Seq(Task(args)) /\ Len(failures') = Len(failures) + 1
          /\ Distinct(failures')
          /\ Indices(failures') = Indices(failures) \cup {t}
      <3>1. /\ Task(args) \subseteq Nat /\ failures \in Seq(Task(args)) /\ t \in Task(args)
            /\ failures' = Append(failures, t)
        BY <1>1, <2>1
      <3>2. Below(failures, t) /\ Distinct(failures)
        BY <1>3, <1>4
      <3>3. failures' \in Seq(Task(args)) /\ Len(failures') = Len(failures) + 1
        BY <3>1
      <3>4. Distinct(failures')
        BY <3>1, <3>2, AppendNew
      <3>5. Indices(Append(failures, t)) = Indices(failures) \cup {t}
        BY <3>1, AppendIndices
      <3> QED
        BY <3>1, <3>3, <3>4, <3>5
    <2>3. Handled' = Handled + 1
      BY <1>1, <2>1, <2>2 DEF Handled
    <2>4. /\ \A u \in Indices(episodes') : u < Handled' /\ args'.ok[u]
          /\ \A u \in Indices(failures') : u < Handled' /\ ~ args'.ok[u]
          /\ \A u \in 0 .. Handled' - 1 : u \in Indices(episodes') \cup Indices(failures')
      BY <1>1, <1>3, <1>6, <1>1a, <2>1, <2>2, <2>3
    <2>5. ~ Over' /\ ~ args'.keepGoing => failures' = <<>>
      BY <2>1 DEF Over
    <2>6. InvLists'
      BY <1>3, <2>1, <2>2, <2>4, <2>5 DEF InvLists, Indices
    <2>7. InvWaste'
      <3> SUFFICES ASSUME ~ args.keepGoing, NEW u \in Indices(failures')
                   PROVE  next' <= u + Parallelism(args)
        BY DEF InvWaste
      <3>1. u = t
        BY <1>3, <2>2 DEF Indices
      <3> QED
        BY <3>1
    <2> QED
      BY <1>1, <1>2, <2>1, <2>2, <2>3, <2>6, <2>7
  <1> QED
    BY <1>2, <1>5, <1>6

\* A step that handles no result keeps the lists.
LEMMA ListsKept ==
    ASSUME IInv, UNCHANGED <<args, episodes, failures>>, Over => Over',
           next' = next \/ ~ Over
    PROVE  InvLists' /\ InvWaste' /\ Handled' = Handled
  <1>1. InvLists' /\ Handled' = Handled
    BY DEF IInv, InvLists, Handled, Indices
  <1>2. next' = next => InvWaste'
    BY DEF IInv, InvWaste
  <1>3. ~ Over => InvWaste'
    BY DEF IInv, InvLists, InvWaste, Indices
  <1> QED
    BY <1>1, <1>2, <1>3

\* The next task is reached from launch: it is a task of the call, and the loops
\* stay in step.
LEMMA ReachFacts ==
    ASSUME IInv, pc = "launch", Reach, args' = args, fetched' = fetched
    PROVE  /\ next \in Task(args) /\ next' = next + 1
           /\ next' \in 0 .. TaskCount(args)
           /\ policy' \in 0 .. Policies(args)
           /\ attempted' \in 0 .. TaskCount(args)
           /\ args.form = "vector" => attempted' = attempted /\ policy' = policy
           /\ args.form = "source" =>
                 /\ attempted' = next' /\ policy' = policy + 1 /\ fetched > 0
                 /\ next' + Policies(args) = Fetched + policy'
  <1>1. /\ args \in ArgsOf /\ next \in Nat /\ next < TaskCount(args) /\ policy \in Nat
        /\ attempted \in 0 .. TaskCount(args) /\ fetched \in Nat
        /\ policy \in 0 .. Policies(args)
    BY DEF IInv, TypeOK, InvPlace
  <1>2. /\ args.form \in {"vector", "source"} /\ TaskCount(args) \in Nat
        /\ Policies(args) \in Nat \ {0}
    BY <1>1, CallFacts
  <1>3. next \in Task(args) /\ next' = next + 1 /\ next' \in 0 .. TaskCount(args)
    BY <1>1, <1>2 DEF Reach, Task
  <1>4. CASE args.form = "vector"
    BY <1>1, <1>2, <1>3, <1>4 DEF Reach
  <1>5. CASE args.form = "source"
    <2>1. /\ attempted = next /\ fetched > 0 /\ policy < Policies(args)
          /\ next + Policies(args) = Fetched + policy
      BY <1>5 DEF IInv, InvPlace, InvSource
    <2>2. attempted' = attempted + 1 /\ policy' = policy + 1
      BY <1>5 DEF Reach
    <2>3. Fetched \in Nat
      BY <1>1, <1>2 DEF Fetched
    <2> QED
      BY <1>1, <1>2, <1>3, <1>5, <2>1, <2>2, <2>3
  <1> QED
    BY <1>2, <1>4, <1>5

\* Where the calling thread goes on is consistent with its loops.
LEMMA OnwardPlace ==
    ASSUME NEW q \in Nat, NEW n \in Nat, args \in ArgsOf, n <= TaskCount(args),
           q <= Policies(args), fetched \in 0 .. Len(args.bundles),
           args.form = "source" =>
               fetched > 0 /\ n + Policies(args) = Fetched + q
    PROVE  /\ Onward(q, n) \in {"launch", "report", "fetch"}
           /\ Onward(q, n) = "launch" => n < TaskCount(args)
           /\ Onward(q, n) = "report" => args.form = "vector" /\ n = TaskCount(args)
           /\ Onward(q, n) = "fetch" => args.form = "source" /\ q = Policies(args)
           /\ Onward(q, n) = "launch" /\ args.form = "source" => q < Policies(args)
  <1>1. /\ args.form \in {"vector", "source"} /\ TaskCount(args) \in Nat
        /\ Policies(args) \in Nat \ {0} /\ Len(args.bundles) \in Nat
        /\ TaskCount(args) = Len(args.bundles) * Policies(args)
    BY CallFacts
  <1>2. CASE args.form = "vector"
    BY <1>1, <1>2 DEF Onward
  <1>3. CASE args.form = "source"
    <2>1. Onward(q, n) = IF q < Policies(args) THEN "launch" ELSE "fetch"
      BY <1>3 DEF Onward
    <2>2. Fetched <= TaskCount(args) /\ Fetched \in Nat
      BY <1>1, FetchedTasks DEF Fetched
    <2>3. q < Policies(args) => n < TaskCount(args)
      BY <1>1, <1>3, <2>2
    <2> QED
      BY <1>1, <1>3, <2>1, <2>3
  <1> QED
    BY <1>1, <1>2, <1>3

-----------------------------------------------------------------------------
\* The parts of IInv, spelled out for the steps below.
LEMMA Parts ==
    ASSUME IInv
    PROVE  /\ args \in ArgsOf /\ pc \in PC
           /\ fetched \in 0 .. Len(args.bundles) /\ fetched \in Nat
           /\ policy \in 0 .. Policies(args) /\ policy \in Nat
           /\ next \in 0 .. TaskCount(args) /\ next \in Nat
           /\ attempted \in 0 .. TaskCount(args) /\ attempted \in Nat
           /\ futures \in Seq(Task(args)) /\ Len(futures) \in Nat
           /\ running \in SUBSET Task(args)
           /\ episodes \in Seq(Task(args)) /\ failures \in Seq(Task(args))
           /\ Len(episodes) \in Nat /\ Len(failures) \in Nat /\ Handled \in Nat
           /\ args.form \in {"vector", "source"} /\ args.keepGoing \in BOOLEAN
           /\ Policies(args) \in Nat \ {0} /\ Parallelism(args) \in Nat \ {0}
           /\ TaskCount(args) \in Nat /\ Len(args.bundles) \in Nat
  <1>1. TypeOK
    BY DEF IInv
  <1>2. args \in ArgsOf
    BY <1>1 DEF TypeOK
  <1>3. /\ args.form \in {"vector", "source"} /\ args.keepGoing \in BOOLEAN
        /\ Policies(args) \in Nat \ {0} /\ Parallelism(args) \in Nat \ {0}
        /\ TaskCount(args) \in Nat /\ Len(args.bundles) \in Nat
    BY <1>2, CallFacts
  <1>4. /\ pc \in PC
        /\ fetched \in 0 .. Len(args.bundles) /\ fetched \in Nat
        /\ policy \in 0 .. Policies(args) /\ policy \in Nat
        /\ next \in 0 .. TaskCount(args) /\ next \in Nat
        /\ attempted \in 0 .. TaskCount(args) /\ attempted \in Nat
    BY <1>1, <1>3 DEF TypeOK
  <1>5. /\ futures \in Seq(Task(args)) /\ Len(futures) \in Nat
        /\ running \in SUBSET Task(args)
        /\ episodes \in Seq(Task(args)) /\ failures \in Seq(Task(args))
        /\ Len(episodes) \in Nat /\ Len(failures) \in Nat
    BY <1>1 DEF TypeOK
  <1>6. Handled \in Nat
    BY <1>5 DEF Handled
  <1> QED
    BY <1>2, <1>3, <1>4, <1>5, <1>6

\* A call begins with no task started and no failure.
LEMMA BeginInv == IInv /\ Begin => IInv'
  <1> SUFFICES ASSUME IInv, Begin PROVE IInv'
    OBVIOUS
  <1>1. /\ UNCHANGED <<args, policy, next, futures, running, episodes, failures>>
        /\ pc = "begin" /\ next = 0 /\ attempted = 0 /\ fetched = 0 /\ policy = 0
    BY DEF Begin, IInv, InvPlace
  <1>2. \/ /\ args.form = "vector" /\ Len(args.bundles) > 0 /\ AllAccepted(args)
           /\ pc' = "launch" /\ fetched' = Len(args.bundles) /\ attempted' = TaskCount(args)
        \/ /\ args.form = "vector" /\ pc' = "thrown" /\ fetched' = Len(args.bundles)
           /\ attempted' = 0
        \/ args.form = "source" /\ pc' = "fetch" /\ fetched' = 0 /\ attempted' = 0
    BY <1>1, Parts DEF Begin
  <1>3. TypeOK'
    BY <1>1, <1>2, Parts DEF TypeOK, PC, Left
  <1>4. InvLists' /\ InvWaste' /\ Handled' = Handled
    BY <1>1, ListsKept DEF Over
  <1>5. InvFutures'
    <2>1. Len(futures) = 0 /\ Handled = 0
      BY <1>1, Parts DEF IInv, InvFutures, Over
    <2>2. futures = <<>>
      BY <2>1, Parts
    <2> QED
      BY <1>1, <1>2, <1>4, <2>1, <2>2, Parts DEF IInv, InvFutures, InOrder, Over
  <1>6. InvPlace'
    <2>1. Len(args.bundles) > 0 => TaskCount(args) > 0
      BY Parts, CallFacts, SomeTask
    <2> QED
      BY <1>1, <1>2, <2>1, Parts DEF InvPlace, InvVector, InvSource, Over, FetchedAccepted
  <1> QED
    BY <1>3, <1>4, <1>5, <1>6 DEF IInv

\* A bundle fetched starts no task.
LEMMA FetchInv == IInv /\ Fetch => IInv'
  <1> SUFFICES ASSUME IInv, Fetch PROVE IInv'
    OBVIOUS
  <1>1. /\ UNCHANGED <<args, next, attempted, futures, running, episodes, failures>>
        /\ pc = "fetch" /\ fetched < Len(args.bundles) /\ fetched' = fetched + 1
        /\ policy' = 0
        /\ \/ pc' = "launch" /\ Accepted(args, fetched + 1)
           \/ pc' = "unwind"
    BY DEF Fetch
  <1>2. TypeOK'
    BY <1>1, Parts DEF TypeOK, PC, Left
  <1>3. InvLists' /\ InvWaste' /\ Handled' = Handled
    BY <1>1, ListsKept DEF Over
  <1>4. InvFutures'
    BY <1>1, <1>3 DEF IInv, InvFutures, InOrder, Over
  <1>5. InvPlace'
    <2>1. args.form = "source"
      BY <1>1, Parts DEF IInv, InvPlace, InvVector, Over
    <2>2. /\ attempted = next /\ (fetched = 0 => next = 0)
          /\ fetched > 0 => next + Policies(args) = Fetched + Policies(args)
          /\ FetchedAccepted
      BY <1>1, <2>1 DEF IInv, InvPlace, InvSource, Over
    <2>3. Fetched \in Nat /\ (fetched = 0 => Fetched = 0)
      BY Parts DEF Fetched
    <2>3a. Fetched' = Fetched + Policies(args)
      BY <1>1, Parts, OneMoreBundle DEF Fetched
    <2>4. Fetched' <= TaskCount(args)
      <3>1. /\ fetched' \in Nat /\ fetched' <= Len(args.bundles) /\ Len(args.bundles) \in Nat
            /\ Policies(args) \in Nat
        BY <1>1, Parts
      <3>2. TaskCount(args) = Len(args.bundles) * Policies(args)
        BY Parts, CallFacts
      <3>3. Fetched' = fetched' * Policies(args)
        BY <1>1 DEF Fetched
      <3> QED
        BY <3>1, <3>2, <3>3, FetchedTasks
    <2>5. next + Policies(args) = Fetched' /\ next < TaskCount(args)
      BY <2>2, <2>3, <2>4, <2>3a, Parts
    <2>6. pc' = "launch" => FetchedAccepted'
      BY <1>1, <2>2, Parts DEF FetchedAccepted
    <2>7. next' + Policies(args') = Fetched' + policy'
      BY <1>1, <2>5, Parts
    <2>8. InvSource'
      BY <1>1, <2>2, <2>6, <2>7, Parts DEF InvSource, Over
    <2> QED
      BY <1>1, <2>1, <2>5, <2>8 DEF InvPlace, InvVector
  <1> QED
    BY <1>2, <1>3, <1>4, <1>5 DEF IInv

\* The end of the bundles leaves the tasks as they are.
LEMMA FetchEndsInv == IInv /\ FetchEnds => IInv'
  <1> SUFFICES ASSUME IInv, FetchEnds PROVE IInv'
    OBVIOUS
  <1>1. /\ UNCHANGED <<args, fetched, policy, next, attempted, futures, running, episodes,
                      failures>>
        /\ pc = "fetch" /\ fetched = Len(args.bundles) /\ pc' = "final"
    BY DEF FetchEnds
  <1>2. TypeOK'
    BY <1>1, Parts DEF TypeOK, PC, Left
  <1>3. InvLists' /\ InvWaste' /\ Handled' = Handled
    BY <1>1, ListsKept DEF Over
  <1>4. InvFutures'
    BY <1>1, <1>3 DEF IInv, InvFutures, InOrder, Over
  <1>5. InvPlace'
    <2>1. args.form = "source"
      BY <1>1, Parts DEF IInv, InvPlace, InvVector, Over
    <2>2. next = TaskCount(args)
      <3>1. TaskCount(args) = fetched * Policies(args) /\ Fetched = TaskCount(args)
        BY <1>1, Parts, CallFacts DEF Fetched
      <3>2. CASE fetched = 0
        <4>1. next = 0 /\ Policies(args) \in Nat
          BY <2>1, <3>2, Parts DEF IInv, InvPlace, InvSource
        <4> QED
          BY <3>1, <3>2, <4>1
      <3>3. CASE fetched > 0
        <4>1. next + Policies(args) = Fetched + policy /\ policy = Policies(args)
          BY <1>1, <2>1, <3>3 DEF IInv, InvPlace, InvSource
        <4>2. next \in Nat /\ Policies(args) \in Nat /\ TaskCount(args) \in Nat
          BY Parts
        <4> QED
          BY <3>1, <4>1, <4>2
      <3> QED
        BY <3>2, <3>3, Parts
    <2> QED
      BY <1>1, <2>1, <2>2
      DEF IInv, InvPlace, InvVector, InvSource, Fetched, FetchedAccepted, Over
  <1> QED
    BY <1>2, <1>3, <1>4, <1>5 DEF IInv

\* A launch adds one future and one task at work, within the parallelism.
LEMMA LaunchInv == IInv /\ Launch => IInv'
  <1> SUFFICES ASSUME IInv, Launch PROVE IInv'
    OBVIOUS
  <1>1. /\ UNCHANGED <<args, fetched, episodes, failures>>
        /\ pc = "launch" /\ Reach /\ futures' = Append(futures, next)
        /\ running' = running \cup {next}
        /\ pc' = AfterLaunch(policy', next', Len(futures'))
    BY DEF Launch
  <1>2. /\ next \in Task(args) /\ next' = next + 1
        /\ next' \in 0 .. TaskCount(args)
        /\ policy' \in 0 .. Policies(args)
        /\ attempted' \in 0 .. TaskCount(args)
        /\ args.form = "vector" => attempted' = attempted /\ policy' = policy
        /\ args.form = "source" =>
              /\ attempted' = next' /\ policy' = policy + 1 /\ fetched > 0
              /\ next' + Policies(args) = Fetched + policy'
    BY <1>1, ReachFacts
  <1>3. /\ futures' \in Seq(Task(args)) /\ Len(futures') = Len(futures) + 1
        /\ futures'[Len(futures) + 1] = next
        /\ \A k \in 1 .. Len(futures) : futures'[k] = futures[k]
    BY <1>1, <1>2, Parts
  <1>4. \/ pc' = "drain"
        \/ pc' = Onward(policy', next') /\ Len(futures') < Parallelism(args)
           /\ ~ (args.form = "vector" /\ next' = TaskCount(args))
    BY <1>1, <1>3, Parts DEF AfterLaunch
  <1>5. /\ Onward(policy', next') \in {"launch", "report", "fetch"}
        /\ Onward(policy', next') = "launch" => next' < TaskCount(args)
        /\ Onward(policy', next') = "report" => args.form = "vector" /\ next' = TaskCount(args)
        /\ Onward(policy', next') = "fetch" => args.form = "source" /\ policy' = Policies(args)
        /\ Onward(policy', next') = "launch" /\ args.form = "source" => policy' < Policies(args)
    BY <1>2, Parts, OnwardPlace
  <1>6. pc' \in {"drain", "launch", "fetch"}
    BY <1>4, <1>5
  <1>7. TypeOK'
    BY <1>1, <1>2, <1>3, <1>6, Parts DEF TypeOK, PC, Left
  <1>8. InvLists' /\ InvWaste' /\ Handled' = Handled
    BY <1>1, ListsKept DEF Over
  <1>9. InvFutures'
    <2>1. next = Handled + Len(futures) /\ Len(futures) < Parallelism(args)
      BY <1>1 DEF IInv, InvFutures, Over
    <2>2. InOrder'
      <3> SUFFICES ASSUME NEW k \in 1 .. Len(futures') PROVE futures'[k] = Handled' + k - 1
        BY DEF InOrder
      <3>1. CASE k \in 1 .. Len(futures)
        BY <1>3, <1>8, <3>1 DEF IInv, InvFutures, InOrder
      <3>2. CASE k = Len(futures) + 1
        BY <1>3, <1>8, <2>1, <3>2, Parts
      <3> QED
        BY <1>3, <3>1, <3>2, Parts
    <2>3. Indices(futures') = Indices(futures) \cup {next}
      BY <1>1, <1>2, Parts, AppendIndices
    <2>4. running' \subseteq Indices(futures')
      BY <1>1, <2>3 DEF IInv, InvFutures
    <2>0. Handled \in Nat /\ Len(futures) \in Nat /\ Parallelism(args) \in Nat
      BY Parts
    <2>5. /\ next' = Handled' + Len(futures')
          /\ Len(futures') <= Parallelism(args)
          /\ Handled' + Len(futures') <= next'
          /\ next' <= Handled' + Parallelism(args)
      BY <1>2, <1>3, <1>8, <2>0, <2>1
    <2>6. pc' \in {"begin", "fetch", "launch"} => Len(futures') < Parallelism(args)
      BY <1>4
    <2> QED
      BY <1>1, <1>6, <2>2, <2>4, <2>5, <2>6 DEF InvFutures, Over
  <1>10. InvPlace'
    <2>1. (args.form = "source" => FetchedAccepted') /\ Fetched' = Fetched
      BY <1>1 DEF IInv, InvPlace, InvSource, FetchedAccepted, Fetched, Over
    <2>2. InvSource'
      <3> SUFFICES ASSUME args.form = "source" PROVE InvSource'
        BY <1>1 DEF InvSource
      <3>1. /\ attempted' = next' /\ fetched' # 0 /\ fetched' > 0 /\ args' = args
            /\ next' + Policies(args) = Fetched' + policy'
            /\ FetchedAccepted'
        BY <1>1, <1>2, <2>1, Parts
      <3>2. /\ pc' \notin {"final", "report", "returned"}
            /\ pc' = "fetch" => policy' = Policies(args)
            /\ pc' = "launch" => policy' < Policies(args)
        BY <1>1, <1>2, <1>4, <1>5, <1>6
      <3> QED
        BY <3>1, <3>2 DEF InvSource
    <2>3. InvVector'
      BY <1>1, <1>2, <1>4, <1>5, <1>6, Parts DEF IInv, InvPlace, InvVector, Over
    <2> QED
      BY <1>1, <1>2, <1>4, <1>5, <1>6, <2>2, <2>3 DEF InvPlace
  <1> QED
    BY <1>7, <1>8, <1>9, <1>10 DEF IInv

\* A launch that throws leaves the tasks at work to the unwinding.
LEMMA LaunchFailsInv == IInv /\ LaunchFails => IInv'
  <1> SUFFICES ASSUME IInv, LaunchFails PROVE IInv'
    OBVIOUS
  <1>1. /\ UNCHANGED <<args, fetched, futures, running, episodes, failures>>
        /\ pc = "launch" /\ Reach /\ pc' = "unwind"
    BY DEF LaunchFails
  <1>2. /\ next \in Task(args) /\ next' = next + 1
        /\ next' \in 0 .. TaskCount(args)
        /\ policy' \in 0 .. Policies(args)
        /\ attempted' \in 0 .. TaskCount(args)
        /\ args.form = "source" =>
              /\ attempted' = next' /\ policy' = policy + 1 /\ fetched > 0
              /\ next' + Policies(args) = Fetched + policy'
    BY <1>1, ReachFacts
  <1>3. TypeOK'
    BY <1>1, <1>2, Parts DEF TypeOK, PC, Left
  <1>4. InvLists' /\ InvWaste' /\ Handled' = Handled
    BY <1>1, ListsKept DEF Over
  <1>5. InvFutures'
    <2>1. InOrder' /\ running' \subseteq Indices(futures')
      BY <1>1, <1>4 DEF IInv, InvFutures, InOrder
    <2>2. next = Handled + Len(futures) /\ Len(futures) < Parallelism(args)
      BY <1>1 DEF IInv, InvFutures, Over
    <2>0. Handled \in Nat /\ Len(futures) \in Nat /\ Parallelism(args) \in Nat
      BY Parts
    <2>3. /\ Handled' + Len(futures') <= next'
          /\ next' <= Handled' + Parallelism(args)
          /\ Len(futures') <= Parallelism(args)
      BY <1>1, <1>2, <1>4, <2>0, <2>2
    <2> QED
      BY <1>1, <2>1, <2>3 DEF InvFutures, Over
  <1>6. InvPlace'
    <2>1. Fetched' = Fetched
      BY <1>1 DEF Fetched
    <2> QED
      BY <1>1, <1>2, <2>1, Parts DEF InvPlace, InvVector, InvSource, Over
  <1> QED
    BY <1>3, <1>4, <1>5, <1>6 DEF IInv

\* A task run inline leaves no future.
LEMMA RunInlineInv == IInv /\ RunInline => IInv'
  <1> SUFFICES ASSUME IInv, RunInline PROVE IInv'
    OBVIOUS
  <1>1. /\ UNCHANGED <<args, fetched, futures, running>>
        /\ pc = "launch" /\ Reach /\ Parallelism(args) = 1
        /\ HandleResult(next, Onward(policy', next'))
    BY DEF RunInline
  <1>2. /\ next \in Task(args) /\ next' = next + 1
        /\ next' \in 0 .. TaskCount(args)
        /\ policy' \in 0 .. Policies(args)
        /\ attempted' \in 0 .. TaskCount(args)
        /\ args.form = "vector" => attempted' = attempted /\ policy' = policy
        /\ args.form = "source" =>
              /\ attempted' = next' /\ policy' = policy + 1 /\ fetched > 0
              /\ next' + Policies(args) = Fetched + policy'
    BY <1>1, ReachFacts
  <1>3. /\ Onward(policy', next') \in {"launch", "report", "fetch"}
        /\ Onward(policy', next') = "launch" => next' < TaskCount(args)
        /\ Onward(policy', next') = "report" => args.form = "vector" /\ next' = TaskCount(args)
        /\ Onward(policy', next') = "fetch" => args.form = "source" /\ policy' = Policies(args)
        /\ Onward(policy', next') = "launch" /\ args.form = "source" => policy' < Policies(args)
    BY <1>2, Parts, OnwardPlace
  <1>4. Len(futures) = 0 /\ next = Handled
    BY <1>1, Parts DEF IInv, InvFutures, Over
  <1>5. futures = <<>> /\ running = {}
    BY <1>4, Parts DEF IInv, InvFutures, Indices
  <1>6. /\ InvLists' /\ InvWaste' /\ Handled' = Handled + 1
        /\ episodes' \in Seq(Task(args)) /\ failures' \in Seq(Task(args))
        /\ pc' \in {Onward(policy', next'), "unwind"}
    <2>1. next' <= next + Parallelism(args)
      BY <1>1, <1>2, Parts
    <2> QED
      BY <1>1, <1>2, <1>3, <1>4, <2>1, HandleKeepsLists DEF PC, Over
  <1>7. TypeOK'
    BY <1>1, <1>2, <1>3, <1>6, Parts DEF TypeOK, PC, Left
  <1>8. InvFutures'
    BY <1>1, <1>2, <1>3, <1>4, <1>5, <1>6, Parts DEF InvFutures, InOrder, Over, Indices
  <1>9. InvPlace'
    <2>1. (args.form = "source" => FetchedAccepted') /\ Fetched' = Fetched
      BY <1>1 DEF IInv, InvPlace, InvSource, FetchedAccepted, Fetched, Over
    <2>2. InvSource'
      <3> SUFFICES ASSUME args.form = "source" PROVE InvSource'
        BY <1>1 DEF InvSource
      <3>1. /\ attempted' = next' /\ fetched' # 0 /\ fetched' > 0 /\ args' = args
            /\ next' + Policies(args) = Fetched' + policy'
            /\ FetchedAccepted'
        BY <1>1, <1>2, <2>1, Parts
      <3>2. /\ pc' \notin {"final", "report", "returned"}
            /\ pc' = "fetch" => policy' = Policies(args)
            /\ pc' = "launch" => policy' < Policies(args)
        BY <1>1, <1>2, <1>3, <1>6
      <3> QED
        BY <3>1, <3>2 DEF InvSource
    <2>3. InvVector'
      BY <1>1, <1>2, <1>3, <1>6, Parts DEF IInv, InvPlace, InvVector, Over
    <2> QED
      BY <1>1, <1>2, <1>3, <1>6, <2>2, <2>3 DEF InvPlace
  <1> QED
    BY <1>6, <1>7, <1>8, <1>9 DEF IInv

\* The future taken is of an ended task, and its result is recorded once.
LEMMA TakeInv == IInv /\ Take => IInv'
  <1> SUFFICES ASSUME IInv, Take PROVE IInv'
    OBVIOUS
  <1>1. /\ UNCHANGED <<args, fetched, policy, next, attempted, running>>
        /\ pc \in {"drain", "final"} /\ futures # <<>> /\ Head(futures) \notin running
        /\ HandleResult(Head(futures), pc) /\ futures' = Tail(futures)
    BY DEF Take
  <1>2. /\ Len(futures) > 0 /\ Head(futures) = futures[1] /\ Head(futures) \in Task(args)
        /\ futures' \in Seq(Task(args)) /\ Len(futures') = Len(futures) - 1
        /\ \A k \in 1 .. Len(futures') : futures'[k] = futures[k + 1]
    BY <1>1, Parts
  <1>3. Head(futures) = Handled
    <2>1. 1 \in 1 .. Len(futures) /\ Handled \in Nat
      BY <1>2, Parts
    <2>2. futures[1] = Handled + 1 - 1
      BY <2>1 DEF IInv, InvFutures, InOrder
    <2> QED
      BY <1>2, <2>1, <2>2
  <1>4. /\ InvLists' /\ InvWaste' /\ Handled' = Handled + 1
        /\ episodes' \in Seq(Task(args)) /\ failures' \in Seq(Task(args))
        /\ pc' \in {pc, "unwind"}
    <2>1. next' <= Head(futures) + Parallelism(args)
      BY <1>1, <1>3 DEF IInv, InvFutures
    <2> QED
      BY <1>1, <1>2, <1>3, <2>1, HandleKeepsLists DEF PC, Over
  <1>5. TypeOK'
    BY <1>1, <1>2, <1>4, Parts DEF TypeOK, PC, Left
  <1>6. InvFutures'
    <2>0. Handled \in Nat /\ Len(futures) \in Nat /\ Parallelism(args) \in Nat /\ next \in Nat
      BY Parts
    <2>1. InOrder'
      BY <1>2, <1>4, <2>0 DEF IInv, InvFutures, InOrder
    <2>2. running' \subseteq Indices(futures')
      <3> SUFFICES ASSUME NEW t \in running PROVE t \in Indices(futures')
        BY <1>1
      <3>1. PICK k \in 1 .. Len(futures) : t = futures[k]
        BY DEF IInv, InvFutures, Indices
      <3>2. k # 1
        BY <1>1, <1>2, <3>1
      <3>3. k - 1 \in 1 .. Len(futures') /\ futures'[k - 1] = futures[k]
        BY <1>2, <2>0, <3>2
      <3> QED
        BY <3>1, <3>3 DEF Indices
    <2>3. next = Handled + Len(futures) /\ Len(futures) <= Parallelism(args)
      BY <1>1 DEF IInv, InvFutures, Over
    <2>4. /\ next' = Handled' + Len(futures') /\ Len(futures') <= Parallelism(args)
          /\ Handled' + Len(futures') <= next' /\ next' <= Handled' + Parallelism(args)
      BY <1>1, <1>2, <1>4, <2>0, <2>3
    <2> QED
      BY <1>1, <1>4, <2>1, <2>2, <2>4 DEF InvFutures
  <1>7. InvPlace'
    <2>1. Fetched' = Fetched /\ (FetchedAccepted => FetchedAccepted')
      BY <1>1 DEF Fetched, FetchedAccepted
    <2>2. InvSource'
      BY <1>1, <1>4, <2>1 DEF IInv, InvPlace, InvSource, Over
    <2>3. InvVector'
      BY <1>1, <1>4 DEF IInv, InvPlace, InvVector, Over
    <2> QED
      BY <1>1, <1>4, <2>2, <2>3 DEF InvPlace
  <1> QED
    BY <1>4, <1>5, <1>6, <1>7 DEF IInv

\* Without futures no task is at work.
LEMMA DrainedInv == IInv /\ Drained => IInv'
  <1> SUFFICES ASSUME IInv, Drained PROVE IInv'
    OBVIOUS
  <1>1. /\ UNCHANGED <<args, fetched, policy, next, attempted, futures, running, episodes,
                      failures>>
        /\ futures = <<>>
        /\ \/ pc = "final" /\ pc' = "report"
           \/ pc = "drain" /\ pc' = Onward(policy, next)
    BY DEF Drained
  <1>2. args.form = "source" /\ pc = "drain" =>
            fetched > 0 /\ next + Policies(args) = Fetched + policy
    BY DEF IInv, InvPlace, InvSource
  <1>3. pc = "drain" =>
           /\ Onward(policy, next) \in {"launch", "report", "fetch"}
           /\ Onward(policy, next) = "launch" => next < TaskCount(args)
           /\ Onward(policy, next) = "report" => args.form = "vector" /\ next = TaskCount(args)
           /\ Onward(policy, next) = "fetch" => args.form = "source" /\ policy = Policies(args)
           /\ Onward(policy, next) = "launch" /\ args.form = "source" => policy < Policies(args)
    BY <1>2, Parts, OnwardPlace
  <1>4. pc' \in {"launch", "report", "fetch"}
    BY <1>1, <1>3
  <1>5. TypeOK'
    BY <1>1, <1>4, Parts DEF TypeOK, PC, Left
  <1>6. InvLists' /\ InvWaste' /\ Handled' = Handled
    BY <1>1, ListsKept DEF Over
  <1>7. InvFutures'
    <2>1. /\ InOrder' /\ Len(futures) = 0 /\ Parallelism(args) \in Nat \ {0}
          /\ next = Handled + Len(futures) /\ Handled \in Nat
      BY <1>1, Parts DEF InOrder, IInv, InvFutures, Over
    <2>2. running' \subseteq Indices(futures')
      BY <1>1 DEF IInv, InvFutures
    <2> QED
      BY <1>1, <1>4, <1>6, <2>1, <2>2 DEF InvFutures, Over
  <1>8. InvPlace'
    <2>1. Fetched' = Fetched /\ (FetchedAccepted => FetchedAccepted')
      BY <1>1 DEF Fetched, FetchedAccepted
    <2>2. InvSource'
      BY <1>1, <1>3, <2>1 DEF IInv, InvPlace, InvSource, Over
    <2>3. InvVector'
      BY <1>1, <1>3 DEF IInv, InvPlace, InvVector, Over
    <2> QED
      BY <1>1, <1>3, <2>2, <2>3 DEF InvPlace
  <1> QED
    BY <1>5, <1>6, <1>7, <1>8 DEF IInv

\* The exception leaves the call when the tasks of its futures have ended.
LEMMA UnwoundInv == IInv /\ Unwound => IInv'
  <1> SUFFICES ASSUME IInv, Unwound PROVE IInv'
    OBVIOUS
  <1>1. /\ UNCHANGED <<args, fetched, policy, next, attempted, running, episodes, failures>>
        /\ pc = "unwind" /\ pc' = "thrown" /\ futures' = <<>>
        /\ \A k \in 1 .. Len(futures) : futures[k] \notin running
    BY DEF Unwound
  <1>2. TypeOK'
    BY <1>1, Parts DEF TypeOK, PC, Left
  <1>3. InvLists' /\ InvWaste' /\ Handled' = Handled
    BY <1>1, ListsKept DEF Over
  <1>4. running = {}
    BY <1>1 DEF IInv, InvFutures, Indices
  <1>5. InvFutures'
    <2>1. /\ Handled + Len(futures) <= next /\ next <= Handled + Parallelism(args)
          /\ Handled \in Nat /\ Len(futures) \in Nat /\ Parallelism(args) \in Nat /\ next \in Nat
      BY Parts DEF IInv, InvFutures
    <2>2. Len(futures') = 0 /\ InOrder'
      BY <1>1 DEF InOrder
    <2>3. running' \subseteq Indices(futures')
      BY <1>1, <1>4
    <2> QED
      BY <1>1, <1>3, <2>1, <2>2, <2>3 DEF InvFutures, Over
  <1>6. InvPlace'
    <2>1. Fetched' = Fetched
      BY <1>1 DEF Fetched
    <2> QED
      BY <1>1, <2>1 DEF IInv, InvPlace, InvVector, InvSource, Over
  <1> QED
    BY <1>2, <1>3, <1>5, <1>6 DEF IInv

\* A report is made when no future is left.
LEMMA ReportInv == IInv /\ Report => IInv'
  <1> SUFFICES ASSUME IInv, Report PROVE IInv'
    OBVIOUS
  <1>1. /\ UNCHANGED <<args, fetched, policy, next, attempted, futures, running, episodes,
                      failures>>
        /\ pc = "report" /\ pc' \in {"returned", "thrown"}
    BY DEF Report
  <1>2. TypeOK'
    BY <1>1, Parts DEF TypeOK, PC, Left
  <1>3. InvLists' /\ InvWaste' /\ Handled' = Handled
    BY <1>1, ListsKept DEF Over
  <1>4. InvFutures'
    BY <1>1, <1>3 DEF IInv, InvFutures, InOrder, Over
  <1>5. InvPlace'
    <2>1. Fetched' = Fetched /\ (FetchedAccepted => FetchedAccepted')
      BY <1>1 DEF Fetched, FetchedAccepted
    <2> QED
      BY <1>1, <2>1 DEF IInv, InvPlace, InvVector, InvSource, Over
  <1> QED
    BY <1>2, <1>3, <1>4, <1>5 DEF IInv

\* A task that ends stays with its future until it is taken.
LEMMA TaskEndsInv ==
    ASSUME IInv, NEW t, TaskEnds(t)
    PROVE  IInv'
  <1>1. /\ UNCHANGED <<args, pc, fetched, policy, next, attempted, futures, episodes, failures>>
        /\ running' = running \ {t}
    BY DEF TaskEnds
  <1>2. TypeOK'
    BY <1>1, Parts DEF TypeOK
  <1>3. InvLists' /\ InvWaste' /\ Handled' = Handled
    BY <1>1, ListsKept DEF Over
  <1>4. InvFutures'
    BY <1>1, <1>3 DEF IInv, InvFutures, InOrder, Over
  <1>5. InvPlace'
    BY <1>1 DEF IInv, InvPlace, InvVector, InvSource, Fetched, FetchedAccepted, Over
  <1> QED
    BY <1>2, <1>3, <1>4, <1>5 DEF IInv

\* Every step of a call and of a task keeps the invariant.
LEMMA NextInv == IInv /\ [Next]_vars => IInv'
  <1> SUFFICES ASSUME IInv, [Next]_vars PROVE IInv'
    OBVIOUS
  <1>1. CASE CallStep
    BY <1>1, BeginInv, FetchInv, FetchEndsInv, LaunchInv, LaunchFailsInv, RunInlineInv,
       TakeInv, DrainedInv, UnwoundInv, ReportInv DEF CallStep
  <1>2. ASSUME NEW t \in Task(args), TaskEnds(t) PROVE IInv'
    BY <1>2, TaskEndsInv
  <1>3. CASE UNCHANGED vars
    BY <1>3 DEF vars, IInv, TypeOK, InvFutures, InOrder, InvPlace, InvVector, InvSource,
                Fetched, FetchedAccepted, InvLists, InvWaste, Handled, Over
  <1> QED
    BY <1>1, <1>2, <1>3 DEF Next

\* The inductive invariant holds throughout.
THEOREM Invariance == Spec => []IInv
  BY InitInv, NextInv, PTL DEF Spec

\* The state of the call keeps its type, for every call.
THEOREM TypeCorrect == Spec => []TypeOK
  <1>1. IInv => TypeOK
    BY DEF IInv
  <1> QED
    BY <1>1, Invariance, PTL

\* No task outlives run_replay_experiment, whichever way it is left.
THEOREM NoTaskOutlives == Spec => []NoneLeftBehind
  <1>1. IInv => NoneLeftBehind
    BY DEF IInv, InvFutures, Indices, NoneLeftBehind, Left
  <1> QED
    BY <1>1, Invariance, PTL

\* The tasks at work are at most par, and fewer than par are started after the
\* first failure that is not tolerated.
THEOREM WasteBounded == Spec => []BoundedWaste
  <1>1. IInv => BoundedWaste
    <2> SUFFICES ASSUME IInv PROVE BoundedWaste
      OBVIOUS
    <2>0. /\ Handled \in Nat /\ Len(futures) \in Nat /\ Parallelism(args) \in Nat
          /\ next \in Nat
      BY Parts
    <2>1. Cardinality(running) <= Parallelism(args)
      <3> DEFINE I == Handled .. (Handled + Len(futures) - 1)
      <3>1. running \subseteq I
        <4>1. \A t \in running : \E k \in 1 .. Len(futures) : t = Handled + k - 1
          BY DEF IInv, InvFutures, InOrder, Indices
        <4> QED
          BY <2>0, <4>1
      <3>2. IsFiniteSet(I) /\ Cardinality(I) <= Len(futures)
        <4>1. Handled \in Int /\ Handled + Len(futures) - 1 \in Int
          BY <2>0
        <4>2. /\ IsFiniteSet(I)
              /\ Cardinality(I) = IF Handled > Handled + Len(futures) - 1 THEN 0
                                  ELSE (Handled + Len(futures) - 1) - Handled + 1
          BY <4>1, FS_Interval, Zenon
        <4> QED
          BY <2>0, <4>2
      <3>3. IsFiniteSet(running) /\ Cardinality(running) <= Cardinality(I)
        BY <3>1, <3>2, FS_Subset
      <3>4. Cardinality(running) \in Nat /\ Cardinality(I) \in Nat
        BY <3>2, <3>3, FS_CardinalityType
      <3>5. Len(futures) <= Parallelism(args)
        BY DEF IInv, InvFutures
      <3> HIDE DEF I
      <3> QED
        BY <2>0, <3>2, <3>3, <3>4, <3>5
    <2>2. ASSUME NEW t \in Task(args), NEW u \in Task(args),
                 ~ args.keepGoing, ~ args.ok[u], u <= t, t < next
          PROVE  t < u + Parallelism(args)
      <3>0. t \in Nat /\ u \in Nat /\ next <= Handled + Parallelism(args)
        BY Parts DEF Task, IInv, InvFutures
      <3>1. CASE u >= Handled
        BY <2>0, <2>2, <3>0, <3>1
      <3>2. CASE u < Handled
        <4>1. u \in Indices(failures)
          BY <2>0, <2>2, <3>0, <3>2, ListsAsSets DEF IInv
        <4>2. next <= u + Parallelism(args)
          BY <2>2, <4>1 DEF IInv, InvWaste
        <4> QED
          BY <2>0, <2>2, <3>0, <4>2
      <3> QED
        BY <2>0, <3>0, <3>1, <3>2
    <2> QED
      BY <2>1, <2>2 DEF BoundedWaste
  <1> QED
    BY <1>1, Invariance, PTL

-----------------------------------------------------------------------------
\* In a list without repetitions there are as many places of tasks in Q as there
\* are tasks in Q.
LEMMA PlacesCount ==
    ASSUME NEW S, NEW s \in Seq(S), Distinct(s), NEW Q
    PROVE  /\ IsFiniteSet(Indices(s) \cap Q)
           /\ Cardinality({k \in 1 .. Len(s) : s[k] \in Q}) = Cardinality(Indices(s) \cap Q)
  <1> DEFINE K == {k \in 1 .. Len(s) : s[k] \in Q}
             T == Indices(s) \cap Q
             f == [k \in K |-> s[k]]
  <1>1. IsFiniteSet(K)
    <2>1. 1 \in Int /\ Len(s) \in Int
      OBVIOUS
    <2>2. IsFiniteSet(1 .. Len(s))
      BY <2>1, FS_Interval
    <2> QED
      BY <2>2, FS_Subset
  <1>2. f \in Injection(K, T)
    <2>1. f \in [K -> T]
      BY DEF Indices
    <2>2. \A j, k \in K : f[j] = f[k] => j = k
      BY DEF Distinct
    <2> QED
      BY <2>1, <2>2, Fun_IsInj
  <1>3. f \in Surjection(K, T)
    <2>1. f \in [K -> T]
      BY DEF Indices
    <2>2. \A t \in T : \E k \in K : f[k] = t
      BY DEF Indices
    <2> QED
      BY <2>1, <2>2, Fun_IsSurj
  <1>4. f \in Bijection(K, T)
    BY <1>2, <1>3, Fun_IsBij
  <1>5. ExistsBijection(K, T)
    BY <1>4 DEF ExistsBijection
  <1> HIDE DEF K, T, f
  <1>6. IsFiniteSet(T) /\ Cardinality(T) = Cardinality(K)
    BY <1>1, <1>5, FS_Bijection
  <1> QED
    BY <1>6 DEF K, T

\* Every task has a policy.
LEMMA TaskPolicy ==
    ASSUME NEW a \in ArgsOf, NEW t \in Nat
    PROVE  PolicyIndex(a, t) \in 1 .. Policies(a)
  <1>1. Policies(a) \in Nat \ {0}
    BY CallFacts
  <1>2. t % Policies(a) \in 0 .. (Policies(a) - 1)
    BY <1>1
  <1> QED
    BY <1>1, <1>2 DEF PolicyIndex

\* When no id contains a bar, a failure record belongs to the policy of its task
\* and to no other.
LEMMA OwnFailures ==
    ASSUME args \in ArgsOf, PlainIds(args), NEW t \in Nat, NEW p \in 1 .. Policies(args)
    PROVE  FailureBelongsTo(t, p) <=> PolicyIndex(args, t) = p
  <1> DEFINE q == PolicyIndex(args, t)
  <1>1. q \in 1 .. Policies(args)
    BY TaskPolicy
  <1>2. /\ args.ids \in Seq(Seq(Piece) \ {<<>>}) /\ Policies(args) = Len(args.ids)
        /\ \A i, j \in 1 .. Policies(args) : args.ids[i] = args.ids[j] => i = j
    BY TasksAssumption DEF IsCall, FactoriesValid, Policies
  <1> HIDE DEF q
  <1>3. /\ args.ids[p] \in Seq(Piece) /\ args.ids[q] \in Seq(Piece)
        /\ Len(args.ids[p]) = 1 /\ Len(args.ids[q]) = 1
    BY <1>1, <1>2 DEF PlainIds
  <1>4. SubSeq(args.ids[q], 1, 1) = args.ids[q]
    BY <1>3
  <1>5. FailureBelongsTo(t, p) <=> args.ids[q] = args.ids[p]
    BY <1>3, <1>4 DEF FailureBelongsTo, q
  <1>6. (args.ids[q] = args.ids[p]) <=> q = p
    BY <1>1, <1>2
  <1> QED
    BY <1>5, <1>6 DEF q

\* A finished report is accepted if no id contains a bar or nothing failed.
LEMMA ReportCounts ==
    ASSUME IInv, pc = "report", PlainIds(args) \/ failures = <<>>
    PROVE  ReportValid /\ attempted = Handled /\ Handled = TaskCount(args)
  <1> DEFINE All == Indices(episodes) \cup Indices(failures)
  <1>0. /\ Handled \in Nat /\ attempted \in Nat /\ next \in Nat /\ TaskCount(args) \in Nat
        /\ episodes \in Seq(Task(args)) /\ failures \in Seq(Task(args))
        /\ args.form \in {"vector", "source"} /\ args \in ArgsOf
    BY Parts
  <1>1. attempted = Handled /\ Handled = TaskCount(args)
    <2>1. futures = <<>> /\ next = Handled + Len(futures)
      BY DEF IInv, InvFutures, Over
    <2>2. next = Handled
      BY <1>0, <2>1
    <2>3. attempted = next /\ next = TaskCount(args)
      BY <1>0 DEF IInv, InvPlace, InvVector, InvSource, Over
    <2> QED
      BY <2>2, <2>3
  <1>2. /\ \A u \in Indices(episodes) : u < Handled /\ args.ok[u] /\ u \in Nat
        /\ \A u \in Indices(failures) : u < Handled /\ ~ args.ok[u] /\ u \in Nat
        /\ Distinct(episodes) /\ Distinct(failures)
        /\ \A u \in 0 .. Handled - 1 : u \in All
    <2>1. Indices(episodes) \subseteq Nat /\ Indices(failures) \subseteq Nat
      BY <1>0 DEF Indices, Task
    <2> QED
      BY <2>1, ListsAsSets DEF IInv
  <1>3. All = 0 .. (attempted - 1)
    BY <1>0, <1>1, <1>2
  <1>4. IsFiniteSet(All) /\ Cardinality(All) = attempted
    <2>1. 0 \in Int /\ attempted - 1 \in Int
      BY <1>0
    <2>2. /\ IsFiniteSet(0 .. (attempted - 1))
          /\ Cardinality(0 .. (attempted - 1)) =
                IF 0 > attempted - 1 THEN 0 ELSE (attempted - 1) - 0 + 1
      BY <2>1, FS_Interval, Zenon
    <2>3. Cardinality(0 .. (attempted - 1)) = attempted
      BY <1>0, <2>2
    <2> QED
      BY <1>3, <2>2, <2>3, Zenon
  <1>5. \A t \in All : t < attempted
    BY <1>1, <1>2
  <1>6. ASSUME NEW t \in Indices(failures)
        PROVE  Len(args.ids[PolicyIndex(args, t)]) = 1
    <2>1. t \in Nat /\ failures # <<>>
      BY <1>2, <1>6 DEF Indices
    <2> QED
      BY <1>0, <2>1, TaskPolicy DEF PlainIds
  <1>7. ASSUME NEW p \in 1 .. Policies(args)
        PROVE  AttemptedBy(p) = CompletedBy(p) + FailedBy(p)
    <2> DEFINE Q == {t \in Nat : PolicyIndex(args, t) = p}
               E == Indices(episodes) \cap Q
               F == Indices(failures) \cap Q
    <2>1. CompletedBy(p) = Cardinality(E) /\ IsFiniteSet(E)
      <3>1. {k \in 1 .. Len(episodes) : PolicyIndex(args, episodes[k]) = p}
            = {k \in 1 .. Len(episodes) : episodes[k] \in Q}
        BY <1>0 DEF Task
      <3>2. /\ Cardinality({k \in 1 .. Len(episodes) : episodes[k] \in Q}) = Cardinality(E)
            /\ IsFiniteSet(E)
        BY <1>0, <1>2, PlacesCount, Zenon
      <3> QED
        BY <3>1, <3>2 DEF CompletedBy
    <2>2. FailedBy(p) = Cardinality(F) /\ IsFiniteSet(F)
      <3>1. {k \in 1 .. Len(failures) : FailureBelongsTo(failures[k], p)}
            = {k \in 1 .. Len(failures) : failures[k] \in Q}
        <4>1. \A k \in 1 .. Len(failures) : failures[k] \in Nat
          BY <1>0 DEF Task
        <4>2. CASE failures = <<>>
          <5>1. 1 .. Len(failures) = {}
            BY <4>2
          <5> QED
            BY <5>1
        <4>3. CASE PlainIds(args)
          <5>1. \A k \in 1 .. Len(failures) :
                   FailureBelongsTo(failures[k], p) <=> failures[k] \in Q
            BY <1>0, <4>1, <4>3, <1>7, OwnFailures
          <5> QED
            BY <5>1
        <4> QED
          BY <4>2, <4>3
      <3>2. /\ Cardinality({k \in 1 .. Len(failures) : failures[k] \in Q}) = Cardinality(F)
            /\ IsFiniteSet(F)
        BY <1>0, <1>2, PlacesCount, Zenon
      <3> QED
        BY <3>1, <3>2 DEF FailedBy
    <2>3. E \cap F = {}
      BY <1>2
    <2>4. {t \in 0 .. attempted - 1 : PolicyIndex(args, t) = p} = E \cup F
      BY <1>0, <1>3
    <2> HIDE DEF E, F
    <2>5. Cardinality(E \cup F) = Cardinality(E) + Cardinality(F) - Cardinality(E \cap F)
      BY <2>1, <2>2, FS_Union
    <2>6. Cardinality(E) \in Nat /\ Cardinality(F) \in Nat
      BY <2>1, <2>2, FS_CardinalityType
    <2>7. Cardinality(E \cap F) = 0
      BY <2>3, FS_EmptySet
    <2>8. AttemptedBy(p) = Cardinality(E \cup F)
      BY <2>4, Zenon DEF AttemptedBy
    <2>9. Cardinality(E \cup F) = Cardinality(E) + Cardinality(F)
      BY <2>5, <2>6, <2>7
    <2> QED
      BY <2>1, <2>2, <2>8, <2>9, Zenon
  <1> QED
    BY <1>1, <1>4, <1>5, <1>6, <1>7 DEF ReportValid, Handled

\* The report of an experiment whose policy ids contain no bar passes its own
\* validation, for every number of bundles and policies and all outcomes.
THEOREM ReportsAccepted == Spec => []ReportAccepted
  <1>1. IInv => ReportAccepted
    BY ReportCounts DEF ReportAccepted
  <1> QED
    BY <1>1, Invariance, PTL

-----------------------------------------------------------------------------
(* The refinement *)

\* Both experiments speak of the same tasks.
LEMMA SameTasks ==
    /\ Serial!Handled = Handled
    /\ Serial!Task(args) = Task(args)
    /\ Serial!TaskCount(args) = TaskCount(args)
    /\ Serial!AllAccepted(args) = AllAccepted(args)
    /\ Serial!PlainIds(args) = PlainIds(args)
    /\ Serial!Parallelism(args) = Parallelism(args)
  <1>1. Serial!Handled = Handled
    BY DEF Serial!Handled, Handled
  <1>2. Serial!TaskCount(args) = TaskCount(args)
    BY DEF Serial!TaskCount, TaskCount, Serial!Policies, Policies
  <1>3. Serial!Task(args) = Task(args)
    BY <1>2 DEF Serial!Task, Task
  <1>4. Serial!AllAccepted(args) = AllAccepted(args)
    BY DEF Serial!AllAccepted, AllAccepted, Serial!Accepted, Accepted
  <1>5. Serial!PlainIds(args) = PlainIds(args)
    BY DEF Serial!PlainIds, PlainIds, Serial!Policies, Policies
  <1>6. Serial!Parallelism(args) = Parallelism(args)
    BY DEF Serial!Parallelism, Parallelism
  <1> QED
    BY <1>1, <1>2, <1>3, <1>4, <1>5, <1>6

\* A handled result is the serial experiment's next one.
LEMMA HandleImplements ==
    ASSUME IInv, NEW to \in PC, ~ Over, pc # "returned", Handled \in Task(args),
           HandleResult(Handled, to), args' = args,
           to \notin {"returned", "unwind", "thrown"}
    PROVE  Serial!Handle
  <1>1. args.ok[Handled] \in BOOLEAN /\ args.keepGoing \in BOOLEAN
    BY Parts, CallFacts
  <1>2. Outcome = "running"
    BY DEF Outcome, Over
  <1>3. CASE args.ok[Handled]
    <2>1. episodes' = Append(episodes, Handled) /\ failures' = failures /\ pc' = to
      BY <1>3 DEF HandleResult
    <2>2. Outcome' = Outcome
      BY <1>2, <2>1 DEF Outcome
    <2> QED
      BY <1>2, <1>3, <2>1, <2>2, SameTasks DEF Serial!Handle
  <1>4. CASE ~ args.ok[Handled]
    <2>1. /\ failures' = Append(failures, Handled) /\ episodes' = episodes
          /\ pc' = IF args.keepGoing THEN to ELSE "unwind"
      BY <1>4 DEF HandleResult
    <2>2. Outcome' = IF args.keepGoing THEN "running" ELSE "thrown"
      BY <2>1 DEF Outcome
    <2> QED
      BY <1>2, <1>4, <2>1, <2>2, SameTasks DEF Serial!Handle
  <1> QED
    BY <1>1, <1>3, <1>4

\* Every step of the calling thread or of a task is a step of the serial
\* experiment or changes nothing of it.
LEMMA StepImplements ==
    IInv /\ IInv' /\ [Next]_vars => [Serial!Next]_(Serial!serialVars)
  <1> SUFFICES ASSUME IInv, IInv', [Next]_vars
               PROVE  [Serial!Next]_(Serial!serialVars)
    OBVIOUS
  <1>0. /\ args \in ArgsOf /\ Handled \in Nat /\ Len(args.bundles) \in Nat
        /\ TaskCount(args) \in Nat
    BY Parts
  <1>1. ASSUME UNCHANGED <<args, episodes, failures>>, Outcome' = Outcome
        PROVE  [Serial!Next]_(Serial!serialVars)
    BY <1>1 DEF Serial!serialVars
  <1>2. ASSUME UNCHANGED <<args, episodes, failures>>, Outcome = "running",
               Outcome' = "thrown",
               \/ Len(args.bundles) = 0 \/ ~ AllAccepted(args)
               \/ Parallelism(args) > 1 /\ Handled < TaskCount(args)
               \/ ~ PlainIds(args) /\ failures # <<>>
        PROVE  [Serial!Next]_(Serial!serialVars)
    BY <1>2, SameTasks DEF Serial!Next, Serial!Throw
  <1>3. CASE Begin
    <2>1. /\ UNCHANGED <<args, episodes, failures>> /\ Outcome = "running"
          /\ \/ Outcome' = Outcome
             \/ Outcome' = "thrown" /\ (Len(args.bundles) = 0 \/ ~ AllAccepted(args))
      BY <1>0, <1>3 DEF Begin, Outcome
    <2> QED
      BY <1>1, <1>2, <2>1
  <1>4. CASE Fetch
    <2>1. /\ UNCHANGED <<args, episodes, failures>> /\ Outcome = "running"
          /\ fetched + 1 \in 1 .. Len(args.bundles)
          /\ \/ Outcome' = Outcome
             \/ Outcome' = "thrown" /\ ~ Accepted(args, fetched + 1)
      BY <1>4, Parts DEF Fetch, Outcome
    <2>2. Accepted(args, fetched + 1) \/ ~ AllAccepted(args)
      BY <2>1 DEF AllAccepted
    <2> QED
      BY <1>1, <1>2, <2>1, <2>2
  <1>5. CASE FetchEnds
    BY <1>1, <1>5 DEF FetchEnds, Outcome
  <1>6. CASE Launch
    <2>1. UNCHANGED <<args, episodes, failures>> /\ pc = "launch"
      BY <1>6 DEF Launch
    <2>2. pc' \in {"drain", "launch", "report", "fetch"}
      BY <1>0, <1>6, Parts, CallFacts DEF Launch, AfterLaunch, Onward
    <2> QED
      BY <1>1, <2>1, <2>2 DEF Outcome
  <1>7. CASE LaunchFails
    <2>1. /\ UNCHANGED <<args, episodes, failures>> /\ Parallelism(args) > 1
          /\ Outcome = "running" /\ Outcome' = "thrown" /\ pc = "launch"
      BY <1>7 DEF LaunchFails, Outcome
    <2>2. Handled < TaskCount(args)
      <3>1. /\ next < TaskCount(args) /\ next = Handled + Len(futures)
            /\ Len(futures) \in Nat /\ next \in Nat
        BY <2>1, Parts DEF IInv, InvPlace, InvFutures, Over
      <3> QED
        BY <1>0, <3>1
    <2> QED
      BY <1>2, <2>1, <2>2
  <1>8. CASE RunInline
    <2>1. /\ pc = "launch" /\ args' = args /\ HandleResult(next, Onward(policy', next'))
          /\ Parallelism(args) = 1 /\ Reach /\ fetched' = fetched
      BY <1>8 DEF RunInline
    <2>2. next = Handled
      BY <2>1, Parts DEF IInv, InvFutures, Over
    <2>3. next \in Task(args)
      BY <2>1, ReachFacts
    <2>4. Onward(policy', next') \in {"launch", "report", "fetch"}
      BY <2>1, Parts DEF Onward
    <2>5. Serial!Handle
      BY <2>1, <2>2, <2>3, <2>4, HandleImplements DEF PC, Over
    <2> QED
      BY <2>5 DEF Serial!Next
  <1>9. CASE Take
    <2>1. /\ pc \in {"drain", "final"} /\ args' = args /\ futures # <<>>
          /\ HandleResult(Head(futures), pc)
      BY <1>9 DEF Take
    <2>2. Head(futures) = futures[1] /\ Head(futures) \in Task(args) /\ 1 \in 1 .. Len(futures)
      BY <2>1, Parts
    <2>3. futures[1] = Handled + 1 - 1
      BY <2>2 DEF IInv, InvFutures, InOrder
    <2>4. Head(futures) = Handled
      BY <1>0, <2>2, <2>3
    <2>5. Serial!Handle
      BY <2>1, <2>2, <2>4, HandleImplements DEF PC, Over
    <2> QED
      BY <2>5 DEF Serial!Next
  <1>10. CASE Drained
    <2>1. UNCHANGED <<args, episodes, failures>> /\ pc \in {"drain", "final"}
      BY <1>10 DEF Drained
    <2>2. pc' \in {"launch", "report", "fetch"}
      BY <1>10, Parts DEF Drained, Onward
    <2> QED
      BY <1>1, <2>1, <2>2 DEF Outcome
  <1>11. CASE Unwound
    BY <1>1, <1>11 DEF Unwound, Outcome
  <1>12. CASE Report
    <2>1. /\ UNCHANGED <<args, episodes, failures>> /\ pc = "report" /\ Outcome = "running"
          /\ \/ pc' = "returned" /\ attempted > 0 /\ ReportValid
             \/ pc' = "thrown" /\ ~ (attempted > 0 /\ ReportValid)
      BY <1>12 DEF Report, Outcome
    <2>2. CASE pc' = "thrown"
      <3>1. \/ Len(args.bundles) = 0
            \/ ~ PlainIds(args) /\ failures # <<>>
        <4>1. CASE ~ (PlainIds(args) \/ failures = <<>>)
          BY <4>1
        <4>2. CASE PlainIds(args) \/ failures = <<>>
          <5>1. ReportValid /\ attempted = TaskCount(args)
            BY <2>1, <4>2, ReportCounts
          <5>2. ~ (TaskCount(args) > 0)
            BY <2>1, <2>2, <5>1
          <5> QED
            BY <1>0, <5>2, CallFacts, SomeTask
        <4> QED
          BY <4>1, <4>2
      <3> QED
        BY <1>2, <2>1, <2>2, <3>1 DEF Outcome
    <2>3. CASE pc' = "returned"
      <3>1. attempted = Handled /\ attempted > 0
        BY <2>1, <2>3 DEF ReportValid, Handled
      <3>2. attempted = TaskCount(args) /\ AllAccepted(args)
        <4>1. CASE args.form = "vector"
          BY <2>1, <4>1 DEF IInv, InvPlace, InvVector, Over
        <4>2. CASE args.form = "source"
          BY <2>1, <4>2 DEF IInv, InvPlace, InvSource, FetchedAccepted, AllAccepted, Over
        <4> QED
          BY <4>1, <4>2, Parts
      <3>3. Outcome' = "returned"
        BY <2>3 DEF Outcome
      <3>4. Serial!Return
        BY <2>1, <3>1, <3>2, <3>3, SameTasks DEF Serial!Return
      <3> QED
        BY <3>4 DEF Serial!Next
    <2> QED
      BY <2>1, <2>2, <2>3
  <1>13. ASSUME NEW t, TaskEnds(t) PROVE [Serial!Next]_(Serial!serialVars)
    BY <1>1, <1>13 DEF TaskEnds, Outcome
  <1>14. CASE UNCHANGED vars
    BY <1>1, <1>14 DEF vars, Outcome
  <1> QED
    BY <1>3, <1>4, <1>5, <1>6, <1>7, <1>8, <1>9, <1>10, <1>11, <1>12, <1>13, <1>14
    DEF Next, CallStep

\* The parallel experiment implements the serial one: its effects are those of
\* the tasks one after the other, for every call (the safety part of
\* ImplementsSerial).
THEOREM Refinement == Spec => Serial!Init /\ [][Serial!Next]_(Serial!serialVars)
  <1>1. Init => Serial!Init
    BY DEF Init, Serial!Init, Outcome
  <1> QED
    BY <1>1, StepImplements, Invariance, PTL DEF Spec
=============================================================================
