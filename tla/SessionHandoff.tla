--------------------------- MODULE SessionHandoff ---------------------------
(***************************************************************************)
(* The paper-online session handoff: Marshal's tool                        *)
(* hero.marshal.paper_online.session_handoff, the Environment tools it     *)
(* calls as child processes (module McpProcess), and the operator who      *)
(* issues the admission.                                                   *)
(*                                                                         *)
(* A handoff checks the admission, validates the session and runs it, one  *)
(* child process per call, and leaves a receipt.  The session run writes   *)
(* its files into the session root one after the other; it refuses a root  *)
(* that has a job.manifest.  A call may time out, in which case the        *)
(* child is killed wherever it stands; Marshal may crash, in which case    *)
(* the child goes on alone; and further handoffs of the session, with the  *)
(* same or another request, may follow or run at the same time.            *)
(*                                                                         *)
(* The readiness fact is there and ready: its issuer refuses to replace it.*)
(* Each file is installed in one step; module TextInstall is about that.   *)
(***************************************************************************)
EXTENDS McpProcess, Sequences, FiniteSets

CONSTANTS Handoff,        \* calls of Marshal's handoff tool; McpProcess's Caller
          None,
          Log,            \* the session logs in the order of their writes; eight
          Request,        \* the requests, see RequestType
          AllowRun,       \* policy allow_paper_online_session_run
          MaxConcurrent   \* bound on the handoffs under way at the same time

\* What matters of a handoff request: local_issues is empty, its readiness proof
\* is fresh, Environment finds no issue with its session, and the chunks that
\* include_machine_payload adds to a result.
RequestType == [local : BOOLEAN, fresh : BOOLEAN, valid : BOOLEAN, payload : Nat]
NoRequest == [local |-> FALSE, fresh |-> FALSE, valid |-> FALSE, payload |-> 0]

\* The files of a session root, in the order of the writes: the logs
\* (session.manifest to reward_reports.lls) and then what Lattice reads.
LatticeFiles == <<"job.manifest", "job.state", "lattice.exposure.fact",
                  "lattice.paper_online_session.fact">>
Artifact == Log \o LatticeFiles
Logs == {Log[k] : k \in DOMAIN Log}
SessionFact == "lattice.paper_online_session.fact"
RootFile == {Artifact[k] : k \in DOMAIN Artifact}

ASSUME HandoffAssumption ==
    /\ Caller = Handoff
    /\ None \notin Handoff \cup [by : Handoff, digests : [Logs -> Handoff]]
    /\ Log \in Seq(STRING)
    /\ \A r \in Request : r \in RequestType
    /\ AllowRun \in BOOLEAN
    /\ MaxConcurrent \in Nat

VARIABLES mode,       \* mode[h], req[h]: the arguments of handoff h
          req,
          stage,      \* stage[h]: where Marshal stands
          admSeen,    \* admSeen[h]: admission_fact_exists
          passed,     \* passed[h]: the calls whose result was as needed
          factSeen,   \* factSeen[h]: session_fact_exists
          receipt,    \* the receipt file of the session
          tool,       \* tool[h]: the call h's child is for
          epc,        \* epc[h]: where the Environment child of h stands
          next,       \* next[h]: index of the artifact to write
          digests,    \* digests[h]: the logs as it digested them
          result,     \* result[h]: what it prints
          admitted,   \* the admission fact exists
          root,       \* root[f]: the handoff whose text file f has
          fact,       \* what the session fact says
          overlapped  \* two session runs were writing at the same time

marshalVars == <<mode, req, stage, admSeen, passed, factSeen, receipt>>
envVars == <<tool, epc, next, digests, result>>
diskVars == <<admitted, root, fact, overlapped>>
vars == <<mcpVars, marshalVars, envVars, diskVars>>

Call == {"check", "validate", "run"}
Stage == {"new", "sample", "remove", "install", "done", "crashed"} \cup Call

Running(h) == stage[h] \notin {"new", "done", "crashed"}

\* dispatch_state.
DispatchState(h) ==
    CASE mode[h] = "plan" -> "planned"
      [] mode[h] # "plan" /\ (~ req[h].local \/ "check" \notin passed[h]) -> "blocked"
      [] mode[h] # "plan" /\ "check" \in passed[h] /\ ~ admSeen[h] -> "admission_ready"
      [] "check" \in passed[h] /\ admSeen[h] /\ "validate" \notin passed[h] -> "blocked"
      [] "validate" \in passed[h] /\ mode[h] = "dry_run" -> "prepared"
      [] "validate" \in passed[h] /\ mode[h] = "run" ->
            IF "run" \in passed[h] THEN "executed" ELSE "run_blocked"

DispatchStates == {"planned", "blocked", "admission_ready", "prepared",
                   "executed", "run_blocked"}

Result == {"nothing", "error", "not_ready", "ready", "executed"}

TypeOK ==
    /\ McpTypeOK
    /\ mode \in [Handoff -> {"plan", "dry_run", "run"}]
    /\ req \in [Handoff -> Request \cup {NoRequest}]
    /\ stage \in [Handoff -> Stage]
    /\ admSeen \in [Handoff -> BOOLEAN]
    /\ passed \in [Handoff -> SUBSET Call]
    /\ factSeen \in [Handoff -> BOOLEAN]
    /\ receipt \in {None} \cup [by : Handoff, dispatch : DispatchStates,
                                factSeen : BOOLEAN]
    /\ tool \in [Handoff -> Call]
    /\ epc \in [Handoff -> {"off", "read", "write", "digest", "fact", "print"}]
    /\ next \in [Handoff -> DOMAIN Artifact]
    /\ digests \in [Handoff -> [Logs -> Handoff \cup {None}]]
    /\ result \in [Handoff -> Result]
    /\ admitted \in BOOLEAN
    /\ root \in [RootFile -> Handoff \cup {None}]
    /\ fact \in {None} \cup [by : Handoff, digests : [Logs -> Handoff]]
    /\ overlapped \in BOOLEAN

Init ==
    /\ McpInit
    /\ mode = [h \in Handoff |-> "plan"]
    /\ req = [h \in Handoff |-> NoRequest]
    /\ stage = [h \in Handoff |-> "new"]
    /\ admSeen = [h \in Handoff |-> FALSE]
    /\ passed = [h \in Handoff |-> {}]
    /\ factSeen = [h \in Handoff |-> FALSE]
    /\ receipt = None
    /\ tool = [h \in Handoff |-> "check"]
    /\ epc = [h \in Handoff |-> "off"]
    /\ next = [h \in Handoff |-> 1]
    /\ digests = [h \in Handoff |-> [f \in Logs |-> None]]
    /\ result = [h \in Handoff |-> "nothing"]
    /\ admitted = FALSE
    /\ root = [f \in RootFile |-> None]
    /\ fact = None
    /\ overlapped = FALSE

-----------------------------------------------------------------------------
(* Marshal *)

Goto(h, s) == stage' = [stage EXCEPT ![h] = s]

\* The tool returns or its process is gone, and with it what it knew.
Ends(h, s) ==
    /\ Goto(h, s)
    /\ mode' = [mode EXCEPT ![h] = "plan"]
    /\ admSeen' = [admSeen EXCEPT ![h] = FALSE]
    /\ passed' = [passed EXCEPT ![h] = {}]
    /\ factSeen' = [factSeen EXCEPT ![h] = FALSE]
    /\ req' = [req EXCEPT ![h] = IF child[h] = "alive" THEN @ ELSE NoRequest]

\* The tool is called: local issues, and whether the admission fact exists.
Start(h, m, r) ==
    /\ stage[h] = "new" /\ m # "plan"
    /\ Cardinality({g \in Handoff : Running(g)}) < MaxConcurrent
    /\ mode' = [mode EXCEPT ![h] = m]
    /\ req' = [req EXCEPT ![h] = r]
    /\ admSeen' = [admSeen EXCEPT ![h] = admitted]
    /\ Goto(h, IF r.local THEN "check" ELSE "sample")
    /\ UNCHANGED <<mcpVars, passed, factSeen, receipt, envVars, diskVars>>

\* Plan mode calls no tool and writes no receipt.
StartPlan(h) ==
    /\ stage[h] = "new"
    /\ Goto(h, "done")
    /\ UNCHANGED <<mcpVars, mode, req, admSeen, passed, factSeen, receipt, envVars,
                   diskVars>>

\* call_environment_tool for the current stage.
CallTool(h) ==
    /\ stage[h] \in Call
    /\ Spawn(h)
    /\ tool' = [tool EXCEPT ![h] = stage[h]]
    /\ epc' = [epc EXCEPT ![h] = "read"]
    /\ UNCHANGED <<marshalVars, next, digests, result, diskVars>>

CallToolFails(h) ==
    /\ stage[h] \in Call
    /\ SpawnFails(h)
    /\ UNCHANGED <<marshalVars, envVars, diskVars>>

\* Chunks of a result; a packet has more fields than an error, and the machine
\* payload of a session packet comes on top.
Size(h, r) == (CASE r = "executed" -> 3 [] r = "ready" -> 2 [] OTHER -> 1)
              + (IF r = "error" \/ tool[h] = "check" THEN 0 ELSE req[h].payload)

\* The call's result is as needed: the process is ok and the complete object says
\* admission_ready, session_ready, or session_ready and artifacts written.  Of a
\* truncated object none of these is found.
Wanted(h) == IF tool[h] = "run" THEN "executed" ELSE "ready"
CallOk(h) == ProcessOk(h) /\ result[h] = Wanted(h) /\ captured[h] = Size(h, result[h])

\* After a call: on to the next one, or to the receipt.
AfterCall(h, ok) ==
    CASE stage[h] = "check" /\ ok /\ admSeen[h] -> "validate"
      [] stage[h] = "validate" /\ ok /\ mode[h] = "run" -> "run"
      [] OTHER -> "sample"

\* The memory of a child that is gone.
EnvCleared(h) ==
    /\ tool' = [tool EXCEPT ![h] = "check"]
    /\ epc' = [epc EXCEPT ![h] = "off"]
    /\ next' = [next EXCEPT ![h] = 1]
    /\ digests' = [digests EXCEPT ![h] = [f \in Logs |-> None]]
    /\ result' = [result EXCEPT ![h] = "nothing"]

Conclude(h) ==
    /\ stage[h] \in Call
    /\ Taken(h)
    /\ passed' = [passed EXCEPT ![h] = IF CallOk(h) THEN @ \cup {stage[h]} ELSE @]
    /\ Goto(h, AfterCall(h, CallOk(h)))
    /\ IF child[h] = "alive" THEN UNCHANGED envVars ELSE EnvCleared(h)
    /\ UNCHANGED <<mode, req, admSeen, factSeen, receipt, diskVars>>

\* session_fact_exists, read after the calls.
Sample(h) ==
    /\ stage[h] = "sample"
    /\ factSeen' = [factSeen EXCEPT ![h] = root[SessionFact] # None]
    /\ Goto(h, "remove")
    /\ UNCHANGED <<mcpVars, mode, req, admSeen, passed, receipt, envVars, diskVars>>

\* The receipt is written beside its place, the old one removed, the new one
\* renamed.
RemoveReceipt(h) ==
    /\ stage[h] = "remove"
    /\ receipt' = None
    /\ Goto(h, "install")
    /\ UNCHANGED <<mcpVars, mode, req, admSeen, passed, factSeen, envVars, diskVars>>

InstallReceipt(h) ==
    /\ stage[h] = "install"
    /\ receipt' = [by |-> h, dispatch |-> DispatchState(h), factSeen |-> factSeen[h]]
    /\ Ends(h, "done")
    /\ UNCHANGED <<mcpVars, envVars, diskVars>>

\* Its path is not usable, or writing or renaming it fails: the tool returns
\* without a receipt.
ReceiptFails(h) ==
    /\ stage[h] \in {"remove", "install"}
    /\ Ends(h, "done")
    /\ UNCHANGED <<mcpVars, receipt, envVars, diskVars>>

Orphaned(h) == child[h] = "alive" /\ tool[h] = "run"

\* Marshal crashes.  The child goes on; one that only checks or validates
\* changes nothing and is left out from here.
MarshalCrashes(h) ==
    /\ Running(h)
    /\ Ends(h, "crashed")
    /\ child' = [child EXCEPT ![h] = IF Orphaned(h) THEN @ ELSE "none"]
    /\ IF Orphaned(h) THEN UNCHANGED envVars ELSE EnvCleared(h)
    /\ Forgotten(h)
    /\ UNCHANGED <<receipt, diskVars>>

-----------------------------------------------------------------------------
(* The Environment child *)

Env(h, from) == child[h] = "alive" /\ epc[h] = from

\* The handler is left with a result; what it had read is no longer used.
Reply(h, r) ==
    /\ result' = [result EXCEPT ![h] = r]
    /\ epc' = [epc EXCEPT ![h] = "print"]
    /\ next' = [next EXCEPT ![h] = 1]
    /\ digests' = [digests EXCEPT ![h] = [f \in Logs |-> None]]
    /\ UNCHANGED tool

\* certify.paper_online_session_admission, mode=check.
AdmissionCheck(h) ==
    /\ Env(h, "read") /\ tool[h] = "check"
    /\ Reply(h, IF req[h].fresh THEN "ready" ELSE "not_ready")
    /\ UNCHANGED <<mcpVars, marshalVars, diskVars>>

\* paper_online.session, mode=validate: an error without an admission fact.
SessionValidate(h) ==
    /\ Env(h, "read") /\ tool[h] = "validate"
    /\ Reply(h, CASE ~ admitted -> "error"
                  [] admitted /\ req[h].valid -> "ready"
                  [] admitted /\ ~ req[h].valid -> "not_ready")
    /\ UNCHANGED <<mcpVars, marshalVars, diskVars>>

Refused_NoRootCheck(h) == ~ AllowRun \/ ~ admitted \/ ~ req[h].valid

\* mode=run goes ahead unless the policy forbids it, the admission fact is
\* missing, the request has issues, or the root has a job.manifest.
Refused(h) ==
    ~ AllowRun \/ ~ admitted \/ ~ req[h].valid \/ root["job.manifest"] # None

\* A session run that is between its check of the root and its end.
Writing(h) == child[h] = "alive" /\ epc[h] \in {"write", "digest", "fact"}

RunRefused(h) ==
    /\ Env(h, "read") /\ tool[h] = "run" /\ Refused(h)
    /\ Reply(h, "error")
    /\ UNCHANGED <<mcpVars, marshalVars, diskVars>>

RunStarts(h) ==
    /\ Env(h, "read") /\ tool[h] = "run" /\ ~ Refused(h)
    /\ epc' = [epc EXCEPT ![h] = "write"]
    /\ next' = [next EXCEPT ![h] = 1]
    /\ overlapped' = (overlapped \/ \E g \in Handoff \ {h} : Writing(g))
    /\ UNCHANGED <<mcpVars, marshalVars, tool, digests, result, admitted,
                   root, fact>>

WriteArtifact_OneMore(h) ==
    /\ Env(h, "write")
    /\ root' = [root EXCEPT ![Artifact[next[h]]] = h]
    /\ next' = [next EXCEPT ![h] = @ + 1]
    /\ epc' = [epc EXCEPT ![h] = IF next[h] = Len(Artifact) THEN "digest" ELSE "write"]
    /\ UNCHANGED <<mcpVars, marshalVars, tool, digests, result, admitted,
                   fact, overlapped>>

\* The logs, job.manifest, job.state and the exposure fact.
WriteArtifact(h) ==
    /\ Env(h, "write")
    /\ root' = [root EXCEPT ![Artifact[next[h]]] = h]
    /\ next' = [next EXCEPT ![h] = @ + 1]
    /\ epc' = [epc EXCEPT ![h] = IF next[h] + 1 = Len(Artifact) THEN "digest" ELSE "write"]
    /\ UNCHANGED <<mcpVars, marshalVars, tool, digests, result, admitted,
                   fact, overlapped>>

\* The digests of the logs, taken from the files.
DigestLogs(h) ==
    /\ Env(h, "digest")
    /\ digests' = [digests EXCEPT ![h] = [f \in Logs |-> root[f]]]
    /\ epc' = [epc EXCEPT ![h] = "fact"]
    /\ UNCHANGED <<mcpVars, marshalVars, tool, next, result, diskVars>>

WriteSessionFact(h) ==
    /\ Env(h, "fact")
    /\ root' = [root EXCEPT ![SessionFact] = h]
    /\ fact' = [by |-> h, digests |-> digests[h]]
    /\ Reply(h, "executed")
    /\ UNCHANGED <<mcpVars, marshalVars, admitted, overlapped>>

WriteThrows_Swallowed(h) ==
    /\ child[h] = "alive" /\ epc[h] \in {"write", "fact"}
    /\ Reply(h, "executed")
    /\ UNCHANGED <<mcpVars, marshalVars, diskVars>>

\* A write throws: the tool ends with an error and leaves what it wrote.
WriteThrows(h) ==
    /\ child[h] = "alive" /\ epc[h] \in {"write", "fact"}
    /\ Reply(h, "error")
    /\ UNCHANGED <<mcpVars, marshalVars, diskVars>>

\* The result is printed while somebody can read it.
PrintResult(h) ==
    /\ Env(h, "print") /\ stage[h] # "crashed"
    /\ sent[h] < Size(h, result[h])
    /\ ChildWrites(h)
    /\ UNCHANGED <<marshalVars, envVars, diskVars>>

\* main returns 0, or 1 for an error.
ToolExits(h) ==
    /\ Env(h, "print") /\ stage[h] # "crashed"
    /\ sent[h] = Size(h, result[h])
    /\ ChildExits(h, IF result[h] = "error" THEN "nonzero" ELSE "zero")
    /\ epc' = [epc EXCEPT ![h] = "off"]
    /\ UNCHANGED <<marshalVars, tool, next, digests, result, diskVars>>

\* The child of a crashed Marshal prints into a closed pipe and dies of SIGPIPE.
OrphanDies(h) ==
    /\ Env(h, "print") /\ stage[h] = "crashed"
    /\ ChildExits(h, "killed")
    /\ epc' = [epc EXCEPT ![h] = "off"]
    /\ UNCHANGED <<marshalVars, tool, next, digests, result, diskVars>>

-----------------------------------------------------------------------------
(* The operator *)

\* certify.paper_online_session_admission, mode=issue.  The tool refuses, and
\* changes nothing, when the request is not ready or the fact exists.
IssueAdmission ==
    /\ ~ admitted
    /\ admitted' = TRUE
    /\ UNCHANGED <<mcpVars, marshalVars, envVars, root, fact, overlapped>>

-----------------------------------------------------------------------------
\* What Marshal does on its own once it was called.
Progress(h) ==
    \/ CallTool(h) \/ CallToolFails(h) \/ Conclude(h) \/ Sample(h)
    \/ RemoveReceipt(h) \/ InstallReceipt(h) \/ ReceiptFails(h)
    \/ (stage[h] \in Call /\ CallerStep(h)
         /\ UNCHANGED <<marshalVars, envVars, diskVars>>)

\* What the Environment child does.
EnvStep(h) ==
    \/ AdmissionCheck(h) \/ SessionValidate(h)
    \/ RunRefused(h) \/ RunStarts(h) \/ WriteArtifact(h) \/ DigestLogs(h)
    \/ WriteSessionFact(h) \/ WriteThrows(h) \/ PrintResult(h) \/ ToolExits(h)
    \/ OrphanDies(h)

Deadline(h) ==
    stage[h] \in Call /\ DeadlinePasses(h) /\ UNCHANGED <<marshalVars, envVars, diskVars>>

Next ==
    \/ \E h \in Handoff :
          (\E m \in {"dry_run", "run"}, r \in Request : Start(h, m, r)) \/ StartPlan(h)
          \/ Progress(h) \/ EnvStep(h) \/ Deadline(h) \/ MarshalCrashes(h)
    \/ IssueAdmission

\* Marshal's process is scheduled and its clock runs.  Nothing is assumed of the
\* Environment child: it may hang anywhere.
Fairness == \A h \in Handoff : WF_vars(Progress(h)) /\ WF_vars(Deadline(h))

Spec == Init /\ [][Next]_vars /\ Fairness

-----------------------------------------------------------------------------
\* The session fact agrees with the files it attests: each of the logs is
\* there, from the run that wrote the fact, and is the text the fact digested,
\* however many runs were killed before or were tried after it - unless two runs
\* were between their check of the root and their end at the same time, which
\* nothing prevents.
FactMatchesLogs ==
    fact # None /\ ~ overlapped =>
        \A f \in Logs : root[f] = fact.by /\ fact.digests[f] = root[f]

\* A receipt that says executed comes with the fact of that very run (or, had
\* runs overlapped, of another one).
ExecutedIsRecorded ==
    receipt # None /\ receipt.dispatch = "executed" =>
        fact # None /\ (overlapped \/ fact.by = receipt.by)

\* A receipt that denies that there is a session fact is never overtaken by its
\* own run: once Marshal looked, no child of that handoff can still write one,
\* also when the call had timed out.
DeniedStaysDenied ==
    receipt # None /\ ~ receipt.factSeen /\ fact # None => fact.by # receipt.by

\* A handoff that came back has no process left that writes into the session
\* root.
QuietAfterReturn ==
    [][\A h \in Handoff : stage[h] = "done" =>
          \A f \in RootFile : root'[f] = h => root[f] = h]_vars

\* A handoff that was called comes back or crashes, though the child may hang.
HandoffsReturn ==
    \A h \in Handoff : Running(h) ~> ~ Running(h)
=============================================================================
