------------------------ MODULE SessionHandoffProofs ------------------------
(***************************************************************************)
(* Proofs about SessionHandoff and the calls of McpProcess in it, for any  *)
(* number of handoffs under way, any requests and any number of logs.      *)
(*                                                                         *)
(* CallOf relates what a call has captured to what its child wrote;        *)
(* StageOf says that Marshal has a child only during a call (or after a    *)
(* crash); RunOf and SoleWriter say what a session run has written and who *)
(* else writes; FactOf, FactOnDisk and ReceiptInv, what results, passed    *)
(* calls and receipts know of the fact.                                    *)
(***************************************************************************)
EXTENDS SessionHandoff, SequenceTheorems, TLAPS

-----------------------------------------------------------------------------
(* The call of a tool: McpProcess.                                         *)

Active == {"wait", "timer", "select"}

\* What was captured is what left the pipe, up to the cap; the pipe is closed
\* only after the child, and a call returns with the pipe empty.
CallOf(c) ==
    /\ unread[c] <= sent[c]
    /\ captured[c] = IF sent[c] - unread[c] > CaptureCap THEN CaptureCap
                     ELSE sent[c] - unread[c]
    /\ ~ truncated[c] => captured[c] = sent[c] - unread[c]
    /\ ppc[c] = "idle" => sent[c] = 0 /\ unread[c] = 0
    /\ ppc[c] \in Active /\ ~ open[c] => child[c] # "alive" /\ unread[c] = 0
    /\ ppc[c] = "returned" => child[c] \in {"reaped", "none"} /\ unread[c] = 0

ExitCode == {"zero", "nonzero", "killed"}

\* A crash of the caller: at most the child is left.
Abandoned(c) ==
    /\ \E x \in {child[c], "none"} : child' = [child EXCEPT ![c] = x]
    /\ Forgotten(c)

\* The steps of a call, the child's among them; a child writes during a call.
McpStep(c) ==
    \/ Spawn(c) \/ SpawnFails(c) \/ CallerStep(c) \/ DeadlinePasses(c)
    \/ ChildWrites(c) /\ ppc[c] \in Active
    \/ \E code \in ExitCode : ChildExits(c, code)
    \/ Taken(c) \/ Abandoned(c)

\* A call concerns its caller only.
LEMMA McpOthers ==
    ASSUME McpTypeOK, NEW c \in Caller, McpStep(c), NEW i \in Caller \ {c}
    PROVE  /\ ppc'[i] = ppc[i] /\ child'[i] = child[i] /\ status'[i] = status[i]
           /\ sent'[i] = sent[i] /\ unread'[i] = unread[i] /\ captured'[i] = captured[i]
           /\ truncated'[i] = truncated[i] /\ open'[i] = open[i]
<1> USE DEF McpTypeOK
<1>1. CASE Spawn(c) \/ SpawnFails(c)
    BY <1>1 DEF Spawn, SpawnFails
<1>2. CASE PollChild(c) \/ TimeoutKills(c)
    BY <1>2 DEF PollChild, TimeoutKills
<1>3. CASE SelectDrains(c)
    BY <1>3 DEF SelectDrains
<1>4. CASE DeadlinePasses(c) \/ ChildWrites(c)
    BY <1>4 DEF DeadlinePasses, ChildWrites
<1>5. CASE \E code \in ExitCode : ChildExits(c, code)
    BY <1>5 DEF ChildExits
<1>6. CASE Taken(c) \/ Abandoned(c)
    BY <1>6 DEF Taken, Abandoned, Forgotten
<1> QED BY <1>1, <1>2, <1>3, <1>4, <1>5, <1>6 DEF McpStep, CallerStep

\* The counters and flags of a call keep their types.
LEMMA McpStepType ==
    ASSUME McpTypeOK, NEW c \in Caller, McpStep(c)
    PROVE  McpTypeOK'
<1> USE McpAssumption DEF McpTypeOK, CallState
<1>1. CASE Spawn(c) \/ SpawnFails(c)
    BY <1>1 DEF Spawn, SpawnFails
<1>2a. CASE PollChild(c)
    BY <1>2a DEF PollChild
<1>2b. CASE TimeoutKills(c)
    BY <1>2b DEF TimeoutKills
<1>3. CASE SelectDrains(c)
    BY <1>3 DEF SelectDrains, LoopOn, Appended, Overflows
<1>4a. CASE DeadlinePasses(c)
    BY <1>4a DEF DeadlinePasses
<1>4b. CASE ChildWrites(c)
  <2>1. unread[c] + 1 \in 0 .. PipeCap /\ sent[c] + 1 \in Nat
      BY <1>4b DEF ChildWrites
  <2> QED BY <1>4b, <2>1 DEF ChildWrites
<1>5. CASE \E code \in ExitCode : ChildExits(c, code)
    BY <1>5 DEF ChildExits, ExitCode
<1>6. CASE Taken(c) \/ Abandoned(c)
  <2>1. child' \in [Caller -> {"none", "alive", "zombie", "reaped"}]
      BY <1>6 DEF Taken, Abandoned
  <2>2. 0 \in 0 .. PipeCap /\ 0 \in 0 .. CaptureCap
      OBVIOUS
  <2>3. Forgotten(c)
      BY <1>6 DEF Taken, Abandoned
  <2>4. /\ truncated' \in [Caller -> BOOLEAN] /\ open' \in [Caller -> BOOLEAN]
        /\ late' \in [Caller -> BOOLEAN] /\ timedOut' \in [Caller -> BOOLEAN]
      BY <2>3 DEF Forgotten
  <2> QED BY <2>1, <2>2, <2>3, <2>4 DEF Forgotten
<1> QED BY <1>1, <1>2a, <1>2b, <1>3, <1>4a, <1>4b, <1>5, <1>6 DEF McpStep, CallerStep

\* Bytes move from the child to the pipe to the capture, in every step.
LEMMA CallStep ==
    ASSUME McpTypeOK, NEW c \in Caller, CallOf(c), McpStep(c)
    PROVE  CallOf(c)'
<1> USE McpAssumption DEF McpTypeOK, CallOf, Active
<1>1. CASE Spawn(c) \/ SpawnFails(c)
    BY <1>1 DEF Spawn, SpawnFails
<1>2. CASE PollChild(c) \/ TimeoutKills(c)
    BY <1>2 DEF PollChild, TimeoutKills, Overdue
<1>3. CASE SelectDrains(c)
    BY <1>3 DEF SelectDrains, LoopOn, Appended, Overflows, Exited
<1>4. CASE DeadlinePasses(c)
    BY <1>4 DEF DeadlinePasses
<1>5. CASE ChildWrites(c) /\ ppc[c] \in Active
    BY <1>5 DEF ChildWrites
<1>6. CASE \E code \in ExitCode : ChildExits(c, code)
    BY <1>6 DEF ChildExits
<1>7. CASE Taken(c) \/ Abandoned(c)
    BY <1>7 DEF Taken, Abandoned, Forgotten
<1> QED BY <1>1, <1>2, <1>3, <1>4, <1>5, <1>6, <1>7 DEF McpStep, CallerStep

-----------------------------------------------------------------------------
(* The files of a session root.                                            *)

\* The logs come first, then what Lattice reads, with the session fact last.
LEMMA ArtifactIs ==
    /\ Len(Log) \in Nat
    /\ Len(Artifact) = Len(Log) + 4
    /\ DOMAIN Artifact = 1 .. Len(Artifact)
    /\ Artifact[Len(Log) + 1] = "job.manifest"
    /\ Artifact[Len(Artifact)] = SessionFact
    /\ \A f \in Logs : \E i \in 1 .. Len(Log) : Artifact[i] = f
    /\ \A i \in 1 .. Len(Artifact) : Artifact[i] \in RootFile
<1> DEFINE S == STRING \cup {LatticeFiles[k] : k \in 1 .. 4}
<1>1. Log \in Seq(S) /\ Len(Log) \in Nat /\ DOMAIN Log = 1 .. Len(Log)
    BY HandoffAssumption
<1>2. /\ LatticeFiles \in Seq(S) /\ Len(LatticeFiles) = 4
      /\ LatticeFiles[1] = "job.manifest" /\ LatticeFiles[4] = SessionFact
    BY DEF LatticeFiles, SessionFact
<1> HIDE DEF S
<1>3. /\ Artifact \in Seq(S) /\ Len(Artifact) = Len(Log) + 4
      /\ \A i \in 1 .. Len(Log) + 4 :
            Artifact[i] = IF i <= Len(Log) THEN Log[i] ELSE LatticeFiles[i - Len(Log)]
  <2>1. /\ Log \o LatticeFiles \in Seq(S)
        /\ Len(Log \o LatticeFiles) = Len(Log) + Len(LatticeFiles)
        /\ \A i \in 1 .. Len(Log) + Len(LatticeFiles) :
              (Log \o LatticeFiles)[i] =
                  IF i <= Len(Log) THEN Log[i] ELSE LatticeFiles[i - Len(Log)]
      BY <1>1, <1>2, ConcatProperties, Zenon
  <2>2. Len(Log) + Len(LatticeFiles) = Len(Log) + 4
      BY <1>2
  <2> QED BY <2>1, <2>2, Zenon DEF Artifact
<1> HIDE DEF Artifact
<1>4. DOMAIN Artifact = 1 .. Len(Artifact)
    BY <1>3
<1>5. Artifact[Len(Log) + 1] = "job.manifest"
  <2>1. Len(Log) + 1 \in 1 .. Len(Log) + 4 /\ ~ (Len(Log) + 1 <= Len(Log))
        /\ (Len(Log) + 1) - Len(Log) = 1
      BY <1>1
  <2> QED BY <2>1, <1>2, <1>3
<1>6. Artifact[Len(Artifact)] = SessionFact
  <2>1. Len(Log) + 4 \in 1 .. Len(Log) + 4 /\ ~ (Len(Log) + 4 <= Len(Log))
        /\ (Len(Log) + 4) - Len(Log) = 4
      BY <1>1
  <2> QED BY <2>1, <1>2, <1>3
<1>7. \A f \in Logs : \E i \in 1 .. Len(Log) : Artifact[i] = f
    BY <1>1, <1>3 DEF Logs
<1>8. \A i \in 1 .. Len(Artifact) : Artifact[i] \in RootFile
    BY <1>4 DEF RootFile
<1> QED BY <1>1, <1>3, <1>4, <1>5, <1>6, <1>7, <1>8

\* The logs, the manifest and the fact are files of a session root.
LEMMA RootFiles ==
    Logs \subseteq RootFile /\ "job.manifest" \in RootFile /\ SessionFact \in RootFile
<1> HIDE DEF Artifact, Logs, RootFile, SessionFact
<1>1. \A f \in Logs : f \in RootFile
    BY ArtifactIs
<1>2. "job.manifest" \in RootFile /\ SessionFact \in RootFile
  <2>1. Len(Log) + 1 \in 1 .. Len(Artifact) /\ Len(Artifact) \in 1 .. Len(Artifact)
      BY ArtifactIs
  <2> QED BY <2>1, ArtifactIs
<1> QED BY <1>1, <1>2

-----------------------------------------------------------------------------
(* The inductive invariant.                                                *)

MarshalType ==
    /\ mode \in [Handoff -> {"plan", "dry_run", "run"}]
    /\ req \in [Handoff -> Request \cup {NoRequest}]
    /\ stage \in [Handoff -> Stage]
    /\ admSeen \in [Handoff -> BOOLEAN]
    /\ passed \in [Handoff -> SUBSET Call]
    /\ factSeen \in [Handoff -> BOOLEAN]
    /\ receipt \in {None} \cup [by : Handoff, dispatch : DispatchStates,
                                factSeen : BOOLEAN]

EnvPc == {"off", "read", "write", "digest", "fact", "print"}
Digests == [Logs -> Handoff \cup {None}]

EnvType ==
    /\ tool \in [Handoff -> Call]
    /\ epc \in [Handoff -> EnvPc]
    /\ next \in [Handoff -> 1 .. Len(Artifact)]
    /\ digests \in [Handoff -> Digests]
    /\ result \in [Handoff -> Result]

DiskType ==
    /\ admitted \in BOOLEAN
    /\ root \in [RootFile -> Handoff \cup {None}]
    /\ fact \in {None} \cup [by : Handoff, digests : [Logs -> Handoff]]
    /\ overlapped \in BOOLEAN

\* Marshal and its child: a call is made in the stage named after it, and
\* outside of a call there is no child, except that of a Marshal that crashed.
StageOf(h) ==
    /\ ppc[h] # "idle" => stage[h] \in Call
    /\ ppc[h] = "idle" /\ stage[h] # "crashed" => child[h] = "none"
    /\ child[h] = "alive" /\ stage[h] # "crashed" => tool[h] = stage[h]
    /\ status[h] = "zero" => tool[h] = stage[h]

\* A session run: how far it is, and what the root has by then.
RunOf(h) ==
    /\ epc[h] = "write" => next[h] < Len(Artifact)
    /\ epc[h] \in {"digest", "fact"} => next[h] = Len(Artifact)
    /\ epc[h] \in {"write", "digest", "fact"} =>
          \A i \in 1 .. next[h] - 1 : root[Artifact[i]] # None
    /\ epc[h] = "fact" => digests[h] \in [Logs -> Handoff]

\* Without an overlap there is one writer, what it wrote is still its own, and
\* there is no writer when the fact is there.
SoleWriter ==
    ~ overlapped =>
        /\ \A g, h \in Handoff : Writing(g) /\ Writing(h) => g = h
        /\ \A h \in Handoff : Writing(h) =>
              /\ fact = None
              /\ \A i \in 1 .. next[h] - 1 : root[Artifact[i]] = h
              /\ epc[h] = "fact" => \A f \in Logs : digests[h][f] = h
        /\ fact # None => \A f \in Logs : root[f] = fact.by /\ fact.digests[f] = root[f]

\* What results, passed calls and receipts say of the fact.
Recorded(h) == fact # None /\ (overlapped \/ fact.by = h)

FactOf(h) ==
    /\ result[h] = "executed" \/ "run" \in passed[h] => Recorded(h)
    /\ stage[h] \in {"remove", "install"} /\ ~ factSeen[h] /\ fact # None => fact.by # h

FactOnDisk == fact # None => root["job.manifest"] # None /\ root[SessionFact] # None

ReceiptInv ==
    receipt # None =>
        /\ stage[receipt.by] = "done"
        /\ receipt.dispatch = "executed" => Recorded(receipt.by)
        /\ ~ receipt.factSeen /\ fact # None => fact.by # receipt.by

HandoffType == McpTypeOK /\ MarshalType /\ EnvType /\ DiskType
ProcessInv == \A h \in Handoff : CallOf(h) /\ StageOf(h) /\ RunOf(h)
RecordInv == SoleWriter /\ (\A h \in Handoff : FactOf(h)) /\ FactOnDisk /\ ReceiptInv
Inv == HandoffType /\ ProcessInv /\ RecordInv

\* One step of the handoff h, of its child, or against it.
HandoffStep(h) ==
    \/ \E m \in {"dry_run", "run"}, r \in Request : Start(h, m, r)
    \/ StartPlan(h) \/ Progress(h) \/ EnvStep(h) \/ Deadline(h) \/ MarshalCrashes(h)

\* What it does to the call it may be in.
LEMMA HandoffMcp ==
    ASSUME HandoffType, ProcessInv, NEW h \in Handoff, HandoffStep(h)
    PROVE  h \in Caller /\ (UNCHANGED mcpVars \/ McpStep(h))
<1>0. h \in Caller
    BY HandoffAssumption
<1>1. CASE \/ \E m \in {"dry_run", "run"}, r \in Request : Start(h, m, r)
           \/ StartPlan(h) \/ Sample(h) \/ RemoveReceipt(h) \/ InstallReceipt(h)
           \/ ReceiptFails(h)
    BY <1>0, <1>1 DEF Start, StartPlan, Sample, RemoveReceipt, InstallReceipt, ReceiptFails
<1>2. CASE AdmissionCheck(h) \/ SessionValidate(h) \/ RunRefused(h) \/ RunStarts(h)
           \/ WriteArtifact(h) \/ DigestLogs(h) \/ WriteSessionFact(h) \/ WriteThrows(h)
    BY <1>0, <1>2 DEF AdmissionCheck, SessionValidate, RunRefused, RunStarts,
                      WriteArtifact, DigestLogs, WriteSessionFact, WriteThrows
<1>3. CASE CallTool(h) \/ CallToolFails(h) \/ Conclude(h) \/ Deadline(h)
           \/ (stage[h] \in Call /\ CallerStep(h))
    BY <1>0, <1>3 DEF CallTool, CallToolFails, Conclude, Deadline, McpStep
<1>4. CASE PrintResult(h)
  <2>1. ChildWrites(h) /\ child[h] = "alive" /\ stage[h] # "crashed"
      BY <1>4 DEF PrintResult, Env
  <2>2. ppc[h] \in Active
    <3>1. ppc[h] \in CallState /\ CallOf(h) /\ StageOf(h)
        BY <1>0 DEF HandoffType, McpTypeOK, ProcessInv
    <3> QED BY <2>1, <3>1 DEF CallState, CallOf, StageOf, Active
  <2> QED BY <1>0, <2>1, <2>2 DEF McpStep
<1>5. CASE ToolExits(h) \/ OrphanDies(h)
  <2>1. \E code \in ExitCode : ChildExits(h, code)
      BY <1>5 DEF ToolExits, OrphanDies, ExitCode
  <2> QED BY <1>0, <2>1 DEF McpStep
<1>6. CASE MarshalCrashes(h)
  <2>1. Abandoned(h)
    <3>1. Forgotten(h)
        BY <1>6 DEF MarshalCrashes
    <3>2. child' = [child EXCEPT ![h] = IF Orphaned(h) THEN child[h] ELSE "none"]
        BY <1>6 DEF MarshalCrashes
    <3> QED BY <3>1, <3>2 DEF Abandoned
  <2> QED BY <1>0, <2>1 DEF McpStep
<1> QED
    BY <1>1, <1>2, <1>3, <1>4, <1>5, <1>6, Zenon DEF HandoffStep, Progress, EnvStep

-----------------------------------------------------------------------------
(* What a step does to Marshal's and the child's memory and to the disk.   *)

\* Marshal's memory: the stages of the other handoffs, and what they know, stay.
LEMMA MarshalFrame ==
    ASSUME MarshalType, NEW h \in Handoff, HandoffStep(h), NEW i \in Handoff \ {h}
    PROVE  stage'[i] = stage[i] /\ passed'[i] = passed[i] /\ factSeen'[i] = factSeen[i]
<1> USE DEF MarshalType, marshalVars, Goto, Ends
<1>1. CASE \/ \E m \in {"dry_run", "run"}, r \in Request : Start(h, m, r)
           \/ StartPlan(h) \/ Sample(h) \/ RemoveReceipt(h)
    BY <1>1 DEF Start, StartPlan, Sample, RemoveReceipt
<1>2. CASE InstallReceipt(h) \/ ReceiptFails(h) \/ MarshalCrashes(h)
    BY <1>2 DEF InstallReceipt, ReceiptFails, MarshalCrashes
<1>3. CASE Conclude(h)
    BY <1>3 DEF Conclude
<1>4. CASE UNCHANGED marshalVars
    BY <1>4
<1>5. CallTool(h) \/ CallToolFails(h) \/ EnvStep(h) \/ Deadline(h)
      \/ (stage[h] \in Call /\ CallerStep(h) /\ UNCHANGED <<marshalVars, envVars, diskVars>>)
      => UNCHANGED marshalVars
    BY DEF CallTool, CallToolFails, Deadline, EnvStep, AdmissionCheck, SessionValidate,
           RunRefused, RunStarts, WriteArtifact, DigestLogs, WriteSessionFact,
           WriteThrows, PrintResult, ToolExits, OrphanDies
<1> QED BY <1>1, <1>2, <1>3, <1>4, <1>5, Zenon DEF HandoffStep, Progress

\* The child's memory is left alone by what is not a step of the child, the
\* start of a call, or its end.
EnvKept(h) ==
    \/ \E m \in {"dry_run", "run"}, r \in Request : Start(h, m, r)
    \/ StartPlan(h) \/ Sample(h) \/ RemoveReceipt(h) \/ InstallReceipt(h)
    \/ ReceiptFails(h) \/ CallToolFails(h) \/ PrintResult(h) \/ Deadline(h)
    \/ (stage[h] \in Call /\ CallerStep(h) /\ UNCHANGED <<marshalVars, envVars, diskVars>>)

\* Steps inside Marshal leave the Environment Hero and the disk alone.
LEMMA EnvKeeps ==
    ASSUME NEW h, EnvKept(h)
    PROVE  UNCHANGED <<envVars, diskVars>>
BY DEF EnvKept, Start, StartPlan, Sample, RemoveReceipt, InstallReceipt, ReceiptFails,
       CallToolFails, PrintResult, Deadline

\* The replies that say nothing of the session fact.
Replies(h) == AdmissionCheck(h) \/ SessionValidate(h) \/ RunRefused(h) \/ WriteThrows(h)

\* A reply that is not of a finished run changes the tool's state only.
LEMMA RepliesAre ==
    ASSUME NEW h, Replies(h)
    PROVE  /\ child[h] = "alive"
           /\ \E r \in Result \ {"executed"} : Reply(h, r)
           /\ UNCHANGED <<mcpVars, marshalVars, diskVars>>
<1>1. CASE AdmissionCheck(h)
    BY <1>1 DEF AdmissionCheck, Env, Result
<1>2. CASE SessionValidate(h)
  <2>1. (CASE ~ admitted -> "error"
           [] admitted /\ req[h].valid -> "ready"
           [] admitted /\ ~ req[h].valid -> "not_ready") \in Result \ {"executed"}
      BY DEF Result
  <2> QED BY <1>2, <2>1 DEF SessionValidate, Env
<1>3. CASE RunRefused(h) \/ WriteThrows(h)
    BY <1>3 DEF RunRefused, WriteThrows, Env, Result
<1> QED BY <1>1, <1>2, <1>3 DEF Replies

\* The child is gone and so is its memory.
Clears(h) == EnvCleared(h) /\ (Conclude(h) \/ MarshalCrashes(h))

\* The steps of a handoff, grouped by what they may change.
LEMMA HandoffKinds ==
    ASSUME NEW h, HandoffStep(h)
    PROVE  \/ EnvKept(h) \/ Replies(h) \/ Clears(h)
           \/ CallTool(h) \/ RunStarts(h) \/ WriteArtifact(h) \/ DigestLogs(h)
           \/ WriteSessionFact(h) \/ ToolExits(h) \/ OrphanDies(h)
           \/ ((Conclude(h) \/ MarshalCrashes(h)) /\ UNCHANGED <<envVars, diskVars>>)
<1>1. Conclude(h) \/ MarshalCrashes(h) =>
        Clears(h) \/ ((Conclude(h) \/ MarshalCrashes(h)) /\ UNCHANGED <<envVars, diskVars>>)
    BY DEF Clears, Conclude, MarshalCrashes
<1> QED BY <1>1, Zenon DEF HandoffStep, Progress, EnvStep, EnvKept, Replies

\* The tool of one handoff is not moved by the step of another.
LEMMA EnvFrame ==
    ASSUME EnvType, NEW h \in Handoff, HandoffStep(h), NEW i \in Handoff \ {h}
    PROVE  /\ tool'[i] = tool[i] /\ epc'[i] = epc[i] /\ next'[i] = next[i]
           /\ digests'[i] = digests[i] /\ result'[i] = result[i]
<1> USE DEF EnvType, envVars
<1>1. CASE UNCHANGED <<envVars, diskVars>>
    BY <1>1
<1>2. CASE Replies(h)
    BY <1>2, RepliesAre DEF Reply
<1>3. CASE Clears(h)
    BY <1>3 DEF Clears, EnvCleared
<1>4. CASE CallTool(h) \/ RunStarts(h) \/ WriteArtifact(h) \/ DigestLogs(h)
    BY <1>4 DEF CallTool, RunStarts, WriteArtifact, DigestLogs
<1>5. CASE WriteSessionFact(h) \/ ToolExits(h) \/ OrphanDies(h)
    BY <1>5 DEF WriteSessionFact, Reply, ToolExits, OrphanDies
<1> QED BY <1>1, <1>2, <1>3, <1>4, <1>5, HandoffKinds, EnvKeeps

-----------------------------------------------------------------------------
(* Type correctness.                                                       *)

\* A dispatch is executed only when the call of the run has passed.
LEMMA DispatchType ==
    ASSUME MarshalType, NEW h \in Handoff
    PROVE  /\ DispatchState(h) \in DispatchStates
           /\ DispatchState(h) = "executed" => "run" \in passed[h]
<1>1. mode[h] \in {"plan", "dry_run", "run"}
    BY DEF MarshalType
<1> QED BY <1>1 DEF DispatchState, DispatchStates

\* Every step keeps the types of Marshal's part.
LEMMA MarshalStepType ==
    ASSUME MarshalType, DiskType, NEW h \in Handoff, HandoffStep(h)
    PROVE  MarshalType'
<1> USE DEF MarshalType, Goto, Stage, Call
<1>1. ASSUME NEW m \in {"dry_run", "run"}, NEW r \in Request, Start(h, m, r)
      PROVE  MarshalType'
    BY <1>1 DEF Start, DiskType
<1>2. CASE StartPlan(h) \/ RemoveReceipt(h)
    BY <1>2 DEF StartPlan, RemoveReceipt
<1>3. CASE Sample(h)
  <2>1. factSeen' \in [Handoff -> BOOLEAN]
      BY <1>3 DEF Sample
  <2> QED BY <1>3, <2>1 DEF Sample
<1>4. CASE Conclude(h)
  <2>1. passed' \in [Handoff -> SUBSET Call]
      BY <1>4 DEF Conclude
  <2>2. AfterCall(h, CallOk(h)) \in Stage
      BY DEF AfterCall
  <2> QED BY <1>4, <2>1, <2>2 DEF Conclude
<1>5. CASE InstallReceipt(h) \/ ReceiptFails(h) \/ MarshalCrashes(h)
  <2>1. Ends(h, "done") \/ Ends(h, "crashed")
      BY <1>5 DEF InstallReceipt, ReceiptFails, MarshalCrashes
  <2>2. receipt' = receipt
        \/ receipt' = [by |-> h, dispatch |-> DispatchState(h), factSeen |-> factSeen[h]]
      BY <1>5 DEF InstallReceipt, ReceiptFails, MarshalCrashes
  <2>3. receipt' \in {None} \cup [by : Handoff, dispatch : DispatchStates,
                                  factSeen : BOOLEAN]
      BY <2>2, DispatchType
  <2>4. /\ mode' \in [Handoff -> {"plan", "dry_run", "run"}]
        /\ req' \in [Handoff -> Request \cup {NoRequest}]
        /\ stage' \in [Handoff -> Stage]
        /\ admSeen' \in [Handoff -> BOOLEAN]
        /\ passed' \in [Handoff -> SUBSET Call]
        /\ factSeen' \in [Handoff -> BOOLEAN]
      BY <2>1 DEF Ends
  <2> QED BY <2>3, <2>4
<1>6. CASE UNCHANGED marshalVars
    BY <1>6 DEF marshalVars
<1>7. CallTool(h) \/ CallToolFails(h) \/ EnvStep(h) \/ Deadline(h)
      \/ (stage[h] \in Call /\ CallerStep(h) /\ UNCHANGED <<marshalVars, envVars, diskVars>>)
      => UNCHANGED marshalVars
    BY DEF CallTool, CallToolFails, Deadline, EnvStep, AdmissionCheck, SessionValidate,
           RunRefused, RunStarts, WriteArtifact, DigestLogs, WriteSessionFact,
           WriteThrows, PrintResult, ToolExits, OrphanDies
<1> QED
  <2> HIDE DEF MarshalType, Goto, Stage, Call
  <2> QED
      BY <1>1, <1>2, <1>3, <1>4, <1>5, <1>6, <1>7, Zenon DEF HandoffStep, Progress

\* Every step keeps the types of the Environment Hero's part.
LEMMA EnvStepType ==
    ASSUME MarshalType, EnvType, DiskType, NEW h \in Handoff, RunOf(h), HandoffStep(h)
    PROVE  EnvType'
<1> USE DEF EnvType, EnvPc
<1>0. Len(Artifact) \in Nat /\ Len(Artifact) >= 4 /\ 1 \in 1 .. Len(Artifact)
    BY ArtifactIs
<1>1. [f \in Logs |-> None] \in Digests /\ [f \in Logs |-> root[f]] \in Digests
    BY RootFiles DEF Digests, DiskType
<1> HIDE DEF Artifact, Logs
<1>2. CASE UNCHANGED <<envVars, diskVars>>
    BY <1>2 DEF envVars
<1>3. ASSUME NEW r \in Result, Reply(h, r) PROVE EnvType'
    BY <1>0, <1>1, <1>3 DEF Reply
<1>4. CASE Clears(h)
  <2>1. "check" \in Call /\ "nothing" \in Result
      BY DEF Call, Result
  <2> QED BY <1>0, <1>1, <1>4, <2>1 DEF Clears, EnvCleared
<1>5. CASE CallTool(h)
    BY <1>5 DEF CallTool
<1>6. CASE RunStarts(h)
    BY <1>0, <1>6 DEF RunStarts
<1>7. CASE WriteArtifact(h)
  <2>1. next[h] + 1 \in 1 .. Len(Artifact)
      BY <1>0, <1>7 DEF WriteArtifact, Env, RunOf
  <2> QED BY <1>7, <2>1 DEF WriteArtifact
<1>8. CASE DigestLogs(h)
    BY <1>1, <1>8 DEF DigestLogs
<1>9. CASE ToolExits(h) \/ OrphanDies(h)
    BY <1>9 DEF ToolExits, OrphanDies
<1>10. WriteSessionFact(h) => Reply(h, "executed") /\ "executed" \in Result
    BY DEF WriteSessionFact, Result
<1> HIDE DEF EnvType, EnvPc
<1> QED
    BY <1>2, <1>3, <1>4, <1>5, <1>6, <1>7, <1>8, <1>9, <1>10, HandoffKinds, EnvKeeps,
       RepliesAre

\* The disk, and with it: no file of the root vanishes.
LEMMA DiskStepType ==
    ASSUME EnvType, DiskType, NEW h \in Handoff, RunOf(h), HandoffStep(h)
    PROVE  /\ DiskType'
           /\ \A f \in RootFile : root[f] # None => root'[f] # None
<1> USE DEF DiskType
<1>1. CASE UNCHANGED diskVars
    BY <1>1 DEF diskVars
<1>2. CASE RunStarts(h)
  <2>1. overlapped' \in BOOLEAN
      BY <1>2, Zenon DEF RunStarts
  <2> QED BY <1>2, <2>1 DEF RunStarts
<1>3. CASE WriteArtifact(h)
  <2>1. /\ root' = [root EXCEPT ![Artifact[next[h]]] = h]
        /\ UNCHANGED <<admitted, fact, overlapped>>
      BY <1>3 DEF WriteArtifact
  <2> QED BY <2>1, HandoffAssumption
<1>4. CASE WriteSessionFact(h)
  <2>1. digests[h] \in [Logs -> Handoff]
      BY <1>4 DEF WriteSessionFact, Env, RunOf
  <2>2. /\ root' = [root EXCEPT ![SessionFact] = h]
        /\ fact' = [by |-> h, digests |-> digests[h]]
        /\ UNCHANGED <<admitted, overlapped>>
      BY <1>4 DEF WriteSessionFact
  <2> QED BY <2>1, <2>2, HandoffAssumption
<1>5. CallTool(h) \/ DigestLogs(h) \/ ToolExits(h) \/ OrphanDies(h) \/ Clears(h)
      => UNCHANGED diskVars
    BY DEF CallTool, DigestLogs, ToolExits, OrphanDies, Clears, Conclude, MarshalCrashes
<1> HIDE DEF DiskType
<1> QED BY <1>1, <1>2, <1>3, <1>4, <1>5, HandoffKinds, EnvKeeps, RepliesAre

-----------------------------------------------------------------------------
(* The calls, the stages and the session runs.                             *)

\* A step keeps the relation of Marshal's stage and its child.
LEMMA StageOwn ==
    ASSUME HandoffType, NEW h \in Handoff, h \in Caller, CallOf(h), StageOf(h),
           HandoffStep(h)
    PROVE  StageOf(h)'
<1> USE DEF HandoffType, McpTypeOK, MarshalType, EnvType, StageOf, Goto, mcpVars,
            marshalVars, envVars
<1>1. CASE \/ \E m \in {"dry_run", "run"}, r \in Request : Start(h, m, r)
           \/ StartPlan(h) \/ Sample(h) \/ RemoveReceipt(h) \/ InstallReceipt(h)
           \/ ReceiptFails(h)
  <2>1. stage[h] \notin Call \cup {"crashed"} /\ stage'[h] # "crashed"
        /\ UNCHANGED <<ppc, child, status, tool>>
      BY <1>1 DEF Start, StartPlan, Sample, RemoveReceipt, InstallReceipt, ReceiptFails,
                  Ends, Call
  <2> QED BY <2>1
<1>2. CASE CallTool(h)
    BY <1>2 DEF CallTool, Spawn, Call
<1>3. CASE CallToolFails(h)
    BY <1>3 DEF CallToolFails, SpawnFails
<1>4. CASE Conclude(h)
  <2>1. /\ ppc'[h] = "idle" /\ status'[h] = "none"
        /\ child[h] \in {"reaped", "none"} /\ child'[h] = "none"
      BY <1>4 DEF Conclude, Taken, Forgotten, CallOf
  <2> QED BY <2>1
<1>5. CASE MarshalCrashes(h)
  <2>1. ppc'[h] = "idle" /\ status'[h] = "none" /\ stage'[h] = "crashed"
      BY <1>5 DEF MarshalCrashes, Forgotten, Ends
  <2> QED BY <2>1
<1>6. CASE (stage[h] \in Call /\ CallerStep(h) /\ UNCHANGED <<marshalVars, envVars, diskVars>>)
           \/ Deadline(h)
  <2>1. /\ stage[h] \in Call /\ UNCHANGED <<stage, tool>>
        /\ ppc[h] # "idle" /\ ppc'[h] # "idle"
        /\ child'[h] = "alive" => child[h] = "alive"
        /\ status'[h] = "zero" => status[h] = "zero"
      BY <1>6 DEF CallerStep, PollChild, TimeoutKills, Overdue, SelectDrains, LoopOn,
                  Deadline, DeadlinePasses
  <2> QED BY <2>1
<1>7. CASE PrintResult(h)
    BY <1>7 DEF PrintResult, ChildWrites
<1>8. CASE ToolExits(h) \/ OrphanDies(h)
  <2>1. /\ UNCHANGED <<ppc, stage, tool>> /\ child[h] = "alive" /\ child'[h] = "zombie"
        /\ stage[h] = "crashed" => status'[h] = "killed"
      BY <1>8 DEF ToolExits, OrphanDies, Env, ChildExits
  <2> QED BY <2>1
<1>9. CASE UNCHANGED <<mcpVars, marshalVars, tool>>
    BY <1>9
<1>10. Replies(h) \/ RunStarts(h) \/ WriteArtifact(h) \/ DigestLogs(h) \/ WriteSessionFact(h)
       => UNCHANGED <<mcpVars, marshalVars, tool>>
    BY RepliesAre DEF Reply, RunStarts, WriteArtifact, DigestLogs, WriteSessionFact
<1> HIDE DEF HandoffType, StageOf
<1> QED
    BY <1>1, <1>2, <1>3, <1>4, <1>5, <1>6, <1>7, <1>8, <1>9, <1>10, Zenon
    DEF HandoffStep, Progress, EnvStep, Replies

\* A step keeps the relation of the tool's position and what it wrote.
LEMMA RunOwn ==
    ASSUME EnvType, DiskType, NEW h \in Handoff, RunOf(h), HandoffStep(h)
    PROVE  RunOf(h)'
<1> USE DEF EnvType, RunOf
<1>0. Len(Artifact) \in Nat /\ Len(Artifact) >= 4 /\ next[h] \in 1 .. Len(Artifact)
    BY ArtifactIs
<1>a. \A i \in 1 .. Len(Artifact) : Artifact[i] \in RootFile
    BY ArtifactIs
<1>b. \A f \in RootFile : root[f] # None => root'[f] # None
    BY DiskStepType
<1> HIDE DEF Artifact, Logs, RootFile
<1>1. CASE UNCHANGED <<envVars, diskVars>>
    BY <1>1 DEF envVars, diskVars
<1>2. CASE epc'[h] \notin {"write", "digest", "fact"}
    BY <1>2
<1>3. CASE RunStarts(h)
  <2>1. epc'[h] = "write" /\ next'[h] = 1
      BY <1>3 DEF RunStarts
  <2> QED BY <2>1, <1>0
<1>4. CASE WriteArtifact(h)
  <2>1. /\ epc[h] = "write" /\ next[h] < Len(Artifact) /\ next'[h] = next[h] + 1
        /\ epc'[h] = IF next[h] + 1 = Len(Artifact) THEN "digest" ELSE "write"
        /\ root' = [root EXCEPT ![Artifact[next[h]]] = h]
      BY <1>4 DEF WriteArtifact, Env
  <2>2. root'[Artifact[next[h]]] = h /\ h # None
      BY <2>1, <1>0, <1>a, HandoffAssumption DEF DiskType
  <2>3. \A i \in 1 .. next'[h] - 1 : root'[Artifact[i]] # None
    <3> SUFFICES ASSUME NEW i \in 1 .. next'[h] - 1 PROVE root'[Artifact[i]] # None
        OBVIOUS
    <3>1. CASE i = next[h]
        BY <3>1, <2>2
    <3>2. CASE i # next[h]
      <4>1. i \in 1 .. next[h] - 1 /\ i \in 1 .. Len(Artifact)
          BY <3>2, <2>1, <1>0
      <4> QED BY <4>1, <2>1, <1>a, <1>b
    <3> QED BY <3>1, <3>2
  <2> QED BY <2>1, <2>3, <1>0
<1>5. CASE DigestLogs(h)
  <2>1. /\ epc[h] = "digest" /\ epc'[h] = "fact" /\ next' = next /\ root' = root
        /\ digests'[h] = [f \in Logs |-> root[f]]
      BY <1>5 DEF DigestLogs, Env, diskVars
  <2>2. \A f \in Logs : root[f] \in Handoff
    <3> SUFFICES ASSUME NEW f \in Logs PROVE root[f] \in Handoff
        OBVIOUS
    <3>1. PICK i \in 1 .. Len(Log) : Artifact[i] = f
        BY ArtifactIs
    <3>2. i \in 1 .. next[h] - 1
        BY <2>1, ArtifactIs
    <3>3. root[f] # None
        BY <2>1, <3>1, <3>2
    <3> QED BY <3>3, RootFiles DEF DiskType
  <2> QED BY <2>1, <2>2
<1>6. CASE Replies(h) \/ WriteSessionFact(h)
  <2>1. \E r : Reply(h, r)
      BY <1>6, RepliesAre DEF WriteSessionFact
  <2>2. epc'[h] = "print"
      BY <2>1 DEF Reply
  <2> QED BY <2>2
<1>7. CASE Clears(h) \/ ToolExits(h) \/ OrphanDies(h) \/ CallTool(h)
  <2>1. epc'[h] \in {"off", "read"}
      BY <1>7 DEF Clears, EnvCleared, ToolExits, OrphanDies, CallTool
  <2> QED BY <2>1, <1>2
<1> HIDE DEF EnvType, RunOf
<1> QED BY <1>1, <1>3, <1>4, <1>5, <1>6, <1>7, HandoffKinds, EnvKeeps

\* Types and the relations of the processes are inductive together.
LEMMA ProcessStep ==
    ASSUME HandoffType, ProcessInv, NEW h \in Handoff, HandoffStep(h)
    PROVE  HandoffType' /\ ProcessInv'
<1>1. h \in Caller /\ CallOf(h) /\ StageOf(h) /\ RunOf(h) /\ Caller = Handoff
    BY HandoffAssumption DEF ProcessInv
<1>2. UNCHANGED mcpVars \/ McpStep(h)
    BY HandoffMcp
<1>3. McpTypeOK'
    BY <1>1, <1>2, McpStepType DEF HandoffType, mcpVars, McpTypeOK
<1>4. HandoffType'
    BY <1>1, <1>3, MarshalStepType, EnvStepType, DiskStepType DEF HandoffType
<1>5. CallOf(h)'
    BY <1>1, <1>2, CallStep DEF HandoffType, mcpVars, CallOf
<1>6. StageOf(h)' /\ RunOf(h)'
    BY <1>1, StageOwn, RunOwn DEF HandoffType
<1>7. ASSUME NEW i \in Handoff \ {h} PROVE CallOf(i)' /\ StageOf(i)' /\ RunOf(i)'
  <2>1. CallOf(i) /\ StageOf(i) /\ RunOf(i)
      BY DEF ProcessInv
  <2>2. /\ ppc'[i] = ppc[i] /\ child'[i] = child[i] /\ status'[i] = status[i]
        /\ sent'[i] = sent[i] /\ unread'[i] = unread[i] /\ captured'[i] = captured[i]
        /\ truncated'[i] = truncated[i] /\ open'[i] = open[i]
    <3>1. CASE UNCHANGED mcpVars
        BY <3>1 DEF mcpVars
    <3>2. CASE McpStep(h)
        BY <3>2, <1>1, McpOthers DEF HandoffType
    <3> QED BY <1>2, <3>1, <3>2
  <2>3. stage'[i] = stage[i]
      BY MarshalFrame DEF HandoffType
  <2>4. /\ tool'[i] = tool[i] /\ epc'[i] = epc[i] /\ next'[i] = next[i]
        /\ digests'[i] = digests[i]
      BY EnvFrame DEF HandoffType
  <2>5. CallOf(i)'
      BY <2>1, <2>2 DEF CallOf
  <2>6. StageOf(i)'
      BY <2>1, <2>2, <2>3, <2>4 DEF StageOf
  <2>7. RunOf(i)'
    <3>1. \A k \in 1 .. next[i] - 1 : root[Artifact[k]] # None => root'[Artifact[k]] # None
      <4>1. next[i] \in 1 .. Len(Artifact) /\ Len(Artifact) \in Nat
          BY ArtifactIs DEF HandoffType, EnvType
      <4> HIDE DEF Artifact, RootFile
      <4>2. \A k \in 1 .. next[i] - 1 : Artifact[k] \in RootFile
          BY <4>1, ArtifactIs
      <4> QED BY <4>2, <1>1, DiskStepType DEF HandoffType
    <3> QED BY <2>1, <2>4, <3>1 DEF RunOf
  <2> QED BY <2>5, <2>6, <2>7
<1> QED BY <1>4, <1>5, <1>6, <1>7 DEF ProcessInv

-----------------------------------------------------------------------------
(* The session fact.                                                       *)

\* A step that does not write into the root starts no writer either.
LEMMA WritersOnly ==
    ASSUME HandoffType, ProcessInv, NEW h \in Handoff, HandoffStep(h)
    PROVE  \/ RunStarts(h) \/ WriteArtifact(h) \/ DigestLogs(h) \/ WriteSessionFact(h)
           \/ /\ UNCHANGED <<root, fact, overlapped>>
              /\ \A i \in Handoff : Writing(i)' =>
                    /\ Writing(i) /\ epc'[i] = epc[i]
                    /\ next'[i] = next[i] /\ digests'[i] = digests[i]
<1> SUFFICES ASSUME ~ (RunStarts(h) \/ WriteArtifact(h) \/ DigestLogs(h)
                       \/ WriteSessionFact(h))
             PROVE  /\ UNCHANGED <<root, fact, overlapped>>
                    /\ \A i \in Handoff : Writing(i)' =>
                          /\ Writing(i) /\ epc'[i] = epc[i]
                          /\ next'[i] = next[i] /\ digests'[i] = digests[i]
    OBVIOUS
<1>1. UNCHANGED <<root, fact, overlapped>>
  <2>1. Clears(h) \/ CallTool(h) \/ ToolExits(h) \/ OrphanDies(h) => UNCHANGED diskVars
      BY DEF Clears, Conclude, MarshalCrashes, CallTool, ToolExits, OrphanDies
  <2> QED BY <2>1, HandoffKinds, EnvKeeps, RepliesAre DEF diskVars
<1>2. ASSUME NEW i \in Handoff \ {h}, Writing(i)'
      PROVE  /\ Writing(i) /\ epc'[i] = epc[i]
             /\ next'[i] = next[i] /\ digests'[i] = digests[i]
  <2>1. child'[i] = child[i]
      BY HandoffMcp, McpOthers, HandoffAssumption DEF HandoffType, mcpVars
  <2> QED BY <1>2, <2>1, EnvFrame DEF Writing, HandoffType
<1>3. ASSUME Writing(h)'
      PROVE  /\ Writing(h) /\ epc'[h] = epc[h]
             /\ next'[h] = next[h] /\ digests'[h] = digests[h]
  <2>1. child'[h] = "alive" /\ epc'[h] \in {"write", "digest", "fact"}
      BY <1>3 DEF Writing
  <2>2. EnvKept(h) \/ ((Conclude(h) \/ MarshalCrashes(h)) /\ UNCHANGED <<envVars, diskVars>>)
    <3> USE DEF HandoffType, EnvType
    <3>1. ~ Replies(h)
        BY <2>1, RepliesAre DEF Reply
    <3>2. ~ (Clears(h) \/ CallTool(h) \/ ToolExits(h) \/ OrphanDies(h))
        BY <2>1 DEF Clears, EnvCleared, CallTool, ToolExits, OrphanDies
    <3> QED BY <3>1, <3>2, HandoffKinds
  <2>3. UNCHANGED envVars
      BY <2>2, EnvKeeps
  <2>4. child[h] = "alive"
    <3> USE HandoffAssumption DEF HandoffType, McpTypeOK, mcpVars
    <3>1. CASE EnvKept(h)
        BY <2>1, <3>1
        DEF EnvKept, Start, StartPlan, Sample, RemoveReceipt, InstallReceipt,
            ReceiptFails, CallToolFails, SpawnFails, PrintResult, ChildWrites, Deadline,
            DeadlinePasses, CallerStep, PollChild, TimeoutKills, SelectDrains
    <3>2. CASE Conclude(h) \/ MarshalCrashes(h)
        BY <2>1, <3>2 DEF Conclude, Taken, MarshalCrashes
    <3> QED BY <2>2, <3>1, <3>2
  <2> QED BY <2>1, <2>3, <2>4 DEF envVars, Writing
<1> QED BY <1>1, <1>2, <1>3

\* The fact changes in one step only, and an overlap is not forgotten.
LEMMA FactSteps ==
    ASSUME HandoffType, ProcessInv, NEW h \in Handoff, HandoffStep(h)
    PROVE  /\ overlapped => overlapped'
           /\ fact' = fact \/ WriteSessionFact(h)
<1>1. WriteArtifact(h) \/ DigestLogs(h) => fact' = fact /\ overlapped' = overlapped
    BY DEF WriteArtifact, DigestLogs, diskVars
<1>2. RunStarts(h) => fact' = fact /\ (overlapped => overlapped')
  <2>1. RunStarts(h) => fact' = fact
      BY DEF RunStarts
  <2>2. RunStarts(h) => (overlapped => overlapped')
      BY Zenon DEF RunStarts
  <2> QED BY <2>1, <2>2
<1>3. WriteSessionFact(h) => overlapped' = overlapped
    BY DEF WriteSessionFact
<1> QED BY <1>1, <1>2, <1>3, WritersOnly

\* A run beside another counts as an overlap; without one the writer is alone.
LEMMA SoleStep ==
    ASSUME HandoffType, ProcessInv, SoleWriter, FactOnDisk, NEW h \in Handoff,
           HandoffStep(h)
    PROVE  SoleWriter'
<1> SUFFICES ASSUME ~ overlapped'
             PROVE  /\ \A g, k \in Handoff : Writing(g)' /\ Writing(k)' => g = k
                    /\ \A k \in Handoff : Writing(k)' =>
                          /\ fact' = None
                          /\ \A i \in 1 .. next'[k] - 1 : root'[Artifact[i]] = k
                          /\ epc'[k] = "fact" => \A f \in Logs : digests'[k][f] = k
                    /\ fact' # None =>
                          \A f \in Logs : root'[f] = fact'.by /\ fact'.digests[f] = root'[f]
    BY Zenon DEF SoleWriter
<1>0. /\ \A g, k \in Handoff : Writing(g) /\ Writing(k) => g = k
      /\ \A k \in Handoff : Writing(k) =>
            /\ fact = None
            /\ \A i \in 1 .. next[k] - 1 : root[Artifact[i]] = k
            /\ epc[k] = "fact" => \A f \in Logs : digests[k][f] = k
      /\ fact # None => \A f \in Logs : root[f] = fact.by /\ fact.digests[f] = root[f]
    BY FactSteps DEF SoleWriter
<1>t. /\ epc \in [Handoff -> EnvPc] /\ next \in [Handoff -> 1 .. Len(Artifact)]
      /\ digests \in [Handoff -> Digests] /\ root \in [RootFile -> Handoff \cup {None}]
      /\ Len(Artifact) \in Nat
    BY ArtifactIs DEF HandoffType, EnvType, DiskType
<1> HIDE DEF Artifact, Logs, RootFile, SessionFact
<1>1. CASE /\ UNCHANGED <<root, fact, overlapped>>
           /\ \A i \in Handoff : Writing(i)' =>
                 /\ Writing(i) /\ epc'[i] = epc[i]
                 /\ next'[i] = next[i] /\ digests'[i] = digests[i]
    BY <1>0, <1>1
<1>f. UNCHANGED mcpVars => \A k \in Handoff : child'[k] = child[k]
    BY DEF mcpVars
<1>e. \A k \in Handoff \ {h} :
         epc'[k] = epc[k] /\ next'[k] = next[k] /\ digests'[k] = digests[k]
    BY EnvFrame DEF HandoffType
<1>2. CASE RunStarts(h)
  <2>1. /\ \A k \in Handoff \ {h} : ~ Writing(k)
        /\ next'[h] = 1 /\ epc'[h] = "write" /\ root["job.manifest"] = None
        /\ UNCHANGED <<mcpVars, root, fact>>
      BY <1>2, <1>t DEF RunStarts, Refused
  <2>2. \A k \in Handoff \ {h} : ~ Writing(k)'
      BY <2>1, <1>f, <1>e DEF Writing
  <2>3. fact = None
      BY <2>1 DEF FactOnDisk
  <2> QED BY <2>1, <2>2, <2>3
<1>3. CASE WriteArtifact(h) \/ DigestLogs(h) \/ WriteSessionFact(h)
  <2>1. Writing(h) /\ UNCHANGED mcpVars
      BY <1>3 DEF WriteArtifact, DigestLogs, WriteSessionFact, Env, Writing
  <2>2. \A k \in Handoff \ {h} : ~ Writing(k)'
      BY <2>1, <1>0, <1>f, <1>e DEF Writing
  <2>3. fact = None /\ \A i \in 1 .. next[h] - 1 : root[Artifact[i]] = h
      BY <2>1, <1>0
  <2>4. CASE WriteArtifact(h)
    <3>1. /\ next'[h] = next[h] + 1 /\ epc'[h] # "fact" /\ fact' = None
          /\ root' = [root EXCEPT ![Artifact[next[h]]] = h]
        BY <2>3, <2>4, <1>t DEF WriteArtifact
    <3>2. \A i \in 1 .. next'[h] - 1 : root'[Artifact[i]] = h
      <4> SUFFICES ASSUME NEW i \in 1 .. next'[h] - 1 PROVE root'[Artifact[i]] = h
          OBVIOUS
      <4>1. i \in 1 .. next[h] /\ i \in 1 .. Len(Artifact)
          BY <3>1, <1>t
      <4>2. Artifact[i] \in RootFile
          BY <4>1, ArtifactIs
      <4>3. CASE i = next[h]
          BY <3>1, <4>2, <4>3, <1>t
      <4>4. CASE i # next[h]
        <5>1. root[Artifact[i]] = h
            BY <4>1, <4>4, <1>t, <2>3
        <5> QED BY <3>1, <4>2, <5>1, <1>t
      <4> QED BY <4>3, <4>4
    <3> QED BY <3>1, <3>2, <2>2
  <2>a. next[h] = Len(Artifact) =>
           \A f \in Logs : root[f] = h /\ f \in RootFile
    <3> SUFFICES ASSUME next[h] = Len(Artifact), NEW f \in Logs PROVE root[f] = h
        BY RootFiles
    <3>1. PICK i \in 1 .. Len(Log) : Artifact[i] = f
        BY ArtifactIs
    <3>2. i \in 1 .. next[h] - 1
        BY ArtifactIs
    <3> QED BY <3>1, <3>2, <2>3
  <2>5. CASE DigestLogs(h)
    <3>1. /\ epc[h] = "digest" /\ UNCHANGED <<next, root, fact>>
          /\ digests'[h] = [f \in Logs |-> root[f]]
        BY <2>5, <1>t DEF DigestLogs, Env, diskVars
    <3>2. next[h] = Len(Artifact)
        BY <3>1 DEF ProcessInv, RunOf
    <3> QED BY <3>1, <3>2, <2>a, <2>2, <2>3
  <2>6. CASE WriteSessionFact(h)
    <3>1. /\ epc[h] = "fact" /\ epc'[h] = "print"
          /\ root' = [root EXCEPT ![SessionFact] = h]
          /\ fact' = [by |-> h, digests |-> digests[h]]
        BY <2>6, <1>t DEF WriteSessionFact, Reply, Env
    <3>2. next[h] = Len(Artifact) /\ \A f \in Logs : digests[h][f] = h
        BY <3>1, <2>1, <1>0 DEF ProcessInv, RunOf
    <3>3. ~ Writing(h)'
        BY <3>1 DEF Writing
    <3>4. \A f \in Logs : root'[f] = h
        BY <3>1, <3>2, <2>a, <1>t
    <3> QED BY <3>1, <3>2, <3>3, <3>4, <2>2
  <2> QED BY <1>3, <2>4, <2>5, <2>6
<1> QED BY <1>1, <1>2, <1>3, WritersOnly

\* A child that writes belongs to a call under way, or to a Marshal that crashed.
LEMMA AliveStage ==
    ASSUME HandoffType, ProcessInv, NEW h \in Handoff, child[h] = "alive"
    PROVE  stage[h] \in Call \cup {"crashed"}
BY DEF HandoffType, EnvType, ProcessInv, StageOf

\* The fact that is written.
LEMMA FactWritten ==
    ASSUME HandoffType, ProcessInv, NEW h \in Handoff, WriteSessionFact(h)
    PROVE  /\ fact' # None /\ fact'.by = h /\ result'[h] = "executed"
           /\ Writing(h) /\ child[h] = "alive" /\ UNCHANGED marshalVars
           /\ next[h] = Len(Artifact) /\ epc[h] = "fact"
           /\ root' = [root EXCEPT ![SessionFact] = h]
<1>1. /\ child[h] = "alive" /\ epc[h] = "fact" /\ UNCHANGED marshalVars
      /\ fact' = [by |-> h, digests |-> digests[h]]
      /\ root' = [root EXCEPT ![SessionFact] = h]
    BY DEF WriteSessionFact, Env
<1>2. result'[h] = "executed"
    BY DEF WriteSessionFact, Reply, HandoffType, EnvType
<1>3. digests[h] \in [Logs -> Handoff] /\ next[h] = Len(Artifact)
    BY <1>1 DEF ProcessInv, RunOf
<1>4. fact' # None
    BY <1>1, <1>3, HandoffAssumption
<1> QED BY <1>1, <1>2, <1>3, <1>4 DEF Writing

\* The record of a run stays: another run can replace it only after an overlap.
LEMMA RecordedStays ==
    ASSUME HandoffType, ProcessInv, SoleWriter, NEW h \in Handoff, HandoffStep(h),
           NEW k, Recorded(k)
    PROVE  Recorded(k)'
<1>1. CASE fact' = fact
    BY <1>1, FactSteps, Zenon DEF Recorded
<1>2. CASE WriteSessionFact(h)
  <2>1. Writing(h) /\ fact' # None
      BY <1>2, FactWritten
  <2>2. overlapped
      BY <2>1, Zenon DEF SoleWriter, Recorded
  <2> QED BY <2>1, <2>2, FactSteps, Zenon DEF Recorded
<1> QED BY <1>1, <1>2, FactSteps

\* While there is a fact, its file and the manifest are on disk.
LEMMA OnDiskStep ==
    ASSUME HandoffType, ProcessInv, FactOnDisk, NEW h \in Handoff, HandoffStep(h)
    PROVE  FactOnDisk'
<1>1. \A f \in RootFile : root[f] # None => root'[f] # None
    BY DiskStepType DEF HandoffType, ProcessInv
<1>2. "job.manifest" \in RootFile /\ SessionFact \in RootFile
    BY RootFiles
<1> HIDE DEF RootFile, SessionFact, Artifact
<1>3. CASE fact' = fact
    BY <1>1, <1>2, <1>3 DEF FactOnDisk
<1>4. CASE WriteSessionFact(h)
  <2>1. /\ epc[h] = "fact" /\ next[h] = Len(Artifact)
        /\ root' = [root EXCEPT ![SessionFact] = h]
      BY <1>4, FactWritten
  <2>2. root'[SessionFact] # None
      BY <2>1, <1>2, HandoffAssumption DEF HandoffType, DiskType
  <2>3. Len(Log) + 1 \in 1 .. next[h] - 1
      BY <2>1, ArtifactIs
  <2>4. root["job.manifest"] # None
      BY <2>1, <2>3, ArtifactIs DEF ProcessInv, RunOf
  <2> QED BY <2>2, <2>4, <1>1, <1>2 DEF FactOnDisk
<1> QED BY <1>3, <1>4, FactSteps

\* A call of the session run whose result was as needed wrote the fact.
LEMMA PassedRun ==
    ASSUME HandoffType, ProcessInv, NEW h \in Handoff, Conclude(h),
           "run" \in passed'[h]
    PROVE  "run" \in passed[h] \/ result[h] = "executed"
<1>1. CASE ~ (CallOk(h) /\ stage[h] = "run")
    BY <1>1 DEF Conclude, HandoffType, MarshalType, Call
<1>2. CASE CallOk(h) /\ stage[h] = "run"
  <2>1. status[h] = "zero" /\ result[h] = Wanted(h)
      BY <1>2 DEF CallOk, ProcessOk
  <2>2. tool[h] = "run"
      BY <2>1, <1>2 DEF ProcessInv, StageOf
  <2> QED BY <2>1, <2>2 DEF Wanted
<1> QED BY <1>1, <1>2

\* The step of a handoff keeps what its own result says of the fact.
LEMMA FactOwn ==
    ASSUME HandoffType, ProcessInv, SoleWriter, FactOnDisk, NEW h \in Handoff,
           FactOf(h), HandoffStep(h)
    PROVE  FactOf(h)'
<1>1. (result'[h] = "executed" \/ "run" \in passed'[h]) => Recorded(h)'
  <2>1. CASE WriteSessionFact(h)
      BY <2>1, FactWritten DEF Recorded
  <2>2. CASE ~ WriteSessionFact(h)
    <3>1. result'[h] = "executed" => result[h] = "executed"
      <4> USE DEF HandoffType, EnvType, envVars
      <4>1. CASE UNCHANGED <<envVars, diskVars>>
          BY <4>1
      <4>2. CASE Replies(h)
          BY <4>2, RepliesAre DEF Reply
      <4>3. CASE Clears(h)
          BY <4>3 DEF Clears, EnvCleared
      <4>4. CASE CallTool(h) \/ RunStarts(h) \/ WriteArtifact(h) \/ DigestLogs(h)
                 \/ ToolExits(h) \/ OrphanDies(h)
          BY <4>4 DEF CallTool, RunStarts, WriteArtifact, DigestLogs, ToolExits,
                      OrphanDies
      <4> QED BY <2>2, <4>1, <4>2, <4>3, <4>4, HandoffKinds, EnvKeeps
    <3>2. "run" \in passed'[h] => "run" \in passed[h] \/ result[h] = "executed"
      <4>1. CASE Conclude(h)
          BY <4>1, PassedRun
      <4>2. CASE ~ Conclude(h)
        <5> USE DEF HandoffType, MarshalType, marshalVars
        <5>1. Replies(h) => UNCHANGED passed
            BY RepliesAre
        <5>2. CallTool(h) \/ RunStarts(h) \/ WriteArtifact(h) \/ DigestLogs(h)
              \/ WriteSessionFact(h) \/ ToolExits(h) \/ OrphanDies(h) => UNCHANGED passed
            BY DEF CallTool, RunStarts, WriteArtifact, DigestLogs, WriteSessionFact,
                   ToolExits, OrphanDies
        <5>3. EnvKept(h) \/ MarshalCrashes(h) =>
                 UNCHANGED passed \/ passed' = [passed EXCEPT ![h] = {}]
            BY DEF EnvKept, Start, StartPlan, Sample, RemoveReceipt, InstallReceipt,
                   ReceiptFails, Ends, CallToolFails, PrintResult, Deadline,
                   MarshalCrashes
        <5> QED BY <4>2, <5>1, <5>2, <5>3, HandoffKinds DEF Clears
      <4> QED BY <4>1, <4>2
    <3> QED BY <3>1, <3>2, RecordedStays DEF FactOf
  <2> QED BY <2>1, <2>2
<1>2. ASSUME stage'[h] \in {"remove", "install"}, ~ factSeen'[h], fact' # None
      PROVE  fact'.by # h
  <2> USE DEF HandoffType, MarshalType, Goto
  <2>1. CASE Sample(h)
    <3>1. factSeen'[h] = (root[SessionFact] # None) /\ UNCHANGED fact
        BY <2>1 DEF Sample, diskVars
    <3> QED BY <1>2, <3>1 DEF FactOnDisk
  <2>2. CASE ~ Sample(h)
    <3>1. stage[h] \in {"remove", "install"} /\ factSeen'[h] = factSeen[h]
      <4>1. CASE UNCHANGED marshalVars
          BY <4>1, <1>2 DEF marshalVars
      <4>2. CASE EnvKept(h) /\ ~ UNCHANGED marshalVars
          BY <4>2, <2>2, <1>2
          DEF EnvKept, Start, StartPlan, RemoveReceipt, InstallReceipt, ReceiptFails,
              Ends, CallToolFails, PrintResult, Deadline
      <4>3. ~ (Conclude(h) \/ MarshalCrashes(h))
          BY <1>2 DEF Conclude, AfterCall, MarshalCrashes, Ends
      <4>4. CallTool(h) \/ RunStarts(h) \/ WriteArtifact(h) \/ DigestLogs(h)
            \/ WriteSessionFact(h) \/ ToolExits(h) \/ OrphanDies(h) \/ Replies(h)
            => UNCHANGED marshalVars
          BY RepliesAre
          DEF CallTool, RunStarts, WriteArtifact, DigestLogs, WriteSessionFact,
              ToolExits, OrphanDies
      <4> QED BY <4>1, <4>2, <4>3, <4>4, HandoffKinds DEF Clears
    <3>2. ~ WriteSessionFact(h)
        BY <3>1, FactWritten, AliveStage DEF Call
    <3>3. fact' = fact
        BY <3>2, FactSteps
    <3> QED BY <1>2, <3>1, <3>3 DEF FactOf
  <2> QED BY <2>1, <2>2
<1> QED BY <1>1, <1>2 DEF FactOf

\* Another handoff writes over the fact only with an overlap.
LEMMA FactOthers ==
    ASSUME HandoffType, ProcessInv, SoleWriter, NEW h \in Handoff,
           NEW i \in Handoff \ {h}, FactOf(i), HandoffStep(h)
    PROVE  FactOf(i)'
<1>1. stage'[i] = stage[i] /\ passed'[i] = passed[i] /\ factSeen'[i] = factSeen[i]
    BY MarshalFrame DEF HandoffType
<1>2. result'[i] = result[i]
    BY EnvFrame DEF HandoffType
<1>3. Recorded(i) => Recorded(i)'
    BY RecordedStays
<1>4. fact' = fact \/ fact'.by = h
    BY FactSteps, FactWritten
<1> QED BY <1>1, <1>2, <1>3, <1>4 DEF FactOf

\* A receipt that says executed is of a recorded run.
LEMMA ReceiptStep ==
    ASSUME HandoffType, ProcessInv, RecordInv, NEW h \in Handoff, HandoffStep(h)
    PROVE  ReceiptInv'
<1> USE DEF HandoffType, MarshalType, Goto
<1>1. CASE InstallReceipt(h)
  <2>1. /\ receipt' = [by |-> h, dispatch |-> DispatchState(h), factSeen |-> factSeen[h]]
        /\ stage[h] = "install" /\ stage'[h] = "done" /\ UNCHANGED <<fact, overlapped>>
      BY <1>1 DEF InstallReceipt, Ends, diskVars
  <2>2. DispatchState(h) = "executed" => Recorded(h)'
      BY <2>1, DispatchType, RecordedStays DEF RecordInv, FactOf
  <2>3. ~ factSeen[h] /\ fact # None => fact.by # h
      BY <2>1 DEF RecordInv, FactOf
  <2> QED BY <2>1, <2>2, <2>3 DEF ReceiptInv
<1>2. CASE receipt' = None
    BY <1>2 DEF ReceiptInv
<1>3. CASE receipt' = receipt /\ receipt # None
  <2>1. /\ receipt.by \in Handoff
        /\ stage[receipt.by] = "done"
        /\ receipt.dispatch = "executed" => Recorded(receipt.by)
        /\ ~ receipt.factSeen /\ fact # None => fact.by # receipt.by
      BY <1>3 DEF RecordInv, ReceiptInv
  <2>2. stage'[receipt.by] = "done"
    <3>1. CASE receipt.by # h
        BY <2>1, <3>1, MarshalFrame
    <3>2. CASE receipt.by = h
      <4>1. stage[h] = "done"
          BY <2>1, <3>2
      <4>2. CASE EnvKept(h)
          BY <4>1, <4>2, <3>2
          DEF EnvKept, Start, StartPlan, Sample, RemoveReceipt, InstallReceipt,
              ReceiptFails, CallToolFails, PrintResult, Deadline, Call, marshalVars
      <4>3. ~ (Conclude(h) \/ MarshalCrashes(h))
          BY <4>1 DEF Conclude, MarshalCrashes, Running, Call
      <4>4. CallTool(h) \/ RunStarts(h) \/ WriteArtifact(h) \/ DigestLogs(h)
            \/ WriteSessionFact(h) \/ ToolExits(h) \/ OrphanDies(h) \/ Replies(h)
            => UNCHANGED marshalVars
          BY RepliesAre
          DEF CallTool, RunStarts, WriteArtifact, DigestLogs, WriteSessionFact,
              ToolExits, OrphanDies
      <4> QED BY <4>1, <4>2, <4>3, <4>4, <3>2, HandoffKinds DEF Clears, marshalVars
    <3> QED BY <3>1, <3>2
  <2>3. receipt.dispatch = "executed" => Recorded(receipt.by)'
    <3>1. Recorded(receipt.by) => fact' # None /\ (overlapped' \/ fact'.by = receipt.by)
        BY RecordedStays, Zenon DEF RecordInv, Recorded
    <3> QED BY <3>1, <2>1, <1>3 DEF Recorded
  <2>4. ~ receipt.factSeen /\ fact' # None => fact'.by # receipt.by
    <3>1. CASE fact' = fact
        BY <3>1, <2>1
    <3>2. CASE WriteSessionFact(h)
      <4>1. fact'.by = h /\ stage[h] # "done"
          BY <3>2, FactWritten, AliveStage DEF Call
      <4> QED BY <4>1, <2>1
    <3> QED BY <3>1, <3>2, FactSteps
  <2> QED BY <2>2, <2>3, <2>4, <1>3 DEF ReceiptInv
<1>4. RemoveReceipt(h) => receipt' = None
    BY DEF RemoveReceipt
<1>5. InstallReceipt(h) \/ RemoveReceipt(h) \/ receipt' = receipt
  <2>1. EnvKept(h) => InstallReceipt(h) \/ RemoveReceipt(h) \/ receipt' = receipt
      BY DEF EnvKept, Start, StartPlan, Sample, ReceiptFails, CallToolFails, PrintResult,
             Deadline, marshalVars
  <2>2. Conclude(h) \/ MarshalCrashes(h) => receipt' = receipt
      BY DEF Conclude, MarshalCrashes
  <2>3. CallTool(h) \/ RunStarts(h) \/ WriteArtifact(h) \/ DigestLogs(h)
        \/ WriteSessionFact(h) \/ ToolExits(h) \/ OrphanDies(h) \/ Replies(h)
        => receipt' = receipt
      BY RepliesAre
      DEF CallTool, RunStarts, WriteArtifact, DigestLogs, WriteSessionFact, ToolExits,
          OrphanDies, marshalVars
  <2> QED BY <2>1, <2>2, <2>3, HandoffKinds DEF Clears
<1> QED BY <1>1, <1>2, <1>3, <1>4, <1>5

-----------------------------------------------------------------------------
(* The theorems.                                                           *)

\* The initial states satisfy the invariant.
LEMMA InitInv == Init => Inv
<1> SUFFICES ASSUME Init PROVE Inv
    OBVIOUS
<1> USE McpAssumption, HandoffAssumption DEF Init, McpInit
<1>1. McpTypeOK
    BY DEF McpTypeOK, CallState
<1>2. MarshalType
    BY DEF MarshalType, Stage
<1>3. EnvType
  <2>1. 1 \in 1 .. Len(Artifact)
      BY ArtifactIs
  <2> HIDE DEF Artifact, Logs
  <2>2. [f \in Logs |-> None] \in Digests
      BY DEF Digests
  <2> QED BY <2>1, <2>2 DEF EnvType, EnvPc, Call, Result
<1>4. DiskType
    BY DEF DiskType
<1>5. ProcessInv
    BY DEF ProcessInv, CallOf, StageOf, RunOf, Active
<1>6. SoleWriter /\ (\A h \in Handoff : FactOf(h)) /\ FactOnDisk /\ ReceiptInv
    BY DEF SoleWriter, Writing, FactOf, FactOnDisk, ReceiptInv
<1> QED BY <1>1, <1>2, <1>3, <1>4, <1>5, <1>6 DEF Inv, HandoffType, RecordInv

\* Steps that leave all but the admission alone.
LEMMA IdleStep ==
    ASSUME Inv, admitted' \in BOOLEAN,
           UNCHANGED <<mcpVars, marshalVars, envVars, root, fact, overlapped>>
    PROVE  Inv'
<1> USE DEF mcpVars, marshalVars, envVars
<1>1. HandoffType'
    BY DEF Inv, HandoffType, McpTypeOK, MarshalType, EnvType, DiskType
<1>2. ProcessInv'
    BY DEF Inv, ProcessInv, CallOf, StageOf, RunOf
<1>3. SoleWriter'
    BY DEF Inv, RecordInv, SoleWriter, Writing
<1>4. (\A h \in Handoff : FactOf(h)') /\ FactOnDisk' /\ ReceiptInv'
    BY DEF Inv, RecordInv, FactOf, Recorded, FactOnDisk, ReceiptInv
<1> QED BY <1>1, <1>2, <1>3, <1>4 DEF Inv, RecordInv

\* The whole invariant is inductive.
LEMMA StepInv == Inv /\ [Next]_vars => Inv'
<1> SUFFICES ASSUME Inv, [Next]_vars PROVE Inv'
    OBVIOUS
<1>1. CASE UNCHANGED vars
    BY <1>1, IdleStep DEF vars, diskVars, Inv, HandoffType, DiskType
<1>2. CASE IssueAdmission
    BY <1>2, IdleStep DEF IssueAdmission
<1>3. ASSUME NEW h \in Handoff, HandoffStep(h) PROVE Inv'
  <2>1. HandoffType' /\ ProcessInv'
      BY <1>3, ProcessStep DEF Inv
  <2>2. SoleWriter' /\ FactOnDisk' /\ ReceiptInv'
      BY <1>3, SoleStep, OnDiskStep, ReceiptStep DEF Inv, RecordInv
  <2>3. FactOf(h)'
      BY <1>3, FactOwn DEF Inv, RecordInv
  <2>4. \A i \in Handoff \ {h} : FactOf(i)'
      BY <1>3, FactOthers DEF Inv, RecordInv
  <2> QED BY <2>1, <2>2, <2>3, <2>4 DEF Inv, RecordInv
<1> QED BY <1>1, <1>2, <1>3, Zenon DEF Next, HandoffStep

\* The invariant holds in every state of every behaviour.
LEMMA Invariance == Spec => []Inv
BY InitInv, StepInv, PTL DEF Spec

\* The state of Marshal, of its calls and of the session root stays well formed.
THEOREM TypeCorrect == Spec => []TypeOK
<1>1. Inv => TypeOK
    BY ArtifactIs
    DEF Inv, HandoffType, MarshalType, EnvType, EnvPc, Digests, DiskType, TypeOK
<1> QED BY <1>1, Invariance, PTL

\* A call of a tool returns all that its child wrote, up to the cap, in whatever
\* order the exit, the output and the deadline come.
THEOREM CallsCaptureWhole == Spec => []CapturedWhole
<1>1. Inv => CapturedWhole
  <2> SUFFICES ASSUME Inv, NEW c \in Caller, ppc[c] = "returned"
               PROVE  /\ captured[c] = IF sent[c] > CaptureCap THEN CaptureCap ELSE sent[c]
                      /\ ~ truncated[c] => captured[c] = sent[c]
      BY DEF CapturedWhole
  <2>1. CallOf(c) /\ sent[c] \in Nat
      BY HandoffAssumption DEF Inv, ProcessInv, HandoffType, McpTypeOK
  <2>2. unread[c] = 0 /\ sent[c] - unread[c] = sent[c]
      BY <2>1 DEF CallOf
  <2> QED BY <2>1, <2>2 DEF CallOf
<1> QED BY <1>1, Invariance, PTL

\* The session fact attests the logs as they are, all from the run that wrote
\* it, unless two session runs overlapped.
THEOREM FactAttestsLogs == Spec => []FactMatchesLogs
<1>1. Inv => FactMatchesLogs
    BY Zenon DEF Inv, RecordInv, SoleWriter, FactMatchesLogs
<1> QED BY <1>1, Invariance, PTL

\* A receipt that says executed comes with the session fact of its own run.
THEOREM ExecutedHasFact == Spec => []ExecutedIsRecorded
<1>1. Inv => ExecutedIsRecorded
    BY DEF Inv, RecordInv, ReceiptInv, Recorded, ExecutedIsRecorded
<1> QED BY <1>1, Invariance, PTL

\* A receipt that found no session fact is never overtaken by its own run.
THEOREM DenialIsFinal == Spec => []DeniedStaysDenied
<1>1. Inv => DeniedStaysDenied
    BY DEF Inv, RecordInv, ReceiptInv, DeniedStaysDenied
<1> QED BY <1>1, Invariance, PTL

\* After a handoff came back, no process of it writes into the session root.
THEOREM ReturnedIsQuiet == Spec => QuietAfterReturn
<1>1. Inv /\ [Next]_vars =>
         [\A h \in Handoff : stage[h] = "done" =>
             \A f \in RootFile : root'[f] = h => root[f] = h]_vars
  <2> SUFFICES ASSUME Inv, Next, NEW h \in Handoff, stage[h] = "done",
                      NEW f \in RootFile, root'[f] = h
               PROVE  root[f] = h
      OBVIOUS
  <2>1. CASE IssueAdmission
      BY <2>1 DEF IssueAdmission
  <2>2. ASSUME NEW g \in Handoff, HandoffStep(g) PROVE root[f] = h
    <3>1. CASE WriteArtifact(g) \/ WriteSessionFact(g)
      <4>1. child[g] = "alive" /\ \E x : root' = [root EXCEPT ![x] = g]
          BY <3>1 DEF WriteArtifact, WriteSessionFact, Env
      <4>2. g # h
          BY <4>1, AliveStage DEF Inv, Call
      <4> QED BY <4>1, <4>2 DEF Inv, HandoffType, DiskType
    <3>2. RunStarts(g) \/ DigestLogs(g) => root' = root
        BY DEF RunStarts, DigestLogs, diskVars
    <3> QED BY <2>2, <3>1, <3>2, WritersOnly DEF Inv
  <2> QED BY <2>1, <2>2, Zenon DEF Next, HandoffStep
<1> QED BY <1>1, Invariance, PTL DEF Spec, QuietAfterReturn
=============================================================================
