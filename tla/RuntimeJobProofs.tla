-------------------------- MODULE RuntimeJobProofs --------------------------
(***************************************************************************)
(* Proofs about RuntimeJob, for any number of jobs, attempts and explicit  *)
(* directories.                                                            *)
(*                                                                         *)
(* An attempt directory is created by the job that writes to it, so its    *)
(* files have one writer (Owned).  With that, what Lattice derives from    *)
(* the files of an attempt follows from what one job did, in its order     *)
(* (Honest), and the facts that a call wrote agree with each other because *)
(* each agrees with the memory of the one call that writes (Agree).        *)
(***************************************************************************)
EXTENDS RuntimeJob, TLAPS

Running == {"manifest", "manifest_text", "delegate", "state", "state_text", "facts",
            "exposure", "checkpoint", "final", "final_text"}

\* A put of a job that runs changes one file of its own directory.
LEMMA PutType ==
    ASSUME TypeOK, NEW j \in Job, NEW l \in Leaf, NEW v \in FileValue,
           pc[j] \in Running, Put(j, l, v)
    PROVE  /\ jobDir[j] \in Dir
           /\ file' \in [Dir -> [Leaf -> FileValue]]
           /\ file'[jobDir[j]][l] = v
           /\ \A d \in Dir, m \in Leaf :
                 d # jobDir[j] \/ m # l => file'[d][m] = file[d][m]
<1>1. jobDir[j] \in Dir
    BY DEF TypeOK, Running, Ended
<1>2. file[jobDir[j]] \in [Leaf -> FileValue]
    BY <1>1 DEF TypeOK
<1> QED BY <1>1, <1>2 DEF TypeOK, Put

\* No job has a directory at the start and no directory has files.
LEMMA InitType == Init => TypeOK
<1> SUFFICES ASSUME Init PROVE TypeOK
    OBVIOUS
<1>1. Missing \in FileValue
    BY DEF Missing, FileValue, Status
<1>2. [status |-> "created", trained |-> FALSE, factError |-> FALSE] \in MemValue
    BY DEF MemValue, JobStatus
<1>3. file \in [Dir -> [Leaf -> FileValue]] /\ mem \in [Job -> MemValue]
    BY <1>1, <1>2 DEF Init
<1>4. NoDir \notin Attempt
    BY JobAssumption DEF Dir
<1> QED BY <1>3, <1>4 DEF Init, TypeOK, PcSet, Ended

\* The values that jobs put into files.
LEMMA ValueType ==
    ASSUME TypeOK, NEW j \in Job
    PROVE  /\ Torn(j) \in FileValue
           /\ StateText(j) \in FileValue
           /\ \A s \in Status, b \in BOOLEAN :
                 [by |-> j, status |-> s, trained |-> b] \in FileValue
BY DEF TypeOK, Torn, StateText, FileValue, Status, JobStatus, MemValue

\* Every step keeps the types.
LEMMA StepType == TypeOK /\ [Next]_vars => TypeOK'
<1> SUFFICES ASSUME TypeOK, [Next]_vars PROVE TypeOK'
    OBVIOUS
<1> USE JobAssumption
<1>1. CASE UNCHANGED vars
    BY <1>1 DEF vars, TypeOK
<1>2. ASSUME NEW j \in Job,
             Start(j) \/ ReserveAttempt(j) \/ ReserveThrows(j) \/ ClaimExplicit(j)
      PROVE TypeOK'
  <2> USE DEF Goto, PcSet, Ended, TypeOK
  <2>1. CASE Start(j) BY <2>1 DEF Start
  <2>2. CASE ReserveAttempt(j) BY <2>2 DEF ReserveAttempt, Dir
  <2>3. CASE ReserveThrows(j) BY <2>3 DEF ReserveThrows
  <2>4. CASE ClaimExplicit(j)
    <3>1. explicit[j] \in ExplicitDir /\ explicit[j] \notin Attempt
        BY <2>4 DEF ClaimExplicit, Attempt
    <3> QED BY <2>4, <3>1 DEF ClaimExplicit, Dir
  <2> QED BY <1>2, <2>1, <2>2, <2>3, <2>4
<1>3. ASSUME NEW j \in Job, OpenManifest(j) \/ WriteManifest(j) \/ OpenManifestFails(j)
      PROVE TypeOK'
  <2>1. CASE OpenManifest(j)
      BY <2>1, PutType, ValueType
      DEF OpenManifest, Goto, TypeOK, PcSet, Ended, Running, Leaf
  <2>2. CASE WriteManifest(j)
      BY <2>2, PutType, ValueType
      DEF WriteManifest, Goto, TypeOK, PcSet, Ended, Running, Leaf, Status
  <2>3. CASE OpenManifestFails(j)
      BY <2>3 DEF OpenManifestFails, Goto, TypeOK, PcSet, Ended
  <2> QED BY <1>3, <2>1, <2>2, <2>3
<1>4. ASSUME NEW j \in Job, DelegateCompletes(j) PROVE TypeOK'
  <2> PICK steps \in BOOLEAN :
        /\ mem' = [mem EXCEPT ![j] =
              [status |-> IF mode[j] = "dry_run" THEN "dry_run" ELSE "completed",
               trained |-> steps, factError |-> FALSE]]
        /\ IF mode[j] = "dry_run" THEN file' = file
           ELSE Put(j, "report", Report(j, steps))
      BY <1>4 DEF DelegateCompletes, Steps
  <2>1. file' \in [Dir -> [Leaf -> FileValue]]
      BY <1>4, PutType, ValueType
      DEF DelegateCompletes, Report, TypeOK, Running, Leaf, Status
  <2>2. mem' \in [Job -> MemValue]
      BY DEF TypeOK, MemValue, JobStatus
  <2> QED BY <1>4, <2>1, <2>2 DEF DelegateCompletes, Goto, TypeOK, PcSet, Ended
<1>5. ASSUME NEW j \in Job, DelegateThrows(j) \/ DelegateReports(j) PROVE TypeOK'
  <2>1. CASE DelegateThrows(j)
    <3>1. mem' \in [Job -> MemValue]
        BY <2>1 DEF DelegateThrows, Fail, TypeOK, MemValue, JobStatus
    <3> QED BY <2>1, <3>1 DEF DelegateThrows, Fail, Goto, TypeOK, PcSet, Ended
  <2>2. CASE DelegateReports(j)
    <3>1. PICK steps \in BOOLEAN : Put(j, "report", Report(j, steps))
        BY <2>2 DEF DelegateReports, Steps
    <3>2. file' \in [Dir -> [Leaf -> FileValue]]
        BY <2>2, <3>1, PutType, ValueType DEF DelegateReports, Report, Running, Leaf, Status
    <3> QED BY <2>2, <3>2 DEF DelegateReports, TypeOK
  <2> QED BY <1>5, <2>1, <2>2
<1>6. ASSUME NEW j \in Job,
             OpenState(j) \/ OpenStateFails(j) \/ WriteState(j) \/ WriteFinalState(j)
      PROVE TypeOK'
  <2>1. CASE OpenState(j)
      BY <2>1, PutType, ValueType
      DEF OpenState, Goto, TypeOK, PcSet, Ended, Running, Leaf
  <2>2. CASE OpenStateFails(j)
    <3>1. CASE mem[j].status = "failed"
        BY <2>2, <3>1 DEF OpenStateFails, Goto, TypeOK, PcSet, Ended
    <3>2. CASE mem[j].status # "failed"
      <4>1. Fail(j)
          BY <2>2, <3>2 DEF OpenStateFails
      <4>2. mem' \in [Job -> MemValue]
          BY <4>1 DEF Fail, TypeOK, MemValue, JobStatus
      <4> QED BY <2>2, <4>1, <4>2 DEF OpenStateFails, Fail, Goto, TypeOK, PcSet, Ended
    <3> QED BY <3>1, <3>2
  <2>3. CASE WriteState(j)
      BY <2>3, PutType, ValueType
      DEF WriteState, Goto, TypeOK, PcSet, Ended, Running, Leaf
  <2>4. CASE WriteFinalState(j)
      BY <2>4, PutType, ValueType
      DEF WriteFinalState, Goto, TypeOK, PcSet, Ended, Running, Leaf
  <2> QED BY <1>6, <2>1, <2>2, <2>3, <2>4
<1>7. ASSUME NEW j \in Job, WriteFact(j) PROVE TypeOK'
  <2>1. FactOrder[nfact[j] + 1] \in Leaf
      BY <1>7 DEF TypeOK, FactOrder, Leaf, FactName
  <2>2. file' \in [Dir -> [Leaf -> FileValue]]
    <3>1. mem[j].status \in Status
        BY DEF TypeOK, MemValue, Status
    <3>2. FactText(j, FactOrder[nfact[j] + 1]) \in FileValue
        BY <3>1, ValueType DEF FactText, ModelStateMutated
    <3> QED BY <1>7, <2>1, <3>2, PutType DEF WriteFact, Running
  <2> QED BY <1>7, <2>2 DEF WriteFact, AfterFacts, Goto, TypeOK, PcSet, Ended
<1>8. ASSUME NEW j \in Job, WriteFactFails(j) PROVE TypeOK'
  <2>1. mem' \in [Job -> MemValue]
    <3>1. [mem[j] EXCEPT !.factError = TRUE] \in MemValue
        BY DEF TypeOK, MemValue
    <3> QED BY <1>8, <3>1 DEF WriteFactFails, TypeOK
  <2> QED BY <1>8, <2>1 DEF WriteFactFails, AfterFacts, Goto, TypeOK, PcSet, Ended
<1>9. ASSUME NEW j \in Job, WriteExposure(j) PROVE TypeOK'
  <2>1. /\ file[jobDir[j]]["state"].status \in Status
        /\ DerivedMutated(jobDir[j]) \in BOOLEAN
      BY <1>9 DEF WriteExposure, DerivedMutated, TypeOK, Ended, Leaf, FileValue
  <2>2. file' \in [Dir -> [Leaf -> FileValue]]
      BY <1>9, <2>1, PutType, ValueType DEF WriteExposure, Running, Leaf, Sidecar
  <2> QED BY <1>9, <2>2 DEF WriteExposure, Goto, TypeOK, PcSet, Ended
<1>10. ASSUME NEW j \in Job, WriteExposureFails(j) PROVE TypeOK'
    BY <1>10 DEF WriteExposureFails, Goto, TypeOK, PcSet, Ended
<1>11. ASSUME NEW j \in Job, WriteCheckpointFacts(j) PROVE TypeOK'
  <2> DEFINE d == jobDir[j]
             v == [by |-> j, status |-> "written", trained |-> file[d]["exposure"].trained]
  <2>1. d \in Dir
      BY <1>11 DEF WriteCheckpointFacts, TypeOK, Ended
  <2>2. v \in FileValue
      BY <1>11, <2>1 DEF TypeOK, FileValue, Status, Leaf, Sidecar
  <2>3. file' \in [Dir -> [Leaf -> FileValue]]
    <3>1. [file EXCEPT ![d]["training_update"] = v] \in [Dir -> [Leaf -> FileValue]]
        BY <2>1, <2>2 DEF TypeOK
    <3>2. [file EXCEPT ![d]["training_update"] = v, ![d]["checkpoint"] = v]
             \in [Dir -> [Leaf -> FileValue]]
        BY <2>1, <2>2 DEF TypeOK
    <3> QED BY <1>11, <3>1, <3>2 DEF WriteCheckpointFacts, TypeOK
  <2> QED BY <1>11, <2>3 DEF WriteCheckpointFacts, Goto, TypeOK, PcSet, Ended
<1>12. ASSUME NEW j \in Job, Crash(j) PROVE TypeOK'
    BY <1>12 DEF Crash, Goto, TypeOK, PcSet, Ended
<1> QED
    BY <1>1, <1>2, <1>3, <1>4, <1>5, <1>6, <1>7, <1>8, <1>9, <1>10, <1>11, <1>12
    DEF Next, Step, Run, AllEnded

\* The state of the jobs and of their directories stays well formed, whatever
\* fails, throws or crashes.
THEOREM TypeCorrect == Spec => []TypeOK
BY InitType, StepType, PTL DEF Spec

-----------------------------------------------------------------------------
\* What a step of job j can touch: its own position, its own directory, and,
\* when it claims, a directory that is new or has no artifacts.
Claims(j) ==
    /\ pc[j] = "claim" /\ pc'[j] = "manifest"
    /\ file' = file
    /\ \/ jobDir'[j] \in Attempt \ made
       \/ jobDir'[j] \in ExplicitDir /\ ~ HasArtifacts(jobDir'[j])

Writes(j) ==
    /\ jobDir'[j] = jobDir[j]
    /\ pc[j] \notin {"new", "claim"} => pc'[j] \notin {"new", "claim"}
    /\ \/ file' = file
       \/ /\ pc[j] \in Running
          /\ \A d \in Dir : d # jobDir[j] => file'[d] = file[d]
          /\ \A l \in Leaf : \/ file'[jobDir[j]][l] = file[jobDir[j]][l]
                             \/ file'[jobDir[j]][l].by = j

Touches(j) ==
    /\ pc[j] \notin Ended
    /\ \A i \in Job \ {j} : pc'[i] = pc[i] /\ jobDir'[i] = jobDir[i]
    /\ Claims(j) \/ Writes(j)

\* A put is such a write.
LEMMA PutTouches ==
    ASSUME TypeOK, NEW j \in Job, NEW l \in Leaf, NEW v \in FileValue,
           pc[j] \in Running, Put(j, l, v), v.by = j
    PROVE  /\ \A d \in Dir : d # jobDir[j] => file'[d] = file[d]
           /\ \A m \in Leaf : \/ file'[jobDir[j]][m] = file[jobDir[j]][m]
                              \/ file'[jobDir[j]][m].by = j
<1>1. jobDir[j] \in Dir
    BY PutType
<1> QED BY <1>1, PutType DEF TypeOK, Put

\* A step of a job writes to the directory of that job only.
LEMMA StepTouches ==
    ASSUME TypeOK, NEW j \in Job, Step(j) \/ Crash(j)
    PROVE  Touches(j)
<1> USE JobAssumption
<1>1. /\ pc[j] \notin Ended
      /\ \A i \in Job \ {j} : pc'[i] = pc[i] /\ jobDir'[i] = jobDir[i]
    BY DEF TypeOK, Step, Run, DelegateReports, Crash, Start, ReserveAttempt,
           ReserveThrows, ClaimExplicit,
           OpenManifest, OpenManifestFails, WriteManifest, DelegateCompletes,
           DelegateThrows, Fail, OpenState, OpenStateFails, WriteState, WriteFact,
           WriteFactFails, WriteExposure, WriteExposureFails, WriteCheckpointFacts,
           WriteFinalState, Goto, Ended
<1>2. CASE ReserveAttempt(j)
    BY <1>1, <1>2 DEF ReserveAttempt, Goto, Touches, Claims, TypeOK
<1>3. CASE ClaimExplicit(j)
    BY <1>1, <1>3 DEF ClaimExplicit, Goto, Touches, Claims, Writes, TypeOK
<1>4. CASE Start(j) \/ ReserveThrows(j) \/ OpenManifestFails(j) \/ OpenStateFails(j)
           \/ DelegateThrows(j) \/ WriteFactFails(j) \/ WriteExposureFails(j) \/ Crash(j)
    BY <1>1, <1>4 DEF Start, ReserveThrows, OpenManifestFails, OpenStateFails, Fail,
           DelegateThrows, WriteFactFails, AfterFacts, WriteExposureFails, Crash, Goto, Touches,
           Writes, TypeOK
<1>5. CASE OpenManifest(j)
    BY <1>1, <1>5, PutTouches, ValueType
    DEF OpenManifest, Torn, Goto, Touches, Writes, Running, Leaf, TypeOK
<1>6. CASE WriteManifest(j)
    BY <1>1, <1>6, PutTouches, ValueType
    DEF WriteManifest, Goto, Touches, Writes, Running, Leaf, Status, TypeOK
<1>7. CASE DelegateCompletes(j)
    BY <1>1, <1>7, PutTouches, ValueType
    DEF DelegateCompletes, Steps, Report, Goto, Touches, Writes, Running, Leaf, Status,
        TypeOK
<1>8. CASE DelegateReports(j)
    BY <1>1, <1>8, PutTouches, ValueType
    DEF DelegateReports, Steps, Report, Touches, Writes, Running, Leaf, Status, TypeOK
<1>9. CASE OpenState(j)
    BY <1>1, <1>9, PutTouches, ValueType
    DEF OpenState, Torn, Goto, Touches, Writes, Running, Leaf, TypeOK
<1>10. CASE WriteState(j) \/ WriteFinalState(j)
    BY <1>1, <1>10, PutTouches, ValueType
    DEF WriteState, WriteFinalState, StateText, Goto, Touches, Writes, Running, Leaf,
        TypeOK
<1>11. CASE WriteFact(j)
  <2>1. FactOrder[nfact[j] + 1] \in Leaf
      BY DEF TypeOK, FactOrder, Leaf, FactName
  <2> DEFINE v == FactText(j, FactOrder[nfact[j] + 1])
  <2>2. mem[j].status \in Status
      BY DEF TypeOK, MemValue, Status
  <2>3. v \in FileValue /\ v.by = j
      BY <2>2, ValueType DEF FactText, ModelStateMutated
  <2>4. pc[j] \in Running /\ Put(j, FactOrder[nfact[j] + 1], v)
      BY <1>11 DEF WriteFact, Running
  <2> HIDE DEF v
  <2>5. /\ \A d \in Dir : d # jobDir[j] => file'[d] = file[d]
        /\ \A m \in Leaf : \/ file'[jobDir[j]][m] = file[jobDir[j]][m]
                           \/ file'[jobDir[j]][m].by = j
      BY <2>1, <2>3, <2>4, PutTouches
  <2> QED
      BY <1>1, <1>11, <2>4, <2>5
      DEF WriteFact, AfterFacts, Goto, Touches, Writes, TypeOK
<1>12. CASE WriteExposure(j)
  <2>1. /\ file[jobDir[j]]["state"].status \in Status
        /\ DerivedMutated(jobDir[j]) \in BOOLEAN
      BY <1>12 DEF WriteExposure, DerivedMutated, TypeOK, Ended, Leaf, FileValue
  <2> QED
      BY <1>1, <1>12, <2>1, PutTouches, ValueType
      DEF WriteExposure, Goto, Touches, Writes, Running, Leaf, Sidecar, TypeOK
<1>13. CASE WriteCheckpointFacts(j)
  <2>1. jobDir[j] \in Dir
      BY <1>13 DEF WriteCheckpointFacts, TypeOK, Ended
  <2> QED
      BY <1>1, <1>13, <2>1
      DEF WriteCheckpointFacts, Goto, Touches, Writes, Running, Leaf, Sidecar, TypeOK
<1> QED
    BY <1>2, <1>3, <1>4, <1>5, <1>6, <1>7, <1>8, <1>9, <1>10, <1>11, <1>12, <1>13
    DEF Step, Run

-----------------------------------------------------------------------------
\* The strengthening: an attempt is the directory of one job, which wrote all of
\* its files, and a job that has not claimed has no directory.
Owned ==
    /\ \A j \in Job : pc[j] \in {"new", "claim"} => jobDir[j] = NoDir
    /\ \A i, j \in Job : i # j /\ jobDir[i] \in Attempt => jobDir[i] # jobDir[j]
    /\ \A d \in Attempt, l \in Leaf : file[d][l] # Missing =>
          file[d][l].by \in Job /\ jobDir[file[d][l].by] = d

\* No attempt has files at the start.
LEMMA OwnedInit == Init => Owned
BY JobAssumption DEF Init, Owned, Dir

\* An attempt with files stays with the job that created it.
LEMMA OwnedStep == TypeOK /\ Owned /\ [Next]_vars => Owned'
<1> SUFFICES ASSUME TypeOK, Owned, [Next]_vars PROVE Owned'
    OBVIOUS
<1> USE JobAssumption
<1>1. CASE UNCHANGED vars
    BY <1>1 DEF vars, Owned
<1>2. ASSUME NEW j \in Job, Step(j) \/ Crash(j) PROVE Owned'
  <2>1. Touches(j)
      BY <1>2, StepTouches
  <2>2. CASE Claims(j)
    <3>1. jobDir[j] = NoDir /\ NoDir \notin Attempt
        BY <2>2 DEF Claims, Owned, Dir
    <3>2. \A i \in Job \ {j} : pc'[i] = pc[i] /\ jobDir'[i] = jobDir[i]
        BY <2>1 DEF Touches
    <3>3. \A i \in Job \ {j} : jobDir[i] \in Attempt => jobDir[i] # jobDir'[j]
        BY <2>2 DEF Claims, TypeOK, Attempt
    <3>4. \A i \in Job \ {j} : jobDir'[j] \in Attempt => jobDir[i] # jobDir'[j]
        BY <3>3
    <3>5. ASSUME NEW d \in Attempt, NEW l \in Leaf, file'[d][l] # Missing
          PROVE  file'[d][l].by \in Job /\ jobDir'[file'[d][l].by] = d
        BY <2>2, <3>1, <3>2, <3>5 DEF Claims, Owned
    <3> QED BY <2>2, <3>2, <3>3, <3>4, <3>5 DEF Claims, Owned
  <2>3. CASE Writes(j)
    <3>1. \A i \in Job : jobDir'[i] = jobDir[i]
        BY <2>1, <2>3 DEF Touches, Writes
    <3>2. \A i \in Job : pc'[i] \in {"new", "claim"} => jobDir'[i] = NoDir
        BY <2>1, <2>3, <3>1 DEF Touches, Writes, Owned
    <3>3. ASSUME NEW d \in Attempt, NEW l \in Leaf, file'[d][l] # Missing
          PROVE  file'[d][l].by \in Job /\ jobDir'[file'[d][l].by] = d
        BY <2>3, <3>1, <3>3 DEF Writes, Owned, Dir
    <3> QED BY <3>1, <3>2, <3>3 DEF Owned
  <2> QED BY <2>1, <2>2, <2>3 DEF Touches
<1> QED BY <1>1, <1>2 DEF Next, AllEnded

\* Types and ownership together are inductive.
LEMMA OwnedInvariance == Spec => [](TypeOK /\ Owned)
BY InitType, StepType, OwnedInit, OwnedStep, PTL DEF Spec

\* All files of an attempt directory come from the one job that created it,
\* whatever jobs run beside it.
THEOREM AttemptsHaveOneWriter == Spec => []AttemptSingleWriter
<1>1. TypeOK /\ Owned => AttemptSingleWriter
    BY DEF Owned, AttemptSingleWriter
<1> QED BY <1>1, OwnedInvariance, PTL

\* Evidence at rest stays: a directory with artifacts and without a running job
\* is neither claimed nor written again, be it an attempt or a --job-dir.
THEOREM EvidenceStays == Spec => RestingDirsImmutable
<1>1. TypeOK /\ Owned /\ [Next]_vars =>
         [\A d \in Dir : AtRest(d) => AtRest(d)' /\ file'[d] = file[d]]_vars
  <2> SUFFICES ASSUME TypeOK, Owned, Next, NEW d \in Dir, AtRest(d)
               PROVE  AtRest(d)' /\ file'[d] = file[d]
      OBVIOUS
  <2>1. CASE AllEnded
      BY <2>1 DEF AllEnded, vars, AtRest, HasArtifacts
  <2>2. ASSUME NEW j \in Job, Step(j) \/ Crash(j)
        PROVE  AtRest(d)' /\ file'[d] = file[d]
    <3>1. Touches(j)
        BY <2>2, StepTouches
    <3>2. jobDir[j] # d
        BY <3>1 DEF Touches, AtRest
    <3>3. file'[d] = file[d]
        BY <3>1, <3>2 DEF Touches, Claims, Writes
    <3>4. jobDir'[j] # d
      <4>1. CASE Claims(j)
        <5>1. d \in Attempt => d \in made
          <6> PICK l \in ArtifactLeaf : file[d][l].status # "absent"
              BY DEF AtRest, HasArtifacts
          <6>1. l \in Leaf /\ file[d][l] # Missing
              BY DEF ArtifactLeaf, Leaf, Missing
          <6> QED BY <6>1 DEF Owned, TypeOK
        <5> QED BY <4>1, <5>1, JobAssumption DEF Claims, AtRest, Attempt
      <4>2. CASE Writes(j)
          BY <3>2, <4>2 DEF Writes
      <4> QED BY <3>1, <4>1, <4>2 DEF Touches
    <3>5. HasArtifacts(d)'
        BY <3>3 DEF AtRest, HasArtifacts
    <3> QED BY <3>1, <3>3, <3>4, <3>5 DEF Touches, AtRest
  <2> QED BY <2>1, <2>2 DEF Next
<1> QED BY <1>1, OwnedInvariance, PTL DEF Spec, RestingDirsImmutable

-----------------------------------------------------------------------------
\* What the files of an attempt say of training goes back to the report of its
\* delegate, and a job that has no report yet has said nothing.
HonestDir(d) ==
    /\ file[d]["report"].trained => mode[file[d]["report"].by] = "train"
    /\ file[d]["state"].trained => file[d]["report"].trained
    /\ file[d]["exposure"].trained => file[d]["report"].trained

HonestJob(j) ==
    /\ pc[j] \in {"new", "claim"} => ~ mem[j].trained
    /\ jobDir[j] \in Attempt =>
         /\ mem[j].trained => file[jobDir[j]]["report"].trained
         /\ pc[j] \in {"manifest", "manifest_text", "delegate"} =>
               /\ ~ mem[j].trained
               /\ ~ file[jobDir[j]]["state"].trained
               /\ ~ file[jobDir[j]]["exposure"].trained

Honest == (\A d \in Attempt : HonestDir(d)) /\ (\A j \in Job : HonestJob(j))

\* No attempt can be credited at the start.
LEMMA HonestInit == Init => Honest
<1> SUFFICES ASSUME Init PROVE Honest
    OBVIOUS
<1>1. \A d \in Attempt : HonestDir(d)
    BY DEF Init, HonestDir, Missing, Leaf, Dir, Sidecar
<1>2. \A j \in Job : HonestJob(j)
    BY JobAssumption DEF Init, HonestJob, Dir
<1> QED BY <1>1, <1>2 DEF Honest

\* A step of j leaves the other jobs and the other attempts honest.
LEMMA HonestOthers ==
    ASSUME TypeOK, Owned, Honest, NEW j \in Job, Step(j) \/ Crash(j)
    PROVE  /\ \A d \in Attempt : d # jobDir[j] => HonestDir(d)'
           /\ \A i \in Job \ {j} : HonestJob(i)'
<1>1. Touches(j)
    BY StepTouches
<1>2. mode' = mode /\ \A i \in Job \ {j} : mem'[i] = mem[i]
    BY DEF TypeOK, Step, Run, DelegateReports, Crash, Start, ReserveAttempt,
           ReserveThrows, ClaimExplicit,
           OpenManifest, OpenManifestFails, WriteManifest, DelegateCompletes,
           DelegateThrows, Fail, OpenState, OpenStateFails, WriteState, WriteFact,
           WriteFactFails, WriteExposure, WriteExposureFails, WriteCheckpointFacts,
           WriteFinalState
<1>3. \A d \in Attempt : d # jobDir[j] => file'[d] = file[d]
    BY <1>1 DEF Touches, Claims, Writes, Dir
<1>4. \A d \in Attempt : d # jobDir[j] => HonestDir(d)'
    BY <1>2, <1>3 DEF Honest, HonestDir
<1>5. ASSUME NEW i \in Job \ {j} PROVE HonestJob(i)'
  <2>1. jobDir'[i] = jobDir[i] /\ pc'[i] = pc[i] /\ mem'[i] = mem[i]
      BY <1>1, <1>2 DEF Touches
  <2>2. jobDir[i] \in Attempt => file'[jobDir[i]] = file[jobDir[i]]
      BY <1>3 DEF Owned
  <2> QED BY <2>1, <2>2 DEF Honest, HonestJob
<1> QED BY <1>4, <1>5

\* Files that earn credit are written only after what they attest.
LEMMA HonestStep == TypeOK /\ Owned /\ Honest /\ [Next]_vars => Honest'
<1> SUFFICES ASSUME TypeOK, Owned, Honest, [Next]_vars PROVE Honest'
    OBVIOUS
<1> USE JobAssumption
<1>1. CASE UNCHANGED vars
    BY <1>1 DEF vars, Honest, HonestDir, HonestJob
<1>2. ASSUME NEW j \in Job, Step(j) \/ Crash(j)
      PROVE (\A e \in Attempt : e = jobDir[j] => HonestDir(e)') /\ HonestJob(j)'
  <2> DEFINE d == jobDir[j]
  <2> USE DEF Honest, HonestDir, HonestJob
  <2>1. CASE Start(j) \/ ReserveThrows(j) \/ OpenManifestFails(j) \/ Crash(j)
             \/ WriteExposureFails(j)
      BY <2>1 DEF Start, ReserveThrows, OpenManifestFails, Crash, WriteExposureFails,
                  Goto, TypeOK
  <2>2. CASE ReserveAttempt(j)
    <3>1. \A l \in Leaf : file[jobDir'[j]][l] = Missing /\ jobDir'[j] \in Attempt
        BY <2>2 DEF ReserveAttempt, Owned, TypeOK
    <3>2. jobDir[j] \notin Attempt
        BY <2>2 DEF ReserveAttempt, Owned, Dir
    <3>3. file' = file /\ mem' = mem /\ pc[j] = "claim" /\ pc'[j] = "manifest"
        BY <2>2 DEF ReserveAttempt, Goto, TypeOK
    <3> QED BY <3>1, <3>2, <3>3 DEF Missing, Leaf, Sidecar
  <2>3. CASE ClaimExplicit(j)
    <3>1. jobDir[j] \notin Attempt /\ jobDir'[j] \notin Attempt
        BY <2>3 DEF ClaimExplicit, Owned, Dir, Attempt, TypeOK
    <3> QED BY <2>3, <3>1 DEF ClaimExplicit, Goto, TypeOK
  <2>4. CASE OpenManifest(j) \/ WriteManifest(j)
    <3>1. /\ pc[j] \in {"manifest", "manifest_text"} /\ mem' = mem /\ jobDir' = jobDir
          /\ mode' = mode /\ d \in Dir
        BY <2>4 DEF OpenManifest, WriteManifest, TypeOK, Ended
    <3>2. \A l \in {"report", "state", "exposure"} : file'[d][l] = file[d][l]
        BY <2>4, <3>1 DEF OpenManifest, WriteManifest, Put, TypeOK, Leaf, Sidecar
    <3>3. pc'[j] \in {"manifest_text", "delegate"}
        BY <2>4 DEF OpenManifest, WriteManifest, Goto, TypeOK
    <3> QED BY <3>1, <3>2, <3>3
  <2>5. CASE DelegateCompletes(j)
    <3> PICK steps \in Steps(j) :
          /\ mem' = [mem EXCEPT ![j] =
                [status |-> IF mode[j] = "dry_run" THEN "dry_run" ELSE "completed",
                 trained |-> steps, factError |-> FALSE]]
          /\ IF mode[j] = "dry_run" THEN file' = file
             ELSE Put(j, "report", Report(j, steps))
        BY <2>5 DEF DelegateCompletes
    <3>1. steps \in BOOLEAN /\ (steps => mode[j] = "train") /\ mem'[j].trained = steps
        BY DEF TypeOK, Steps
    <3>2. /\ pc[j] = "delegate" /\ pc'[j] = "state" /\ jobDir' = jobDir /\ mode' = mode
          /\ d \in Dir
        BY <2>5 DEF DelegateCompletes, Goto, TypeOK, Ended
    <3>3. CASE mode[j] = "dry_run"
        BY <3>1, <3>2, <3>3
    <3>4. CASE mode[j] # "dry_run"
      <4>1. Report(j, steps) \in FileValue
          BY <3>1, ValueType DEF Report, Status
      <4>2. /\ file'[d]["report"] = Report(j, steps)
            /\ file'[d]["state"] = file[d]["state"]
            /\ file'[d]["exposure"] = file[d]["exposure"]
          BY <3>2, <3>4, <4>1, PutType DEF Running, Leaf, Sidecar
      <4> QED BY <3>1, <3>2, <4>2 DEF Report
    <3> QED BY <3>3, <3>4
  <2>6. CASE DelegateReports(j)
    <3>1. PICK steps \in Steps(j) : Put(j, "report", Report(j, steps))
        BY <2>6 DEF DelegateReports
    <3>2. /\ pc[j] = "delegate" /\ pc' = pc /\ jobDir' = jobDir /\ mode' = mode
          /\ mem' = mem /\ d \in Dir
        BY <2>6 DEF DelegateReports, TypeOK, Ended
    <3>3. /\ file'[d]["report"] = [by |-> j, status |-> "written", trained |-> steps]
          /\ file'[d]["state"] = file[d]["state"]
          /\ file'[d]["exposure"] = file[d]["exposure"]
        BY <3>1, <3>2, PutType, ValueType DEF Steps, Report, Running, Leaf, Status, Sidecar
    <3>4. steps => mode[j] = "train"
        BY DEF Steps
    <3>5. \A e \in Attempt : e = d => HonestDir(e)'
        BY <3>2, <3>3, <3>4
    <3>6. HonestJob(j)'
        BY <3>2, <3>3
    <3> QED BY <3>5, <3>6
  <2>7. CASE OpenStateFails(j) \/ DelegateThrows(j)
    <3>1. /\ pc'[j] \in {"facts", "failed_unsaved"} /\ jobDir' = jobDir /\ mode' = mode
          /\ file' = file /\ (mem'[j].trained = FALSE \/ mem'[j] = mem[j])
        BY <2>7 DEF OpenStateFails, DelegateThrows, Fail, Goto, TypeOK
    <3> QED BY <3>1
  <2>8. CASE OpenState(j) \/ WriteState(j) \/ WriteFinalState(j)
    <3>1. /\ pc'[j] \notin {"new", "claim", "manifest", "manifest_text", "delegate"}
          /\ jobDir' = jobDir /\ mode' = mode /\ mem' = mem /\ d \in Dir
        BY <2>8 DEF OpenState, WriteState, WriteFinalState, Goto, TypeOK, Ended
    <3>2. /\ file'[d]["report"] = file[d]["report"]
          /\ file'[d]["exposure"] = file[d]["exposure"]
          /\ file'[d]["state"].trained => mem[j].trained
        BY <2>8, PutType, ValueType
        DEF OpenState, WriteState, WriteFinalState, StateText, Torn, Running, Leaf, Sidecar
    <3> QED BY <3>1, <3>2
  <2>9. CASE WriteFact(j)
    <3>1. FactOrder[nfact[j] + 1] \in FactName
        BY DEF TypeOK, FactOrder, FactName
    <3>2. /\ pc'[j] \in {"facts", "final", "exposure"}
          /\ jobDir' = jobDir /\ mode' = mode /\ mem' = mem /\ d \in Dir
        BY <2>9 DEF WriteFact, AfterFacts, Goto, TypeOK, Ended
    <3>3. \A l \in {"report", "state", "exposure"} : file'[d][l] = file[d][l]
        BY <2>9, <3>1, <3>2 DEF WriteFact, Put, TypeOK, FactName, Leaf, Sidecar
    <3> QED BY <3>2, <3>3
  <2>10. CASE WriteFactFails(j)
    <3>1. /\ pc'[j] \in {"final", "exposure"} /\ jobDir' = jobDir /\ mode' = mode
          /\ file' = file /\ mem'[j].trained = mem[j].trained
        BY <2>10 DEF WriteFactFails, AfterFacts, Goto, TypeOK, MemValue
    <3> QED BY <3>1
  <2>11. CASE WriteExposure(j)
    <3>1. /\ pc'[j] = "checkpoint" /\ jobDir' = jobDir /\ mode' = mode /\ mem' = mem
          /\ d \in Dir
        BY <2>11 DEF WriteExposure, Goto, TypeOK, Ended
    <3>2. /\ file'[d]["report"] = file[d]["report"]
          /\ file'[d]["state"] = file[d]["state"]
          /\ file'[d]["exposure"].trained => file[d]["state"].trained
        BY <2>11, <3>1 DEF WriteExposure, Put, DerivedMutated, TypeOK, Leaf, Sidecar
    <3> QED BY <3>1, <3>2
  <2>12. CASE WriteCheckpointFacts(j)
    <3>1. /\ pc'[j] = "final" /\ jobDir' = jobDir /\ mode' = mode /\ mem' = mem
          /\ d \in Dir
        BY <2>12 DEF WriteCheckpointFacts, Goto, TypeOK, Ended
    <3>2. \A l \in {"report", "state", "exposure"} : file'[d][l] = file[d][l]
        BY <2>12, <3>1 DEF WriteCheckpointFacts, TypeOK, Leaf, Sidecar
    <3> QED BY <3>1, <3>2
  <2> QED
      BY <1>2, <2>1, <2>2, <2>3, <2>4, <2>5, <2>6, <2>7, <2>8, <2>9, <2>10, <2>11, <2>12
      DEF Step, Run
<1>3. ASSUME NEW j \in Job, Step(j) \/ Crash(j) PROVE Honest'
  <2>1. /\ \A d \in Attempt : d # jobDir[j] => HonestDir(d)'
        /\ \A i \in Job \ {j} : HonestJob(i)'
      BY <1>3, HonestOthers
  <2>2. (\A e \in Attempt : e = jobDir[j] => HonestDir(e)') /\ HonestJob(j)'
      BY <1>2, <1>3
  <2> QED BY <2>1, <2>2 DEF Honest
<1> QED BY <1>1, <1>3 DEF Next, AllEnded

\* Lattice never credits an attempt with a mutation that its delegate did not
\* report from a train wave, at any moment and after any crash or failed write.
THEOREM CreditIsEarned == Spec => []CreditMeansTrained
<1>1. Honest => CreditMeansTrained
    BY DEF Honest, HonestDir, CreditMeansTrained, CreditsMutation, DerivedMutated
<1> QED
    BY <1>1, InitType, StepType, OwnedInit, OwnedStep, HonestInit, HonestStep, PTL DEF Spec

-----------------------------------------------------------------------------
(* The terminal facts.  The call that writes them is at fact nfact[j]; the *)
(* ones before it say what the memory of the job says, and after the call  *)
(* all of them do, unless it recorded an error.                            *)

AfterCall == {"exposure", "checkpoint", "final", "final_text", "done", "failed"}

FactFits(j, n) ==
    /\ file[jobDir[j]][n].status = mem[j].status
    /\ n # "health" => file[jobDir[j]][n].trained = ModelStateMutated(j)

AgreeJob(j) ==
    /\ pc[j] \notin {"facts", "crashed"} => nfact[j] = 0
    /\ jobDir[j] \in Attempt /\ ~ mem[j].factError =>
          /\ pc[j] = "facts" => \A k \in 1 .. nfact[j] : FactFits(j, FactOrder[k])
          /\ pc[j] \in AfterCall => \A n \in FactName : FactFits(j, n)
          /\ pc[j] \in {"done", "failed"} => file[jobDir[j]]["state"] = StateText(j)

Agree == \A j \in Job : AgreeJob(j)

\* A step of j leaves what the other jobs know of their attempts as it was.
LEMMA AgreeOthers ==
    ASSUME TypeOK, Owned, Agree, NEW j \in Job, Step(j) \/ Crash(j)
    PROVE  \A i \in Job \ {j} : AgreeJob(i)'
<1>1. Touches(j)
    BY StepTouches
<1>2. \A i \in Job \ {j} : mem'[i] = mem[i] /\ nfact'[i] = nfact[i]
    BY DEF TypeOK, Step, Run, DelegateReports, Crash, Start, ReserveAttempt,
           ReserveThrows, ClaimExplicit,
           OpenManifest, OpenManifestFails, WriteManifest, DelegateCompletes,
           DelegateThrows, Fail, OpenState, OpenStateFails, WriteState, WriteFact,
           WriteFactFails, WriteExposure, WriteExposureFails, WriteCheckpointFacts,
           WriteFinalState
<1>3. \A d \in Attempt : d # jobDir[j] => file'[d] = file[d]
    BY <1>1 DEF Touches, Claims, Writes, Dir
<1>4. ASSUME NEW i \in Job \ {j} PROVE AgreeJob(i)'
  <2>1. /\ jobDir'[i] = jobDir[i] /\ pc'[i] = pc[i] /\ mem'[i] = mem[i]
        /\ nfact'[i] = nfact[i]
      BY <1>1, <1>2 DEF Touches
  <2>2. jobDir[i] \in Attempt => file'[jobDir[i]] = file[jobDir[i]]
      BY <1>3 DEF Owned
  <2> QED BY <2>1, <2>2 DEF Agree, AgreeJob, FactFits, ModelStateMutated, StateText
<1> QED BY <1>4

\* A step of j keeps its own facts in agreement.
LEMMA AgreeOwn ==
    ASSUME TypeOK, Owned, Agree, NEW j \in Job, Step(j) \/ Crash(j)
    PROVE  AgreeJob(j)'
<1> DEFINE d == jobDir[j]
<1> USE JobAssumption DEF AgreeJob
<1>0. AgreeJob(j)
    BY DEF Agree
<1>1. CASE Start(j) \/ ReserveAttempt(j) \/ ReserveThrows(j) \/ ClaimExplicit(j)
           \/ OpenManifestFails(j) \/ Crash(j)
  <2>1. pc'[j] \notin {"facts"} \cup AfterCall /\ nfact' = nfact
      BY <1>1 DEF Start, ReserveAttempt, ReserveThrows, ClaimExplicit,
                  OpenManifestFails, Crash, Goto, TypeOK, AfterCall
  <2>2. pc[j] \notin {"facts", "crashed"} \/ pc'[j] = "crashed"
      BY <1>1 DEF Start, ReserveAttempt, ReserveThrows, ClaimExplicit,
                  OpenManifestFails, Crash, Goto, TypeOK
  <2> QED BY <1>0, <2>1, <2>2 DEF AfterCall
<1>2. CASE OpenManifest(j) \/ WriteManifest(j) \/ DelegateCompletes(j)
           \/ DelegateReports(j)
  <2>1. pc'[j] \notin {"facts"} \cup AfterCall /\ nfact' = nfact /\ nfact[j] = 0
      BY <1>0, <1>2 DEF OpenManifest, WriteManifest, DelegateCompletes, DelegateReports,
                        Goto, TypeOK, AfterCall
  <2> QED BY <2>1 DEF AfterCall
<1>3. CASE Fail(j)
    BY <1>3 DEF Fail, Goto, TypeOK, AfterCall
<1>4. CASE OpenStateFails(j) /\ mem[j].status = "failed"
  <2>1. pc'[j] = "failed_unsaved" /\ nfact' = nfact /\ nfact[j] = 0
      BY <1>0, <1>4 DEF OpenStateFails, Goto, TypeOK
  <2> QED BY <2>1 DEF AfterCall
<1>5. CASE OpenState(j) \/ WriteState(j)
  <2>1. /\ jobDir' = jobDir /\ mem' = mem /\ nfact' = nfact /\ nfact[j] = 0 /\ d \in Dir
        /\ \/ pc[j] = "final" /\ pc'[j] = "final_text"
           \/ pc'[j] \in {"state_text", "facts"}
      BY <1>0, <1>5 DEF OpenState, WriteState, Goto, TypeOK, Ended
  <2>2. \A n \in FactName : file'[d][n] = file[d][n]
      BY <1>5, <2>1 DEF OpenState, WriteState, Put, TypeOK, FactName, Leaf
  <2> QED BY <1>0, <2>1, <2>2 DEF AfterCall, FactFits, ModelStateMutated
<1>6. CASE WriteFinalState(j)
  <2>1. /\ jobDir' = jobDir /\ mem' = mem /\ nfact' = nfact /\ nfact[j] = 0 /\ d \in Dir
        /\ pc[j] = "final_text" /\ pc'[j] \in {"done", "failed"}
      BY <1>0, <1>6 DEF WriteFinalState, Goto, TypeOK, Ended
  <2>2. \A n \in FactName : file'[d][n] = file[d][n]
      BY <1>6, <2>1 DEF WriteFinalState, Put, TypeOK, FactName, Leaf
  <2>3. file'[d]["state"] = StateText(j)
      BY <1>6, PutType, ValueType DEF WriteFinalState, Running, Leaf
  <2>4. StateText(j)' = StateText(j)
      BY <2>1 DEF StateText
  <2> QED BY <1>0, <2>1, <2>2, <2>3, <2>4 DEF AfterCall, FactFits, ModelStateMutated
<1>7. CASE WriteFact(j)
  <2> DEFINE n == nfact[j] + 1
             v == FactText(j, FactOrder[n])
  <2>1. /\ pc[j] = "facts" /\ jobDir' = jobDir /\ mem' = mem /\ d \in Dir
        /\ nfact[j] \in 0 .. 2 /\ Put(j, FactOrder[n], v)
        /\ nfact'[j] = IF nfact[j] = 2 THEN 0 ELSE n
        /\ pc'[j] = IF nfact[j] = 2 THEN AfterFacts(j) ELSE "facts"
      BY <1>7 DEF WriteFact, Goto, TypeOK, Ended
  <2>2. /\ FactOrder[n] \in FactName
        /\ \A k \in 1 .. nfact[j] : FactOrder[k] \in FactName /\ FactOrder[k] # FactOrder[n]
        /\ nfact[j] = 2 => FactName = {FactOrder[1], FactOrder[2], FactOrder[n]}
      BY <2>1 DEF FactOrder, FactName
  <2>3. v \in FileValue
    <3>1. mem[j].status \in Status
        BY DEF TypeOK, MemValue, Status
    <3> QED BY <3>1, ValueType DEF FactText, ModelStateMutated
  <2>4. /\ v.status = mem[j].status
        /\ FactOrder[n] # "health" => v.trained = ModelStateMutated(j)
      BY DEF FactText, ModelStateMutated
  <2> HIDE DEF v
  <2>5. /\ file'[d][FactOrder[n]] = v
        /\ \A k \in 1 .. nfact[j] : file'[d][FactOrder[k]] = file[d][FactOrder[k]]
    <3>1. FactOrder[n] \in Leaf /\ \A k \in 1 .. nfact[j] : FactOrder[k] \in Leaf
        BY <2>2 DEF Leaf
    <3>2. pc[j] \in Running
        BY <2>1 DEF Running
    <3> HIDE DEF n, d
    <3>3. file'[jobDir[j]][FactOrder[n]] = v
        BY <2>1, <2>3, <3>1, <3>2, PutType
    <3>4. \A m \in Leaf : m # FactOrder[n] => file'[jobDir[j]][m] = file[jobDir[j]][m]
        BY <2>1, <2>3, <3>1, <3>2, PutType
    <3> QED BY <2>2, <3>1, <3>3, <3>4 DEF d
  <2>6. d \in Attempt /\ ~ mem[j].factError =>
           \A k \in 1 .. n : FactFits(j, FactOrder[k])'
    <3> SUFFICES ASSUME d \in Attempt, ~ mem[j].factError, NEW k \in 1 .. n
                 PROVE  FactFits(j, FactOrder[k])'
        OBVIOUS
    <3>1. CASE k = n
        BY <3>1, <2>1, <2>4, <2>5 DEF FactFits, ModelStateMutated
    <3>2. CASE k # n
      <4>1. k \in 1 .. nfact[j]
          BY <3>2, <2>1
      <4> QED BY <4>1, <1>0, <2>1, <2>5 DEF FactFits, ModelStateMutated
    <3> QED BY <3>1, <3>2
  <2>7. CASE nfact[j] = 2
    <3>1. pc'[j] \in {"final", "exposure"} /\ nfact'[j] = 0
        BY <2>1, <2>7 DEF AfterFacts
    <3>2. d \in Attempt /\ ~ mem[j].factError => \A m \in FactName : FactFits(j, m)'
        BY <2>2, <2>6, <2>7
    <3> QED BY <3>1, <3>2, <2>1
  <2>8. CASE nfact[j] # 2
    <3>1. pc'[j] = "facts" /\ nfact'[j] = n
        BY <2>1, <2>8
    <3> QED BY <3>1, <2>1, <2>6 DEF AfterCall
  <2> QED BY <2>7, <2>8
<1>8. CASE WriteFactFails(j)
  <2>1. mem'[j].factError /\ nfact'[j] = 0
      BY <1>8 DEF WriteFactFails, TypeOK, MemValue
  <2> QED BY <2>1
<1>9. CASE WriteExposure(j) \/ WriteExposureFails(j) \/ WriteCheckpointFacts(j)
  <2>1. /\ pc[j] \in {"exposure", "checkpoint"} /\ pc'[j] \in {"checkpoint", "final"}
        /\ jobDir' = jobDir /\ mem' = mem /\ nfact' = nfact /\ d \in Dir
      BY <1>9 DEF WriteExposure, WriteExposureFails, WriteCheckpointFacts, Goto, TypeOK,
                  Ended
  <2>2. \A n \in FactName : file'[d][n] = file[d][n]
      BY <1>9, <2>1 DEF WriteExposure, WriteExposureFails, WriteCheckpointFacts, Put,
                        TypeOK, FactName, Leaf, Sidecar
  <2> QED BY <1>0, <2>1, <2>2 DEF AfterCall, FactFits, ModelStateMutated
<1> QED
    BY <1>1, <1>2, <1>3, <1>4, <1>5, <1>6, <1>7, <1>8, <1>9
    DEF Step, Run, DelegateThrows, OpenStateFails

\* A fact is written from the memory of the call that writes it.
LEMMA AgreeStep == TypeOK /\ Owned /\ Agree /\ [Next]_vars => Agree'
<1> SUFFICES ASSUME TypeOK, Owned, Agree, [Next]_vars PROVE Agree'
    OBVIOUS
<1>1. CASE UNCHANGED vars
    BY <1>1 DEF vars, Agree, AgreeJob, FactFits, ModelStateMutated, StateText
<1>2. ASSUME NEW j \in Job, Step(j) \/ Crash(j) PROVE Agree'
    BY <1>2, AgreeOthers, AgreeOwn DEF Agree
<1> QED BY <1>1, <1>2 DEF Next, AllEnded

\* The terminal facts of a job that returned or rethrew without a fact error
\* agree with its job.state, also when they replace those of a completed job.
THEOREM TerminalFactsStayConsistent == Spec => []TerminalFactsAgree
<1>1. Init => Agree
    BY JobAssumption DEF Init, Agree, AgreeJob, Dir
<1>2. Agree => TerminalFactsAgree
  <2> SUFFICES ASSUME Agree, NEW j \in Job, pc[j] \in {"done", "failed"},
                      ~ mem[j].factError, jobDir[j] \in Attempt, NEW n \in FactName
               PROVE  /\ file[jobDir[j]][n].status = file[jobDir[j]]["state"].status
                      /\ n # "health" => file[jobDir[j]][n].trained =
                            (/\ file[jobDir[j]]["state"].status = "completed"
                             /\ file[jobDir[j]]["state"].trained)
      BY DEF TerminalFactsAgree
  <2>1. FactFits(j, n) /\ file[jobDir[j]]["state"] = StateText(j)
      BY DEF Agree, AgreeJob, AfterCall
  <2>2. StateText(j).status = mem[j].status /\ StateText(j).trained = mem[j].trained
      BY DEF StateText
  <2> QED BY <2>1, <2>2 DEF FactFits, ModelStateMutated
<1> QED
    BY <1>1, <1>2, InitType, StepType, OwnedInit, OwnedStep, AgreeStep, PTL DEF Spec
=============================================================================
