----------------------------- MODULE RuntimeJob -----------------------------
(***************************************************************************)
(* The directory of a runtime job: job_runner_t::run and                   *)
(* run_channel_graph_first from the claim of a directory to the end of the *)
(* job, run by several processes over one runtime root, and what Lattice   *)
(* reads from the directory at any moment.                                 *)
(*                                                                         *)
(* A job claims a directory, either a fresh attempt or the one its user    *)
(* named, and writes its manifest, the delegate's report, job.state, three *)
(* terminal facts, the Lattice sidecars and job.state again.  An exception *)
(* after the manifest turns the job into a failed one that overwrites the  *)
(* facts and the state.  job.manifest and job.state are truncated and then *)
(* written; the facts and sidecars are installed by rename (TextInstall).  *)
(***************************************************************************)
EXTENDS Naturals

CONSTANTS Job,           \* job processes
          NoJob,         \* writer of a file that does not exist
          MaxAttempts,   \* bound on the attempt index (1000000 in the code)
          ExplicitDir,   \* directories named with --job-dir
          NoDir,         \* no directory claimed; no --job-dir given
          Mode,          \* what the jobs are configured to do: a train or an
                         \* eval wave, or a dry run of a train wave
          IoMayFail      \* a file may fail to open or to be installed

Attempt == 0 .. MaxAttempts - 1
Dir == Attempt \cup ExplicitDir

ASSUME JobAssumption ==
    /\ NoJob \notin Job
    /\ NoDir \notin Dir
    /\ MaxAttempts \in Nat
    /\ ExplicitDir \cap Nat = {}
    /\ Mode \subseteq {"train", "eval", "dry_run"}
    /\ IoMayFail \in BOOLEAN

JobStatus == {"created", "completed", "dry_run", "failed"}
Status == JobStatus \cup {"absent", "torn", "written"}

\* A file: who wrote it, the status it records, and whether it records that
\* the model was trained (optimizer_steps > 0 in the report and
\* job.state, model_state_mutated in a fact, mutated_component in the exposure
\* sidecar, mutated_components in the manifest).
FileValue == [by : Job \cup {NoJob}, status : Status, trained : BOOLEAN]
Missing == [by |-> NoJob, status |-> "absent", trained |-> FALSE]
Torn(j) == [by |-> j, status |-> "torn", trained |-> FALSE]

\* The part of job_state_t that matters: factError is set when a terminal fact
\* could not be written.
MemValue == [status : JobStatus, trained : BOOLEAN, factError : BOOLEAN]

FactName == {"result", "checkpoint_io", "health"}
FactOrder == <<"result", "checkpoint_io", "health">>
Sidecar == {"exposure", "training_update", "checkpoint"}
Leaf == {"manifest", "report", "state"} \cup FactName \cup Sidecar

VARIABLES mode,       \* mode[j]: the wave action of the job's configuration
          explicit,   \* explicit[j]: its --job-dir, or NoDir
          pc,         \* pc[j]: where the job stands
          jobDir,     \* jobDir[j]: the directory it writes to
          made,       \* attempt directories that exist
          file,       \* file[d][l]: the file with leaf l in directory d
          mem,        \* mem[j]: result.state, the job_state_t in memory
          nfact       \* nfact[j]: terminal facts written by the current call

vars == <<mode, explicit, pc, jobDir, made, file, mem, nfact>>

Ended == {"done", "failed", "failed_unsaved", "aborted", "refused", "crashed"}
PcSet == {"new", "claim", "manifest", "manifest_text", "delegate", "state",
          "state_text", "facts", "exposure", "checkpoint", "final",
          "final_text"} \cup Ended

\* The state is well formed; a job that writes has claimed its directory, and
\* an attempt is claimed only after its directory was created.
TypeOK ==
    /\ mode \in [Job -> Mode]
    /\ explicit \in [Job -> ExplicitDir \cup {NoDir}]
    /\ pc \in [Job -> PcSet]
    /\ jobDir \in [Job -> Dir \cup {NoDir}]
    /\ made \subseteq Attempt
    /\ file \in [Dir -> [Leaf -> FileValue]]
    /\ mem \in [Job -> MemValue]
    /\ nfact \in [Job -> 0 .. 2]
    /\ \A j \in Job : /\ pc[j] \notin {"new", "claim"} \cup Ended => jobDir[j] # NoDir
                      /\ jobDir[j] \in Attempt => jobDir[j] \in made

Init ==
    /\ mode \in [Job -> Mode]
    /\ explicit \in [Job -> ExplicitDir \cup {NoDir}]
    /\ pc = [j \in Job |-> "new"]
    /\ jobDir = [j \in Job |-> NoDir]
    /\ made = {}
    /\ file = [d \in Dir |-> [l \in Leaf |-> Missing]]
    /\ mem = [j \in Job |-> [status |-> "created", trained |-> FALSE,
                             factError |-> FALSE]]
    /\ nfact = [j \in Job |-> 0]

Goto(j, l) == pc' = [pc EXCEPT ![j] = l]
Put(j, l, v) == file' = [file EXCEPT ![jobDir[j]][l] = v]

\* job_dir_has_runtime_artifacts: the leaves that make a directory taken.
ArtifactLeaf == {"manifest", "state", "report"} \cup FactName
HasArtifacts(d) == \E l \in ArtifactLeaf : file[d][l].status # "absent"

-----------------------------------------------------------------------------
(* Claiming a directory.                                                   *)

\* run(): an explicit directory that has artifacts is refused before the
\* configuration is loaded.
Start(j) ==
    /\ pc[j] = "new"
    /\ Goto(j, IF explicit[j] # NoDir /\ HasArtifacts(explicit[j])
               THEN "refused" ELSE "claim")
    /\ UNCHANGED <<mode, explicit, jobDir, made, file, mem, nfact>>

\* Mutant: an existing directory is good enough (create_directories).
ReserveAttempt_Existing(j) ==
    /\ pc[j] = "claim"
    /\ explicit[j] = NoDir
    /\ \E n \in Attempt :
          /\ made' = made \cup {n}
          /\ jobDir' = [jobDir EXCEPT ![j] = n]
    /\ Goto(j, "manifest")
    /\ UNCHANGED <<mode, explicit, file, mem, nfact>>

\* reserve_immutable_attempt_job_dir: create_directory succeeds for the first
\* attempt index that has no directory.
ReserveAttempt(j) ==
    /\ pc[j] = "claim"
    /\ explicit[j] = NoDir
    /\ \E n \in Attempt \ made :
          /\ \A m \in Attempt \ made : n <= m
          /\ made' = made \cup {n}
          /\ jobDir' = [jobDir EXCEPT ![j] = n]
    /\ Goto(j, "manifest")
    /\ UNCHANGED <<mode, explicit, file, mem, nfact>>

\* The attempt indices are exhausted, or create_directory reports an error.
ReserveThrows(j) ==
    /\ pc[j] = "claim"
    /\ explicit[j] = NoDir
    /\ IoMayFail \/ Attempt \subseteq made
    /\ Goto(j, "aborted")
    /\ UNCHANGED <<mode, explicit, jobDir, made, file, mem, nfact>>

\* Mutant: the second check is left out.
ClaimExplicit_Unchecked(j) ==
    /\ pc[j] = "claim"
    /\ explicit[j] # NoDir
    /\ Goto(j, "manifest")
    /\ jobDir' = [jobDir EXCEPT ![j] = explicit[j]]
    /\ UNCHANGED <<mode, explicit, made, file, mem, nfact>>

\* prepare_explicit_job_dir checks again, after the pipeline was loaded; then
\* ensure_job_dir creates the directory, or finds it there.
ClaimExplicit(j) ==
    /\ pc[j] = "claim"
    /\ explicit[j] # NoDir
    /\ IF HasArtifacts(explicit[j])
       THEN Goto(j, "refused") /\ jobDir' = jobDir
       ELSE /\ Goto(j, "manifest")
            /\ jobDir' = [jobDir EXCEPT ![j] = explicit[j]]
    /\ UNCHANGED <<mode, explicit, made, file, mem, nfact>>

-----------------------------------------------------------------------------
(* Running the job.                                                        *)

\* write_job_manifest_file: the stream truncates the file, its close writes it.
OpenManifest(j) ==
    /\ pc[j] = "manifest"
    /\ Put(j, "manifest", Torn(j))
    /\ Goto(j, "manifest_text")
    /\ UNCHANGED <<mode, explicit, jobDir, made, mem, nfact>>

\* The stream does not open; nothing catches the exception.
OpenManifestFails(j) ==
    /\ IoMayFail
    /\ pc[j] = "manifest"
    /\ Goto(j, "aborted")
    /\ UNCHANGED <<mode, explicit, jobDir, made, file, mem, nfact>>

WriteManifest(j) ==
    /\ pc[j] = "manifest_text"
    /\ Put(j, "manifest", [by |-> j, status |-> "written",
                           trained |-> mode[j] # "eval"])
    /\ Goto(j, "delegate")
    /\ UNCHANGED <<mode, explicit, jobDir, made, mem, nfact>>

\* What the delegate may say of its optimizer steps: only a train wave takes
\* any, and they are not undone.
Reported(j) == LET r == file[jobDir[j]]["report"] IN r.by = j /\ r.trained
Steps(j) == {s \in BOOLEAN : (s => mode[j] = "train") /\ (Reported(j) => s)}

Report(j, steps) == [by |-> j, status |-> "written", trained |-> steps]

\* The loop of a launcher writes its report again and again (write_report is on).
DelegateReports(j) ==
    /\ pc[j] = "delegate"
    /\ mode[j] # "dry_run"
    /\ \E steps \in Steps(j) : Put(j, "report", Report(j, steps))
    /\ UNCHANGED <<mode, explicit, pc, jobDir, made, mem, nfact>>

\* run_channel_delegate returns its report; make_completed_job_state copies it.
\* A dry run writes no report.
DelegateCompletes(j) ==
    /\ pc[j] = "delegate"
    /\ \E steps \in Steps(j) :
          /\ mem' = [mem EXCEPT ![j] =
                 [status |-> IF mode[j] = "dry_run" THEN "dry_run" ELSE "completed",
                  trained |-> steps, factError |-> FALSE]]
          /\ IF mode[j] = "dry_run" THEN file' = file
             ELSE Put(j, "report", Report(j, steps))
    /\ Goto(j, "state")
    /\ UNCHANGED <<mode, explicit, jobDir, made, nfact>>

\* Mutant: the handler keeps the facts of the completed job.
Fail_KeepsFacts(j) ==
    /\ mem' = [mem EXCEPT ![j] = [status |-> "failed", trained |-> FALSE,
                                  factError |-> FALSE]]
    /\ nfact' = nfact
    /\ Goto(j, "final")

\* The handler of an exception starts: make_failed_job_state, then the facts.
Fail(j) ==
    /\ mem' = [mem EXCEPT ![j] = [status |-> "failed", trained |-> FALSE,
                                  factError |-> FALSE]]
    /\ nfact' = [nfact EXCEPT ![j] = 0]
    /\ Goto(j, "facts")

\* The delegate throws; its last report stays.
DelegateThrows(j) ==
    /\ pc[j] = "delegate"
    /\ Fail(j)
    /\ UNCHANGED <<mode, explicit, jobDir, made, file>>

\* write_job_state_file: truncate, then write.
OpenState(j) ==
    /\ pc[j] \in {"state", "final"}
    /\ Put(j, "state", Torn(j))
    /\ Goto(j, IF pc[j] = "state" THEN "state_text" ELSE "final_text")
    /\ UNCHANGED <<mode, explicit, jobDir, made, mem, nfact>>

\* Mutant: a failed job that cannot save its state fails again.
OpenStateFails_Loops(j) ==
    /\ IoMayFail
    /\ pc[j] \in {"state", "final"}
    /\ Fail(j)
    /\ UNCHANGED <<mode, explicit, jobDir, made, file>>

\* job.state does not open (or, before the last write, the final events throw):
\* a job that was completed fails; one that has failed already ends unsaved.
OpenStateFails(j) ==
    /\ IoMayFail
    /\ pc[j] \in {"state", "final"}
    /\ IF mem[j].status = "failed"
       THEN Goto(j, "failed_unsaved") /\ UNCHANGED <<mem, nfact>>
       ELSE Fail(j)
    /\ UNCHANGED <<mode, explicit, jobDir, made, file>>

StateText(j) == [by |-> j, status |-> mem[j].status, trained |-> mem[j].trained]

WriteState(j) ==
    /\ pc[j] = "state_text"
    /\ Put(j, "state", StateText(j))
    /\ Goto(j, "facts")
    /\ UNCHANGED <<mode, explicit, jobDir, made, mem, nfact>>

\* model_state_mutated holds for a completed job only.  Its checkpoint_written
\* adds nothing: a launcher writes a checkpoint only after an optimizer step.
ModelStateMutated(j) == mem[j].status = "completed" /\ mem[j].trained

\* Each fact binds the status of the state in memory, the result fact in a field
\* of its own and all three in the fact_id; the result and checkpoint_io facts
\* also say whether the model was changed.
FactText(j, n) == [by |-> j, status |-> mem[j].status,
                   trained |-> n # "health" /\ ModelStateMutated(j)]

\* write_terminal_fact_sidecars writes the facts one after the other.
AfterFacts(j) == IF mem[j].status = "failed" THEN "final" ELSE "exposure"

WriteFact(j) ==
    /\ pc[j] = "facts"
    /\ LET n == FactOrder[nfact[j] + 1] IN Put(j, n, FactText(j, n))
    /\ nfact' = [nfact EXCEPT ![j] = IF @ = 2 THEN 0 ELSE @ + 1]
    /\ Goto(j, IF nfact[j] = 2 THEN AfterFacts(j) ELSE "facts")
    /\ UNCHANGED <<mode, explicit, jobDir, made, mem>>

\* A fact cannot be written: the error is recorded, the rest is skipped.
WriteFactFails(j) ==
    /\ IoMayFail
    /\ pc[j] = "facts"
    /\ mem' = [mem EXCEPT ![j].factError = TRUE]
    /\ nfact' = [nfact EXCEPT ![j] = 0]
    /\ Goto(j, AfterFacts(j))
    /\ UNCHANGED <<mode, explicit, jobDir, made, file>>

\* Mutant: a completed train wave counts, whether or not it took a step.
DerivedMutated_NoEffort(d) ==
    /\ file[d]["state"].status = "completed"
    /\ file[d]["manifest"].trained

\* make_exposure_fact_from_job_dir: use.mutated_component as read from the
\* files of directory d, not from the memory of the job.
DerivedMutated(d) ==
    /\ file[d]["state"].status = "completed"
    /\ file[d]["manifest"].trained
    /\ file[d]["state"].trained

\* write_lattice_fact_sidecars: the exposure sidecar, then, for a checkpoint,
\* the training update and checkpoint sidecars.  Every error is caught.
WriteExposure(j) ==
    LET d == jobDir[j] IN
    /\ pc[j] = "exposure"
    /\ file[d]["manifest"].status = "written"
    /\ Put(j, "exposure", [by |-> j, status |-> file[d]["state"].status,
                           trained |-> DerivedMutated(d)])
    /\ Goto(j, "checkpoint")
    /\ UNCHANGED <<mode, explicit, jobDir, made, mem, nfact>>

WriteExposureFails(j) ==
    /\ pc[j] = "exposure"
    /\ IoMayFail \/ file[jobDir[j]]["manifest"].status # "written"
    /\ Goto(j, "final")
    /\ UNCHANGED <<mode, explicit, jobDir, made, file, mem, nfact>>

\* Two installs, of which the second or both may not happen.
WriteCheckpointFacts(j) ==
    LET d == jobDir[j]
        v == [by |-> j, status |-> "written", trained |-> file[d]["exposure"].trained]
    IN
    /\ pc[j] = "checkpoint"
    /\ file' \in {file,
                  [file EXCEPT ![d]["training_update"] = v],
                  [file EXCEPT ![d]["training_update"] = v, ![d]["checkpoint"] = v]}
    /\ Goto(j, "final")
    /\ UNCHANGED <<mode, explicit, jobDir, made, mem, nfact>>

\* Mutant: the job gives up its directory before it has ended.
WriteFinalState_Releases(j) ==
    /\ pc[j] = "final_text"
    /\ Put(j, "state", StateText(j))
    /\ jobDir' = [jobDir EXCEPT ![j] = NoDir]
    /\ Goto(j, "final")
    /\ UNCHANGED <<mode, explicit, made, mem, nfact>>

\* The last write_job_state_file; a failed job rethrows after it.
WriteFinalState(j) ==
    /\ pc[j] = "final_text"
    /\ Put(j, "state", StateText(j))
    /\ Goto(j, IF mem[j].status = "failed" THEN "failed" ELSE "done")
    /\ UNCHANGED <<mode, explicit, jobDir, made, mem, nfact>>

\* The process of the job dies.
Crash(j) ==
    /\ pc[j] \notin Ended \cup {"new"}
    /\ Goto(j, "crashed")
    /\ UNCHANGED <<mode, explicit, jobDir, made, file, mem, nfact>>

Run(j) ==
    \/ Start(j) \/ ReserveAttempt(j) \/ ReserveThrows(j) \/ ClaimExplicit(j)
    \/ OpenManifest(j) \/ OpenManifestFails(j) \/ WriteManifest(j)
    \/ DelegateCompletes(j) \/ DelegateThrows(j)
    \/ OpenState(j) \/ OpenStateFails(j) \/ WriteState(j)
    \/ WriteFact(j) \/ WriteFactFails(j)
    \/ WriteExposure(j) \/ WriteExposureFails(j) \/ WriteCheckpointFacts(j)
    \/ WriteFinalState(j)

Step(j) == Run(j) \/ DelegateReports(j)

AllEnded == (\A j \in Job : pc[j] \in Ended) /\ UNCHANGED vars

Next == (\E j \in Job : Step(j) \/ Crash(j)) \/ AllEnded

\* A process that is neither dead nor finished is scheduled, and a delegate
\* does not report for ever: its wave is finite.
Fairness == \A j \in Job : WF_vars(Run(j))

Spec == Init /\ [][Next]_vars /\ Fairness

-----------------------------------------------------------------------------
(* What Lattice credits, and the properties.                               *)

\* scan_exposure_ledger_from_runtime_root: a directory with a job.manifest is
\* scanned; its exposure sidecar is used if there is one, otherwise the fact is
\* derived from the files, which needs a manifest with content.
CreditsMutation(d) ==
    /\ file[d]["manifest"].status # "absent"
    /\ IF file[d]["exposure"].status # "absent"
       THEN file[d]["exposure"].trained
       ELSE file[d]["manifest"].status = "written" /\ DerivedMutated(d)

\* Lattice credits an attempt with a mutation of the model only if its delegate
\* reported optimizer steps of a train wave: at no moment of the run, after no
\* crash and after no failed write does it read more than was done.
CreditMeansTrained ==
    \A d \in Attempt : CreditsMutation(d) =>
        file[d]["report"].trained /\ mode[file[d]["report"].by] = "train"

\* All files of an attempt directory were written by one job.
AttemptSingleWriter ==
    \A d \in Attempt, l, m \in Leaf :
        file[d][l] # Missing /\ file[d][m] # Missing =>
            file[d][l].by = file[d][m].by

\* A job that returned or rethrew, and reported no fact error, left terminal
\* facts that all bind the status of its job.state, and the two that say so claim
\* a changed model exactly when job.state is that of a completed job that took
\* optimizer steps, also when it failed after facts of a completed job were written.
TerminalFactsAgree ==
    \A j \in Job : pc[j] \in {"done", "failed"} /\ ~ mem[j].factError
                    /\ jobDir[j] \in Attempt =>
        LET f == file[jobDir[j]]  s == f["state"] IN
        \A n \in FactName :
           /\ f[n].status = s.status
           /\ n # "health" =>
                 f[n].trained = (s.status = "completed" /\ s.trained)

\* A directory with artifacts in which no job runs any more is never claimed or
\* written again: no attempt and no --job-dir launch replaces earlier evidence.
AtRest(d) == HasArtifacts(d) /\ \A j \in Job : jobDir[j] = d => pc[j] \in Ended
RestingDirsImmutable ==
    [][\A d \in Dir : AtRest(d) => AtRest(d)' /\ file'[d] = file[d]]_vars

\* Every job ends.
JobsEnd == \A j \in Job : <>(pc[j] \in Ended)

\* "A job only counts as mutating a component when it completed a train wave":
\* once a job has ended, what Lattice credits is a job whose state is completed.
CreditMeansCompleted ==
    \A j \in Job : pc[j] \in {"done", "failed"} /\ CreditsMutation(jobDir[j]) =>
        file[jobDir[j]]["state"].status = "completed"
=============================================================================
