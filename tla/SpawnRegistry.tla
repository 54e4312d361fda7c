--------------------------- MODULE SpawnRegistry ---------------------------
(***************************************************************************)
(* Launching a runtime job, from the layout marker to the job manifest:    *)
(* job_runner_t::run_channel_graph_first up to write_job_manifest_file,    *)
(* run by several processes over one runtime root.                         *)
(*                                                                         *)
(* A launch registers its component spawn (a fingerprint of the component) *)
(* in the spawn registry file, takes the short spawn id the registry       *)
(* assigns, reserves an attempt directory under <id>_<fingerprint>,        *)
(* registers the spawn again with the config receipt, and records all of   *)
(* it in the manifest.  The registry is read, changed in memory and        *)
(* installed again without a lock; every file is installed with the        *)
(* routine of module TextInstall.                                          *)
(***************************************************************************)
EXTENDS TextInstall, Naturals, Sequences, FiniteSets

CONSTANTS Fp,             \* keys of entries: the spawn fingerprints and Stray;
                          \* numbers, for their sort order
          Stray,          \* keys that only a torn registry has: the family of
                          \* one entry with the fingerprint of another, or the
                          \* second copy of an entry
          Family,         \* Family[x]: component_family_id of fingerprint x
          Candidate,      \* Candidate[x]: ids component_spawn_id_candidate
                          \* proposes for x, in order of the attempts
          NoId,           \* the cleared component_spawn_id
          LayoutText,     \* text of the layout marker
          RefText,        \* text of a component_spawn.ref
          MaxAttempts,    \* bound on the attempt index (1000000 in the code)
          MaxConcurrent   \* bound on the launches that run at the same time

Marker == <<"runtime_layout.v1.lls">>
Registry == <<"component_spawn_registry.v1.lls">>
SpawnId == UNION {{Candidate[x][k] : k \in DOMAIN Candidate[x]} : x \in Fp}
RefFile(id, x) == <<"component_spawn.ref", id, x>>

\* A registry maps a fingerprint to the state of its entry; an entry is linked
\* when its config_bundle_id and config_receipt_id are set.
LinkState == {"missing", "unlinked", "linked"}
RegistryText == [Fp -> LinkState]
NoEntries == [x \in Fp |-> "missing"]

SpawnFiles == {Marker, Registry} \cup {RefFile(id, x) : id \in SpawnId \cup {NoId},
                                                        x \in Fp}
SpawnTexts == RegistryText \cup {LayoutText, RefText}

Present(reg) == {x \in Fp : reg[x] # "missing"}

\* A registry text t over a longer one u keeps the entry_count of t, and the lines
\* of u in the tail replace fields of the entries with their index.  Where the
\* cut falls is left open: no more entries than t has, each of t, of u or of
\* both.  A torn text carries the registry that its lines add up to.
TornReads(t, u) ==
    {reg \in RegistryText :
        /\ Present(reg) \subseteq Present(t) \cup Present(u) \cup Stray
        /\ Cardinality(Present(reg)) <= Cardinality(Present(t))}
SpawnTorn == {<<"torn", reg>> : reg \in RegistryText}

\* What the lines of the registry file add up to: no file, or a file without
\* entry_count, is a registry without entries.
Parsed(c) == IF c \in {Nil, Empty} THEN NoEntries
             ELSE IF c \in SpawnTorn THEN c[2] ELSE c

\* The marker, and a ref under its name, have one text each and never mix.
SpawnMixed(t, c) ==
    IF t \in RegistryText /\ c \in (RegistryText \ {t}) \cup SpawnTorn
    THEN {<<"torn", reg>> : reg \in TornReads(t, Parsed(c))} ELSE {}

ASSUME SpawnAssumption ==
    /\ IsFiniteSet(Proc)
    /\ Stray \subseteq Fp
    /\ Fp \subseteq Nat /\ \E m \in Fp : \A x \in Fp : x <= m
    /\ \A x \in Fp : Candidate[x] \in Seq(SpawnId)
    /\ NoId \notin SpawnId
    /\ MaxAttempts \in Nat /\ MaxConcurrent \in Nat
    /\ File = SpawnFiles
    /\ Text = SpawnTexts
    /\ Torn = SpawnTorn

VARIABLES rpc,       \* rpc[r]: where launch r stands
          fp,        \* fp[r]: its component_spawn_fingerprint
          id,        \* id[r]: manifest.component_spawn_id
          nextId,    \* nextId[r]: the id the upsert under way returns
          receipt,   \* receipt[r]: manifest has a config receipt
          dir,       \* dir[r]: the reserved attempt, a <<id, fp, n>>
          dirs       \* attempt directories that exist

rvars == <<rpc, fp, id, nextId, receipt, dir, dirs>>
vars == <<ivars, rvars>>

NoDir == <<>>
Ended == {"launched", "aborted", "crashed"}
RpcSet == {"new", "marker", "identity", "reserve", "capture", "identity_again",
           "link", "ref", "manifest"} \cup Ended

\* The state of the launches is well formed, and an attempt is reserved from
\* the reservation on.
SpawnTypeOK ==
    /\ TypeOK
    /\ rpc \in [Proc -> RpcSet]
    /\ fp \in [Proc -> Fp]
    /\ id \in [Proc -> SpawnId \cup {NoId}]
    /\ nextId \in [Proc -> SpawnId \cup {NoId}]
    /\ receipt \in [Proc -> BOOLEAN]
    /\ dirs \subseteq (SpawnId \cup {NoId}) \X Fp \X (0 .. MaxAttempts - 1)
    /\ dir \in [Proc -> dirs \cup {NoDir}]
    /\ \A r \in Proc : rpc[r] \in {"capture", "identity_again", "link", "ref", "manifest",
                                   "launched"} => dir[r] # NoDir

-----------------------------------------------------------------------------
(* The registry: reading, id assignment, upsert, resolution.               *)

\* read_component_spawn_registry, up to the assignment of the ids.
ReadRegistry == Parsed(target[Registry])

\* Mutant: ids are not compared with the ids of earlier entries.
AssignIds_First(reg) ==
    [x \in Fp |-> IF reg[x] = "missing" THEN NoId ELSE Candidate[x][1]]

\* The candidates of x that no earlier entry of its family has.
FreeCandidates(reg, ids, x) ==
    {k \in DOMAIN Candidate[x] :
        \A y \in Present(reg) : y < x /\ Family[y] = Family[x] =>
            ids[y] # Candidate[x][k]}

FirstFree(reg, ids, x) ==
    LET free == FreeCandidates(reg, ids, x) IN
    IF x \notin Present(reg) \/ free = {} THEN NoId
    ELSE Candidate[x][CHOOSE k \in free : \A j \in free : k <= j]

\* assign_component_spawn_ids: in the order of the fingerprints, each entry
\* takes its first free candidate.
AssignIds(reg) ==
    CHOOSE ids \in [Fp -> SpawnId \cup {NoId}] :
        \A x \in Fp : ids[x] = FirstFree(reg, ids, x)

\* assign_component_spawn_ids throws when an entry finds no unused candidate.
Assignable(reg) ==
    LET ids == AssignIds(reg) IN \A x \in Present(reg) : ids[x] # NoId

\* Mutant: an entry that exists is left as it is.
Upserted_KeepsExisting(reg, x, linked) ==
    IF reg[x] # "missing" THEN reg
    ELSE [reg EXCEPT ![x] = IF linked THEN "linked" ELSE "unlinked"]

\* Mutant: the registry is written anew with the one entry.
Upserted_Alone(reg, x, linked) ==
    [NoEntries EXCEPT ![x] = IF linked THEN "linked" ELSE "unlinked"]

\* upsert_component_spawn_registry_entry, in memory: the entry replaces the one
\* of the same fingerprint, its config link included, or is appended.
Upserted(reg, x, linked) ==
    [reg EXCEPT ![x] = IF linked THEN "linked" ELSE "unlinked"]

\* resolve_component_spawn_id: the fingerprints a spawn id of a family denotes,
\* and whether the resolver accepts it.
Matches(reg, fam, i) ==
    LET ids == AssignIds(reg) IN {x \in Present(reg) : Family[x] = fam /\ ids[x] = i}
Resolves(reg, fam, i) ==
    /\ i # NoId
    /\ Assignable(reg)
    /\ \E x \in Present(reg) : Matches(reg, fam, i) = {x} /\ reg[x] = "linked"

-----------------------------------------------------------------------------
(* The launch.                                                             *)

Active == {r \in Proc : rpc[r] \notin Ended \cup {"new"}}

SpawnInit ==
    /\ InstallInit
    /\ rpc = [r \in Proc |-> "new"]
    /\ fp \in [Proc -> Fp \ Stray]
    /\ id = [r \in Proc |-> NoId]
    /\ nextId = [r \in Proc |-> NoId]
    /\ receipt = [r \in Proc |-> FALSE]
    /\ dir = [r \in Proc |-> NoDir]
    /\ dirs = {}

Goto(r, pc) == rpc' = [rpc EXCEPT ![r] = pc]

\* The install of r has returned, normally or with an exception.
Installed(r) == wpc[r] = "ok" /\ Return(r)
Threw(r) == wpc[r] = "threw" /\ Return(r)

\* A launch has loaded its configuration and calls write_runtime_layout_marker.
Launch(r) ==
    /\ rpc[r] = "new"
    /\ Cardinality(Active) < MaxConcurrent
    /\ Call(r, Marker, LayoutText)
    /\ Goto(r, "marker")
    /\ UNCHANGED <<fp, id, nextId, receipt, dir, dirs>>

\* Nothing catches an exception of the marker: it ends the launch.
MarkerReturns(r) ==
    /\ rpc[r] = "marker"
    /\ \/ Installed(r) /\ Goto(r, "identity")
       \/ Threw(r) /\ Goto(r, "aborted")
    /\ UNCHANGED <<fp, id, nextId, receipt, dir, dirs>>

\* The three upserts: populate_manifest_component_spawn_identity before the
\* reservation and once more when it failed, then
\* populate_manifest_config_provenance.
UpsertPc == {"identity", "identity_again", "link"}
AfterUpsert == [identity |-> "reserve", identity_again |-> "link", link |-> "ref"]

\* Mutant: the registry is written before the ids are assigned.
UpsertReads_Unassigned(r) ==
    LET reg == Upserted(ReadRegistry, fp[r], receipt[r]) IN
    /\ rpc[r] \in UpsertPc
    /\ Call(r, Registry, reg)
    /\ nextId' = [nextId EXCEPT ![r] = AssignIds(reg)[fp[r]]]
    /\ UNCHANGED <<rpc, fp, id, receipt, dir, dirs>>

\* The upsert reads the registry, changes it in memory and starts to install it.
UpsertReads(r) ==
    LET reg == Upserted(ReadRegistry, fp[r], receipt[r]) IN
    /\ rpc[r] \in UpsertPc
    /\ Call(r, Registry, reg)
    /\ Assignable(ReadRegistry) /\ Assignable(reg)
    /\ nextId' = [nextId EXCEPT ![r] = AssignIds(reg)[fp[r]]]
    /\ UNCHANGED <<rpc, fp, id, receipt, dir, dirs>>

\* No id is left for an entry: the upsert throws before it writes, and the
\* caller clears the id.
UpsertUnassignable(r) ==
    /\ rpc[r] \in UpsertPc
    /\ wpc[r] = "idle"
    /\ ~ (Assignable(ReadRegistry)
            /\ Assignable(Upserted(ReadRegistry, fp[r], receipt[r])))
    /\ id' = [id EXCEPT ![r] = NoId]
    /\ Goto(r, AfterUpsert[rpc[r]])
    /\ UNCHANGED <<ivars, fp, nextId, receipt, dir, dirs>>

\* The upsert returns the entry with its id, or its exception clears the id.
UpsertReturns(r) ==
    /\ rpc[r] \in UpsertPc
    /\ \/ Installed(r) /\ id' = [id EXCEPT ![r] = nextId[r]]
       \/ Threw(r) /\ id' = [id EXCEPT ![r] = NoId]
    /\ Goto(r, AfterUpsert[rpc[r]])
    /\ UNCHANGED <<fp, nextId, receipt, dir, dirs>>

\* reserve_immutable_attempt_job_dir: create_directory succeeds for the first
\* attempt index whose directory does not exist.
FreeAttempts_Existing(r) == 0 .. MaxAttempts - 1   \* mutant: reuses a directory
FreeAttempts(r) == {n \in 0 .. MaxAttempts - 1 : <<id[r], fp[r], n>> \notin dirs}

\* Mutant: the directory is created but not kept in the manifest.
Reserve_Forgets(r) ==
    /\ rpc[r] = "reserve"
    /\ \E n \in FreeAttempts(r) : dirs' = dirs \cup {<<id[r], fp[r], n>>}
    /\ Goto(r, "capture")
    /\ UNCHANGED <<ivars, fp, id, nextId, receipt, dir>>

\* Mutant: the directory is named after the id that the fingerprint prefers.
Reserve_Preferred(r) ==
    /\ rpc[r] = "reserve"
    /\ \E n \in FreeAttempts(r) :
          /\ dirs' = dirs \cup {<<Candidate[fp[r]][1], fp[r], n>>}
          /\ dir' = [dir EXCEPT ![r] = <<Candidate[fp[r]][1], fp[r], n>>]
    /\ Goto(r, "capture")
    /\ UNCHANGED <<ivars, fp, id, nextId, receipt>>

Reserve(r) ==
    /\ rpc[r] = "reserve"
    /\ \E n \in FreeAttempts(r) :
          /\ \A m \in FreeAttempts(r) : n <= m
          /\ dirs' = dirs \cup {<<id[r], fp[r], n>>}
          /\ dir' = [dir EXCEPT ![r] = <<id[r], fp[r], n>>]
    /\ Goto(r, "capture")
    /\ UNCHANGED <<ivars, fp, id, nextId, receipt>>

\* Every index is taken, or create_directory fails for a reason of the system:
\* nothing catches the exception.
ReserveThrows(r) ==
    /\ rpc[r] = "reserve"
    /\ Goto(r, "aborted")
    /\ UNCHANGED <<ivars, fp, id, nextId, receipt, dir, dirs>>

\* capture_config_bundle_receipt; a launch that lost its id registers again.
Capture(r) ==
    /\ rpc[r] = "capture"
    /\ receipt' = [receipt EXCEPT ![r] = TRUE]
    /\ Goto(r, IF id[r] = NoId THEN "identity_again" ELSE "link")
    /\ UNCHANGED <<ivars, fp, id, nextId, dir, dirs>>

\* No config path, or the capture throws: the launch goes on without a receipt.
CaptureFails(r) ==
    /\ rpc[r] = "capture"
    /\ Goto(r, "ref")
    /\ UNCHANGED <<ivars, fp, id, nextId, receipt, dir, dirs>>

\* write_component_spawn_ref under the id of this moment; nothing catches its
\* exception.
WriteRef(r) ==
    /\ rpc[r] = "ref"
    /\ Call(r, RefFile(id[r], fp[r]), RefText)
    /\ UNCHANGED rvars

RefReturns(r) ==
    /\ rpc[r] = "ref"
    /\ \/ Installed(r) /\ Goto(r, "manifest")
       \/ Threw(r) /\ Goto(r, "aborted")
    /\ UNCHANGED <<fp, id, nextId, receipt, dir, dirs>>

\* write_job_manifest_file into the reserved directory.
WriteManifest(r) ==
    /\ rpc[r] = "manifest"
    /\ Goto(r, "launched")
    /\ UNCHANGED <<ivars, fp, id, nextId, receipt, dir, dirs>>

InstallRuns(r) == InstallStep(r) /\ UNCHANGED rvars

\* The process of the launch dies.
CrashLaunch(r) ==
    /\ r \in Active
    /\ CrashInstall(r)
    /\ Goto(r, "crashed")
    /\ UNCHANGED <<fp, id, nextId, receipt, dir, dirs>>

LaunchStep(r) ==
    \/ MarkerReturns(r) \/ UpsertReads(r) \/ UpsertUnassignable(r)
    \/ UpsertReturns(r) \/ Reserve(r) \/ ReserveThrows(r)
    \/ Capture(r) \/ CaptureFails(r) \/ WriteRef(r) \/ RefReturns(r)
    \/ WriteManifest(r) \/ InstallRuns(r)

\* Every launch has ended.
AllEnded == (\A r \in Proc : rpc[r] \in Ended) /\ UNCHANGED vars

SpawnNext == \/ \E r \in Proc : Launch(r) \/ LaunchStep(r) \/ CrashLaunch(r)
             \/ AllEnded

\* A process that is neither dead nor blocked is scheduled.
Fairness == \A r \in Proc : WF_vars(LaunchStep(r))

SpawnSpec == SpawnInit /\ [][SpawnNext]_vars /\ Fairness

-----------------------------------------------------------------------------
\* A launch that registered its spawn and its config receipt can be found: when
\* it comes to write the manifest, the id it will record there resolves in the
\* registry.
LaunchResolves ==
    \A r \in Proc : rpc[r] = "manifest" /\ receipt[r] /\ id[r] # NoId =>
        Resolves(ReadRegistry, Family[fp[r]], id[r])

\* No spawn that was registered is forgotten by a later launch or by a crash.
SpawnsNeverForgotten ==
    [][\A x \in Fp : x \in Present(ReadRegistry) => x \in Present(ReadRegistry)']_vars

\* The registry on disk can be read again, unless it is torn: no interleaving of
\* upserts installs a whole text for which the id assignment throws.
RegistryReadable == target[Registry] \notin Torn => Assignable(ReadRegistry)

\* The ids of one family never coincide, so no id is ambiguous to the resolver.
IdsUnambiguous ==
    LET ids == AssignIds(ReadRegistry) IN
    Assignable(ReadRegistry) =>
        \A x, y \in Present(ReadRegistry) :
           x # y /\ Family[x] = Family[y] => ids[x] # ids[y]

\* No two launches write into the same attempt directory, whatever ids and
\* fingerprints they have and however they interleave.
AttemptsExclusive ==
    \A r, q \in Proc : r # q /\ dir[r] # NoDir => dir[r] # dir[q]

\* The directory of an attempt is named after the id that its manifest records:
\* the second upsert of a launch returns the id of the first.
FiledUnderItsId ==
    \A r \in Proc : rpc[r] \in {"manifest", "launched"} =>
        dir[r][1] = id[r] \/ NoId \in {dir[r][1], id[r]}

\* Every launch ends: with a manifest, with an exception or with its process.
LaunchesEnd == \A r \in Proc : rpc[r] = "marker" ~> rpc[r] \in Ended
=============================================================================
