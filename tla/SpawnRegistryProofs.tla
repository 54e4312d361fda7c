------------------------- MODULE SpawnRegistryProofs -------------------------
(***************************************************************************)
(* Proofs about SpawnRegistry, for any number of launches, fingerprints,   *)
(* families and id candidates.                                             *)
(*                                                                         *)
(* First what the id assignment computes, by induction over the            *)
(* fingerprints (in the form of a least counterexample).  Then what holds  *)
(* however launches interleave: types, a readable registry, exclusive      *)
(* attempts.  Then what holds when they run one at a time, with the        *)
(* inductive invariant SerialInv: an upsert installs what it read, plus    *)
(* its entry.  With two launches at a time that fails: the registry has no *)
(* lock (run spawn_unlocked).                                              *)
(***************************************************************************)
EXTENDS SpawnRegistry, TextInstallProofs, FiniteSetTheorems, WellFoundedInduction

\* A set of naturals has a least element, which stands in for induction.
LEMMA LeastNat ==
    ASSUME NEW T, T \subseteq Nat, T # {}
    PROVE  \E n \in T : \A m \in T : n <= m
<1>1. PICK n \in T : \A m \in T : ~ (<<m, n>> \in OpToRel(<, Nat))
    BY WFMin, NatLessThanWellFounded, Zenon
<1>2. ASSUME NEW m \in T PROVE n <= m
  <2>1. ~ (m < n)
    <3>1. <<m, n>> \notin {ss \in Nat \X Nat : ss[1] < ss[2]}
        BY <1>1 DEF OpToRel
    <3> QED BY <3>1
  <2> QED BY <2>1
<1> QED BY <1>2

\* What the id of an entry is: none, or a candidate that is free for it.
LEMMA FirstFreeIs ==
    ASSUME NEW reg, NEW ids, NEW x \in Fp
    PROVE  /\ FirstFree(reg, ids, x) \in SpawnId \cup {NoId}
           /\ FirstFree(reg, ids, x) # NoId =>
                 /\ x \in Present(reg)
                 /\ \E k \in FreeCandidates(reg, ids, x) :
                       FirstFree(reg, ids, x) = Candidate[x][k]
<1> DEFINE free == FreeCandidates(reg, ids, x)
           k == CHOOSE k \in free : \A j \in free : k <= j
<1>1. Candidate[x] \in Seq(SpawnId)
    BY SpawnAssumption
<1>2. free \subseteq DOMAIN Candidate[x]
    BY DEF FreeCandidates
<1>3. free \subseteq Nat
    BY <1>1, <1>2
<1>4. CASE x \notin Present(reg) \/ free = {}
    BY <1>4 DEF FirstFree
<1>5. CASE x \in Present(reg) /\ free # {}
  <2>1. k \in free
      BY <1>3, <1>5, LeastNat, Zenon
  <2>2. FirstFree(reg, ids, x) = Candidate[x][k]
      BY <1>5, Zenon DEF FirstFree
  <2>3. Candidate[x][k] \in SpawnId
      BY <1>1, <1>2, <2>1
  <2> QED BY <1>5, <2>1, <2>2, <2>3, Zenon
<1> QED BY <1>4, <1>5

\* The id of an entry depends on the ids of the earlier ones only.
LEMMA FirstFreeLocal ==
    ASSUME NEW reg, NEW ids, NEW jds, NEW x \in Fp,
           \A y \in Fp : y < x => ids[y] = jds[y]
    PROVE  FirstFree(reg, ids, x) = FirstFree(reg, jds, x)
<1>1. FreeCandidates(reg, ids, x) = FreeCandidates(reg, jds, x)
    BY DEF FreeCandidates, Present
<1> DEFINE Pick(free) == IF x \notin Present(reg) \/ free = {} THEN NoId
                         ELSE Candidate[x][CHOOSE k \in free : \A j \in free : k <= j]
<1>2. /\ FirstFree(reg, ids, x) = Pick(FreeCandidates(reg, ids, x))
      /\ FirstFree(reg, jds, x) = Pick(FreeCandidates(reg, jds, x))
    BY Zenon DEF FirstFree
<1> HIDE DEF Pick
<1> QED BY <1>1, <1>2

\* assign_component_spawn_ids is well defined: the entries can be given their
\* ids one after the other.
LEMMA AssignIdsIs ==
    ASSUME NEW reg
    PROVE  /\ AssignIds(reg) \in [Fp -> SpawnId \cup {NoId}]
           /\ \A x \in Fp : AssignIds(reg)[x] = FirstFree(reg, AssignIds(reg), x)
<1> DEFINE Ids == [Fp -> SpawnId \cup {NoId}]
           Good(ids, n) == \A x \in Fp : x < n => ids[x] = FirstFree(reg, ids, x)
           Bad == {n \in Nat : \A ids \in Ids : ~ Good(ids, n)}
<1>1. Bad = {}
  <2> SUFFICES ASSUME Bad # {} PROVE FALSE
      OBVIOUS
  <2>1. PICK n \in Bad : \A m \in Bad : n <= m
      BY LeastNat
  <2>2. n \in Nat
      BY <2>1
  <2>3. n # 0
    <3>1. [x \in Fp |-> NoId] \in Ids /\ Good([x \in Fp |-> NoId], 0)
        BY SpawnAssumption
    <3> QED BY <2>1, <3>1
  <2>4. PICK ids \in Ids : Good(ids, n - 1)
    <3>1. n - 1 \in Nat /\ n - 1 \notin Bad
        BY <2>1, <2>2, <2>3
    <3> QED BY <3>1
  <2> DEFINE jds == [ids EXCEPT ![n - 1] = FirstFree(reg, ids, n - 1)]
  <2>5. jds \in Ids
      BY FirstFreeIs, Zenon
  <2>6. ASSUME NEW x \in Fp, x < n PROVE jds[x] = FirstFree(reg, jds, x)
    <3>1. \A y \in Fp : y < x => ids[y] = jds[y]
        BY <2>2, <2>6, SpawnAssumption
    <3>2. FirstFree(reg, ids, x) = FirstFree(reg, jds, x)
      <4> HIDE DEF jds
      <4> QED BY <3>1, FirstFreeLocal
    <3>3. CASE x = n - 1
        BY <3>2, <3>3
    <3>4. CASE x # n - 1
      <4>1. x < n - 1 /\ jds[x] = ids[x]
          BY <2>2, <2>6, <3>4, SpawnAssumption
      <4> QED BY <2>4, <3>2, <4>1
    <3> QED BY <3>3, <3>4
  <2> QED BY <2>1, <2>5, <2>6
<1>2. PICK m \in Fp : \A x \in Fp : x <= m
    BY SpawnAssumption
<1>3. PICK ids \in Ids : Good(ids, m + 1)
  <2>1. m + 1 \in Nat
      BY SpawnAssumption
  <2>2. m + 1 \notin Bad
      BY <1>1, Zenon
  <2> HIDE DEF Good
  <2> QED BY <2>1, <2>2
<1>4. \A x \in Fp : ids[x] = FirstFree(reg, ids, x)
    BY <1>2, <1>3, SpawnAssumption
<1> QED BY <1>4, Zenon DEF AssignIds

\* No two entries of a family get the same id.
LEMMA IdsDiffer ==
    ASSUME NEW reg, Assignable(reg),
           NEW x \in Present(reg), NEW y \in Present(reg), x # y, Family[x] = Family[y]
    PROVE  AssignIds(reg)[x] # AssignIds(reg)[y]
<1> DEFINE ids == AssignIds(reg)
<1>1. x \in Fp /\ y \in Fp /\ ids[x] # NoId /\ ids[y] # NoId
    BY DEF Present, Assignable
<1>2. ASSUME NEW u \in Present(reg), NEW v \in Present(reg), u < v,
             u \in Fp, v \in Fp, Family[u] = Family[v], ids[v] # NoId
      PROVE  ids[u] # ids[v]
  <2> HIDE DEF ids
  <2>1. ids[v] = FirstFree(reg, ids, v)
      BY <1>2, AssignIdsIs DEF ids
  <2>2. PICK k \in FreeCandidates(reg, ids, v) : ids[v] = Candidate[v][k]
      BY <1>2, <2>1, FirstFreeIs
  <2> QED BY <1>2, <2>2 DEF FreeCandidates
<1>3. x < y \/ y < x
    BY <1>1, SpawnAssumption
<1> QED BY <1>1, <1>2, <1>3

-----------------------------------------------------------------------------
(* What the installs do to the registry file, whatever runs at the same time. *)

\* The registries that can be read again.
GoodRegistry == {reg \in RegistryText : Assignable(reg)}

RegistrySound ==
    /\ target[Registry] \in GoodRegistry \cup Torn \cup {Nil, Empty}
    /\ \A p \in Proc :
          /\ wfile[p] = Registry => wtext[p] \in GoodRegistry
          /\ tmp[TmpOf(p, Registry)] \in GoodRegistry \cup Torn \cup {Nil, Empty}

\* The files of the registry are distinct files of the installer.
LEMMA Names ==
    /\ {Marker, Registry} \subseteq File
    /\ \A i \in SpawnId \cup {NoId}, x \in Fp : RefFile(i, x) \in File
    /\ Marker # Registry /\ \A i, x : RefFile(i, x) # Registry
    /\ Nil # Registry
    /\ RegistryText \subseteq Text /\ {LayoutText, RefText} \subseteq Text
<1>1. File = SpawnFiles /\ Text = SpawnTexts
    BY SpawnAssumption
<1>2. Marker # Registry /\ \A i, x : RefFile(i, x) # Registry
    BY DEF Marker, Registry, RefFile
<1>3. {Marker, Registry} \subseteq File
    BY <1>1 DEF SpawnFiles
<1>4. Nil # Registry
    BY <1>3, InstallAssumption
<1>5. \A i \in SpawnId \cup {NoId}, x \in Fp : RefFile(i, x) \in File
    BY <1>1 DEF SpawnFiles
<1>6. RegistryText \subseteq Text /\ {LayoutText, RefText} \subseteq Text
    BY <1>1 DEF SpawnTexts
<1> QED BY <1>2, <1>3, <1>4, <1>5, <1>6

\* A temporary name belongs to one file.
LEMMA TmpOfFile ==
    ASSUME NEW p, NEW q, NEW f, NEW g, TmpOf(p, f) = TmpOf(q, g)
    PROVE  f = g
BY DEF TmpOf

\* The registry without entries can be read.
LEMMA NoEntriesGood == NoEntries \in GoodRegistry
<1>1. NoEntries \in RegistryText
    BY DEF NoEntries, RegistryText, LinkState
<1>2. Present(NoEntries) = {}
    BY DEF Present, NoEntries
<1> QED BY <1>1, <1>2, Zenon DEF GoodRegistry, Assignable

\* What the registry file reads as: a whole text as itself, a torn one as its lines
\* add up, anything else as a registry without entries.
LEMMA ParsedIs ==
    /\ \A c \in RegistryText : Parsed(c) = c
    /\ \A c \in Torn : Parsed(c) \in RegistryText
    /\ Parsed(Nil) = NoEntries /\ Parsed(Empty) = NoEntries
<1>1. \A c \in RegistryText : c \notin {Nil, Empty} /\ c \notin SpawnTorn
    BY Names, InstallAssumption, SpawnAssumption
<1>2. ASSUME NEW c \in Torn PROVE Parsed(c) \in RegistryText
  <2>1. c \notin {Nil, Empty} /\ c \in SpawnTorn
      BY InstallAssumption, SpawnAssumption
  <2>2. PICK reg \in RegistryText : c = <<"torn", reg>>
      BY <2>1 DEF SpawnTorn
  <2>3. Parsed(c) = c[2]
      BY <2>1, Zenon DEF Parsed
  <2> QED BY <2>2, <2>3
<1> QED BY <1>1, <1>2 DEF Parsed

\* A sound registry file reads as a registry, which has its ids if it is not torn.
LEMMA ReadIsRegistry ==
    ASSUME RegistrySound
    PROVE  /\ ReadRegistry \in RegistryText
           /\ target[Registry] \notin Torn => ReadRegistry \in GoodRegistry
BY NoEntriesGood, ParsedIs DEF RegistrySound, ReadRegistry, GoodRegistry

\* An upsert adds one entry and keeps the others.
LEMMA UpsertedType ==
    ASSUME NEW reg \in RegistryText, NEW x \in Fp, NEW linked \in BOOLEAN
    PROVE  /\ Upserted(reg, x, linked) \in RegistryText
           /\ Upserted(reg, x, linked)[x] = IF linked THEN "linked" ELSE "unlinked"
           /\ Present(Upserted(reg, x, linked)) = Present(reg) \cup {x}
BY DEF Upserted, RegistryText, LinkState, Present

\* A step of the routine leaves the arguments of every call alone; a name ends
\* up with what it had, with nothing, truncated, torn, or with a text of its writer.
LEMMA InstallFrame ==
    ASSUME TypeOK, NEW p \in Proc, InstallStep(p)
    PROVE  /\ UNCHANGED <<wfile, wtext>>
           /\ wpc[p] # "idle" /\ wpc'[p] # "idle"
           /\ \A q \in Proc \ {p} : wpc'[q] = wpc[q]
           /\ \A f \in File : \/ target'[f] \in {target[f], Nil} \cup Torn
                              \/ /\ wfile[p] = f
                                 /\ target'[f] \in {tmp[TmpOf(p, f)], wtext[p]}
           /\ \A n \in TmpName : \/ tmp'[n] \in {tmp[n], Nil, Empty} \cup Torn
                                 \/ n = TmpOf(p, wfile[p]) /\ tmp'[n] = wtext[p]
<1> USE DEF TypeOK
<1>1. CASE OpenTmp(p) BY <1>1 DEF OpenTmp
<1>2. CASE OpenFails(p) BY <1>2 DEF OpenFails
<1>3. CASE WriteTmp(p)
  <2>1. wtext[p] \in Text /\ wfile[p] \in File
      BY <1>3 DEF WriteTmp
  <2>2. \A c \in Content : Overlaid(wtext[p], c) \subseteq {wtext[p]} \cup Torn
      BY <2>1, InstallAssumption DEF Overlaid, Content
  <2>3. TmpOf(p, wfile[p]) \in TmpName
      BY <2>1, TmpOfType
  <2>4. \A f \in File : \/ target'[f] = target[f]
                        \/ wfile[p] = f /\ target'[f] \in {wtext[p]} \cup Torn
      BY <1>3, <2>1, <2>2 DEF WriteTmp
  <2>5. \A n \in TmpName : \/ tmp'[n] = tmp[n]
                           \/ n = TmpOf(p, wfile[p]) /\ tmp'[n] \in {wtext[p]} \cup Torn
      BY <1>3, <2>2, <2>3 DEF WriteTmp
  <2> QED BY <1>3, <2>4, <2>5 DEF WriteTmp
<1>4. CASE WriteFails(p) BY <1>4 DEF WriteFails
<1>5. CASE Rename(p) BY <1>5 DEF Rename, Install
<1>6. CASE RenameFails(p) BY <1>6 DEF RenameFails
<1>7. CASE RemoveTarget(p) BY <1>7 DEF RemoveTarget
<1>8. CASE RenameAgain(p) BY <1>8 DEF RenameAgain, Install
<1>9. CASE RenameAgainFails(p) BY <1>9 DEF RenameAgainFails
<1> QED BY <1>1, <1>2, <1>3, <1>4, <1>5, <1>6, <1>7, <1>8, <1>9 DEF InstallStep

-----------------------------------------------------------------------------
(* Type correctness, and the registry is always readable. *)

\* What a step of a launch is to the files: a step of the install routine, in
\* which the registry is only ever replaced by one that can be read again.
InstallPart(r) ==
    \/ \E f \in File, t \in Text : Call(r, f, t) /\ (f = Registry => t \in GoodRegistry)
    \/ InstallStep(r)
    \/ Return(r)
    \/ CrashInstall(r)
    \/ UNCHANGED ivars

\* What a launch does to the files keeps the installer's types.
LEMMA InstallPartType ==
    ASSUME TypeOK, NEW r \in Proc, InstallPart(r)
    PROVE  TypeOK'
<1>1. CASE CrashInstall(r)
    BY <1>1, InstallAssumption DEF CrashInstall, TypeOK, PcSet, Content
<1>2. CASE ~ CrashInstall(r)
    BY <1>2, StepType DEF InstallPart, InstallNext
<1> QED BY <1>1, <1>2

\* What a launch installs as the registry is a whole registry.
LEMMA InstallPartSound ==
    ASSUME TypeOK, RegistrySound, NEW r \in Proc, InstallPart(r)
    PROVE  RegistrySound'
<1> USE Names, TmpOfType
<1>1. CASE InstallStep(r)
  <2>1. \A p \in Proc : wfile'[p] = Registry => wtext'[p] \in GoodRegistry
      BY <1>1, InstallFrame DEF RegistrySound
  <2>2. target'[Registry] \in GoodRegistry \cup Torn \cup {Nil, Empty}
      BY <1>1, InstallFrame DEF RegistrySound
  <2>3. ASSUME NEW p \in Proc
        PROVE  tmp'[TmpOf(p, Registry)] \in GoodRegistry \cup Torn \cup {Nil, Empty}
      BY <1>1, InstallFrame, TmpOfFile DEF RegistrySound
  <2> QED BY <2>1, <2>2, <2>3 DEF RegistrySound
<1>2. ASSUME NEW f \in File, NEW t \in Text, Call(r, f, t), f = Registry => t \in GoodRegistry
      PROVE  RegistrySound'
    BY <1>2 DEF Call, RegistrySound, TypeOK
<1>3. CASE Return(r) \/ CrashInstall(r)
    BY <1>3 DEF Return, CrashInstall, RegistrySound, TypeOK
<1>4. CASE UNCHANGED ivars
    BY <1>4 DEF ivars, RegistrySound
<1> QED BY <1>1, <1>2, <1>3, <1>4 DEF InstallPart

\* Every step of a launch is, on the files, one of InstallPart.
LEMMA StepProjects ==
    ASSUME SpawnTypeOK, RegistrySound, NEW r \in Proc,
           Launch(r) \/ LaunchStep(r) \/ CrashLaunch(r)
    PROVE  InstallPart(r)
<1> USE Names
<1>1. CASE Launch(r)
    BY <1>1 DEF Launch, InstallPart
<1>2. CASE UpsertReads(r)
  <2> DEFINE reg == Upserted(ReadRegistry, fp[r], receipt[r])
  <2>1. reg \in RegistryText
      BY ReadIsRegistry, UpsertedType DEF SpawnTypeOK
  <2>2. Assignable(reg) /\ Call(r, Registry, reg)
      BY <1>2 DEF UpsertReads
  <2> HIDE DEF reg
  <2>3. reg \in GoodRegistry /\ reg \in Text
      BY <2>1, <2>2 DEF GoodRegistry
  <2> QED BY <2>2, <2>3 DEF InstallPart
<1>3. CASE WriteRef(r)
  <2> DEFINE f == RefFile(id[r], fp[r])
  <2>1. f \in File /\ f # Registry /\ Call(r, f, RefText)
      BY <1>3 DEF WriteRef, SpawnTypeOK
  <2> HIDE DEF f
  <2> QED BY <2>1 DEF InstallPart
<1>4. CASE MarkerReturns(r) \/ UpsertReturns(r) \/ RefReturns(r)
    BY <1>4 DEF MarkerReturns, UpsertReturns, RefReturns, Installed, Threw, InstallPart
<1>5. CASE UpsertUnassignable(r) \/ Reserve(r) \/ ReserveThrows(r) \/ Capture(r)
           \/ CaptureFails(r) \/ WriteManifest(r)
    BY <1>5 DEF UpsertUnassignable, Reserve, ReserveThrows, Capture, CaptureFails,
                WriteManifest, InstallPart
<1>6. CASE InstallRuns(r) \/ CrashLaunch(r)
    BY <1>6 DEF InstallRuns, CrashLaunch, InstallPart
<1> QED BY <1>1, <1>2, <1>3, <1>4, <1>5, <1>6 DEF LaunchStep

\* Types and a sound registry hold at the start.
LEMMA SpawnInitType == SpawnInit => SpawnTypeOK /\ RegistrySound
<1> SUFFICES ASSUME SpawnInit PROVE SpawnTypeOK /\ RegistrySound
    OBVIOUS
<1>1. TypeOK
    BY InitType DEF SpawnInit
<1>2. SpawnTypeOK
    BY <1>1 DEF SpawnInit, SpawnTypeOK, RpcSet, Ended
<1>3. RegistrySound
    BY Names, TmpOfType DEF SpawnInit, InstallInit, RegistrySound
<1> QED BY <1>2, <1>3

\* Types and a sound registry are inductive for any interleaving.
LEMMA SpawnStepType ==
    SpawnTypeOK /\ RegistrySound /\ [SpawnNext]_vars => SpawnTypeOK' /\ RegistrySound'
<1> SUFFICES ASSUME SpawnTypeOK, RegistrySound, [SpawnNext]_vars
             PROVE  SpawnTypeOK' /\ RegistrySound'
    OBVIOUS
<1>1. CASE UNCHANGED vars
    BY <1>1 DEF vars, ivars, rvars, SpawnTypeOK, TypeOK, RegistrySound
<1>2. ASSUME NEW r \in Proc, Launch(r) \/ LaunchStep(r) \/ CrashLaunch(r)
      PROVE  SpawnTypeOK' /\ RegistrySound'
  <2>1. TypeOK' /\ RegistrySound'
      BY <1>2, StepProjects, InstallPartType, InstallPartSound DEF SpawnTypeOK
  <2> USE <2>1 DEF SpawnTypeOK, Goto, RpcSet, Ended
  <2>2. CASE Launch(r) \/ MarkerReturns(r)
      BY <2>2 DEF Launch, MarkerReturns
  <2>3. CASE UpsertReads(r)
    <3>1. AssignIds(Upserted(ReadRegistry, fp[r], receipt[r]))[fp[r]] \in SpawnId \cup {NoId}
        BY AssignIdsIs
    <3> QED BY <2>3, <3>1 DEF UpsertReads
  <2>4. CASE UpsertUnassignable(r)
      BY <2>4 DEF UpsertUnassignable, UpsertPc, AfterUpsert
  <2>5. CASE UpsertReturns(r)
      BY <2>5 DEF UpsertReturns, UpsertPc, AfterUpsert
  <2>6. CASE Reserve(r)
    <3>1. PICK n \in FreeAttempts(r) :
             /\ dirs' = dirs \cup {<<id[r], fp[r], n>>}
             /\ dir' = [dir EXCEPT ![r] = <<id[r], fp[r], n>>]
        BY <2>6 DEF Reserve
    <3>2. <<id[r], fp[r], n>> \in (SpawnId \cup {NoId}) \X Fp \X (0 .. MaxAttempts - 1)
        BY DEF FreeAttempts
    <3>3. <<id[r], fp[r], n>> # NoDir
        BY DEF NoDir
    <3> QED BY <2>6, <3>1, <3>2, <3>3 DEF Reserve
  <2>7. CASE ReserveThrows(r) \/ Capture(r) \/ CaptureFails(r) \/ WriteManifest(r)
      BY <2>7 DEF ReserveThrows, Capture, CaptureFails, WriteManifest
  <2>8. CASE WriteRef(r) \/ RefReturns(r) \/ InstallRuns(r)
      BY <2>8 DEF WriteRef, RefReturns, InstallRuns, rvars
  <2>9. CASE CrashLaunch(r)
      BY <2>9 DEF CrashLaunch
  <2> QED
      BY <1>2, <2>2, <2>3, <2>4, <2>5, <2>6, <2>7, <2>8, <2>9 DEF LaunchStep
<1> QED BY <1>1, <1>2 DEF SpawnNext, AllEnded

\* The state of the launches stays well formed, however many run at the same
\* time and whatever fails or crashes.
THEOREM SpawnTypeCorrect == SpawnSpec => []SpawnTypeOK
<1>1. SpawnTypeOK /\ RegistrySound => SpawnTypeOK
    OBVIOUS
<1> QED BY <1>1, SpawnInitType, SpawnStepType, PTL DEF SpawnSpec

\* However unlocked upserts interleave, truncate the registry or undo each other,
\* and whatever fails or crashes, a registry on disk that is not torn can be read
\* again: what its reader refuses is never installed as a whole text.
THEOREM RegistryStaysReadable == SpawnSpec => []RegistryReadable
<1>1. RegistrySound => RegistryReadable
    BY ReadIsRegistry DEF RegistryReadable, GoodRegistry
<1> QED BY <1>1, SpawnInitType, SpawnStepType, PTL DEF SpawnSpec

\* No id of the registry is ambiguous within its family.
THEOREM IdsStayUnambiguous == SpawnSpec => []IdsUnambiguous
<1>1. IdsUnambiguous
    BY IdsDiffer, Zenon DEF IdsUnambiguous
<1> QED BY <1>1, PTL

\* No two launches share an attempt directory.
THEOREM AttemptsStayExclusive == SpawnSpec => []AttemptsExclusive
<1>1. SpawnInit => AttemptsExclusive
    BY DEF SpawnInit, AttemptsExclusive
<1>2. SpawnTypeOK /\ AttemptsExclusive /\ [SpawnNext]_vars => AttemptsExclusive'
  <2> SUFFICES ASSUME SpawnTypeOK, AttemptsExclusive, [SpawnNext]_vars
               PROVE  AttemptsExclusive'
      OBVIOUS
  <2>1. ASSUME NEW r \in Proc, Reserve(r) PROVE AttemptsExclusive'
    <3>1. PICK n \in FreeAttempts(r) : dir' = [dir EXCEPT ![r] = <<id[r], fp[r], n>>]
        BY <2>1 DEF Reserve
    <3>2. <<id[r], fp[r], n>> \notin dirs /\ <<id[r], fp[r], n>> # NoDir
        BY DEF FreeAttempts, NoDir
    <3> QED BY <3>1, <3>2 DEF AttemptsExclusive, SpawnTypeOK
  <2>2. ASSUME dir' = dir PROVE AttemptsExclusive'
      BY <2>2 DEF AttemptsExclusive
  <2>3. ASSUME NEW r \in Proc, Launch(r) \/ LaunchStep(r) \/ CrashLaunch(r), ~ Reserve(r)
        PROVE  dir' = dir
      BY <2>3 DEF Launch, LaunchStep, CrashLaunch, MarkerReturns, UpsertReads,
                  UpsertUnassignable, UpsertReturns, ReserveThrows, Capture,
                  CaptureFails, WriteRef, RefReturns, WriteManifest, InstallRuns, rvars
  <2> QED BY <2>1, <2>2, <2>3 DEF SpawnNext, AllEnded, vars, rvars
<1> QED BY <1>1, <1>2, SpawnInitType, SpawnStepType, PTL DEF SpawnSpec

-----------------------------------------------------------------------------
(* One launch at a time. *)

\* Launches do not overlap and no flush fails.  A stream that does not open and a
\* rename that fails are allowed.
Serial == MaxConcurrent <= 1 /\ "write" \notin IoFaults

\* Where a launch stands in the install routine, and when it has a receipt.
Position(r) ==
    /\ wpc[r] # "idle" => rpc[r] \in UpsertPc \cup {"marker", "ref"}
    /\ wpc[r] # "idle" => (wfile[r] = Registry <=> rpc[r] \in UpsertPc)
    /\ rpc[r] \in {"new", "marker", "identity", "reserve", "capture"} => ~ receipt[r]

\* Nobody touches the temporary file of r.
Undisturbed(r) ==
    /\ wpc[r] = "write" => fd[r] = "tmp" /\ tmp[TmpOf(r, wfile[r])] = Empty
    /\ wpc[r] \in {"rename", "remove", "again"} => tmp[TmpOf(r, wfile[r])] = wtext[r]
    /\ wpc[r] \in {"remove", "again"} => "rename" \in IoFaults

\* What an upsert read is still what the registry is, until it is installed.
UpsertHolds(r) ==
    wpc[r] # "idle" /\ rpc[r] \in UpsertPc =>
       /\ nextId[r] = AssignIds(wtext[r])[fp[r]]
       /\ wtext[r][fp[r]] = IF receipt[r] THEN "linked" ELSE "unlinked"
       /\ wpc[r] \in {"open", "write", "rename"} =>
             wtext[r] = Upserted(ReadRegistry, fp[r], receipt[r])
       /\ wpc[r] = "ok" => target[Registry] = wtext[r]

\* The id that a launch will record is the one the registry assigns.
Recorded(r) ==
    rpc[r] \in {"ref", "manifest"} /\ receipt[r] /\ id[r] # NoId =>
       /\ ReadRegistry[fp[r]] = "linked"
       /\ id[r] = AssignIds(ReadRegistry)[fp[r]]

OwnInv(r) == Position(r) /\ Undisturbed(r) /\ UpsertHolds(r) /\ Recorded(r)

SerialInv ==
    /\ \A r, q \in Active : r = q
    /\ \A r \in Proc : OwnInv(r)
    /\ target[Registry] \notin Torn

\* No launch is under way at the start.
LEMMA SerialInit == SpawnInit => SerialInv
BY InstallAssumption, Names
DEF SpawnInit, InstallInit, SerialInv, OwnInv, Active, Position, Undisturbed,
    UpsertHolds, Recorded, UpsertPc

\* While one launch takes a step no other launch is under way.
LEMMA Alone ==
    ASSUME Serial, SpawnTypeOK, SerialInv, NEW r \in Proc,
           Launch(r) \/ LaunchStep(r) \/ CrashLaunch(r)
    PROVE  \A q \in Proc \ {r} : q \notin Active /\ wpc[q] = "idle"
<1>1. \A q \in Proc \ {r} : q \notin Active
  <2>1. CASE Launch(r)
    <3>1. IsFiniteSet(Active)
        BY SpawnAssumption, FS_Subset DEF Active
    <3>2. Cardinality(Active) \in Nat /\ Cardinality(Active) < 1
        BY <2>1, <3>1, FS_CardinalityType, SpawnAssumption DEF Launch, Serial
    <3>3. Active = {}
        BY <3>1, <3>2, FS_EmptySet
    <3> QED BY <3>3
  <2>2. CASE LaunchStep(r) \/ CrashLaunch(r)
    <3>1. CASE InstallRuns(r)
        BY <3>1, InstallFrame
        DEF InstallRuns, SerialInv, OwnInv, Position, Active, UpsertPc, Ended, SpawnTypeOK
    <3>2. CASE ~ InstallRuns(r)
      <4>1. r \in Active
          BY <2>2, <3>2
          DEF LaunchStep, CrashLaunch, MarkerReturns, UpsertReads, UpsertUnassignable,
              UpsertReturns, Reserve, ReserveThrows, Capture, CaptureFails, WriteRef,
              RefReturns, WriteManifest, Active, UpsertPc, Ended
      <4> QED BY <4>1 DEF SerialInv
    <3> QED BY <3>1, <3>2
  <2> QED BY <2>1, <2>2
<1>2. \A q \in Proc : q \notin Active => wpc[q] = "idle"
    BY DEF SerialInv, OwnInv, Position, Active, UpsertPc, Ended
<1> QED BY <1>1, <1>2

\* A step of a launch leaves the state of the others alone.
LEMMA OthersFrame ==
    ASSUME SpawnTypeOK, NEW r \in Proc, NEW q \in Proc \ {r},
           Launch(r) \/ LaunchStep(r) \/ CrashLaunch(r)
    PROVE  /\ rpc'[q] = rpc[q] /\ wpc'[q] = wpc[q] /\ receipt'[q] = receipt[q]
           /\ id'[q] = id[q] /\ dir'[q] = dir[q]
<1> USE DEF Goto, Call, Return, Installed, Threw, SpawnTypeOK, TypeOK
<1>1. CASE InstallRuns(r)
    BY <1>1, InstallFrame DEF InstallRuns, rvars
<1>2. CASE Launch(r) \/ CrashLaunch(r)
    BY <1>2 DEF Launch, CrashLaunch, CrashInstall
<1>3. CASE MarkerReturns(r) \/ UpsertReturns(r) \/ RefReturns(r)
    BY <1>3 DEF MarkerReturns, UpsertReturns, RefReturns
<1>4. CASE UpsertReads(r) \/ WriteRef(r)
    BY <1>4 DEF UpsertReads, WriteRef, rvars
<1>5. CASE UpsertUnassignable(r) \/ Reserve(r) \/ ReserveThrows(r) \/ Capture(r)
           \/ CaptureFails(r) \/ WriteManifest(r)
    BY <1>5 DEF UpsertUnassignable, Reserve, ReserveThrows, Capture, CaptureFails,
                WriteManifest, ivars
<1> QED BY <1>1, <1>2, <1>3, <1>4, <1>5 DEF LaunchStep

\* Only the install routine changes installed files.
LEMMA TargetFrame ==
    ASSUME NEW r \in Proc, Launch(r) \/ LaunchStep(r) \/ CrashLaunch(r), ~ InstallRuns(r)
    PROVE  target' = target
BY DEF Launch, LaunchStep, CrashLaunch, MarkerReturns, UpsertReads, UpsertUnassignable,
       UpsertReturns, Reserve, ReserveThrows, Capture, CaptureFails, WriteRef,
       RefReturns, WriteManifest, Call, Installed, Threw, Return, CrashInstall, ivars

\* An install that nobody disturbs puts its text into the target, or does not
\* touch the target, or removes it when the rename failed.
LEMMA SerialInstall ==
    ASSUME Serial, SpawnTypeOK, SerialInv, NEW r \in Proc, InstallStep(r)
    PROVE  /\ Undisturbed(r)'
           /\ wpc'[r] # "idle" /\ UNCHANGED <<wfile, wtext>>
           /\ \/ /\ wpc[r] = "rename" \/ (wpc[r] = "again" /\ "rename" \in IoFaults)
                 /\ wpc'[r] = "ok"
                 /\ target' = [target EXCEPT ![wfile[r]] = wtext[r]]
              \/ /\ wpc[r] \in {"open", "write"}
                 /\ wpc'[r] \in {"write", "rename", "threw"}
                 /\ target' = target
              \/ /\ wpc'[r] \in {"remove", "threw"}
                 /\ target' = target
              \/ /\ wpc'[r] = "again" /\ "rename" \in IoFaults
                 /\ target' = [target EXCEPT ![wfile[r]] = Nil]
<1>1. Undisturbed(r) /\ TypeOK
    BY DEF SerialInv, OwnInv, SpawnTypeOK
<1>2. /\ wpc[r] # "idle" => wtext[r] # Nil /\ wfile[r] \in File
      /\ wfile[r] \in File => TmpOf(r, wfile[r]) \in TmpName
    BY <1>1, TmpOfType DEF TypeOK
<1> USE <1>1, <1>2 DEF Undisturbed, TypeOK
<1>3. CASE OpenTmp(r) BY <1>3 DEF OpenTmp
<1>4. CASE OpenFails(r) BY <1>4 DEF OpenFails
<1>5. CASE WriteTmp(r)
  <2>1. wtext[r] \in Text /\ wfile[r] \in File /\ fd[r] = "tmp"
        /\ tmp[TmpOf(r, wfile[r])] = Empty
      BY <1>5 DEF WriteTmp
  <2>2. tmp' = [tmp EXCEPT ![TmpOf(r, wfile[r])] = wtext[r]] /\ target' = target
      BY <1>5, <2>1, OverlaidType DEF WriteTmp
  <2> QED BY <1>5, <2>1, <2>2 DEF WriteTmp, TmpOf
<1>6. CASE Rename(r) BY <1>6 DEF Rename, Install
<1>7. CASE WriteFails(r)
    BY <1>7 DEF WriteFails, Serial
<1>8. CASE RenameFails(r)
    BY <1>8 DEF RenameFails, RenameCanFail
<1>9. CASE RemoveTarget(r)
    BY <1>9 DEF RemoveTarget
<1>10. CASE RenameAgain(r)
    BY <1>10 DEF RenameAgain, Install
<1>11. CASE RenameAgainFails(r)
    BY <1>11 DEF RenameAgainFails
<1> QED BY <1>3, <1>4, <1>5, <1>6, <1>7, <1>8, <1>9, <1>10, <1>11 DEF InstallStep

\* What the registry holds once an upsert is installed.
LEMMA UpsertText ==
    ASSUME SpawnTypeOK, RegistrySound, NEW r \in Proc, OwnInv(r),
           wpc[r] # "idle", rpc[r] \in UpsertPc
    PROVE  wfile[r] = Registry /\ wtext[r] \in RegistryText /\ Parsed(wtext[r]) = wtext[r]
<1>1. wfile[r] = Registry
    BY DEF OwnInv, Position
<1>2. wtext[r] \in RegistryText
    BY <1>1 DEF RegistrySound, GoodRegistry
<1> QED BY <1>1, <1>2, ParsedIs

\* The step of the one launch under way keeps what it knows.
LEMMA SerialOwn ==
    ASSUME Serial, SpawnTypeOK, RegistrySound, SerialInv, NEW r \in Proc,
           Launch(r) \/ LaunchStep(r) \/ CrashLaunch(r)
    PROVE  OwnInv(r)'
<1>1. Position(r) /\ Undisturbed(r) /\ UpsertHolds(r) /\ Recorded(r) /\ TypeOK
    BY DEF SerialInv, OwnInv, SpawnTypeOK
<1> USE <1>1, Names
<1>2. CASE Launch(r)
    BY <1>2
    DEF Launch, Call, Goto, SpawnTypeOK, TypeOK, OwnInv, Position, Undisturbed,
        UpsertHolds, Recorded, UpsertPc
<1>3. CASE MarkerReturns(r)
    BY <1>3
    DEF MarkerReturns, Installed, Threw, Return, Goto, SpawnTypeOK, TypeOK, OwnInv,
        Position, Undisturbed, UpsertHolds, Recorded, UpsertPc
<1>4. CASE UpsertReads(r)
  <2> DEFINE reg == Upserted(ReadRegistry, fp[r], receipt[r])
  <2>1. /\ rpc[r] \in UpsertPc /\ UNCHANGED <<rpc, fp, id, receipt, target, tmp, fd>>
        /\ wpc'[r] = "open" /\ wfile'[r] = Registry /\ wtext'[r] = reg
        /\ nextId'[r] = AssignIds(reg)[fp[r]]
      BY <1>4 DEF UpsertReads, Call, SpawnTypeOK, TypeOK
  <2>2. reg[fp[r]] = IF receipt[r] THEN "linked" ELSE "unlinked"
      BY ReadIsRegistry, UpsertedType DEF SpawnTypeOK
  <2>3. ReadRegistry' = ReadRegistry
      BY <2>1 DEF ReadRegistry
  <2> HIDE DEF reg
  <2>4. UpsertHolds(r)'
    <3>1. wtext'[r] = Upserted(ReadRegistry, fp[r], receipt[r])'
        BY <2>1, <2>3 DEF reg
    <3> QED BY <2>1, <2>2, <3>1 DEF UpsertHolds
  <2>5. Position(r)' /\ Undisturbed(r)' /\ Recorded(r)'
      BY <2>1 DEF Position, Undisturbed, Recorded, UpsertPc
  <2> QED BY <2>4, <2>5 DEF OwnInv
<1>5. CASE UpsertUnassignable(r)
    BY <1>5
    DEF UpsertUnassignable, Goto, ivars, SpawnTypeOK, TypeOK, OwnInv, Position,
        Undisturbed, UpsertHolds, Recorded, UpsertPc, AfterUpsert
<1>6. CASE UpsertReturns(r)
  <2>1. /\ rpc[r] \in UpsertPc /\ wpc'[r] = "idle" /\ rpc'[r] = AfterUpsert[rpc[r]]
        /\ UNCHANGED <<fp, receipt, target>>
        /\ \/ wpc[r] = "ok" /\ id'[r] = nextId[r]
           \/ id'[r] = NoId
      BY <1>6 DEF UpsertReturns, Installed, Threw, Return, Goto, SpawnTypeOK, TypeOK
  <2>2. Position(r)' /\ Undisturbed(r)' /\ UpsertHolds(r)'
      BY <2>1 DEF Position, Undisturbed, UpsertHolds, UpsertPc, AfterUpsert
  <2>3. Recorded(r)'
    <3>1. CASE wpc[r] = "ok" /\ id'[r] = nextId[r]
      <4>1. target[Registry] = wtext[r] /\ Parsed(wtext[r]) = wtext[r]
          BY <2>1, <3>1, UpsertText DEF UpsertHolds, OwnInv
      <4>2. ReadRegistry' = wtext[r]
          BY <2>1, <4>1 DEF ReadRegistry
      <4> QED BY <2>1, <3>1, <4>2 DEF UpsertHolds, Recorded
    <3>2. CASE id'[r] = NoId
        BY <3>2 DEF Recorded
    <3> QED BY <2>1, <3>1, <3>2
  <2> QED BY <2>2, <2>3 DEF OwnInv
<1>7. CASE Reserve(r) \/ ReserveThrows(r) \/ Capture(r) \/ CaptureFails(r)
           \/ WriteManifest(r)
  <2>1. /\ wpc'[r] = "idle"
        /\ rpc'[r] \in {"capture", "identity_again", "link", "ref", "launched", "aborted"}
        /\ rpc'[r] \in {"capture", "ref"} => ~ receipt'[r]
      BY <1>7
      DEF Reserve, ReserveThrows, Capture, CaptureFails, WriteManifest, Goto, ivars,
          SpawnTypeOK, TypeOK, Position, UpsertPc
  <2> QED BY <2>1 DEF OwnInv, Position, Undisturbed, UpsertHolds, Recorded
<1>8. CASE WriteRef(r) \/ RefReturns(r)
  <2>1. /\ rpc[r] = "ref" /\ UNCHANGED <<fp, id, receipt, target>>
        /\ \/ rpc'[r] = "ref" /\ wpc'[r] = "open" /\ wfile'[r] # Registry
           \/ rpc'[r] \in {"manifest", "aborted"} /\ wpc'[r] = "idle"
      BY <1>8
      DEF WriteRef, RefReturns, Call, Installed, Threw, Return, Goto, rvars,
          SpawnTypeOK, TypeOK
  <2>2. ReadRegistry' = ReadRegistry
      BY <2>1 DEF ReadRegistry
  <2>3. Recorded(r)'
      BY <2>1, <2>2 DEF Recorded
  <2> QED BY <2>1, <2>3 DEF OwnInv, Position, Undisturbed, UpsertHolds, UpsertPc
<1>9. CASE InstallRuns(r)
  <2> USE <1>9
  <2>1. UNCHANGED <<rpc, fp, id, nextId, receipt, wfile, wtext>> /\ wpc[r] # "idle"
      BY InstallFrame DEF InstallRuns, rvars, SpawnTypeOK
  <2>2. Undisturbed(r)' /\ Position(r)'
      BY <2>1, SerialInstall DEF InstallRuns, Position
  <2>3. CASE rpc[r] \in UpsertPc
    <3>1. wfile[r] = Registry
        BY <2>1, <2>3, UpsertText DEF OwnInv
    <3>2. Recorded(r)'
        BY <2>1, <2>3 DEF Recorded, UpsertPc
    <3>3. UpsertHolds(r)'
      <4>1. CASE wpc'[r] = "ok" /\ target' = [target EXCEPT ![wfile[r]] = wtext[r]]
          BY <2>1, <2>3, <3>1, <4>1 DEF UpsertHolds, TypeOK
      <4>3. CASE wpc'[r] \in {"remove", "again", "threw"}
          BY <2>1, <2>3, <4>3 DEF UpsertHolds
      <4>2. CASE wpc[r] \in {"open", "write"} /\ wpc'[r] \in {"write", "rename", "threw"}
                 /\ target' = target
        <5>1. ReadRegistry' = ReadRegistry
            BY <4>2 DEF ReadRegistry
        <5>2. wtext[r] = Upserted(ReadRegistry, fp[r], receipt[r])'
            BY <2>1, <2>3, <4>2, <5>1 DEF UpsertHolds
        <5> QED BY <2>1, <2>3, <4>2, <5>2 DEF UpsertHolds
      <4> QED BY <4>1, <4>2, <4>3, SerialInstall DEF InstallRuns
    <3> QED BY <2>2, <3>2, <3>3 DEF OwnInv
  <2>4. CASE rpc[r] \notin UpsertPc
    <3>1. target'[Registry] = target[Registry]
        BY <2>1, <2>4, SerialInstall DEF InstallRuns, Position, TypeOK
    <3>2. ReadRegistry' = ReadRegistry
        BY <3>1 DEF ReadRegistry
    <3>3. Recorded(r)' /\ UpsertHolds(r)'
        BY <2>1, <2>4, <3>2 DEF Recorded, UpsertHolds
    <3> QED BY <2>2, <3>3 DEF OwnInv
  <2> QED BY <2>3, <2>4
<1>10. CASE CrashLaunch(r)
  <2>1. wpc'[r] = "idle" /\ rpc'[r] = "crashed"
      BY <1>10 DEF CrashLaunch, CrashInstall, Goto, SpawnTypeOK, TypeOK
  <2> QED BY <2>1 DEF OwnInv, Position, Undisturbed, UpsertHolds, Recorded
<1> QED
    BY <1>2, <1>3, <1>4, <1>5, <1>6, <1>7, <1>8, <1>9, <1>10 DEF LaunchStep

\* With one launch at a time SerialInv is inductive.
LEMMA SerialStep ==
    ASSUME Serial, SpawnTypeOK, RegistrySound, SerialInv, [SpawnNext]_vars
    PROVE  SerialInv'
<1>1. CASE UNCHANGED vars
    BY <1>1 DEF vars, ivars, rvars, SerialInv, OwnInv, Active, Position, Undisturbed,
                UpsertHolds, Recorded, ReadRegistry
<1>2. ASSUME NEW r \in Proc, Launch(r) \/ LaunchStep(r) \/ CrashLaunch(r)
      PROVE  SerialInv'
  <2>1. ASSUME NEW q \in Proc \ {r} PROVE OwnInv(q)' /\ q \notin Active'
    <3>1. /\ rpc'[q] = rpc[q] /\ wpc'[q] = "idle" /\ receipt'[q] = receipt[q]
          /\ rpc[q] \in Ended \cup {"new"} /\ Position(q)
        BY <1>2, OthersFrame, Alone DEF Active, SerialInv, OwnInv
    <3> QED
        BY <3>1 DEF OwnInv, Active, Position, Undisturbed, UpsertHolds, Recorded, Ended
  <2>2. OwnInv(r)'
      BY <1>2, SerialOwn
  <2>3. \A p \in Proc : OwnInv(p)'
      BY <2>1, <2>2
  <2>4. \A p, q \in Active' : p = q
      BY <2>1 DEF Active
  <2>5. target'[Registry] \notin Torn
    <3>1. CASE InstallRuns(r)
      <4>1. wfile[r] \in File \cup {Nil} /\ wtext[r] \in Text \cup {Nil} /\ TypeOK
          BY DEF SpawnTypeOK, TypeOK
      <4>2. \/ target' = target
            \/ \E c \in {wtext[r], Nil} : target' = [target EXCEPT ![wfile[r]] = c]
          BY <3>1, SerialInstall DEF InstallRuns
      <4> QED BY <4>1, <4>2, InstallAssumption, Names DEF SerialInv, TypeOK
    <3>2. CASE ~ InstallRuns(r)
        BY <1>2, <3>2, TargetFrame DEF SerialInv
    <3> QED BY <3>1, <3>2
  <2> QED BY <2>3, <2>4, <2>5 DEF SerialInv
<1> QED BY <1>1, <1>2 DEF SpawnNext, AllEnded

\* SerialInv holds throughout, with one launch at a time.
LEMMA SerialInvariance ==
    ASSUME Serial
    PROVE  SpawnSpec => [](SpawnTypeOK /\ RegistrySound /\ SerialInv)
<1>1. SpawnInit => SpawnTypeOK /\ RegistrySound /\ SerialInv
    BY SpawnInitType, SerialInit
<1>2. SpawnTypeOK /\ RegistrySound /\ SerialInv /\ [SpawnNext]_vars =>
         (SpawnTypeOK /\ RegistrySound /\ SerialInv)'
    BY SpawnStepType, SerialStep
<1> QED BY <1>1, <1>2, PTL DEF SpawnSpec

\* One at a time, a launch that has an id and a config receipt when it comes to
\* its manifest can be resolved, also when renames fail.
THEOREM SerialLaunchesResolve ==
    ASSUME Serial
    PROVE  SpawnSpec => []LaunchResolves
<1>1. SpawnTypeOK /\ RegistrySound /\ SerialInv => LaunchResolves
  <2> SUFFICES ASSUME SpawnTypeOK, RegistrySound, SerialInv, NEW r \in Proc,
                      rpc[r] = "manifest", receipt[r], id[r] # NoId
               PROVE  Resolves(ReadRegistry, Family[fp[r]], id[r])
      BY DEF LaunchResolves
  <2> DEFINE reg == ReadRegistry
             ids == AssignIds(reg)
             x == fp[r]
  <2>1. Assignable(reg)
      BY ReadIsRegistry DEF GoodRegistry, SerialInv
  <2>2. reg[x] = "linked" /\ id[r] = ids[x] /\ x \in Fp
      BY DEF SerialInv, OwnInv, Recorded, SpawnTypeOK
  <2>3. x \in Present(reg)
      BY <2>2 DEF Present
  <2>4. \A y \in Present(reg) : Family[y] = Family[x] /\ ids[y] = id[r] => y = x
      BY <2>1, <2>2, <2>3, IdsDiffer
  <2>5. Matches(reg, Family[x], id[r]) = {x}
      BY <2>2, <2>3, <2>4, Zenon DEF Matches
  <2> QED BY <2>1, <2>2, <2>3, <2>5 DEF Resolves
<1> QED BY <1>1, SerialInvariance, PTL

\* One at a time and with renames that do not fail, no launch and no crash of one
\* removes a spawn from the registry.  (After a failed rename the install routine
\* removes the target, and a crash may come before the second rename.)
THEOREM SerialSpawnsKept ==
    ASSUME Serial, "rename" \notin IoFaults
    PROVE  SpawnSpec => SpawnsNeverForgotten
<1>1. SpawnTypeOK /\ RegistrySound /\ SerialInv /\ [SpawnNext]_vars =>
         [\A x \in Fp : x \in Present(ReadRegistry) => x \in Present(ReadRegistry)']_vars
  <2> SUFFICES ASSUME SpawnTypeOK, RegistrySound, SerialInv, SpawnNext
               PROVE  Present(ReadRegistry) \subseteq Present(ReadRegistry)'
      OBVIOUS
  <2>1. ASSUME target'[Registry] = target[Registry]
        PROVE  Present(ReadRegistry) \subseteq Present(ReadRegistry)'
      BY <2>1 DEF ReadRegistry
  <2>2. ASSUME NEW r \in Proc, InstallRuns(r)
        PROVE  Present(ReadRegistry) \subseteq Present(ReadRegistry)'
    <3>1. OwnInv(r) /\ TypeOK /\ InstallStep(r)
        BY <2>2 DEF SerialInv, SpawnTypeOK, InstallRuns
    <3>2. CASE target' = target
        BY <2>1, <3>2
    <3>3. CASE wpc[r] = "rename" /\ target' = [target EXCEPT ![wfile[r]] = wtext[r]]
      <4>1. CASE rpc[r] \notin UpsertPc
          BY <2>1, <3>1, <3>3, <4>1 DEF OwnInv, Position, TypeOK
      <4>2. CASE rpc[r] \in UpsertPc
        <5>1. /\ wfile[r] = Registry /\ Parsed(wtext[r]) = wtext[r]
              /\ wtext[r] = Upserted(ReadRegistry, fp[r], receipt[r])
            BY <3>1, <3>3, <4>2, UpsertText DEF OwnInv, UpsertHolds
        <5>2. ReadRegistry' = wtext[r]
            BY <3>1, <3>3, <5>1, Names DEF ReadRegistry, TypeOK
        <5>3. Present(ReadRegistry) \subseteq Present(wtext[r])
            BY <5>1, ReadIsRegistry, UpsertedType DEF SpawnTypeOK
        <5> QED BY <5>2, <5>3 DEF Present
      <4> QED BY <4>1, <4>2
    <3> QED BY <3>1, <3>2, <3>3, SerialInstall
  <2> QED BY <2>1, <2>2, TargetFrame DEF SpawnNext, AllEnded, vars, ivars
<1> QED BY <1>1, SerialInvariance, PTL DEF SpawnSpec, SpawnsNeverForgotten


-----------------------------------------------------------------------------
(* One launch at a time: the id of the directory and the id of the manifest. *)

\* The ids depend on which entries there are, not on their config links.
LEMMA IdsOfPresent ==
    ASSUME NEW reg, NEW reh, Present(reg) = Present(reh)
    PROVE  \A x \in Fp : AssignIds(reg)[x] = AssignIds(reh)[x]
<1> DEFINE ids == AssignIds(reg)
           jds == AssignIds(reh)
           Differ == {x \in Fp : ids[x] # jds[x]}
<1> SUFFICES ASSUME Differ # {} PROVE FALSE
    OBVIOUS
<1>1. PICK x \in Differ : \A y \in Differ : x <= y
  <2>1. Differ \subseteq Nat
      BY SpawnAssumption
  <2> HIDE DEF Differ
  <2> QED BY <2>1, LeastNat
<1>2. x \in Fp /\ \A y \in Fp : y < x => ids[y] = jds[y]
    BY <1>1, SpawnAssumption
<1>3. ids[x] = FirstFree(reg, ids, x) /\ jds[x] = FirstFree(reh, jds, x)
    BY <1>2, AssignIdsIs
<1> HIDE DEF ids, jds
<1>4. FirstFree(reg, ids, x) = FirstFree(reg, jds, x)
    BY <1>2, FirstFreeLocal
<1>5. FreeCandidates(reg, jds, x) = FreeCandidates(reh, jds, x)
    BY DEF FreeCandidates
<1> DEFINE Pick(free, gone) == IF gone \/ free = {} THEN NoId
                               ELSE Candidate[x][CHOOSE k \in free : \A j \in free : k <= j]
<1>6. /\ FirstFree(reg, jds, x) = Pick(FreeCandidates(reg, jds, x), x \notin Present(reg))
      /\ FirstFree(reh, jds, x) = Pick(FreeCandidates(reh, jds, x), x \notin Present(reh))
    BY Zenon DEF FirstFree
<1> HIDE DEF Pick
<1>7. FirstFree(reg, jds, x) = FirstFree(reh, jds, x)
    BY <1>5, <1>6
<1>8. ids[x] # jds[x]
    BY <1>1
<1> QED BY <1>3, <1>4, <1>7, <1>8

\* The registry has the spawn of r under the id that r has.
Known(r) == /\ fp[r] \in Present(ReadRegistry)
            /\ id[r] = AssignIds(ReadRegistry)[fp[r]]

\* What becomes of the id under which the directory of r was reserved.
Filed(r) ==
    LET i == dir[r][1] IN
    /\ rpc[r] = "reserve" => id[r] = NoId \/ Known(r)
    /\ rpc[r] = "identity_again" => i = NoId
    /\ rpc[r] = "capture" => id[r] = i /\ (i = NoId \/ Known(r))
    /\ rpc[r] = "link" /\ wpc[r] = "idle" => i = NoId \/ (id[r] = i /\ Known(r))
    /\ rpc[r] = "link" /\ wpc[r] # "idle" => i = NoId \/ nextId[r] = i
    /\ rpc[r] \in {"ref", "manifest", "launched"} => i = NoId \/ id[r] \in {NoId, i}

FiledInv == \A r \in Proc : Filed(r)

\* The step of a launch keeps what its id is.
LEMMA FiledOwn ==
    ASSUME Serial, SpawnTypeOK, RegistrySound, SerialInv, NEW r \in Proc, Filed(r),
           Launch(r) \/ LaunchStep(r) \/ CrashLaunch(r)
    PROVE  Filed(r)'
<1>1. Position(r) /\ OwnInv(r) /\ TypeOK
    BY DEF SerialInv, OwnInv, SpawnTypeOK
<1> USE <1>1 DEF SpawnTypeOK, TypeOK
<1>2. ASSUME target' = target, UNCHANGED <<fp, id>> PROVE Known(r)' = Known(r)
  <2>1. ReadRegistry' = ReadRegistry
      BY <1>2 DEF ReadRegistry
  <2> QED BY <1>2, <2>1 DEF Known
<1>3. CASE Launch(r) \/ MarkerReturns(r) \/ CrashLaunch(r) \/ ReserveThrows(r)
    BY <1>3
    DEF Launch, MarkerReturns, CrashLaunch, ReserveThrows, Goto, Filed
<1>4. CASE UpsertReads(r)
  <2> DEFINE reg == Upserted(ReadRegistry, fp[r], receipt[r])
  <2>1. /\ rpc[r] \in UpsertPc /\ wpc[r] = "idle" /\ wpc'[r] = "open"
        /\ UNCHANGED <<rpc, fp, id, dir, target>>
        /\ nextId'[r] = AssignIds(reg)[fp[r]]
      BY <1>4 DEF UpsertReads, Call
  <2>2. CASE rpc[r] = "link" /\ dir[r][1] # NoId
    <3>1. Known(r) /\ id[r] = dir[r][1]
        BY <2>1, <2>2 DEF Filed
    <3>2. Present(reg) = Present(ReadRegistry)
      <4>1. Present(reg) = Present(ReadRegistry) \cup {fp[r]}
          BY ReadIsRegistry, UpsertedType
      <4> HIDE DEF reg
      <4> QED BY <3>1, <4>1 DEF Known
    <3> HIDE DEF reg
    <3>3. AssignIds(reg)[fp[r]] = AssignIds(ReadRegistry)[fp[r]]
        BY <3>2, IdsOfPresent
    <3>4. nextId'[r] = dir[r][1]
        BY <2>1, <3>1, <3>3 DEF Known
    <3> QED BY <2>1, <2>2, <3>4 DEF Filed
  <2>3. CASE ~ (rpc[r] = "link" /\ dir[r][1] # NoId)
      BY <2>1, <2>3 DEF Filed, UpsertPc
  <2> QED BY <2>2, <2>3
<1>5. CASE UpsertUnassignable(r)
    BY <1>5 DEF UpsertUnassignable, Goto, Filed, UpsertPc, AfterUpsert
<1>6. CASE UpsertReturns(r)
  <2>1. /\ rpc[r] \in UpsertPc /\ wpc[r] # "idle" /\ rpc'[r] = AfterUpsert[rpc[r]]
        /\ UNCHANGED <<fp, dir, target, nextId>>
        /\ \/ wpc[r] = "ok" /\ id'[r] = nextId[r]
           \/ id'[r] = NoId
      BY <1>6 DEF UpsertReturns, Installed, Threw, Return, Goto
  <2>2. CASE rpc[r] = "identity" /\ wpc[r] = "ok" /\ id'[r] = nextId[r]
    <3>1. /\ target[Registry] = wtext[r] /\ Parsed(wtext[r]) = wtext[r]
          /\ wtext[r][fp[r]] # "missing" /\ nextId[r] = AssignIds(wtext[r])[fp[r]]
        BY <2>1, <2>2, UpsertText DEF OwnInv, UpsertHolds
    <3>2. ReadRegistry' = wtext[r]
        BY <2>1, <3>1 DEF ReadRegistry
    <3>3. Known(r)'
        BY <2>1, <2>2, <3>1, <3>2 DEF Known, Present
    <3> QED BY <2>1, <2>2, <3>3 DEF Filed, AfterUpsert
  <2>3. CASE rpc[r] \in {"identity_again", "link"} \/ id'[r] = NoId
      BY <2>1, <2>3 DEF Filed, UpsertPc, AfterUpsert
  <2> QED BY <2>1, <2>2, <2>3 DEF UpsertPc
<1>7. CASE Reserve(r)
  <2>1. /\ rpc[r] = "reserve" /\ rpc'[r] = "capture" /\ UNCHANGED <<ivars, fp, id>>
        /\ dir'[r][1] = id[r]
      BY <1>7 DEF Reserve, Goto
  <2>2. Known(r)' = Known(r)
      BY <1>2, <2>1 DEF ivars
  <2> QED BY <2>1, <2>2 DEF Filed
<1>8. CASE Capture(r) \/ CaptureFails(r)
  <2>1. /\ rpc[r] = "capture" /\ UNCHANGED <<ivars, fp, id, dir>>
        /\ \/ rpc'[r] = "identity_again" /\ id[r] = NoId
           \/ rpc'[r] \in {"link", "ref"}
      BY <1>8 DEF Capture, CaptureFails, Goto
  <2>2. Known(r)' = Known(r) /\ wpc[r] = "idle"
      BY <1>2, <2>1 DEF ivars, Position, UpsertPc
  <2> QED BY <2>1, <2>2 DEF Filed, ivars
<1>9. CASE WriteRef(r) \/ RefReturns(r) \/ WriteManifest(r)
    BY <1>9 DEF WriteRef, RefReturns, WriteManifest, Goto, rvars, Filed
<1>10. CASE InstallRuns(r)
  <2>1. /\ UNCHANGED <<rpc, id, dir, nextId>> /\ wpc[r] # "idle" /\ wpc'[r] # "idle"
        /\ rpc[r] \in UpsertPc \cup {"marker", "ref"}
      BY <1>10, InstallFrame DEF InstallRuns, rvars, Position
  <2> QED BY <2>1 DEF Filed, UpsertPc
<1> QED
    BY <1>3, <1>4, <1>5, <1>6, <1>7, <1>8, <1>9, <1>10 DEF LaunchStep

\* With one launch at a time FiledInv is inductive.
LEMMA FiledStep ==
    ASSUME Serial, SpawnTypeOK, RegistrySound, SerialInv, FiledInv, [SpawnNext]_vars
    PROVE  FiledInv'
<1>1. CASE UNCHANGED vars
    BY <1>1 DEF vars, ivars, rvars, FiledInv, Filed, Known, ReadRegistry
<1>2. ASSUME NEW r \in Proc, Launch(r) \/ LaunchStep(r) \/ CrashLaunch(r)
      PROVE  FiledInv'
  <2>1. ASSUME NEW q \in Proc \ {r} PROVE Filed(q)'
    <3>1. /\ rpc'[q] = rpc[q] /\ rpc[q] \in Ended \cup {"new"}
          /\ id'[q] = id[q] /\ dir'[q] = dir[q]
        BY <1>2, OthersFrame, Alone DEF Active
    <3> QED BY <3>1 DEF FiledInv, Filed, Ended
  <2>2. Filed(r)'
      BY <1>2, FiledOwn DEF FiledInv
  <2> QED BY <2>1, <2>2 DEF FiledInv
<1> QED BY <1>1, <1>2 DEF SpawnNext, AllEnded

\* One at a time, the directory of an attempt carries the id that its manifest
\* records, however ids collide and also when renames fail: the launch finds the
\* id of its first upsert again, for nothing changes the registry in between.
THEOREM SerialFiledUnderItsId ==
    ASSUME Serial
    PROVE  SpawnSpec => []FiledUnderItsId
<1>1. SpawnInit => FiledInv
    BY DEF SpawnInit, FiledInv, Filed
<1>2. FiledInv => FiledUnderItsId
    BY DEF FiledInv, Filed, FiledUnderItsId
<1> QED BY <1>1, <1>2, SerialInvariance, FiledStep, PTL DEF SpawnSpec
=============================================================================
