-------------------------- MODULE TextInstallProofs --------------------------
(***************************************************************************)
(* Proofs about TextInstall, for any number of writers, files and texts.   *)
(*                                                                         *)
(* The type invariant holds for both naming schemes.  No writer touches    *)
(* another writer's temporary file for a file with unique names, which is  *)
(* what the strengthenings OwnTmp, OwnFile and WholeTmp say, so these      *)
(* files implement the atomic file while others are written through the    *)
(* shared name.                                                            *)
(***************************************************************************)
EXTENDS TextInstall, TLAPS

\* The installer's types hold at the start.
LEMMA InitType == InstallInit => TypeOK
BY InstallAssumption DEF InstallInit, TypeOK, PcSet, Content

\* TmpOf yields a temporary name for every file.
LEMMA TmpOfType == \A p \in Proc, f \in File : TmpOf(p, f) \in TmpName
BY DEF TmpName

\* What is written over a file is a content, and over a truncated one the text.
LEMMA OverlaidType ==
    ASSUME NEW t \in Text
    PROVE  /\ \A c \in Content : Overlaid(t, c) \subseteq Content
           /\ Overlaid(t, Empty) = {t}
BY InstallAssumption DEF Overlaid, Content

\* Every step keeps the state well formed, and a stream open exactly while its
\* writer is between open and close.
LEMMA StepType == TypeOK /\ [InstallNext]_ivars => TypeOK'
<1> SUFFICES ASSUME TypeOK, [InstallNext]_ivars PROVE TypeOK'
    OBVIOUS
<1> USE InstallAssumption, TmpOfType DEF PcSet, Content
<1>1. CASE UNCHANGED ivars
    BY <1>1 DEF ivars, TypeOK
<1>2. ASSUME NEW p \in Proc, NEW f \in File, NEW t \in Text, Call(p, f, t)
      PROVE TypeOK'
    BY <1>2 DEF Call, TypeOK
<1>3. ASSUME NEW p \in Proc, OpenTmp(p) PROVE TypeOK'
    BY <1>3 DEF OpenTmp, TypeOK
<1>4. ASSUME NEW p \in Proc, OpenFails(p) PROVE TypeOK'
    BY <1>4 DEF OpenFails, TypeOK
<1>5. ASSUME NEW p \in Proc, WriteTmp(p) PROVE TypeOK'
  <2>1. wtext[p] \in Text /\ wfile[p] \in File
      BY <1>5 DEF WriteTmp, TypeOK
  <2>2. \A c \in Content : Overlaid(wtext[p], c) \subseteq Content
      BY <2>1, OverlaidType
  <2>3. tmp' \in [TmpName -> Content] /\ target' \in [File -> Content]
      BY <1>5, <2>1, <2>2 DEF WriteTmp, TypeOK
  <2> QED BY <1>5, <2>3 DEF WriteTmp, TypeOK
<1>6. ASSUME NEW p \in Proc, WriteFails(p) PROVE TypeOK'
    BY <1>6 DEF WriteFails, TypeOK
<1>7. ASSUME NEW p \in Proc, wpc[p] \in {"rename", "again"}, Install(p) PROVE TypeOK'
    BY <1>7 DEF Install, Renamed, Unlinked, TypeOK
<1>8. ASSUME NEW p \in Proc, RenameFails(p) PROVE TypeOK'
    BY <1>8 DEF RenameFails, TypeOK
<1>9. ASSUME NEW p \in Proc, RemoveTarget(p) PROVE TypeOK'
    BY <1>9 DEF RemoveTarget, Unlinked, TypeOK
<1>10. ASSUME NEW p \in Proc, RenameAgainFails(p) PROVE TypeOK'
    BY <1>10 DEF RenameAgainFails, TypeOK
<1>11. ASSUME NEW p \in Proc, Return(p) PROVE TypeOK'
    BY <1>11 DEF Return, TypeOK
<1>12. ASSUME NEW p \in Proc, Crash(p) PROVE TypeOK'
    BY <1>12 DEF Crash, CrashInstall, TypeOK
<1> QED
    BY <1>1, <1>2, <1>3, <1>4, <1>5, <1>6, <1>7, <1>8, <1>9, <1>10, <1>11, <1>12
    DEF InstallNext, InstallStep, Rename, RenameAgain

\* The state of the writers stays well formed, with either naming scheme and
\* whatever fails or crashes.
THEOREM TypeCorrect == InstallSpec => []TypeOK
BY InitType, StepType, PTL DEF InstallSpec

-----------------------------------------------------------------------------
\* A stream for a file with unique names is never open on the installed file, and
\* its writer never comes to the removal of the target.
OwnTmp ==
    /\ TypeOK
    /\ \A p \in Proc : wfile[p] \in UniqueFile =>
          /\ fd[p] \in {"none", "tmp"}
          /\ wpc[p] \notin {"remove", "again"}

\* Two writers never share the temporary name of a file with unique names, and
\* two files never share a temporary name.
LEMMA TmpOfInjective ==
    \A p, q \in Proc : \A f, g :
       /\ p # q /\ f \in UniqueFile => TmpOf(p, f) # TmpOf(q, g)
       /\ f # g => TmpOf(p, f) # TmpOf(q, g)
BY InstallAssumption DEF TmpOf

\* What the renaming of f's temporary file does to the open streams of the
\* writers of files with unique names: nothing.
LEMMA RenamedOwn ==
    ASSUME OwnTmp, NEW p \in Proc, NEW q \in Proc, fd[p] = "none",
           wfile[q] \in UniqueFile
    PROVE  Renamed(TmpOf(p, wfile[p]), wfile[p])[q] = fd[q]
<1>1. CASE q = p
    BY <1>1 DEF Renamed, Unlinked, OwnTmp, TypeOK
<1>2. CASE q # p
  <2>1. wfile[q] = wfile[p] => TmpOf(q, wfile[p]) # TmpOf(p, wfile[p])
      BY <1>2, TmpOfInjective
  <2>2. fd[q] # "target"
      BY DEF OwnTmp
  <2> QED BY <2>1, <2>2 DEF Renamed, Unlinked
<1> QED BY <1>1, <1>2

\* A unique temporary name has one writer, in every step.
LEMMA OwnTmpStep == OwnTmp /\ [InstallNext]_ivars => OwnTmp'
<1> SUFFICES ASSUME OwnTmp, [InstallNext]_ivars PROVE OwnTmp'
    OBVIOUS
<1> USE InstallAssumption
<1>1. TypeOK'
    BY StepType DEF OwnTmp
<1>2. CASE UNCHANGED ivars
    BY <1>1, <1>2 DEF ivars, OwnTmp
<1>3. ASSUME NEW p \in Proc, NEW f \in File, NEW t \in Text, Call(p, f, t)
      PROVE OwnTmp'
    BY <1>1, <1>3 DEF Call, OwnTmp, TypeOK
<1>4. ASSUME NEW p \in Proc, InstallStep(p) PROVE OwnTmp'
  <2>1. CASE OpenTmp(p) \/ OpenFails(p) \/ WriteTmp(p) \/ WriteFails(p)
      BY <1>1, <2>1 DEF OpenTmp, OpenFails, WriteTmp, WriteFails, OwnTmp, TypeOK
  <2>2. CASE wpc[p] \in {"rename", "again"} /\ Install(p)
    <3>1. fd[p] = "none"
        BY <2>2 DEF OwnTmp, TypeOK
    <3>2. \A q \in Proc : wfile[q] \in UniqueFile => fd'[q] = fd[q]
        BY <2>2, <3>1, RenamedOwn DEF Install
    <3> QED BY <1>1, <2>2, <3>2 DEF Install, OwnTmp, TypeOK
  <2>3. CASE RenameFails(p)
      BY <1>1, <2>3 DEF RenameFails, OwnTmp, TypeOK
  <2>4. CASE RemoveTarget(p)
      BY <1>1, <2>4 DEF RemoveTarget, Unlinked, OwnTmp, TypeOK
  <2>5. CASE RenameAgainFails(p)
      BY <1>1, <2>5 DEF RenameAgainFails, OwnTmp, TypeOK
  <2> QED
      BY <1>4, <2>1, <2>2, <2>3, <2>4, <2>5 DEF InstallStep, Rename, RenameAgain
<1>5. ASSUME NEW p \in Proc, Return(p) \/ Crash(p) PROVE OwnTmp'
    BY <1>1, <1>5 DEF Return, Crash, CrashInstall, OwnTmp, TypeOK
<1> QED BY <1>2, <1>3, <1>4, <1>5 DEF InstallNext

\* No writer has a temporary file at the start.
LEMMA OwnTmpInit == InstallInit => OwnTmp
BY InitType DEF InstallInit, OwnTmp

-----------------------------------------------------------------------------
\* No step of one writer changes the temporary file another writer uses for a
\* file with unique names.
LEMMA TmpFrame ==
    ASSUME OwnTmp, NEW p \in Proc, NEW q \in Proc, p # q,
           wfile[q] \in UniqueFile, wfile'[q] = wfile[q],
           InstallStep(p) \/ Return(p) \/ Crash(p)
               \/ \E f \in File, t \in Text : Call(p, f, t)
    PROVE  tmp'[TmpOf(q, wfile[q])] = tmp[TmpOf(q, wfile[q])]
<1> DEFINE n == TmpOf(q, wfile[q])
           m == TmpOf(p, wfile[p])
<1>1. n # m
    BY TmpOfInjective
<1>2. n \in TmpName
    BY InstallAssumption, TmpOfType
<1>3. n[1] # p
    BY DEF TmpOf
<1>4. tmp \in [TmpName -> Content]
    BY DEF OwnTmp, TypeOK
<1>5. CASE Crash(p)
    BY <1>2, <1>3, <1>5 DEF Crash, CrashInstall
<1>6. CASE ~ Crash(p)
    BY <1>1, <1>2, <1>4, <1>6
    DEF InstallStep, OpenTmp, OpenFails, WriteTmp, WriteFails, Rename, Install,
        RenameFails, RemoveTarget, RenameAgain, RenameAgainFails, Return, Call
<1> QED BY <1>5, <1>6

\* What the temporary file of a writer holds, for a file with unique names: it is
\* truncated while the stream is open, and whole when it is about to be renamed,
\* unless its flush failed.
OwnFile(p) ==
    LET t == tmp[TmpOf(p, wfile[p])] IN
    wfile[p] \in UniqueFile =>
       /\ wpc[p] = "write" => t = Empty
       /\ wpc[p] = "rename" => t \in Installable /\ (t = Empty => wfile[p] \in lost)

WholeTmp ==
    /\ OwnTmp
    /\ \A p \in Proc : OwnFile(p)
    /\ InstalledWhole

\* No installed file is truncated at the start.
LEMMA WholeTmpInit == InstallInit => WholeTmp
BY OwnTmpInit, InstallAssumption
DEF InstallInit, WholeTmp, OwnFile, InstalledWhole

\* Every step keeps what the temporary files hold.
LEMMA OwnFileStep ==
    ASSUME OwnTmp, \A p \in Proc : OwnFile(p), [InstallNext]_ivars, NEW q \in Proc
    PROVE  OwnFile(q)'
<1> USE InstallAssumption, TmpOfType DEF Installable
<1>1. CASE UNCHANGED ivars
    BY <1>1 DEF ivars, OwnFile, TmpOf
<1>2. ASSUME NEW p \in Proc, p # q,
             InstallStep(p) \/ Return(p) \/ Crash(p)
                 \/ \E f \in File, t \in Text : Call(p, f, t)
      PROVE  OwnFile(q)'
  <2>1. wfile'[q] = wfile[q] /\ wpc'[q] = wpc[q] /\ lost \subseteq lost'
      BY <1>2
      DEF InstallStep, OpenTmp, OpenFails, WriteTmp, WriteFails, Rename, Install,
          RenameFails, RemoveTarget, RenameAgain, RenameAgainFails, Return, Call,
          Crash, CrashInstall, OwnTmp, TypeOK
  <2>2. wfile[q] \in UniqueFile =>
          tmp'[TmpOf(q, wfile[q])] = tmp[TmpOf(q, wfile[q])]
      BY <1>2, <2>1, TmpFrame
  <2>3. TmpOf(q, wfile[q])' = TmpOf(q, wfile[q])
      BY <2>1 DEF TmpOf
  <2> QED BY <2>1, <2>2, <2>3 DEF OwnFile
<1>3. CASE OpenTmp(q)
    BY <1>3 DEF OpenTmp, OwnFile, TmpOf, OwnTmp, TypeOK
<1>4. CASE WriteTmp(q)
  <2>1. wtext[q] \in Text /\ wfile[q] \in File
      BY <1>4 DEF WriteTmp, OwnTmp, TypeOK
  <2>2. wfile[q] \in UniqueFile => fd[q] = "tmp" /\ tmp[TmpOf(q, wfile[q])] = Empty
      BY <1>4 DEF WriteTmp, OwnTmp, TypeOK, OwnFile
  <2>3. wfile[q] \in UniqueFile => tmp' = [tmp EXCEPT ![TmpOf(q, wfile[q])] = wtext[q]]
      BY <1>4, <2>1, <2>2, OverlaidType DEF WriteTmp
  <2> QED BY <1>4, <2>1, <2>3 DEF WriteTmp, OwnFile, TmpOf, OwnTmp, TypeOK
<1>5. CASE WriteFails(q)
    BY <1>5 DEF WriteFails, OwnFile, TmpOf, OwnTmp, TypeOK
<1>6. CASE OpenFails(q) \/ Rename(q) \/ RenameFails(q) \/ RemoveTarget(q)
             \/ RenameAgain(q) \/ RenameAgainFails(q) \/ Return(q) \/ Crash(q)
             \/ \E f \in File, t \in Text : Call(q, f, t)
    BY <1>6
    DEF OpenFails, Rename, Install, RenameFails, RemoveTarget, RenameAgain,
        RenameAgainFails, Return, Call, Crash, CrashInstall, OwnFile, OwnTmp, TypeOK
<1> QED
    BY <1>1, <1>2, <1>3, <1>4, <1>5, <1>6 DEF InstallNext, InstallStep

\* Every step keeps the installed files whole, and is a step of the atomic file.
LEMMA WholeTmpStep ==
    WholeTmp /\ [InstallNext]_ivars => WholeTmp' /\ [Atomic!Next]_UniqueContent
<1> SUFFICES ASSUME WholeTmp, [InstallNext]_ivars
             PROVE  WholeTmp' /\ [Atomic!Next]_UniqueContent
    OBVIOUS
<1> USE InstallAssumption
<1>1. OwnTmp' /\ \A p \in Proc : OwnFile(p)'
    BY OwnTmpStep, OwnFileStep DEF WholeTmp
<1>2. ASSUME \A f \in UniqueFile : target'[f] = target[f], lost \subseteq lost'
      PROVE  WholeTmp' /\ UNCHANGED UniqueContent
  <2>1. InstalledWhole'
      BY <1>2 DEF WholeTmp, InstalledWhole
  <2>2. UNCHANGED UniqueContent
      BY <1>2 DEF UniqueContent
  <2> QED BY <1>1, <2>1, <2>2 DEF WholeTmp
<1>3. CASE UNCHANGED ivars
    BY <1>2, <1>3 DEF ivars
<1>4. ASSUME NEW p \in Proc, wpc[p] \in {"rename", "again"}, Install(p),
             wfile[p] \in UniqueFile
      PROVE  WholeTmp' /\ Atomic!Next
  <2> DEFINE t == tmp[TmpOf(p, wfile[p])]
  <2>1. t \in Installable /\ (t = Empty => wfile[p] \in lost)
      BY <1>4 DEF WholeTmp, OwnFile, OwnTmp
  <2>2. target' = [target EXCEPT ![wfile[p]] = t] /\ lost' = lost
      BY <1>4 DEF Install
  <2>3. target \in [File -> Content]
      BY DEF WholeTmp, OwnTmp, TypeOK
  <2>4. InstalledWhole'
      BY <1>4, <2>1, <2>2, <2>3 DEF WholeTmp, InstalledWhole, Installable
  <2>5. UniqueContent' = [UniqueContent EXCEPT ![wfile[p]] = t]
      BY <1>4, <2>2, <2>3 DEF UniqueContent
  <2>6. Atomic!Next
      BY <1>4, <2>1, <2>5 DEF Atomic!Next, Atomic!Write
  <2> QED BY <1>1, <2>4, <2>6 DEF WholeTmp
<1>5. ASSUME NEW p \in Proc, wpc[p] \in {"rename", "again"}, Install(p),
             wfile[p] \notin UniqueFile
      PROVE  WholeTmp' /\ UNCHANGED UniqueContent
    BY <1>2, <1>5 DEF Install, WholeTmp, OwnTmp, TypeOK
<1>6. ASSUME NEW p \in Proc, RemoveTarget(p) \/ WriteTmp(p)
      PROVE  WholeTmp' /\ UNCHANGED UniqueContent
    BY <1>2, <1>6 DEF RemoveTarget, WriteTmp, WholeTmp, OwnTmp, TypeOK
<1>7. ASSUME NEW p \in Proc,
             \/ OpenTmp(p) \/ OpenFails(p) \/ WriteFails(p) \/ RenameFails(p)
             \/ RenameAgainFails(p) \/ Return(p) \/ Crash(p)
             \/ \E f \in File, t \in Text : Call(p, f, t)
      PROVE  WholeTmp' /\ UNCHANGED UniqueContent
    BY <1>2, <1>7
    DEF OpenTmp, OpenFails, WriteFails, RenameFails, RenameAgainFails, Return,
        Crash, CrashInstall, Call
<1> QED
    BY <1>2, <1>3, <1>4, <1>5, <1>6, <1>7
    DEF InstallNext, InstallStep, Rename, RenameAgain, ivars

\* A reader of a file with unique temporary names finds a whole text unless a
\* flush of that file failed: no interleaving and no crash of writers installs a
\* truncated or a torn one.
THEOREM UniqueInstalledWhole == InstallSpec => []InstalledWhole
<1>1. WholeTmp => InstalledWhole
    BY DEF WholeTmp
<1> QED BY <1>1, WholeTmpInit, WholeTmpStep, PTL DEF InstallSpec

\* The files with unique temporary names implement the atomic file.
THEOREM UniqueImplements == InstallSpec => ImplementsAtomicFile
<1>1. InstallInit => Atomic!Init
    BY InstallAssumption DEF InstallInit, Atomic!Init, UniqueContent
<1> QED
    BY <1>1, WholeTmpInit, WholeTmpStep, PTL
    DEF InstallSpec, ImplementsAtomicFile, Atomic!Spec
=============================================================================
