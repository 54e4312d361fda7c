---------------------------- MODULE TextInstall ----------------------------
(***************************************************************************)
(* Installing a text file by writing a temporary file and renaming it.     *)
(*                                                                         *)
(* The repository has several copies of this routine.  Those of            *)
(* config_provenance.h and job_layout.h write <path>.tmp, one name for     *)
(* every process; those of terminal_facts.h and exposure_ledger.h put a    *)
(* digest of the path, the text, the clock and a counter into the name, so *)
(* no two writes share one.  UniqueFile are the files written that way.    *)
(*                                                                         *)
(* Each system call is one step, so the calls of different processes       *)
(* interleave.  An open stream belongs to a file, not to a name: fd[p]     *)
(* says which name, if any, the file that p opened has by now.  A text     *)
(* reaches the file in one write(2), from the stream's own offset 0: over  *)
(* a longer text that another stream wrote since the truncation it leaves  *)
(* the tail of that text behind its own, a torn text.                      *)
(***************************************************************************)
CONSTANTS Proc,        \* processes that write
          File,        \* installed names
          Text,        \* whole texts
          Nil,         \* the content of a name that does not exist
          Empty,       \* the content of a truncated file
          Torn,        \* texts with the tail of another text
          Mixed(_, _), \* Mixed(t, c): what t leaves over a longer c
          UniqueFile,  \* the names whose temporary names are unique
          IoFaults     \* the calls that may fail for reasons of the system

ASSUME InstallAssumption ==
    /\ Nil \notin Text \cup {Empty}
    /\ Empty \notin Text
    /\ Torn \cap (Text \cup {Nil, Empty}) = {}
    /\ \A t \in Text : /\ \A c \in Text \cup Torn : Mixed(t, c) \subseteq Torn
                       /\ Mixed(t, Nil) = {} /\ Mixed(t, Empty) = {}
    /\ Nil \notin File \cup Proc
    /\ UniqueFile \subseteq File
    /\ IoFaults \subseteq {"open", "write", "rename"}

VARIABLES target,  \* target[f]: content of the installed name f
          tmp,     \* tmp[n]: content of the temporary name n
          wpc,     \* wpc[p]: where p stands in the routine
          wfile,   \* wfile[p]: the name p is installing
          wtext,   \* wtext[p]: the text p is installing
          fd,      \* fd[p]: the name of the file p has open
          lost     \* history: files of which a flush failed

ivars == <<target, tmp, wpc, wfile, wtext, fd, lost>>

\* The temporary name p uses for f, and all temporary names.
TmpOf(p, f) == <<IF f \in UniqueFile THEN p ELSE Nil, f>>
TmpName == {TmpOf(p, f) : p \in Proc, f \in File}

\* What a name can hold, and what it may hold once t is written over c.
Content == Text \cup Torn \cup {Nil, Empty}
Overlaid(t, c) == {t} \cup Mixed(t, c)

PcSet == {"idle", "open", "write", "rename", "remove", "again", "ok", "threw"}

\* The state is well formed; a stream is open between its open and its close
\* and at no other time, and a call under way has a file and a text.
TypeOK ==
    /\ target \in [File -> Content]
    /\ tmp \in [TmpName -> Content]
    /\ wpc \in [Proc -> PcSet]
    /\ wfile \in [Proc -> File \cup {Nil}]
    /\ wtext \in [Proc -> Text \cup {Nil}]
    /\ fd \in [Proc -> {"none", "tmp", "target", "unlinked"}]
    /\ lost \subseteq File
    /\ \A p \in Proc : /\ fd[p] # "none" <=> wpc[p] = "write"
                       /\ wpc[p] # "idle" => wfile[p] # Nil /\ wtext[p] # Nil

InstallInit ==
    /\ target = [f \in File |-> Nil]
    /\ tmp = [n \in TmpName |-> Nil]
    /\ wpc = [p \in Proc |-> "idle"]
    /\ wfile = [p \in Proc |-> Nil]
    /\ wtext = [p \in Proc |-> Nil]
    /\ fd = [p \in Proc |-> "none"]
    /\ lost = {}

-----------------------------------------------------------------------------
\* The call: write_text_file_atomically(f, t).
Call(p, f, t) ==
    /\ wpc[p] = "idle"
    /\ wpc' = [wpc EXCEPT ![p] = "open"]
    /\ wfile' = [wfile EXCEPT ![p] = f]
    /\ wtext' = [wtext EXCEPT ![p] = t]
    /\ UNCHANGED <<target, tmp, fd, lost>>

\* Mutant: the routine opens the target itself.
OpenTmp_InPlace(p) ==
    /\ wpc[p] = "open"
    /\ target' = [target EXCEPT ![wfile[p]] = Empty]
    /\ tmp' = [tmp EXCEPT ![TmpOf(p, wfile[p])] = Empty]
    /\ fd' = [fd EXCEPT ![p] = "tmp"]
    /\ wpc' = [wpc EXCEPT ![p] = "write"]
    /\ UNCHANGED <<wfile, wtext, lost>>

\* std::ofstream out(tmp, trunc): the temporary file is created, or truncated
\* in place if it is there already, whoever created it.
OpenTmp(p) ==
    /\ wpc[p] = "open"
    /\ tmp' = [tmp EXCEPT ![TmpOf(p, wfile[p])] = Empty]
    /\ fd' = [fd EXCEPT ![p] = "tmp"]
    /\ wpc' = [wpc EXCEPT ![p] = "write"]
    /\ UNCHANGED <<target, wfile, wtext, lost>>

\* The stream does not open: the routine throws before it changed a file.
OpenFails(p) ==
    /\ "open" \in IoFaults
    /\ wpc[p] = "open"
    /\ wpc' = [wpc EXCEPT ![p] = "threw"]
    /\ UNCHANGED <<target, tmp, wfile, wtext, fd, lost>>

\* out << text and the close that flushes it: the bytes go over what the file
\* holds that was opened, under whatever name it has by now.
WriteTmp(p) ==
    LET f == wfile[p]
        n == TmpOf(p, f) IN
    /\ wpc[p] = "write"
    /\ \/ /\ fd[p] = "tmp"
          /\ \E c \in Overlaid(wtext[p], tmp[n]) : tmp' = [tmp EXCEPT ![n] = c]
          /\ UNCHANGED target
       \/ /\ fd[p] = "target"
          /\ \E c \in Overlaid(wtext[p], target[f]) : target' = [target EXCEPT ![f] = c]
          /\ UNCHANGED tmp
       \/ /\ fd[p] = "unlinked"
          /\ UNCHANGED <<target, tmp>>
    /\ fd' = [fd EXCEPT ![p] = "none"]
    /\ wpc' = [wpc EXCEPT ![p] = "rename"]
    /\ UNCHANGED <<wfile, wtext, lost>>

\* The disk is full when the close flushes the buffer.  The destructor of the
\* stream drops the error (a copy that tests the stream does so before the
\* flush), so the truncated file is installed all the same.
WriteFails(p) ==
    /\ "write" \in IoFaults
    /\ wpc[p] = "write"
    /\ lost' = lost \cup {wfile[p]}
    /\ fd' = [fd EXCEPT ![p] = "none"]
    /\ wpc' = [wpc EXCEPT ![p] = "rename"]
    /\ UNCHANGED <<target, tmp, wfile, wtext>>

\* The open streams after the target of f loses its file, and after temporary
\* name n of f becomes the target.
Unlinked(f) ==
    [q \in Proc |-> IF wfile[q] = f /\ fd[q] = "target" THEN "unlinked"
                                                        ELSE fd[q]]
Renamed(n, f) ==
    [q \in Proc |-> IF wfile[q] = f /\ TmpOf(q, f) = n /\ fd[q] = "tmp"
                    THEN "target" ELSE Unlinked(f)[q]]

\* A rename that succeeds moves the temporary name onto the target.
Install(p) ==
    LET f == wfile[p]
        n == TmpOf(p, f) IN
    /\ tmp[n] # Nil
    /\ target' = [target EXCEPT ![f] = tmp[n]]
    /\ tmp' = [tmp EXCEPT ![n] = Nil]
    /\ fd' = Renamed(n, f)
    /\ wpc' = [wpc EXCEPT ![p] = "ok"]
    /\ UNCHANGED <<wfile, wtext, lost>>

\* A rename fails when the temporary name is gone, or for a system reason.
RenameCanFail(p) == "rename" \in IoFaults \/ tmp[TmpOf(p, wfile[p])] = Nil

Rename(p) == wpc[p] = "rename" /\ Install(p)

\* Mutant: the routine removes the target whatever the naming scheme.
RenameFails_Removes(p) ==
    /\ wpc[p] = "rename"
    /\ RenameCanFail(p)
    /\ wpc' = [wpc EXCEPT ![p] = "remove"]
    /\ UNCHANGED <<target, tmp, wfile, wtext, fd, lost>>

\* The first rename fails.  With the shared name the routine goes on to
\* remove the target; with a unique name it removes its own temporary file
\* and throws.
RenameFails(p) ==
    /\ wpc[p] = "rename"
    /\ RenameCanFail(p)
    /\ IF wfile[p] \in UniqueFile
       THEN /\ tmp' = [tmp EXCEPT ![TmpOf(p, wfile[p])] = Nil]
            /\ wpc' = [wpc EXCEPT ![p] = "threw"]
       ELSE /\ tmp' = tmp
            /\ wpc' = [wpc EXCEPT ![p] = "remove"]
    /\ UNCHANGED <<target, wfile, wtext, fd, lost>>

\* fs::remove(path, ec): the installed file is deleted.
RemoveTarget(p) ==
    /\ wpc[p] = "remove"
    /\ target' = [target EXCEPT ![wfile[p]] = Nil]
    /\ fd' = Unlinked(wfile[p])
    /\ wpc' = [wpc EXCEPT ![p] = "again"]
    /\ UNCHANGED <<tmp, wfile, wtext, lost>>

\* The second fs::rename, and the exception when it fails too.
RenameAgain(p) == wpc[p] = "again" /\ Install(p)

\* Mutant: the routine goes back and tries until the rename succeeds.
RenameAgainFails_Retries(p) ==
    /\ wpc[p] = "again"
    /\ RenameCanFail(p)
    /\ wpc' = [wpc EXCEPT ![p] = "remove"]
    /\ UNCHANGED <<target, tmp, wfile, wtext, fd, lost>>

RenameAgainFails(p) ==
    /\ wpc[p] = "again"
    /\ RenameCanFail(p)
    /\ wpc' = [wpc EXCEPT ![p] = "threw"]
    /\ UNCHANGED <<target, tmp, wfile, wtext, fd, lost>>

InstallStep(p) ==
    \/ OpenTmp(p) \/ OpenFails(p) \/ WriteTmp(p) \/ WriteFails(p)
    \/ Rename(p) \/ RenameFails(p)
    \/ RemoveTarget(p) \/ RenameAgain(p) \/ RenameAgainFails(p)

\* The caller takes the result; p may call again.
Return(p) ==
    /\ wpc[p] \in {"ok", "threw"}
    /\ wpc' = [wpc EXCEPT ![p] = "idle"]
    /\ wfile' = [wfile EXCEPT ![p] = Nil]
    /\ wtext' = [wtext EXCEPT ![p] = Nil]
    /\ UNCHANGED <<target, tmp, fd, lost>>

\* Mutant: the stream of the dead process stays open.
CrashInstall_KeepsStream(p) ==
    /\ wpc' = [wpc EXCEPT ![p] = "idle"]
    /\ wfile' = [wfile EXCEPT ![p] = Nil]
    /\ wtext' = [wtext EXCEPT ![p] = Nil]
    /\ UNCHANGED <<target, tmp, fd, lost>>

\* The process dies in the routine, and a new process may take its place.  A
\* shared temporary file stays for the next writer; one with a unique name
\* stays under a name that no later write uses, so the model forgets it.
CrashInstall(p) ==
    /\ wpc' = [wpc EXCEPT ![p] = "idle"]
    /\ tmp' = [n \in TmpName |-> IF n[1] = p THEN Nil ELSE tmp[n]]
    /\ wfile' = [wfile EXCEPT ![p] = Nil]
    /\ wtext' = [wtext EXCEPT ![p] = Nil]
    /\ fd' = [fd EXCEPT ![p] = "none"]
    /\ UNCHANGED <<target, lost>>

Crash(p) == wpc[p] # "idle" /\ CrashInstall(p)

InstallNext ==
    \E p \in Proc : \/ \E f \in File, t \in Text : Call(p, f, t)
                    \/ InstallStep(p)
                    \/ Return(p)
                    \/ Crash(p)

InstallSpec == InstallInit /\ [][InstallNext]_ivars

-----------------------------------------------------------------------------
\* Whoever reads a file installed through unique temporary names finds the whole
\* text of one write, unless a flush of that file failed: no interleaving and no
\* crash of writers leaves a truncated or a torn file under its name.
InstalledWhole == \A f \in UniqueFile : target[f] \in Text \cup {Nil} \/ f \in lost

\* What a write can install: a text, and a truncated one if a flush may fail.
Installable == IF "write" \in IoFaults THEN Text \cup {Empty} ELSE Text

\* The files written through unique temporary names are atomic files, whatever
\* the writers do to the others.
UniqueContent == [f \in UniqueFile |-> target[f]]
Atomic == INSTANCE AtomicFile WITH File <- UniqueFile, Text <- Installable,
                                   Absent <- Nil, content <- UniqueContent
ImplementsAtomicFile == Atomic!Spec
=============================================================================
