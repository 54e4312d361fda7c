----------------------------- MODULE SourceCache -----------------------------
(***************************************************************************)
(* The caches of one source CSV and the processes that load it:            *)
(* sanitize_csv_into_binary_file builds <stem>.cache.bin from the CSV and  *)
(* <stem>.cache.norm.<policy>.bin from that, both in place and without a   *)
(* lock, and decides by modification times whether they can be used as     *)
(* they are; MemoryMappedDataset then maps the result.                     *)
(*                                                                         *)
(* A file is a row of chunks (what one flush of the buffer, or one record  *)
(* of the normalisation, writes); the value of a chunk is the version of   *)
(* the CSV it came from.  Modification times have the resolution of a      *)
(* tick: everything written between two ticks carries the same time.      *)
(***************************************************************************)
EXTENDS Naturals

CONSTANTS
    Proc,        \* the processes that load the source
    Chunks,      \* chunks of a whole file
    MaxClock,    \* bound on the ticks of file time
    MaxVersion,  \* bound on the replacements of the CSV
    MaxCalls,    \* bound on the calls
    Faults       \* what may go wrong: "abandon", "short"

ASSUME SourceCacheAssumption ==
    /\ Chunks \in Nat \ {0}
    /\ MaxClock \in Nat \ {0}
    /\ MaxVersion \in Nat \ {0}
    /\ MaxCalls \in Nat
    /\ Faults \subseteq {"abandon", "short"}

VARIABLES
    clock,      \* the current tick
    csv,        \* the CSV: its version and modification time
    raw,        \* the raw cache: its modification time (0: no file) and chunks
    norm,       \* the normalized cache; times[c]: how often c was normalised
    pc, want, force,  \* per process: place, policy enabled, force_rebuild_cache
    ver, pos,   \* per process: version of the CSV it has open, next chunk
    calls,      \* calls made so far
    rawClean, normClean, calm  \* what happened so far: see Disturbances

vars == <<clock, csv, raw, norm, pc, want, force, ver, pos, calls,
          rawClean, normClean, calm>>
files == <<csv, raw, norm>>
locals == <<want, force, ver>>

Chunk == 1 .. Chunks
Version == 1 .. MaxVersion
Nothing == 0
Garbled == MaxVersion + 1  \* records of one version on the grid of another
Content == Version \cup {Nothing, Garbled}
Time == 0 .. MaxClock

Outside == {"idle", "mapped"}
RawWriters == {p \in Proc : pc[p] = "write_raw"}
NormWriters == {p \in Proc : pc[p] \in {"copy", "normalize"}}

-----------------------------------------------------------------------------
(***************************************************************************)
(* Disturbances.  The caches are written in place and nothing but file     *)
(* times says what they hold, so the routine promises nothing when builds  *)
(* overlap, when one is abandoned or ends short, or when the CSV is        *)
(* replaced under one (AlwaysUpToDate below fails in each of these cases). *)
(* The promises it does keep are stated for what was left undisturbed.     *)
(*   rawClean   since the raw cache was last truncated with no other build *)
(*              of it under way, every build wrote the CSV that was there  *)
(*              when it truncated the file, from the inference of the step *)
(*              on, and none was abandoned, ended short or had the CSV     *)
(*              replaced during it;                                        *)
(*   normClean  the last build of the normalized cache was copied from a   *)
(*              clean raw cache, and neither overlapped another build nor  *)
(*              was abandoned nor lost its last record;                    *)
(*   calm[p]    no other process has been inside the routine, and the CSV  *)
(*              was not replaced, since p's call began.                    *)
(***************************************************************************)
StillCalm(p) == [q \in Proc |-> q = p /\ \A r \in Proc \ {p} : pc[r] \in Outside]

Init ==
    /\ clock = 1
    /\ csv = [ver |-> 1, time |-> 1]
    /\ raw = [time |-> 0, data |-> [c \in Chunk |-> Nothing]]
    /\ norm = [time |-> 0, data |-> [c \in Chunk |-> Nothing],
               times |-> [c \in Chunk |-> 0]]
    /\ pc = [p \in Proc |-> "idle"]
    /\ want = [p \in Proc |-> FALSE]
    /\ force = [p \in Proc |-> FALSE]
    /\ ver = [p \in Proc |-> 1]
    /\ pos = [p \in Proc |-> 1]
    /\ calls = 0
    /\ rawClean = TRUE
    /\ normClean = TRUE
    /\ calm = [p \in Proc |-> FALSE]

-----------------------------------------------------------------------------
Newer_OrSame(derived, source) == derived.time >= source.time

\* cache_file_is_strictly_newer; a missing file (time 0) is never newer.
Newer(derived, source) == derived.time > source.time

\* inspect_cache_chain_freshness answers "ready".
ChainReady == Newer(raw, csv) /\ Newer(norm, raw)

Call(p) ==
    /\ pc[p] = "idle"
    /\ calls < MaxCalls
    /\ calls' = calls + 1
    /\ \E w, f \in BOOLEAN : /\ want' = [want EXCEPT ![p] = w]
                             /\ force' = [force EXCEPT ![p] = f]
    /\ pc' = [pc EXCEPT ![p] = "check_raw"]
    /\ calm' = StillCalm(p)
    /\ UNCHANGED <<clock, files, ver, pos, rawClean, normClean>>

CheckRaw_IfMissing(p) ==
    /\ pc[p] = "check_raw"
    /\ pc' = [pc EXCEPT ![p] = IF force[p] \/ raw.time = 0 THEN "open_raw"
                                                           ELSE "check_norm"]
    /\ UNCHANGED <<clock, files, locals, pos, calls, rawClean, normClean, calm>>

CheckRaw(p) ==
    /\ pc[p] = "check_raw"
    /\ pc' = [pc EXCEPT ![p] = IF force[p] \/ ~Newer(raw, csv) THEN "open_raw"
                                                               ELSE "check_norm"]
    /\ UNCHANGED <<clock, files, locals, pos, calls, rawClean, normClean, calm>>

\* infer_regular_delta_from_csv opens and reads the CSV for itself ...
InferDelta(p) ==
    /\ pc[p] = "open_raw"
    /\ ver' = [ver EXCEPT ![p] = csv.ver]
    /\ pc' = [pc EXCEPT ![p] = "open_csv"]
    /\ UNCHANGED <<clock, files, want, force, pos, calls, rawClean, normClean,
                   calm>>

\* ... before the CSV is opened to be converted: when it was replaced in between,
\* its records are put on the grid of the other, which may or may not be theirs.
OpenCsv(p) ==
    /\ pc[p] = "open_csv"
    /\ \E v \in {csv.ver} \cup (IF ver[p] = csv.ver THEN {} ELSE {Garbled}) :
          ver' = [ver EXCEPT ![p] = v]
    /\ pc' = [pc EXCEPT ![p] = "truncate"]
    /\ UNCHANGED <<clock, files, want, force, pos, calls, rawClean, normClean,
                   calm>>

\* Truncates the raw cache.
OpenRaw(p) ==
    /\ pc[p] = "truncate"
    /\ raw' = [time |-> clock, data |-> [c \in Chunk |-> Nothing]]
    /\ pos' = [pos EXCEPT ![p] = 1]
    /\ pc' = [pc EXCEPT ![p] = "write_raw"]
    /\ rawClean' = (ver[p] = csv.ver /\ (RawWriters = {} \/ rawClean))
    /\ normClean' = (NormWriters = {} /\ normClean)
    /\ UNCHANGED <<clock, csv, norm, locals, calls, calm>>

\* flush_buffer: the stream writes at its own offset, whatever the file holds.
Flushed(p) == [time |-> clock, data |-> [raw.data EXCEPT ![pos[p]] = ver[p]]]

WriteRaw_Unbounded(p) ==
    /\ pc[p] = "write_raw"
    /\ raw' = Flushed(p)
    /\ pos' = [pos EXCEPT ![p] = @ + 1]
    /\ UNCHANGED <<clock, csv, norm, pc, locals, calls, rawClean, normClean, calm>>

WriteRaw(p) ==
    /\ pc[p] = "write_raw"
    /\ pos[p] < Chunks
    /\ raw' = Flushed(p)
    /\ pos' = [pos EXCEPT ![p] = @ + 1]
    /\ UNCHANGED <<clock, csv, norm, pc, locals, calls, rawClean, normClean, calm>>

\* The variables of the build are gone with it.
EndBuild(p) ==
    /\ ver' = [ver EXCEPT ![p] = 1]
    /\ pos' = [pos EXCEPT ![p] = 1]

\* The last flush, and the close of both files.
CloseRaw(p) ==
    /\ pc[p] = "write_raw"
    /\ pos[p] = Chunks
    /\ raw' = Flushed(p)
    /\ EndBuild(p)
    /\ pc' = [pc EXCEPT ![p] = "check_norm"]
    /\ UNCHANGED <<clock, csv, norm, want, force, calls, rawClean, normClean,
                   calm>>

\* The loop over the lines takes a read error for the end of the CSV, and the
\* close that writes what is left in the stream is not tested: in either case the
\* routine goes on with a file that is short.
CloseRawShort(p) ==
    /\ pc[p] = "write_raw"
    /\ "short" \in Faults
    /\ \E t \in {raw.time, clock} : raw' = [raw EXCEPT !.time = t]
    /\ EndBuild(p)
    /\ pc' = [pc EXCEPT ![p] = "check_norm"]
    /\ rawClean' = FALSE
    /\ UNCHANGED <<clock, csv, norm, want, force, calls, normClean, calm>>

\* policy none returns the raw cache.
NeedNorm(p) == want[p] /\ (force[p] \/ ~Newer(norm, raw))

CheckNorm(p) ==
    /\ pc[p] = "check_norm"
    /\ pc' = [pc EXCEPT ![p] = IF NeedNorm(p) THEN "open_norm" ELSE "map"]
    /\ UNCHANGED <<clock, files, locals, pos, calls, rawClean, normClean, calm>>

OpenNorm_InPlace(p) ==
    /\ pc[p] = "open_norm"
    /\ pos' = [pos EXCEPT ![p] = 1]
    /\ pc' = [pc EXCEPT ![p] = IF norm.time = 0 THEN "copy" ELSE "normalize"]
    /\ normClean' = (rawClean /\ RawWriters = {} /\ NormWriters = {})
    /\ UNCHANGED <<clock, files, locals, calls, rawClean, calm>>

\* copy_file with overwrite_existing truncates the target ...
OpenNorm(p) ==
    /\ pc[p] = "open_norm"
    /\ norm' = [time |-> clock, data |-> [c \in Chunk |-> Nothing],
                times |-> [c \in Chunk |-> 0]]
    /\ pc' = [pc EXCEPT ![p] = "copy"]
    /\ normClean' = (rawClean /\ RawWriters = {} /\ NormWriters = {})
    /\ UNCHANGED <<clock, csv, raw, locals, pos, calls, rawClean, calm>>

\* ... and fills it with what the raw cache holds.
CopyRaw(p) ==
    /\ pc[p] = "copy"
    /\ norm' = [time |-> clock, data |-> raw.data, times |-> [c \in Chunk |-> 0]]
    /\ pos' = [pos EXCEPT ![p] = 1]
    /\ pc' = [pc EXCEPT ![p] = "normalize"]
    /\ UNCHANGED <<clock, csv, raw, locals, calls, rawClean, normClean, calm>>

\* A record is read, normalised and written back at its place; one that is not
\* valid is passed through.  (Twice normalised and more often are not told apart.)
Again(n) == IF n = 0 THEN 1 ELSE 2

WrittenBack(p) ==
    [norm EXCEPT !.time = clock,
                 !.times[pos[p]] =
                    IF norm.data[pos[p]] = Nothing THEN @ ELSE Again(@)]

Normalize(p) ==
    /\ pc[p] = "normalize"
    /\ pos[p] < Chunks
    /\ norm' = WrittenBack(p)
    /\ pos' = [pos EXCEPT ![p] = @ + 1]
    /\ UNCHANGED <<clock, csv, raw, pc, locals, calls, rawClean, normClean, calm>>

\* The last record, and the close.
CloseNorm(p) ==
    /\ pc[p] = "normalize"
    /\ pos[p] = Chunks
    /\ norm' = WrittenBack(p)
    /\ pc' = [pc EXCEPT ![p] = "map"]
    /\ UNCHANGED <<clock, csv, raw, locals, pos, calls, rawClean, normClean, calm>>

\* Nothing tests the seek and the close that bring the last record to the file.
CloseNormShort(p) ==
    /\ pc[p] = "normalize"
    /\ pos[p] = Chunks
    /\ "short" \in Faults
    /\ pc' = [pc EXCEPT ![p] = "map"]
    /\ normClean' = FALSE
    /\ UNCHANGED <<clock, files, locals, pos, calls, rawClean, calm>>

\* The constructor of MappedData refuses an empty file.
Mapped(p) == IF want[p] THEN norm.data ELSE raw.data

Map(p) ==
    /\ pc[p] = "map"
    /\ \E c \in Chunk : Mapped(p)[c] # Nothing
    /\ pc' = [pc EXCEPT ![p] = "mapped"]
    /\ UNCHANGED <<clock, files, locals, pos, calls, rawClean, normClean, calm>>

\* The variables of the call are gone with it.
Forget(p) ==
    /\ pc' = [pc EXCEPT ![p] = "idle"]
    /\ want' = [want EXCEPT ![p] = FALSE]
    /\ force' = [force EXCEPT ![p] = FALSE]
    /\ EndBuild(p)
    /\ calm' = [calm EXCEPT ![p] = FALSE]

Release(p) ==
    /\ pc[p] = "mapped"
    /\ Forget(p)
    /\ UNCHANGED <<clock, files, calls, rawClean, normClean>>

\* An error is thrown out of the routine or of the constructor - the CSV is
\* irregular, a call fails, the file is refused - or the process dies.  What it
\* has written so far stays.
Abandon(p) ==
    /\ pc[p] \notin Outside
    /\ "abandon" \in Faults
    /\ Forget(p)
    /\ rawClean' = (p \notin RawWriters /\ rawClean)
    /\ normClean' = (p \notin NormWriters /\ normClean)
    /\ UNCHANGED <<clock, files, calls>>

\* Whoever collects the data replaces the CSV as a whole.
ReplaceCsv ==
    /\ csv.ver < MaxVersion
    /\ csv' = [ver |-> csv.ver + 1, time |-> clock]
    /\ rawClean' = (RawWriters = {} /\ rawClean)
    /\ calm' = [p \in Proc |-> FALSE]
    /\ UNCHANGED <<clock, raw, norm, pc, locals, pos, calls, normClean>>

Tick ==
    /\ clock < MaxClock
    /\ clock' = clock + 1
    /\ UNCHANGED <<files, pc, locals, pos, calls, rawClean, normClean, calm>>

Next ==
    \/ \E p \in Proc :
          \/ Call(p) \/ CheckRaw(p) \/ InferDelta(p) \/ OpenCsv(p) \/ OpenRaw(p)
          \/ WriteRaw(p) \/ CloseRaw(p) \/ CloseRawShort(p)
          \/ CheckNorm(p) \/ OpenNorm(p) \/ CopyRaw(p)
          \/ Normalize(p) \/ CloseNorm(p) \/ CloseNormShort(p)
          \/ Map(p) \/ Release(p) \/ Abandon(p)
    \/ ReplaceCsv
    \/ Tick

Spec == Init /\ [][Next]_vars

-----------------------------------------------------------------------------
TypeOK ==
    /\ clock \in Time
    /\ csv \in [ver : Version, time : Time]
    /\ raw \in [time : Time, data : [Chunk -> Content]]
    /\ norm \in [time : Time, data : [Chunk -> Content],
                 times : [Chunk -> 0 .. 2]]
    /\ pc \in [Proc -> Outside \cup {"check_raw", "open_raw", "open_csv",
                         "truncate", "write_raw", "check_norm", "open_norm", "copy", "normalize", "map"}]
    /\ want \in [Proc -> BOOLEAN]
    /\ force \in [Proc -> BOOLEAN]
    /\ ver \in [Proc -> Version \cup {Garbled}]
    /\ pos \in [Proc -> Chunk]
    /\ calls \in 0 .. MaxCalls
    /\ rawClean \in BOOLEAN
    /\ normClean \in BOOLEAN
    /\ calm \in [Proc -> BOOLEAN]

Whole(v) == [c \in Chunk |-> v]
Once == [c \in Chunk |-> 1]

\* While no build of it is under way, a clean raw cache that the loader takes for
\* up to date holds every record of the present CSV: neither a replacement within
\* the tick of the build nor two processes that build it at once from the same CSV
\* get past the comparison of times.
RawFresh ==
    rawClean /\ RawWriters = {} /\ Newer(raw, csv) => raw.data = Whole(csv.ver)

\* While nothing is being built, clean caches that pass the frozen-cache guard are
\* the present CSV, each record normalised exactly once.
NormFresh ==
    /\ rawClean /\ normClean
    /\ RawWriters = {} /\ NormWriters = {}
    /\ ChainReady
    => norm.data = Whole(csv.ver) /\ norm.times = Once

\* A process that has the routine to itself is given the present CSV, raw or
\* normalised once, whether it rebuilt a cache (in the tick of the replacement
\* even) or took it as it was.
ServedFresh ==
    \A p \in Proc :
       pc[p] = "map" /\ calm[p] /\ rawClean /\ (want[p] => normClean) =>
          /\ Mapped(p) = Whole(csv.ver)
          /\ want[p] => norm.times = Once

\* A load that takes the raw cache as it finds it takes the present CSV: what the
\* comment at the check says, "We will *always* ensure the raw cache is up-to-date
\* w.r.t. the CSV".
AlwaysUpToDate ==
    [][\A p \in Proc : pc[p] = "check_raw" /\ pc'[p] = "check_norm" =>
                          raw.data = Whole(csv.ver)]_vars
=============================================================================
