-------------------------- MODULE SourceCacheProofs --------------------------
(***************************************************************************)
(* Proofs that the caches of a source are fresh when they are taken for    *)
(* fresh, for any number of processes, chunks, versions, ticks and calls.  *)
(***************************************************************************)
EXTENDS SourceCache, TLAPS

\* The places of a process that knows the raw cache to exist.
PastRaw == {"write_raw", "check_norm", "open_norm", "copy", "normalize", "map"}
PastWrite == {"check_norm", "open_norm", "copy", "normalize", "map"}

\* No time lies in the future; the raw cache exists once a process got past it.
InvTimes ==
    /\ csv.time <= clock /\ raw.time <= clock /\ norm.time <= clock
    /\ csv.time > 0 /\ clock > 0
    /\ \A p \in Proc : pc[p] \in PastRaw => raw.time > 0

\* Clean builds under way write the present CSV, and one of them, the last to
\* truncate the file, has written everything up to its place.
InvRawBuild ==
    rawClean /\ RawWriters # {} =>
       /\ \A p \in RawWriters : ver[p] = csv.ver
       /\ \A c \in Chunk : raw.data[c] \in {Nothing, csv.ver}
       /\ \E p \in RawWriters :
             \A c \in Chunk : c < pos[p] => raw.data[c] = csv.ver

\* A clean raw cache at rest is the whole of a version, which is the present one
\* unless the CSV was replaced in or after the tick of its last write.
InvRawRest ==
    rawClean /\ RawWriters = {} /\ raw.time > 0 =>
       \E v \in Version : /\ \A c \in Chunk : raw.data[c] = v
                          /\ v = csv.ver \/ raw.time <= csv.time

\* A clean build of the normalized cache is alone, and the raw cache stands still.
InvNormBuild ==
    normClean /\ NormWriters # {} =>
       /\ RawWriters = {}
       /\ \A c \in Chunk : raw.data[c] # Nothing
       /\ \A p, q \in NormWriters : p = q
       /\ \A p \in NormWriters : pc[p] = "normalize" =>
             /\ norm.data = raw.data
             /\ \A c \in Chunk : norm.times[c] = IF c < pos[p] THEN 1 ELSE 0

\* A clean normalized cache that is newer than the raw one was made from it.
InvNormRest ==
    normClean /\ NormWriters = {} /\ norm.time > raw.time =>
       norm.data = raw.data /\ \A c \in Chunk : norm.times[c] = 1

\* A calm process is alone in the routine.
InvCalm ==
    \A p, q \in Proc :
       calm[p] /\ pc[p] \notin Outside /\ p # q => pc[q] \in Outside

\* What a calm process is about to be given.
InvServed ==
    \A p \in Proc :
       calm[p] /\ rawClean =>
          /\ pc[p] \in PastWrite => \A c \in Chunk : raw.data[c] = csv.ver
          /\ pc[p] = "map" /\ want[p] /\ normClean =>
                norm.data = raw.data /\ \A c \in Chunk : norm.times[c] = 1

IInv ==
    /\ TypeOK /\ InvTimes /\ InvRawBuild /\ InvRawRest
    /\ InvNormBuild /\ InvNormRest /\ InvCalm /\ InvServed

-----------------------------------------------------------------------------
\* A call begins: only its process moves.
LEMMA CallKeeps ==
    ASSUME IInv, NEW p \in Proc, Call(p)
    PROVE  IInv'
<1> USE SourceCacheAssumption DEF IInv, Call, files, locals
<1>1. TypeOK'
  BY DEF TypeOK, StillCalm
<1>2. InvTimes'
  BY DEF InvTimes, PastRaw
<1>3. InvRawBuild'
  BY DEF InvRawBuild, RawWriters
<1>4. InvRawRest'
  BY DEF InvRawRest, RawWriters
<1>5. InvNormBuild'
  BY DEF InvNormBuild, RawWriters, NormWriters
<1>6. InvNormRest'
  BY DEF InvNormRest, NormWriters
<1>7. InvCalm'
  BY DEF TypeOK, InvCalm, StillCalm
<1>8. InvServed'
  BY DEF TypeOK, InvServed, PastWrite, StillCalm
<1> QED
  BY <1>1, <1>2, <1>3, <1>4, <1>5, <1>6, <1>7, <1>8

\* The decision whether the raw cache can be used as it is.
LEMMA CheckRawKeeps ==
    ASSUME IInv, NEW p \in Proc, CheckRaw(p)
    PROVE  IInv'
<1> USE SourceCacheAssumption DEF IInv, CheckRaw, files, locals
<1>1. TypeOK'
  BY DEF TypeOK
<1>2. InvTimes'
  BY DEF TypeOK, InvTimes, PastRaw, Newer, Time
<1>3. InvRawBuild'
  BY DEF InvRawBuild, RawWriters
<1>4. InvRawRest'
  BY DEF InvRawRest, RawWriters
<1>5. InvNormBuild'
  BY DEF InvNormBuild, RawWriters, NormWriters
<1>6. InvNormRest'
  BY DEF InvNormRest, NormWriters
<1>7. InvCalm'
  BY DEF InvCalm, Outside
<1>8. InvServed'
  <2> SUFFICES ASSUME NEW q \in Proc, calm[q], rawClean', pc'[q] \in PastWrite
               PROVE  /\ \A c \in Chunk : raw'.data[c] = csv.ver
                      /\ pc'[q] = "map" /\ want[q] /\ normClean' =>
                            /\ norm'.data = raw'.data
                            /\ \A c \in Chunk : norm'.times[c] = 1
    BY DEF InvServed, PastWrite
  <2>1. q = p
    BY DEF InvCalm, Outside, PastWrite, TypeOK
  <2>2. rawClean /\ pc[p] = "check_raw" /\ Newer(raw, csv) /\ pc'[p] # "map"
    BY <2>1 DEF PastWrite, TypeOK
  <2>3. RawWriters = {}
    BY <2>1, <2>2 DEF InvCalm, RawWriters, Outside
  <2>4. raw.time > 0 /\ ~(raw.time <= csv.time)
    BY <2>2 DEF Newer, InvTimes, TypeOK, Time
  <2> QED
    BY <2>1, <2>2, <2>3, <2>4 DEF InvRawRest
<1> QED
  BY <1>1, <1>2, <1>3, <1>4, <1>5, <1>6, <1>7, <1>8

\* The step of the CSV is inferred: only the process moves.
LEMMA InferDeltaKeeps ==
    ASSUME IInv, NEW p \in Proc, InferDelta(p)
    PROVE  IInv'
<1> USE SourceCacheAssumption DEF IInv, InferDelta, files
<1>1. TypeOK'
  BY DEF TypeOK
<1>2. InvTimes'
  BY DEF InvTimes, PastRaw
<1>3. InvRawBuild'
  BY DEF TypeOK, InvRawBuild, RawWriters
<1>4. InvRawRest'
  BY DEF InvRawRest, RawWriters
<1>5. InvNormBuild'
  BY DEF InvNormBuild, RawWriters, NormWriters
<1>6. InvNormRest'
  BY DEF InvNormRest, NormWriters
<1>7. InvCalm'
  BY DEF InvCalm, Outside
<1>8. InvServed'
  BY DEF InvServed, PastWrite
<1> QED
  BY <1>1, <1>2, <1>3, <1>4, <1>5, <1>6, <1>7, <1>8

\* The CSV is opened to be converted.
LEMMA OpenCsvKeeps ==
    ASSUME IInv, NEW p \in Proc, OpenCsv(p)
    PROVE  IInv'
<1> USE SourceCacheAssumption DEF IInv, OpenCsv, files
<1>1. TypeOK'
  BY DEF TypeOK
<1>2. InvTimes'
  BY DEF InvTimes, PastRaw
<1>3. InvRawBuild'
  BY DEF TypeOK, InvRawBuild, RawWriters
<1>4. InvRawRest'
  BY DEF InvRawRest, RawWriters
<1>5. InvNormBuild'
  BY DEF InvNormBuild, RawWriters, NormWriters
<1>6. InvNormRest'
  BY DEF InvNormRest, NormWriters
<1>7. InvCalm'
  BY DEF InvCalm, Outside
<1>8. InvServed'
  BY DEF InvServed, PastWrite
<1> QED
  BY <1>1, <1>2, <1>3, <1>4, <1>5, <1>6, <1>7, <1>8

\* The truncation of the raw cache restarts what clean builds have written.
LEMMA OpenRawKeeps ==
    ASSUME IInv, NEW p \in Proc, OpenRaw(p)
    PROVE  IInv'
<1> USE SourceCacheAssumption DEF IInv, OpenRaw, files, locals
<1>1. TypeOK'
  <2>1. raw' \in [time : Time, data : [Chunk -> Content]]
    BY DEF TypeOK, Content
  <2>2. 1 \in Chunk
    BY DEF Chunk
  <2> QED
    BY <2>1, <2>2 DEF TypeOK
<1>2. InvTimes'
  BY DEF TypeOK, InvTimes, Time
<1>3. InvRawBuild'
  <2> SUFFICES ASSUME rawClean'
               PROVE  /\ \A q \in RawWriters' : ver[q] = csv.ver
                      /\ \A c \in Chunk : raw'.data[c] = Nothing
                      /\ p \in RawWriters' /\ \A c \in Chunk : ~(c < pos'[p])
    BY DEF InvRawBuild
  <2>1. RawWriters' = RawWriters \cup {p}
    BY DEF TypeOK, RawWriters
  <2>2. \A q \in RawWriters' : ver[q] = csv.ver
    BY <2>1 DEF InvRawBuild
  <2>3. \A c \in Chunk : ~(c < pos'[p])
    BY DEF TypeOK, Chunk
  <2> QED
    BY <2>1, <2>2, <2>3
<1>4. InvRawRest'
  BY DEF TypeOK, InvRawRest, RawWriters
<1>5. InvNormBuild'
  BY DEF TypeOK, InvNormBuild, NormWriters
<1>6. InvNormRest'
  BY DEF TypeOK, InvNormRest, InvTimes, Time
<1>7. InvCalm'
  BY DEF InvCalm, Outside
<1>8. InvServed'
  <2> SUFFICES ASSUME NEW q \in Proc, calm[q], rawClean', pc'[q] \in PastWrite
               PROVE  /\ \A c \in Chunk : raw'.data[c] = csv.ver
                      /\ pc'[q] = "map" /\ want[q] /\ normClean' =>
                            /\ norm'.data = raw'.data
                            /\ \A c \in Chunk : norm'.times[c] = 1
    BY DEF InvServed, PastWrite
  <2>1. q = p
    BY DEF InvCalm, Outside, PastWrite, TypeOK
  <2> QED
    BY <2>1 DEF PastWrite, TypeOK
<1> QED
  BY <1>1, <1>2, <1>3, <1>4, <1>5, <1>6, <1>7, <1>8

\* What flush_buffer leaves in the raw cache.
LEMMA FlushedType ==
    ASSUME TypeOK, NEW p \in Proc
    PROVE  Flushed(p) \in [time : Time, data : [Chunk -> Content]]
  BY DEF TypeOK, Flushed, Content

\* A chunk of the raw cache; the process that is ahead stays ahead.
LEMMA WriteRawKeeps ==
    ASSUME IInv, NEW p \in Proc, WriteRaw(p)
    PROVE  IInv'
<1> USE SourceCacheAssumption DEF IInv, WriteRaw, Flushed, locals
<1>1. TypeOK'
  BY FlushedType DEF TypeOK, Chunk
<1>2. InvTimes'
  BY DEF TypeOK, InvTimes, Time
<1>3. InvRawBuild'
  <2> SUFFICES ASSUME rawClean
               PROVE  /\ \A q \in RawWriters : ver[q] = csv.ver
                      /\ \A c \in Chunk : raw'.data[c] \in {Nothing, csv.ver}
                      /\ \E q \in RawWriters : \A c \in Chunk :
                            c < pos'[q] => raw'.data[c] = csv.ver
    BY DEF InvRawBuild, RawWriters
  <2>1. p \in RawWriters
    BY DEF RawWriters
  <2>2. /\ \A q \in RawWriters : ver[q] = csv.ver
        /\ \A c \in Chunk : raw.data[c] \in {Nothing, csv.ver}
    BY <2>1 DEF InvRawBuild
  <2>3. PICK q \in RawWriters : \A c \in Chunk : c < pos[q] => raw.data[c] = csv.ver
    BY <2>1 DEF InvRawBuild
  <2>4. \A c \in Chunk : raw'.data[c] = IF c = pos[p] THEN csv.ver ELSE raw.data[c]
    BY <2>1, <2>2 DEF TypeOK, Chunk
  <2>5. ASSUME NEW c \in Chunk, c < pos'[q]
        PROVE  c < pos[q] \/ c = pos[p]
    <3>1. CASE q = p
      BY <2>5, <3>1 DEF TypeOK, Chunk
    <3>2. CASE q # p
      BY <2>5, <3>2 DEF TypeOK, RawWriters
    <3> QED
      BY <3>1, <3>2
  <2>6. \A c \in Chunk : c < pos'[q] => raw'.data[c] = csv.ver
    BY <2>3, <2>4, <2>5
  <2> QED
    BY <2>2, <2>3, <2>4, <2>6
<1>4. InvRawRest'
  BY DEF InvRawRest, RawWriters
<1>5. InvNormBuild'
  BY DEF InvNormBuild, RawWriters, NormWriters
<1>6. InvNormRest'
  BY DEF TypeOK, InvNormRest, InvTimes, Time
<1>7. InvCalm'
  BY DEF InvCalm
<1>8. InvServed'
  BY DEF InvServed, PastWrite, InvCalm, Outside
<1> QED
  BY <1>1, <1>2, <1>3, <1>4, <1>5, <1>6, <1>7, <1>8

\* The end of a build: when it was the last, the raw cache is whole.
LEMMA CloseRawKeeps ==
    ASSUME IInv, NEW p \in Proc, CloseRaw(p)
    PROVE  IInv'
<1> USE SourceCacheAssumption DEF IInv, CloseRaw, EndBuild
<1>1. TypeOK'
  BY FlushedType DEF TypeOK, Chunk, Version
<1>2. InvTimes'
  BY DEF TypeOK, InvTimes, PastRaw, Flushed, Time
<1>0. \A c \in Chunk : c = Chunks \/ c < pos[p]
  BY DEF Chunk
<1>a. RawWriters' = RawWriters \ {p} /\ p \in RawWriters
  BY DEF TypeOK, RawWriters
<1>b. rawClean => \A c \in Chunk :
          raw'.data[c] = IF c = Chunks THEN csv.ver ELSE raw.data[c]
  BY <1>a DEF TypeOK, InvRawBuild, Flushed, Chunk
<1>3. InvRawBuild'
  <2> SUFFICES ASSUME rawClean, RawWriters' # {}
               PROVE  /\ \A q \in RawWriters' : ver'[q] = csv.ver
                      /\ \A c \in Chunk : raw'.data[c] \in {Nothing, csv.ver}
                      /\ \E q \in RawWriters' : \A c \in Chunk :
                            c < pos'[q] => raw'.data[c] = csv.ver
    BY DEF InvRawBuild
  <2>1. \A q \in RawWriters' : ver'[q] = csv.ver /\ pos'[q] = pos[q]
    BY <1>a DEF TypeOK, InvRawBuild, RawWriters
  <2>2. \A c \in Chunk : raw'.data[c] \in {Nothing, csv.ver}
    BY <1>a, <1>b DEF InvRawBuild
  <2>3. PICK q \in RawWriters : \A c \in Chunk : c < pos[q] => raw.data[c] = csv.ver
    BY <1>a DEF InvRawBuild
  <2>4. CASE q = p
    <3>1. \A c \in Chunk : raw'.data[c] = csv.ver
      BY <1>0, <1>b, <2>3, <2>4
    <3> QED
      BY <2>1, <2>2, <3>1
  <2>5. CASE q # p
    <3>1. q \in RawWriters' /\ pos'[q] = pos[q]
      BY <1>a, <2>1, <2>5
    <3>2. \A c \in Chunk : c < pos'[q] => raw'.data[c] = csv.ver
      BY <1>b, <2>3, <3>1
    <3> QED
      BY <2>1, <2>2, <3>1, <3>2
  <2> QED
    BY <2>4, <2>5
<1>c. rawClean /\ RawWriters' = {} => \A c \in Chunk : raw'.data[c] = csv.ver
  <2> SUFFICES ASSUME rawClean, RawWriters' = {}
               PROVE  \A c \in Chunk : raw'.data[c] = csv.ver
    OBVIOUS
  <2>1. \A c \in Chunk : c < pos[p] => raw.data[c] = csv.ver
    BY <1>a DEF InvRawBuild
  <2> QED
    BY <1>0, <1>b, <2>1
<1>4. InvRawRest'
  BY <1>c DEF TypeOK, InvRawRest
<1>5. InvNormBuild'
  BY <1>a DEF InvNormBuild, NormWriters
<1>6. InvNormRest'
  BY DEF TypeOK, InvNormRest, InvTimes, Flushed, Time
<1>7. InvCalm'
  BY DEF InvCalm, Outside
<1>8. InvServed'
  <2> SUFFICES ASSUME NEW q \in Proc, calm[q], rawClean', pc'[q] \in PastWrite
               PROVE  /\ \A c \in Chunk : raw'.data[c] = csv.ver
                      /\ pc'[q] = "map" /\ want[q] /\ normClean' =>
                            /\ norm'.data = raw'.data
                            /\ \A c \in Chunk : norm'.times[c] = 1
    BY DEF InvServed, PastWrite
  <2>1. q = p
    BY DEF InvCalm, Outside, PastWrite, TypeOK
  <2>2. RawWriters' = {} /\ rawClean /\ pc'[p] = "check_norm"
    BY <2>1 DEF InvCalm, RawWriters, Outside, TypeOK
  <2> QED
    BY <1>c, <2>1, <2>2
<1> QED
  BY <1>1, <1>2, <1>3, <1>4, <1>5, <1>6, <1>7, <1>8

\* A build that ends short is no longer clean.
LEMMA CloseRawShortKeeps ==
    ASSUME IInv, NEW p \in Proc, CloseRawShort(p)
    PROVE  IInv'
<1> USE SourceCacheAssumption DEF IInv, CloseRawShort, EndBuild
<1>1. TypeOK'
  <2>1. raw' \in [time : Time, data : [Chunk -> Content]]
    BY DEF TypeOK
  <2>2. 1 \in Chunk /\ 1 \in Version
    BY DEF Chunk, Version
  <2> QED
    BY <2>1, <2>2 DEF TypeOK
<1>2. InvTimes'
  BY DEF TypeOK, InvTimes, PastRaw, Time
<1>3. InvRawBuild'
  BY DEF InvRawBuild
<1>4. InvRawRest'
  BY DEF InvRawRest
<1>5. InvNormBuild'
  BY DEF InvNormBuild, RawWriters, NormWriters
<1>6. InvNormRest'
  BY DEF TypeOK, InvNormRest, NormWriters, InvTimes, Time
<1>7. InvCalm'
  BY DEF InvCalm, Outside
<1>8. InvServed'
  BY DEF InvServed
<1> QED
  BY <1>1, <1>2, <1>3, <1>4, <1>5, <1>6, <1>7, <1>8

\* The decision whether the normalized cache can be used as it is.
LEMMA CheckNormKeeps ==
    ASSUME IInv, NEW p \in Proc, CheckNorm(p)
    PROVE  IInv'
<1> USE SourceCacheAssumption DEF IInv, CheckNorm, files, locals
<1>1. TypeOK'
  BY DEF TypeOK
<1>2. InvTimes'
  BY DEF InvTimes, PastRaw
<1>3. InvRawBuild'
  BY DEF InvRawBuild, RawWriters
<1>4. InvRawRest'
  BY DEF InvRawRest, RawWriters
<1>5. InvNormBuild'
  BY DEF InvNormBuild, RawWriters, NormWriters
<1>6. InvNormRest'
  BY DEF InvNormRest, NormWriters
<1>7. InvCalm'
  BY DEF InvCalm, Outside
<1>8. InvServed'
  BY DEF InvServed, PastWrite, NormWriters, InvNormRest, InvCalm, NeedNorm,
         Newer, Outside
<1> QED
  BY <1>1, <1>2, <1>3, <1>4, <1>5, <1>6, <1>7, <1>8

\* The truncation of the normalized cache by copy_file.
LEMMA OpenNormKeeps ==
    ASSUME IInv, NEW p \in Proc, OpenNorm(p)
    PROVE  IInv'
<1> USE SourceCacheAssumption DEF IInv, OpenNorm, files, locals
<1>1. TypeOK'
  BY DEF TypeOK, Content
<1>2. InvTimes'
  BY DEF TypeOK, InvTimes, PastRaw, Time
<1>3. InvRawBuild'
  BY DEF InvRawBuild, RawWriters
<1>4. InvRawRest'
  BY DEF InvRawRest, RawWriters
<1>5. InvNormBuild'
  <2> SUFFICES ASSUME normClean'
               PROVE  /\ RawWriters' = {}
                      /\ \A c \in Chunk : raw.data[c] # Nothing
                      /\ \A q, r \in NormWriters' : q = r
                      /\ \A q \in NormWriters' : pc'[q] # "normalize"
    BY DEF InvNormBuild
  <2>1. rawClean /\ RawWriters = {} /\ NormWriters = {}
    OBVIOUS
  <2>2. raw.time > 0
    BY DEF InvTimes, PastRaw
  <2>3. \A c \in Chunk : raw.data[c] # Nothing
    BY <2>1, <2>2 DEF InvRawRest, Version, Nothing
  <2>4. RawWriters' = {} /\ NormWriters' = {p}
    BY <2>1 DEF RawWriters, NormWriters, TypeOK
  <2> QED
    BY <2>3, <2>4 DEF TypeOK
<1>6. InvNormRest'
  BY DEF TypeOK, InvNormRest, NormWriters
<1>7. InvCalm'
  BY DEF InvCalm, Outside
<1>8. InvServed'
  <2> SUFFICES ASSUME NEW q \in Proc, calm[q], rawClean', pc'[q] \in PastWrite
               PROVE  /\ \A c \in Chunk : raw'.data[c] = csv.ver
                      /\ pc'[q] = "map" /\ want[q] /\ normClean' =>
                            /\ norm'.data = raw'.data
                            /\ \A c \in Chunk : norm'.times[c] = 1
    BY DEF InvServed, PastWrite
  <2>1. q = p
    BY DEF InvCalm, Outside, PastWrite, TypeOK
  <2>2. pc'[p] = "copy" /\ pc[p] \in PastWrite
    BY DEF TypeOK, PastWrite
  <2> QED
    BY <2>1, <2>2 DEF InvServed
<1> QED
  BY <1>1, <1>2, <1>3, <1>4, <1>5, <1>6, <1>7, <1>8

\* The copy of the raw cache.
LEMMA CopyRawKeeps ==
    ASSUME IInv, NEW p \in Proc, CopyRaw(p)
    PROVE  IInv'
<1> USE SourceCacheAssumption DEF IInv, CopyRaw, files, locals
<1>1. TypeOK'
  <2>1. norm' \in [time : Time, data : [Chunk -> Content],
                   times : [Chunk -> 0 .. 2]]
    BY DEF TypeOK
  <2>2. 1 \in Chunk
    BY DEF Chunk
  <2> QED
    BY <2>1, <2>2 DEF TypeOK
<1>2. InvTimes'
  BY DEF TypeOK, InvTimes, PastRaw, Time
<1>3. InvRawBuild'
  BY DEF InvRawBuild, RawWriters
<1>4. InvRawRest'
  BY DEF InvRawRest, RawWriters
<1>5. InvNormBuild'
  BY DEF TypeOK, InvNormBuild, RawWriters, NormWriters, Chunk
<1>6. InvNormRest'
  BY DEF InvNormRest, NormWriters
<1>7. InvCalm'
  BY DEF InvCalm, Outside
<1>8. InvServed'
  <2> SUFFICES ASSUME NEW q \in Proc, calm[q], rawClean', pc'[q] \in PastWrite
               PROVE  /\ \A c \in Chunk : raw'.data[c] = csv.ver
                      /\ pc'[q] = "map" /\ want[q] /\ normClean' =>
                            /\ norm'.data = raw'.data
                            /\ \A c \in Chunk : norm'.times[c] = 1
    BY DEF InvServed, PastWrite
  <2>1. q = p
    BY DEF InvCalm, Outside, PastWrite, TypeOK
  <2>2. pc'[p] = "normalize" /\ pc[p] \in PastWrite
    BY DEF TypeOK, PastWrite
  <2> QED
    BY <2>1, <2>2 DEF InvServed
<1> QED
  BY <1>1, <1>2, <1>3, <1>4, <1>5, <1>6, <1>7, <1>8

\* What the write-back of a record leaves in the normalized cache.
LEMMA WrittenBackIs ==
    ASSUME TypeOK, NEW p \in Proc
    PROVE  /\ WrittenBack(p) \in [time : Time, data : [Chunk -> Content],
                                 times : [Chunk -> 0 .. 2]]
           /\ WrittenBack(p).time = clock
           /\ WrittenBack(p).data = norm.data
           /\ \A c \in Chunk : WrittenBack(p).times[c] =
                 IF c = pos[p] /\ norm.data[c] # Nothing
                 THEN Again(norm.times[c]) ELSE norm.times[c]
<1>1. WrittenBack(p).times \in [Chunk -> 0 .. 2]
  BY DEF TypeOK, WrittenBack, Again
<1>2. WrittenBack(p).time = clock /\ WrittenBack(p).data = norm.data
  BY DEF TypeOK, WrittenBack
<1>3. WrittenBack(p) \in [time : Time, data : [Chunk -> Content],
                          times : [Chunk -> 0 .. 2]]
  BY <1>1, <1>2 DEF TypeOK, WrittenBack
<1>4. \A c \in Chunk : WrittenBack(p).times[c] =
         IF c = pos[p] /\ norm.data[c] # Nothing
         THEN Again(norm.times[c]) ELSE norm.times[c]
  BY DEF TypeOK, WrittenBack
<1> QED
  BY <1>2, <1>3, <1>4

\* A record is normalised once more.
LEMMA NormalizeKeeps ==
    ASSUME IInv, NEW p \in Proc, Normalize(p)
    PROVE  IInv'
<1> USE SourceCacheAssumption DEF IInv, Normalize, locals
<1>1. TypeOK'
  BY WrittenBackIs DEF TypeOK, Chunk
<1>2. InvTimes'
  BY WrittenBackIs DEF TypeOK, InvTimes, Time
<1>3. InvRawBuild'
  BY DEF InvRawBuild, RawWriters
<1>4. InvRawRest'
  BY DEF InvRawRest, RawWriters
<1>5. InvNormBuild'
  BY WrittenBackIs DEF TypeOK, InvNormBuild, RawWriters, NormWriters, Again, Chunk
<1>6. InvNormRest'
  BY DEF InvNormRest, NormWriters
<1>7. InvCalm'
  BY DEF InvCalm
<1>8. InvServed'
  BY DEF InvServed, InvCalm, Outside
<1> QED
  BY <1>1, <1>2, <1>3, <1>4, <1>5, <1>6, <1>7, <1>8

\* The end of the normalisation: every record was done once.
LEMMA CloseNormKeeps ==
    ASSUME IInv, NEW p \in Proc, CloseNorm(p)
    PROVE  IInv'
<1> USE SourceCacheAssumption DEF IInv, CloseNorm, locals
<1>1. TypeOK'
  BY WrittenBackIs DEF TypeOK
<1>2. InvTimes'
  BY WrittenBackIs DEF TypeOK, InvTimes, PastRaw, Time
<1>3. InvRawBuild'
  BY DEF InvRawBuild, RawWriters
<1>4. InvRawRest'
  BY DEF InvRawRest, RawWriters
<1>a. normClean => /\ NormWriters' = {}
                   /\ norm'.data = raw.data
                   /\ \A c \in Chunk : norm'.times[c] = 1
  <2> SUFFICES ASSUME normClean
               PROVE  /\ NormWriters' = {}
                      /\ norm'.data = raw.data
                      /\ \A c \in Chunk : norm'.times[c] = 1
    OBVIOUS
  <2>1. p \in NormWriters
    BY DEF NormWriters
  <2>2. /\ \A q \in NormWriters : q = p
        /\ norm.data = raw.data
        /\ \A c \in Chunk : raw.data[c] # Nothing
        /\ \A c \in Chunk : norm.times[c] = IF c < pos[p] THEN 1 ELSE 0
    BY <2>1 DEF InvNormBuild
  <2>3. NormWriters' = {}
    BY <2>2 DEF TypeOK, NormWriters
  <2>4. \A c \in Chunk : norm'.times[c] = 1
    BY <2>2, WrittenBackIs DEF TypeOK, Again, Chunk
  <2> QED
    BY <2>2, <2>3, <2>4, WrittenBackIs
<1>5. InvNormBuild'
  BY <1>a DEF InvNormBuild
<1>6. InvNormRest'
  BY <1>a DEF InvNormRest
<1>7. InvCalm'
  BY DEF InvCalm, Outside
<1>8. InvServed'
  <2> SUFFICES ASSUME NEW q \in Proc, calm[q], rawClean, pc'[q] \in PastWrite
               PROVE  /\ \A c \in Chunk : raw.data[c] = csv.ver
                      /\ normClean =>
                            /\ norm'.data = raw.data
                            /\ \A c \in Chunk : norm'.times[c] = 1
    BY DEF InvServed, PastWrite
  <2>1. pc[q] \in PastWrite
    BY DEF TypeOK, PastWrite
  <2> QED
    BY <1>a, <2>1 DEF InvServed
<1> QED
  BY <1>1, <1>2, <1>3, <1>4, <1>5, <1>6, <1>7, <1>8

\* A build that loses its last record is no longer clean.
LEMMA CloseNormShortKeeps ==
    ASSUME IInv, NEW p \in Proc, CloseNormShort(p)
    PROVE  IInv'
<1> USE SourceCacheAssumption DEF IInv, CloseNormShort, files, locals
<1>1. TypeOK'
  BY DEF TypeOK
<1>2. InvTimes'
  BY DEF InvTimes, PastRaw
<1>3. InvRawBuild'
  BY DEF InvRawBuild, RawWriters
<1>4. InvRawRest'
  BY DEF InvRawRest, RawWriters
<1>5. InvNormBuild'
  BY DEF InvNormBuild
<1>6. InvNormRest'
  BY DEF InvNormRest
<1>7. InvCalm'
  BY DEF InvCalm, Outside
<1>8. InvServed'
  BY DEF TypeOK, InvServed, PastWrite
<1> QED
  BY <1>1, <1>2, <1>3, <1>4, <1>5, <1>6, <1>7, <1>8

\* The mapping of the file that was returned.
LEMMA MapKeeps ==
    ASSUME IInv, NEW p \in Proc, Map(p)
    PROVE  IInv'
<1> USE SourceCacheAssumption DEF IInv, Map, files, locals
<1>1. TypeOK'
  BY DEF TypeOK, Outside
<1>2. InvTimes'
  BY DEF InvTimes, PastRaw
<1>3. InvRawBuild'
  BY DEF InvRawBuild, RawWriters
<1>4. InvRawRest'
  BY DEF InvRawRest, RawWriters
<1>5. InvNormBuild'
  BY DEF InvNormBuild, RawWriters, NormWriters
<1>6. InvNormRest'
  BY DEF InvNormRest, NormWriters
<1>7. InvCalm'
  BY DEF InvCalm, Outside
<1>8. InvServed'
  BY DEF InvServed, PastWrite
<1> QED
  BY <1>1, <1>2, <1>3, <1>4, <1>5, <1>6, <1>7, <1>8

\* The mapping is given up.
LEMMA ReleaseKeeps ==
    ASSUME IInv, NEW p \in Proc, Release(p)
    PROVE  IInv'
<1> USE SourceCacheAssumption DEF IInv, Release, Forget, EndBuild, files
<1>1. TypeOK'
  BY DEF TypeOK, Outside, Chunk, Version
<1>2. InvTimes'
  BY DEF InvTimes, PastRaw
<1>3. InvRawBuild'
  BY DEF InvRawBuild, RawWriters
<1>4. InvRawRest'
  BY DEF InvRawRest, RawWriters
<1>5. InvNormBuild'
  BY DEF InvNormBuild, RawWriters, NormWriters
<1>6. InvNormRest'
  BY DEF InvNormRest, NormWriters
<1>7. InvCalm'
  BY DEF InvCalm, Outside
<1>8. InvServed'
  BY DEF InvServed, PastWrite
<1> QED
  BY <1>1, <1>2, <1>3, <1>4, <1>5, <1>6, <1>7, <1>8

\* A build that is left halfway is no longer clean.
LEMMA AbandonKeeps ==
    ASSUME IInv, NEW p \in Proc, Abandon(p)
    PROVE  IInv'
<1> USE SourceCacheAssumption DEF IInv, Abandon, Forget, EndBuild, files
<1>1. TypeOK'
  BY DEF TypeOK, Outside, Chunk, Version
<1>2. InvTimes'
  BY DEF InvTimes, PastRaw
<1>3. InvRawBuild'
  BY DEF TypeOK, InvRawBuild, RawWriters
<1>4. InvRawRest'
  BY DEF TypeOK, InvRawRest, RawWriters
<1>5. InvNormBuild'
  BY DEF TypeOK, InvNormBuild, RawWriters, NormWriters
<1>6. InvNormRest'
  BY DEF TypeOK, InvNormRest, NormWriters
<1>7. InvCalm'
  BY DEF InvCalm
<1>8. InvServed'
  BY DEF TypeOK, InvServed, PastWrite
<1> QED
  BY <1>1, <1>2, <1>3, <1>4, <1>5, <1>6, <1>7, <1>8

\* A new CSV is not older than any cache.
LEMMA ReplaceCsvKeeps ==
    ASSUME IInv, ReplaceCsv
    PROVE  IInv'
<1> USE SourceCacheAssumption DEF IInv, ReplaceCsv, files, locals
<1>1. TypeOK'
  BY DEF TypeOK, Version
<1>2. InvTimes'
  BY DEF TypeOK, InvTimes, Time
<1>3. InvRawBuild'
  BY DEF InvRawBuild, RawWriters
<1>4. InvRawRest'
  BY DEF InvRawRest, InvTimes
<1>5. InvNormBuild'
  BY DEF InvNormBuild, RawWriters, NormWriters
<1>6. InvNormRest'
  BY DEF InvNormRest, NormWriters
<1>7. InvCalm'
  BY DEF InvCalm
<1>8. InvServed'
  BY DEF InvServed
<1> QED
  BY <1>1, <1>2, <1>3, <1>4, <1>5, <1>6, <1>7, <1>8

\* Time passes.
LEMMA TickKeeps ==
    ASSUME IInv, Tick
    PROVE  IInv'
<1> USE SourceCacheAssumption DEF IInv, Tick, files, locals
<1>1. TypeOK'
  BY DEF TypeOK, Time
<1>2. InvTimes'
  BY DEF TypeOK, InvTimes, Time
<1>3. InvRawBuild'
  BY DEF InvRawBuild, RawWriters
<1>4. InvRawRest'
  BY DEF InvRawRest, RawWriters
<1>5. InvNormBuild'
  BY DEF InvNormBuild, RawWriters, NormWriters
<1>6. InvNormRest'
  BY DEF InvNormRest, NormWriters
<1>7. InvCalm'
  BY DEF InvCalm
<1>8. InvServed'
  BY DEF InvServed
<1> QED
  BY <1>1, <1>2, <1>3, <1>4, <1>5, <1>6, <1>7, <1>8

-----------------------------------------------------------------------------
\* The inductive invariant: the caches stay as InvTimes .. InvServed say.
THEOREM Invariance == Spec => []IInv
<1>1. Init => IInv
  <2> SUFFICES ASSUME Init PROVE IInv
    OBVIOUS
  <2> USE SourceCacheAssumption DEF Init
  <2>1. TypeOK
    BY DEF TypeOK, Outside, Chunk, Version, Content, Time, Nothing
  <2>2. InvTimes /\ InvRawBuild /\ InvRawRest
    BY DEF InvTimes, InvRawBuild, InvRawRest, PastRaw, RawWriters
  <2>3. InvNormBuild /\ InvNormRest
    BY DEF InvNormBuild, InvNormRest, NormWriters
  <2>4. InvCalm /\ InvServed
    BY DEF InvCalm, InvServed
  <2> QED
    BY <2>1, <2>2, <2>3, <2>4 DEF IInv
<1>2. IInv /\ [Next]_vars => IInv'
  <2> SUFFICES ASSUME IInv, [Next]_vars PROVE IInv'
    OBVIOUS
  <2>1. ASSUME NEW p \in Proc,
               \/ Call(p) \/ CheckRaw(p) \/ InferDelta(p) \/ OpenCsv(p)
               \/ OpenRaw(p) \/ WriteRaw(p) \/ CloseRaw(p) \/ CloseRawShort(p)
        PROVE  IInv'
    BY <2>1, CallKeeps, CheckRawKeeps, InferDeltaKeeps, OpenCsvKeeps,
       OpenRawKeeps, WriteRawKeeps, CloseRawKeeps, CloseRawShortKeeps
  <2>2. ASSUME NEW p \in Proc,
               \/ CheckNorm(p) \/ OpenNorm(p) \/ CopyRaw(p) \/ Normalize(p)
               \/ CloseNorm(p) \/ CloseNormShort(p)
               \/ Map(p) \/ Release(p) \/ Abandon(p)
        PROVE  IInv'
    BY <2>2, CheckNormKeeps, OpenNormKeeps, CopyRawKeeps, NormalizeKeeps,
       CloseNormKeeps, CloseNormShortKeeps, MapKeeps, ReleaseKeeps, AbandonKeeps
  <2>3. CASE ReplaceCsv \/ Tick
    BY <2>3, ReplaceCsvKeeps, TickKeeps
  <2>4. CASE UNCHANGED vars
    BY <2>4 DEF vars, IInv, TypeOK, InvTimes, InvRawBuild, InvRawRest,
         InvNormBuild, InvNormRest, InvCalm, InvServed, RawWriters, NormWriters
  <2> QED
    BY <2>1, <2>2, <2>3, <2>4 DEF Next
<1> QED
  BY <1>1, <1>2, PTL DEF Spec

\* The type invariant, whatever the processes and bounds.
THEOREM TypeCorrect == Spec => []TypeOK
<1>1. IInv => TypeOK
  BY DEF IInv
<1> QED
  BY <1>1, Invariance, PTL

\* The invariant and the comparison of times give the present CSV.
LEMMA RestIsFresh ==
    ASSUME IInv
    PROVE  RawFresh
<1> SUFFICES ASSUME rawClean, RawWriters = {}, Newer(raw, csv)
             PROVE  raw.data = Whole(csv.ver)
  BY DEF RawFresh
<1>1. raw.time > 0 /\ ~(raw.time <= csv.time)
  BY DEF Newer, IInv, TypeOK, InvTimes, Time
<1>2. \A c \in Chunk : raw.data[c] = csv.ver
  BY <1>1 DEF IInv, InvRawRest
<1> QED
  BY <1>2 DEF Whole, IInv, TypeOK

\* The comparison of times that sanitize_csv_into_binary_file trusts is right for
\* every clean raw cache: taken for up to date, it is the whole present CSV.
THEOREM RawCacheFresh == Spec => []RawFresh
<1> QED
  BY Invariance, RestIsFresh, PTL

\* What passes inspect_cache_chain_freshness is the present CSV, normalised once.
THEOREM NormalizedCacheFresh == Spec => []NormFresh
<1>1. IInv => NormFresh
  <2> SUFFICES ASSUME IInv, rawClean, normClean, RawWriters = {},
                      NormWriters = {}, ChainReady
               PROVE  norm.data = Whole(csv.ver) /\ norm.times = Once
    BY DEF NormFresh
  <2>1. raw.data = Whole(csv.ver)
    BY RestIsFresh DEF RawFresh, ChainReady
  <2>2. norm.data = raw.data /\ \A c \in Chunk : norm.times[c] = 1
    BY DEF IInv, InvNormRest, ChainReady, Newer
  <2> QED
    BY <2>1, <2>2 DEF Once, IInv, TypeOK
<1> QED
  BY <1>1, Invariance, PTL

\* A process that has sanitize_csv_into_binary_file to itself maps the present CSV.
THEOREM CalmProcessServed == Spec => []ServedFresh
<1>1. IInv => ServedFresh
  <2> SUFFICES ASSUME IInv, NEW p \in Proc, pc[p] = "map", calm[p], rawClean,
                      want[p] => normClean
               PROVE  /\ Mapped(p) = Whole(csv.ver)
                      /\ want[p] => norm.times = Once
    BY DEF ServedFresh
  <2>1. raw.data = Whole(csv.ver)
    <3>1. \A c \in Chunk : raw.data[c] = csv.ver
      BY DEF IInv, InvServed, PastWrite
    <3> QED
      BY <3>1 DEF Whole, IInv, TypeOK
  <2>2. want[p] => norm.data = raw.data /\ \A c \in Chunk : norm.times[c] = 1
    BY DEF IInv, InvServed
  <2>3. want[p] => norm.times = Once
    BY <2>2 DEF Once, IInv, TypeOK
  <2> QED
    BY <2>1, <2>2, <2>3 DEF Mapped
<1> QED
  BY <1>1, Invariance, PTL
=============================================================================
