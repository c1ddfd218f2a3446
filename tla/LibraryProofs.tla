---------------------------- MODULE LibraryProofs ----------------------------
(***************************************************************************)
(* Proofs about the Library of a Node: what is in it (HostLibrary) and who *)
(* may see it (Access). The two components share nothing; the second part  *)
(* begins at "Access".                                                     *)
(*                                                                         *)
(* HostLibrary, for any number of files, contents, scans, playlist         *)
(* requests, Segments, changes and restarts: type correctness, that the    *)
(* mtime cache never lies of a file whose size and second tell its content *)
(* from earlier ones, and that what the engine memoizes is the hash of a   *)
(* whole Segment.                                                          *)
(*                                                                         *)
(* Access, for any Nodes, lists, pages and buffers: type correctness, that *)
(* a Node is told AccessGranted only when it is let in, and that what a    *)
(* Node is told of the Library it may see.                                 *)
(***************************************************************************)
EXTENDS HostLibrary, Access, TLAPS

\* Stamp t is one the file at p has or had.
Stamped(p, t) == t \in seen[p] \cup {file[p].stamp}

\* If size and second t still tell the file at p from its earlier versions, it holds c.
Tells(p, t, c) ==
    t = file[p].stamp /\ ~Blurred(p) /\ file[p].content # NoContent => file[p].content = c

\* A row has a stamp of the file at its path, and the present one only with its content.
RowOK(c) ==
    rows[c].path \in Paths =>
        Stamped(rows[c].path, rows[c].stamp) /\ Tells(rows[c].path, rows[c].stamp, c)

\* The same of what a scan holds between its stat, its hash and its Upsert.
ScanOK(s) ==
    /\ scan[s].pc \in {"hash", "probe", "upsert"} => Stamped(scan[s].path, scan[s].stamp)
    /\ scan[s].pc \in {"probe", "upsert"} => Tells(scan[s].path, scan[s].stamp, scan[s].content)

\* An ffmpeg has its file open only while it runs. Processes to come have none, the
\* present one's belongs to its running job, and a job that found its directory
\* empty is alone there.
FfmpegOK(c) ==
    /\ \A k \in Processes : ffmpeg[k][c].open => ffmpeg[k][c].run /\ ffmpeg[k][c].next \in Segments
    /\ \A k \in Processes : k > restarts => ~ffmpeg[k][c].run
    /\ ffmpeg[restarts][c].run => job[c].st = "running"
    /\ job[c].st # "none" /\ ~job[c].leftover =>
          \A k \in Processes \ {restarts} : ~ffmpeg[k][c].run

\* A job in a directory that was empty: ffmpeg is at the Segment after the last one the
\* playlist names, all it names are whole, and every hash the job has is of a whole one.
JobOK(c) ==
    /\ job[c].st = "none" => \A i \in Segments : memo[c][i] = "none"
    /\ job[c].st # "none" /\ ~job[c].leftover =>
          /\ ffmpeg[restarts][c].run => ffmpeg[restarts][c].next = disk[c].listed + 1
          /\ \A i \in Segments : i <= disk[c].listed => disk[c].seg[i] = "whole"
          /\ \A i \in Segments : memo[c][i] # "torn"

\* A reader holds a job, a part of its playlist and bytes it named.
ReaderOK(r) ==
    LET rd == reader[r] IN
    /\ rd.pc # "idle" => rd.of \in Contents /\ job[rd.of].st # "none"
    /\ rd.pc \in {"hash", "memo"} => rd.at \in 1..rd.listed /\ rd.listed \in Segments
    /\ rd.pc \in {"hash", "memo"} /\ ~job[rd.of].leftover => rd.listed <= disk[rd.of].listed
    /\ rd.pc = "memo" /\ ~job[rd.of].leftover => rd.got = "whole"

\* A playlist names Segments there are.
DiskOK(c) == disk[c].listed \in 0..LastSeg

-----------------------------------------------------------------------------
\* Records

LEMMA FileRecord ==
    /\ \A c \in Contents \cup {NoContent}, t \in Stamps :
          /\ [content |-> c, stamp |-> t] \in Files
          /\ [content |-> c, stamp |-> t].content = c /\ [content |-> c, stamp |-> t].stamp = t
    /\ \A f \in Files :
          /\ f.content \in Contents \cup {NoContent} /\ f.stamp \in Stamps
          /\ [f EXCEPT !.content = NoContent] \in Files
          /\ [f EXCEPT !.content = NoContent].content = NoContent
          /\ [f EXCEPT !.content = NoContent].stamp = f.stamp
BY DEF Files

LEMMA RowRecord ==
    /\ \A p \in Paths \cup {NoPath}, t \in Stamps :
          /\ [path |-> p, stamp |-> t] \in Rows
          /\ [path |-> p, stamp |-> t].path = p /\ [path |-> p, stamp |-> t].stamp = t
    /\ \A r \in Rows : r.path \in Paths \cup {NoPath} /\ r.stamp \in Stamps
    /\ NoRow \in Rows /\ NoRow.path = NoPath
BY HostLibraryAssumption DEF Rows, NoRow

LEMMA ScanRecord ==
    /\ \A T \in SUBSET Paths : Walking(T) \in ScanStates /\ Walking(T).pc = "walk"
    /\ NotScanning \in ScanStates /\ NotScanning.pc = "idle"
    /\ \A T \in SUBSET Paths, p \in Paths, t \in Stamps :
          [pc |-> "hash", todo |-> T, path |-> p, stamp |-> t, content |-> NoContent] \in ScanStates
    /\ \A r \in ScanStates, c \in Contents :
          [r EXCEPT !.pc = "probe", !.content = c] \in ScanStates
    /\ \A r \in ScanStates : [r EXCEPT !.pc = "upsert"] \in ScanStates
    /\ \A r \in ScanStates : /\ r.todo \in SUBSET Paths /\ r.stamp \in Stamps
                             /\ r.path \in Paths \cup {NoPath}
                             /\ r.content \in Contents \cup {NoContent}
BY HostLibraryAssumption DEF ScanStates, Walking, NotScanning

LEMMA JobRecord ==
    /\ NoJob \in Jobs /\ NoJob.st = "none"
    /\ \A b \in BOOLEAN : /\ [st |-> "running", leftover |-> b] \in Jobs
                          /\ [st |-> "running", leftover |-> b].st = "running"
                          /\ [st |-> "running", leftover |-> b].leftover = b
    /\ \A j \in Jobs : /\ [j EXCEPT !.st = "complete"] \in Jobs
                       /\ [j EXCEPT !.st = "complete"].st = "complete"
                       /\ [j EXCEPT !.st = "complete"].leftover = j.leftover
BY DEF Jobs, NoJob

LEMMA FfmpegRecord ==
    /\ NoFfmpeg \in Ffmpegs /\ ~NoFfmpeg.run /\ ~NoFfmpeg.open
    /\ Started \in Ffmpegs /\ Started.run /\ ~Started.open /\ Started.next = 1
BY DEF Ffmpegs, NoFfmpeg, Started

LEMMA FfmpegFields ==
    \A w \in Ffmpegs : w.next \in Nat /\ w.run \in BOOLEAN /\ w.open \in BOOLEAN
BY DEF Ffmpegs

LEMMA FfmpegOpens ==
    ASSUME NEW w \in Ffmpegs
    PROVE  /\ [w EXCEPT !.open = TRUE] \in Ffmpegs
           /\ [w EXCEPT !.open = TRUE].run = w.run
           /\ [w EXCEPT !.open = TRUE].next = w.next
BY DEF Ffmpegs

LEMMA FfmpegCloses ==
    ASSUME NEW w \in Ffmpegs
    PROVE  [Started EXCEPT !.next = w.next + 1] \in Ffmpegs
<1>1. w.next + 1 \in Nat
  BY FfmpegFields
<1> QED
  BY <1>1 DEF Ffmpegs, Started, NoFfmpeg

LEMMA ReaderRecord ==
    /\ NotReading \in ReaderStates /\ NotReading.pc = "idle"
    /\ \A c \in Contents : [NotReading EXCEPT !.pc = "read", !.of = c] \in ReaderStates
    /\ \A r \in ReaderStates :
          /\ \A k \in Nat : [r EXCEPT !.pc = "hash", !.listed = k, !.at = 1] \in ReaderStates
          /\ \A k \in Nat : [r EXCEPT !.pc = "hash", !.at = k, !.got = "none"] \in ReaderStates
          /\ \A b \in Bytes : [r EXCEPT !.pc = "memo", !.got = b] \in ReaderStates
          /\ r.at \in Nat /\ r.listed \in Nat /\ r.got \in Bytes
BY DEF ReaderStates, NotReading, Bytes

LEMMA RenditionRecord ==
    /\ NoRendition \in Renditions /\ NoRendition.listed = 0
    /\ \A d \in Renditions : d.listed \in Nat /\ d.seg \in [Segments -> Bytes]
    /\ \A d \in Renditions, f \in [Segments -> Bytes] :
          /\ [d EXCEPT !.seg = f] \in Renditions
          /\ [d EXCEPT !.seg = f].seg = f /\ [d EXCEPT !.seg = f].listed = d.listed
    /\ \A k \in Nat, f \in [Segments -> Bytes] :
          /\ [listed |-> k, seg |-> f] \in Renditions
          /\ [listed |-> k, seg |-> f].seg = f /\ [listed |-> k, seg |-> f].listed = k
BY DEF Renditions, NoRendition, Bytes

-----------------------------------------------------------------------------
\* Type correctness of the index

IndexTypes ==
    /\ file \in [Paths -> Files]
    /\ rows \in [Contents -> Rows]
    /\ phase \in {"scan", "scanned", "watch"}
    /\ expired \in BOOLEAN /\ event \in BOOLEAN /\ timer \in BOOLEAN
    /\ scan \in [Scans -> ScanStates]
    /\ \A s \in Scans :
          /\ scan[s].pc \in {"hash", "probe", "upsert"} => scan[s].path \in Paths
          /\ scan[s].pc \in {"probe", "upsert"} => scan[s].content \in Contents
    /\ missed \subseteq Paths
    /\ seen \in [Paths -> SUBSET Stamps]
    /\ changes \in Nat

MediaTypes ==
    /\ restarts \in Processes
    /\ job \in [Contents -> Jobs]
    /\ ffmpeg \in [Processes -> [Contents -> Ffmpegs]]
    /\ disk \in [Contents -> Renditions]
    /\ memo \in [Contents -> [Segments -> Bytes]]
    /\ reader \in [Readers -> ReaderStates]

\* One scan goes on with another record.
LEMMA ScanUpdate ==
    ASSUME IndexTypes, NEW s \in Scans, NEW r \in ScanStates, scan' = [scan EXCEPT ![s] = r],
           r.pc \in {"hash", "probe", "upsert"} => r.path \in Paths,
           r.pc \in {"probe", "upsert"} => r.content \in Contents
    PROVE  /\ scan' \in [Scans -> ScanStates]
           /\ \A t \in Scans :
                 /\ scan'[t].pc \in {"hash", "probe", "upsert"} => scan'[t].path \in Paths
                 /\ scan'[t].pc \in {"probe", "upsert"} => scan'[t].content \in Contents
BY DEF IndexTypes

LEMMA WalkUpdate ==
    ASSUME IndexTypes, NEW s \in Scans, NEW T \in SUBSET Paths, scan' = [scan EXCEPT ![s] = Walking(T)]
    PROVE  /\ scan' \in [Scans -> ScanStates]
           /\ \A t \in Scans :
                 /\ scan'[t].pc \in {"hash", "probe", "upsert"} => scan'[t].path \in Paths
                 /\ scan'[t].pc \in {"probe", "upsert"} => scan'[t].content \in Contents
BY ScanUpdate, ScanRecord

LEMMA ScanStepTypes ==
    ASSUME IndexTypes, NEW s \in Scans, ScanStep(s)
    PROVE  IndexTypes'
<1>0. /\ scan[s] \in ScanStates /\ scan[s].todo \in SUBSET Paths /\ scan[s].stamp \in Stamps
      /\ scan \in [Scans -> ScanStates]
  BY ScanRecord DEF IndexTypes
<1>1. ASSUME NEW p \in Paths, SkipMissing(s, p) \/ SkipUnchanged(s, p)
      PROVE  IndexTypes'
  <2>1. /\ scan' = [scan EXCEPT ![s] = Walking(scan[s].todo \ {p})]
        /\ scan[s].todo \ {p} \in SUBSET Paths
        /\ missed' \subseteq Paths
    BY <1>0, <1>1 DEF SkipMissing, SkipUnchanged, IndexTypes
  <2> QED
    BY <1>1, <2>1, WalkUpdate DEF SkipMissing, SkipUnchanged, IndexTypes
<1>2. ASSUME NEW p \in Paths, StatFile(s, p)
      PROVE  IndexTypes'
  <2> DEFINE r == [pc |-> "hash", todo |-> scan[s].todo \ {p}, path |-> p,
                   stamp |-> file[p].stamp, content |-> NoContent]
  <2>1. r \in ScanStates /\ r.pc = "hash" /\ r.path = p
    <3>1. file[p].stamp \in Stamps /\ scan[s].todo \ {p} \in SUBSET Paths
      BY <1>0, FileRecord DEF IndexTypes
    <3> QED
      BY <3>1, ScanRecord
  <2>2. scan' = [scan EXCEPT ![s] = r] /\ missed' \subseteq Paths
    BY <1>2 DEF StatFile, IndexTypes
  <2> HIDE DEF r
  <2> QED
    BY <1>2, <2>1, <2>2, ScanUpdate DEF StatFile, IndexTypes
<1>3. CASE HashFile(s)
  <2> DEFINE c == file[scan[s].path].content
             r == [scan[s] EXCEPT !.pc = "probe", !.content = c]
  <2>1. scan[s].path \in Paths /\ scan[s].pc = "hash"
    BY <1>3 DEF HashFile, IndexTypes
  <2>2. c \in Contents \cup {NoContent}
    BY <2>1, FileRecord DEF IndexTypes
  <2>3. CASE c = NoContent
    <3>1. scan' = [scan EXCEPT ![s] = Walking(scan[s].todo)]
      BY <1>3, <2>3 DEF HashFile
    <3> QED
      BY <1>0, <1>3, <3>1, WalkUpdate DEF HashFile, IndexTypes
  <2>4. CASE c # NoContent
    <3>1. scan' = [scan EXCEPT ![s] = r]
      BY <1>3, <2>4 DEF HashFile
    <3>2. r \in ScanStates
      BY <1>0, <2>2, <2>4, ScanRecord
    <3>3. r.path = scan[s].path /\ r.content = c /\ c \in Contents
      BY <1>0, <2>2, <2>4 DEF ScanStates
    <3> HIDE DEF r
    <3> QED
      BY <1>3, <2>1, <3>1, <3>2, <3>3, ScanUpdate DEF HashFile, IndexTypes
  <2> QED
    BY <2>3, <2>4
<1>4. CASE Probe(s)
  <2>0. scan[s].path \in Paths /\ scan[s].content \in Contents
    BY <1>4 DEF Probe, IndexTypes
  <2>1. CASE expired /\ phase = "scan" /\ s = StartScan
    <3>1. scan' = [scan EXCEPT ![s] = Walking(scan[s].todo)] /\ missed' = missed \cup {scan[s].path}
      BY <1>4, <2>1 DEF Probe
    <3> QED
      BY <1>0, <1>4, <2>0, <3>1, WalkUpdate DEF Probe, IndexTypes
  <2>2. CASE ~(expired /\ phase = "scan" /\ s = StartScan)
    <3> DEFINE r == [scan[s] EXCEPT !.pc = "upsert"]
    <3>1. scan' = [scan EXCEPT ![s] = r] /\ missed' = missed
      BY <1>4, <2>2 DEF Probe
    <3>2. r \in ScanStates
      BY <1>0, ScanRecord
    <3>3. r.path = scan[s].path /\ r.content = scan[s].content
      BY <1>0 DEF ScanStates
    <3> HIDE DEF r
    <3> QED
      BY <1>4, <2>0, <3>1, <3>2, <3>3, ScanUpdate DEF Probe, IndexTypes
  <2> QED
    BY <2>1, <2>2
<1>5. CASE Upsert(s)
  <2>1. scan[s].path \in Paths /\ scan[s].content \in Contents
    BY <1>5 DEF Upsert, IndexTypes
  <2>2. BuildTitle(scan[s]) \in Rows
    BY <1>0, <2>1, RowRecord DEF BuildTitle
  <2>3. rows' \in [Contents -> Rows]
    BY <1>5, <2>1, <2>2 DEF Upsert, IndexTypes
  <2>4. scan' = [scan EXCEPT ![s] = Walking(scan[s].todo)]
    BY <1>5 DEF Upsert
  <2> QED
    BY <1>0, <1>5, <2>3, <2>4, WalkUpdate DEF Upsert, IndexTypes
<1>6. CASE EndScan(s)
  <2>1. scan' = [scan EXCEPT ![s] = NotScanning]
    BY <1>6 DEF EndScan
  <2>2. phase' \in {"scan", "scanned", "watch"}
    BY <1>6 DEF EndScan, IndexTypes
  <2> QED
    BY <1>6, <2>1, <2>2, ScanUpdate, ScanRecord DEF EndScan, IndexTypes
<1>7. CASE TimerFires(s)
  <2>1. scan' = [scan EXCEPT ![s] = Walking(Paths)]
    BY <1>7 DEF TimerFires
  <2> QED
    BY <1>7, <2>1, WalkUpdate DEF TimerFires, IndexTypes
<1> QED
  BY <1>1, <1>2, <1>3, <1>4, <1>5, <1>6, <1>7 DEF ScanStep

LEMMA StartScans ==
    ASSUME NEW S, S = [s \in Scans |-> IF s = StartScan THEN Walking(Paths) ELSE NotScanning]
    PROVE  /\ S \in [Scans -> ScanStates]
           /\ \A s \in Scans : S[s].pc \in {"walk", "idle"}
BY ScanRecord

LEMMA IndexStep ==
    ASSUME IndexTypes, [Next]_vars
    PROVE  IndexTypes'
<1>1. ASSUME NEW p \in Paths, NEW c \in Contents, NEW st \in Stamps, ChangeFile(p, c, st)
      PROVE  IndexTypes'
  <2>1. file' \in [Paths -> Files]
    <3>1. [content |-> c, stamp |-> st] \in Files
      BY FileRecord
    <3> QED
      BY <1>1, <3>1 DEF ChangeFile, IndexTypes
  <2>2. seen' \in [Paths -> SUBSET Stamps]
    <3>0. file[p] \in Files /\ seen[p] \in SUBSET Stamps
      BY DEF IndexTypes
    <3>1. seen[p] \cup {file[p].stamp} \in SUBSET Stamps
      BY <3>0 DEF Files
    <3> QED
      BY <1>1, <3>1 DEF ChangeFile, IndexTypes
  <2> QED
    BY <1>1, <2>1, <2>2 DEF ChangeFile, Reported, IndexTypes
<1>2. ASSUME NEW s \in Scans, ScanStep(s)
      PROVE  IndexTypes'
  BY <1>2, ScanStepTypes
<1>3. CASE ScanTimeout
  BY <1>3 DEF ScanTimeout, IndexTypes
<1>4. CASE StartWatch
  BY <1>4 DEF StartWatch, IndexTypes
<1>5. CASE TakeEvent
  BY <1>5 DEF TakeEvent, Debounced, IndexTypes
<1>6. CASE Restart
  <2>1. /\ scan' \in [Scans -> ScanStates]
        /\ \A s \in Scans : scan'[s].pc \in {"walk", "idle"}
    BY <1>6, StartScans DEF Restart, StartProcess
  <2> QED
    BY <1>6, <2>1 DEF Restart, StartProcess, IndexTypes
<1>7. ASSUME UNCHANGED index
      PROVE  IndexTypes'
  BY <1>7 DEF index, IndexTypes
<1>8. ASSUME NEW r \in Readers, NEW c \in Streamed,
             OpenPlaylist(r, c) \/ ReadPlaylist(r) \/ HashSegment(r) \/ MemoSegment(r)
      PROVE  UNCHANGED index
  BY <1>8 DEF OpenPlaylist, ReadPlaylist, HashSegment, MemoSegment
<1>9. ASSUME NEW r \in Readers, ReadPlaylist(r) \/ HashSegment(r) \/ MemoSegment(r)
      PROVE  UNCHANGED index
  BY <1>9 DEF ReadPlaylist, HashSegment, MemoSegment
<1>10. ASSUME NEW c \in Streamed,
              \/ Segment(c) \/ EndJob(c)
              \/ \E k \in Processes : OpenSegment(k, c) \/ CloseSegment(k, c) \/ OrphanEnds(k, c)
       PROVE  UNCHANGED index
  BY <1>10 DEF Segment, OpenSegment, CloseSegment, EndJob, OrphanEnds
<1>11. CASE UNCHANGED vars
  BY <1>7, <1>11 DEF vars
<1>12. ASSUME NEW p \in Paths, RemoveFile(p)
       PROVE  IndexTypes'
  <2>1. file' = [file EXCEPT ![p] = [file[p] EXCEPT !.content = NoContent]]
    BY <1>12 DEF RemoveFile
  <2>2. file' \in [Paths -> Files]
    BY <2>1, FileRecord DEF IndexTypes
  <2> QED
    BY <1>12, <2>2 DEF RemoveFile, Reported, IndexTypes
<1> QED
  BY <1>1, <1>2, <1>3, <1>4, <1>5, <1>6, <1>7, <1>8, <1>9, <1>10, <1>11, <1>12 DEF Next

-----------------------------------------------------------------------------
\* The mtime cache

\* Rows and scans that stay as they are, over files that stay as they are.
LEMMA RowsStay ==
    ASSUME UNCHANGED <<file, rows, seen>>, \A c \in Contents : RowOK(c)
    PROVE  \A c \in Contents : RowOK(c)'
BY DEF RowOK, Stamped, Tells, Blurred

\* A file that changes, or goes, keeps what is known of it.
LEMMA FileMovesOn ==
    ASSUME IndexTypes, NEW p \in Paths,
           \/ RemoveFile(p)
           \/ \E c \in Contents, st \in Stamps : ChangeFile(p, c, st)
    PROVE  \A q \in Paths, t \in Stamps :
              /\ Stamped(q, t) => Stamped(q, t)'
              /\ \A c \in Contents : Stamped(q, t) /\ Tells(q, t, c) => Tells(q, t, c)'
<1>1. CASE RemoveFile(p)
  <2>1. /\ seen' = seen /\ file'[p].stamp = file[p].stamp /\ file'[p].content = NoContent
        /\ \A q \in Paths \ {p} : file'[q] = file[q]
    <3>1. file' = [file EXCEPT ![p] = [file[p] EXCEPT !.content = NoContent]] /\ seen' = seen
      BY <1>1 DEF RemoveFile
    <3> QED
      BY <3>1, FileRecord DEF IndexTypes
  <2> QED
    BY <2>1 DEF Stamped, Tells, Blurred
<1>2. ASSUME NEW d \in Contents, NEW st \in Stamps, ChangeFile(p, d, st)
      PROVE  \A q \in Paths, t \in Stamps :
                /\ Stamped(q, t) => Stamped(q, t)'
                /\ \A c \in Contents : Stamped(q, t) /\ Tells(q, t, c) => Tells(q, t, c)'
  <2>1. /\ seen'[p] = seen[p] \cup {file[p].stamp} /\ file'[p].stamp = st
        /\ \A q \in Paths \ {p} : file'[q] = file[q] /\ seen'[q] = seen[q]
    BY <1>2, FileRecord DEF ChangeFile, IndexTypes
  <2> QED
    BY <2>1 DEF Stamped, Tells, Blurred
<1> QED
  BY <1>1, <1>2

LEMMA OtherScans ==
    ASSUME IndexTypes, \A s \in Scans : ScanOK(s), UNCHANGED <<file, seen>>,
           NEW s \in Scans, NEW r, scan' = [scan EXCEPT ![s] = r],
           r.pc \in {"hash", "probe", "upsert"} => Stamped(r.path, r.stamp),
           r.pc \in {"probe", "upsert"} => Tells(r.path, r.stamp, r.content)
    PROVE  \A t \in Scans : ScanOK(t)'
<1>1. scan'[s] = r /\ \A t \in Scans \ {s} : scan'[t] = scan[t]
  BY DEF IndexTypes
<1> QED
  BY <1>1 DEF ScanOK, Stamped, Tells, Blurred

LEMMA HonestScanStep ==
    ASSUME IndexTypes, \A c \in Contents : RowOK(c), \A s \in Scans : ScanOK(s),
           NEW s \in Scans, ScanStep(s)
    PROVE  /\ \A c \in Contents : RowOK(c)'
           /\ \A t \in Scans : ScanOK(t)'
<1>0. /\ scan[s] \in ScanStates /\ scan[s].todo \in SUBSET Paths /\ scan[s].stamp \in Stamps
      /\ ScanOK(s)
  BY ScanRecord DEF IndexTypes
<1>1. ASSUME NEW T \in SUBSET Paths, scan' = [scan EXCEPT ![s] = Walking(T)], UNCHANGED <<file, rows, seen>>
      PROVE  (\A c \in Contents : RowOK(c)') /\ (\A t \in Scans : ScanOK(t)')
  <2>1. Walking(T).pc = "walk"
    BY <1>1, ScanRecord
  <2>2. \A t \in Scans : ScanOK(t)'
    BY <1>1, <2>1, OtherScans
  <2> QED
    BY <1>1, <2>2, RowsStay
<1>2. ASSUME NEW p \in Paths, SkipMissing(s, p) \/ SkipUnchanged(s, p)
      PROVE  (\A c \in Contents : RowOK(c)') /\ (\A t \in Scans : ScanOK(t)')
  <2>1. /\ scan' = [scan EXCEPT ![s] = Walking(scan[s].todo \ {p})]
        /\ scan[s].todo \ {p} \in SUBSET Paths
        /\ UNCHANGED <<file, rows, seen>>
    BY <1>0, <1>2 DEF SkipMissing, SkipUnchanged
  <2> QED
    BY <1>1, <2>1
<1>3. ASSUME NEW p \in Paths, StatFile(s, p)
      PROVE  (\A c \in Contents : RowOK(c)') /\ (\A t \in Scans : ScanOK(t)')
  <2> DEFINE r == [pc |-> "hash", todo |-> scan[s].todo \ {p}, path |-> p,
                   stamp |-> file[p].stamp, content |-> NoContent]
  <2>1. scan' = [scan EXCEPT ![s] = r] /\ UNCHANGED <<file, rows, seen>>
    BY <1>3 DEF StatFile
  <2>2. r.pc = "hash" /\ r.path = p /\ r.stamp = file[p].stamp
    OBVIOUS
  <2>3. Stamped(r.path, r.stamp)
    BY <2>2 DEF Stamped
  <2> HIDE DEF r
  <2>4. \A t \in Scans : ScanOK(t)'
    BY <2>1, <2>2, <2>3, OtherScans
  <2> QED
    BY <2>1, <2>4, RowsStay
<1>4. CASE HashFile(s)
  <2> DEFINE c == file[scan[s].path].content
             r == [scan[s] EXCEPT !.pc = "probe", !.content = c]
  <2>0. UNCHANGED <<file, rows, seen>> /\ scan[s].pc = "hash"
    BY <1>4 DEF HashFile
  <2>1. CASE c = NoContent
    <3>1. scan' = [scan EXCEPT ![s] = Walking(scan[s].todo)]
      BY <1>4, <2>1 DEF HashFile
    <3> QED
      BY <1>0, <1>1, <2>0, <3>1
  <2>2. CASE c # NoContent
    <3>1. scan' = [scan EXCEPT ![s] = r]
      BY <1>4, <2>2 DEF HashFile
    <3>2. r.path = scan[s].path /\ r.content = c /\ r.stamp = scan[s].stamp
      BY <1>0 DEF ScanStates
    <3>3. Stamped(r.path, r.stamp) /\ Tells(r.path, r.stamp, r.content)
      BY <1>0, <2>0, <3>2 DEF ScanOK, Tells
    <3> HIDE DEF r
    <3>4. \A t \in Scans : ScanOK(t)'
      BY <2>0, <3>1, <3>3, OtherScans
    <3> QED
      BY <2>0, <3>4, RowsStay
  <2> QED
    BY <2>1, <2>2
<1>5. CASE Probe(s)
  <2>0. UNCHANGED <<file, rows, seen>> /\ scan[s].pc = "probe"
    BY <1>5 DEF Probe
  <2>1. CASE expired /\ phase = "scan" /\ s = StartScan
    <3>1. scan' = [scan EXCEPT ![s] = Walking(scan[s].todo)]
      BY <1>5, <2>1 DEF Probe
    <3> QED
      BY <1>0, <1>1, <2>0, <3>1
  <2>2. CASE ~(expired /\ phase = "scan" /\ s = StartScan)
    <3> DEFINE r == [scan[s] EXCEPT !.pc = "upsert"]
    <3>1. scan' = [scan EXCEPT ![s] = r]
      BY <1>5, <2>2 DEF Probe
    <3>2. r.path = scan[s].path /\ r.content = scan[s].content /\ r.stamp = scan[s].stamp
      BY <1>0 DEF ScanStates
    <3> HIDE DEF r
    <3>3. \A t \in Scans : ScanOK(t)'
      BY <1>0, <2>0, <3>1, <3>2, OtherScans DEF ScanOK
    <3> QED
      BY <2>0, <3>3, RowsStay
  <2> QED
    BY <2>1, <2>2
<1>6. CASE Upsert(s)
  <2> DEFINE d == scan[s].content
             p == scan[s].path
             b == BuildTitle(scan[s])
  <2>1. d \in Contents /\ p \in Paths /\ scan[s].pc = "upsert"
    BY <1>6 DEF Upsert, IndexTypes
  <2>2. /\ rows' = [rows EXCEPT ![d] = b] /\ UNCHANGED <<file, seen>>
        /\ scan' = [scan EXCEPT ![s] = Walking(scan[s].todo)]
    BY <1>6 DEF Upsert
  <2>3. b.path = p /\ b.stamp = scan[s].stamp
    BY DEF BuildTitle
  <2>4. Stamped(b.path, b.stamp) /\ Tells(b.path, b.stamp, d)
    BY <1>0, <2>1, <2>3 DEF ScanOK
  <2>5. \A c \in Contents : RowOK(c)'
    <3> SUFFICES ASSUME NEW c \in Contents
                 PROVE  RowOK(c)'
      OBVIOUS
    <3>1. CASE c = d
      <4>1. rows'[c] = b
        BY <2>1, <2>2, <3>1 DEF IndexTypes
      <4> HIDE DEF b
      <4> QED
        BY <2>2, <2>4, <3>1, <4>1 DEF RowOK, Stamped, Tells, Blurred
    <3>2. CASE c # d
      <4>1. rows'[c] = rows[c]
        BY <2>2, <3>2 DEF IndexTypes
      <4> QED
        BY <2>2, <4>1 DEF RowOK, Stamped, Tells, Blurred
    <3> QED
      BY <3>1, <3>2
  <2>6. Walking(scan[s].todo).pc = "walk"
    BY <1>0, ScanRecord
  <2>7. \A t \in Scans : ScanOK(t)'
    BY <2>2, <2>6, OtherScans
  <2> QED
    BY <2>5, <2>7
<1>7. CASE EndScan(s)
  <2>1. scan' = [scan EXCEPT ![s] = NotScanning] /\ UNCHANGED <<file, rows, seen>>
    BY <1>7 DEF EndScan
  <2>2. \A t \in Scans : ScanOK(t)'
    BY <2>1, ScanRecord, OtherScans
  <2> QED
    BY <2>1, <2>2, RowsStay
<1>8. CASE TimerFires(s)
  <2>1. scan' = [scan EXCEPT ![s] = Walking(Paths)] /\ UNCHANGED <<file, rows, seen>>
    BY <1>8 DEF TimerFires
  <2> QED
    BY <1>1, <2>1
<1> QED
  BY <1>2, <1>3, <1>4, <1>5, <1>6, <1>7, <1>8 DEF ScanStep

LEMMA HonestStep ==
    ASSUME IndexTypes, \A c \in Contents : RowOK(c), \A s \in Scans : ScanOK(s), [Next]_vars
    PROVE  /\ \A c \in Contents : RowOK(c)'
           /\ \A s \in Scans : ScanOK(s)'
<1>1. ASSUME NEW p \in Paths,
             \/ RemoveFile(p)
             \/ \E c \in Contents, st \in Stamps : ChangeFile(p, c, st)
      PROVE  (\A c \in Contents : RowOK(c)') /\ (\A s \in Scans : ScanOK(s)')
  <2>1. UNCHANGED <<rows, scan>>
    BY <1>1 DEF ChangeFile, RemoveFile, Reported
  <2>2. \A c \in Contents : RowOK(c)'
    <3> SUFFICES ASSUME NEW c \in Contents, rows[c].path \in Paths
                 PROVE  RowOK(c)'
      BY <2>1 DEF RowOK
    <3>1. rows[c].stamp \in Stamps /\ RowOK(c)
      BY RowRecord DEF IndexTypes
    <3> QED
      BY <1>1, <2>1, <3>1, FileMovesOn DEF RowOK
  <2>3. \A s \in Scans : ScanOK(s)'
    <3> SUFFICES ASSUME NEW s \in Scans, scan[s].pc \in {"hash", "probe", "upsert"}
                 PROVE  ScanOK(s)'
      BY <2>1 DEF ScanOK
    <3>1. /\ scan[s].stamp \in Stamps /\ scan[s].path \in Paths /\ ScanOK(s)
          /\ scan[s].pc \in {"probe", "upsert"} => scan[s].content \in Contents
      BY ScanRecord DEF IndexTypes
    <3> QED
      BY <1>1, <2>1, <3>1, FileMovesOn DEF ScanOK
  <2> QED
    BY <2>2, <2>3
<1>2. ASSUME NEW s \in Scans, ScanStep(s)
      PROVE  (\A c \in Contents : RowOK(c)') /\ (\A t \in Scans : ScanOK(t)')
  BY <1>2, HonestScanStep
<1>3. ASSUME UNCHANGED <<file, rows, scan, seen>>
      PROVE  (\A c \in Contents : RowOK(c)') /\ (\A s \in Scans : ScanOK(s)')
  BY <1>3 DEF RowOK, ScanOK, Stamped, Tells, Blurred
<1>4. CASE Restart
  <2>1. UNCHANGED <<file, rows, seen>> /\ \A s \in Scans : scan'[s].pc \in {"walk", "idle"}
    BY <1>4, StartScans DEF Restart, StartProcess
  <2> QED
    BY <2>1, RowsStay DEF ScanOK
<1>5. CASE ScanTimeout \/ StartWatch \/ TakeEvent \/ UNCHANGED vars
  BY <1>3, <1>5 DEF ScanTimeout, StartWatch, TakeEvent, vars, index
<1>6. ASSUME NEW r \in Readers, NEW c \in Streamed, OpenPlaylist(r, c)
      PROVE  UNCHANGED <<file, rows, scan, seen>>
  BY <1>6 DEF OpenPlaylist, index
<1>7. ASSUME NEW r \in Readers, ReadPlaylist(r) \/ HashSegment(r) \/ MemoSegment(r)
      PROVE  UNCHANGED <<file, rows, scan, seen>>
  BY <1>7 DEF ReadPlaylist, HashSegment, MemoSegment, index
<1>8. ASSUME NEW c \in Streamed,
             \/ Segment(c) \/ EndJob(c)
             \/ \E k \in Processes : OpenSegment(k, c) \/ CloseSegment(k, c) \/ OrphanEnds(k, c)
      PROVE  UNCHANGED <<file, rows, scan, seen>>
  BY <1>8 DEF Segment, OpenSegment, CloseSegment, EndJob, OrphanEnds, index
<1> QED
  BY <1>1, <1>2, <1>3, <1>4, <1>5, <1>6, <1>7, <1>8 DEF Next

HonestInv == IndexTypes /\ (\A c \in Contents : RowOK(c)) /\ (\A s \in Scans : ScanOK(s))

LEMMA HonestInit ==
    ASSUME Init
    PROVE  HonestInv
<1>1. /\ scan \in [Scans -> ScanStates]
      /\ \A s \in Scans : scan[s].pc \in {"walk", "idle"}
  BY StartScans DEF Init
<1>2. file \in [Paths -> Files]
  <2>1. \A f \in [content : Contents, stamp : {0}] : f \in Files
    BY HostLibraryAssumption DEF Files
  <2> QED
    BY <2>1 DEF Init
<1>3. rows \in [Contents -> Rows] /\ \A c \in Contents : rows[c].path = NoPath
  BY RowRecord DEF Init
<1>4. IndexTypes
  BY <1>1, <1>2, <1>3 DEF Init, IndexTypes
<1>5. \A c \in Contents : RowOK(c)
  BY <1>3, HostLibraryAssumption DEF RowOK
<1>6. \A s \in Scans : ScanOK(s)
  BY <1>1 DEF ScanOK
<1> QED
  BY <1>4, <1>5, <1>6 DEF HonestInv

LEMMA HonestAlways == Spec => []HonestInv
<1>1. Init => HonestInv
  BY HonestInit
<1>2. HonestInv /\ [Next]_vars => HonestInv'
  BY IndexStep, HonestStep DEF HonestInv
<1> QED
  BY <1>1, <1>2, PTL DEF Spec

\* A row that still matches its file in path, size and second is the row of that
\* file's content, unless an earlier version had that size and second too,
\* however changes fall between stat, hash and Upsert of one scan or of several.
THEOREM RowsHonest == Spec => []RowHonest
<1>1. HonestInv => RowHonest
  BY DEF HonestInv, RowHonest, RowOK, Tells
<1> QED
  BY <1>1, HonestAlways, PTL

-----------------------------------------------------------------------------
\* The media engine

MediaInv ==
    /\ MediaTypes
    /\ \A c \in Contents : FfmpegOK(c) /\ JobOK(c) /\ DiskOK(c)
    /\ \A r \in Readers : ReaderOK(r)

LEMMA SegmentFacts ==
    /\ \A i \in Segments : i \in Nat /\ i >= 1 /\ i <= LastSeg
    /\ \A i \in Nat : i >= 1 /\ i <= LastSeg => i \in Segments
    /\ NoHashes \in [Segments -> Bytes] /\ \A i \in Segments : NoHashes[i] = "none"
BY HostLibraryAssumption DEF Segments, NoHashes, Bytes

LEMMA ProcessFacts ==
    /\ 0 \in Processes
    /\ \A k \in Processes : k \in Nat /\ k <= MaxRestarts
    /\ \A k \in Nat : k <= MaxRestarts => k \in Processes
BY HostLibraryAssumption DEF Processes

\* The ffmpeg of one process for one Title goes on with another record.
LEMMA FfmpegUpdate ==
    ASSUME ffmpeg \in [Processes -> [Contents -> Ffmpegs]],
           NEW k \in Processes, NEW c \in Contents, NEW w \in Ffmpegs,
           ffmpeg' = [ffmpeg EXCEPT ![k] = [ffmpeg[k] EXCEPT ![c] = w]]
    PROVE  /\ ffmpeg' \in [Processes -> [Contents -> Ffmpegs]]
           /\ ffmpeg'[k][c] = w
           /\ \A j \in Processes, d \in Contents : j # k \/ d # c => ffmpeg'[j][d] = ffmpeg[j][d]
<1>1. ffmpeg[k] \in [Contents -> Ffmpegs]
  OBVIOUS
<1>2. [ffmpeg[k] EXCEPT ![c] = w] \in [Contents -> Ffmpegs]
  BY <1>1
<1> QED
  BY <1>1, <1>2

\* A Title nothing happens to.
LEMMA TitleStays ==
    ASSUME MediaInv, NEW d \in Contents, restarts' = restarts,
           job'[d] = job[d], disk'[d] = disk[d], memo'[d] = memo[d],
           \A k \in Processes : ffmpeg'[k][d] = ffmpeg[k][d]
    PROVE  FfmpegOK(d)' /\ JobOK(d)' /\ DiskOK(d)'
<1>1. restarts \in Processes /\ FfmpegOK(d) /\ JobOK(d) /\ DiskOK(d)
  BY DEF MediaInv, MediaTypes
<1>2. FfmpegOK(d)'
  BY <1>1 DEF FfmpegOK
<1>3. JobOK(d)' /\ DiskOK(d)'
  BY <1>1 DEF JobOK, DiskOK
<1> QED
  BY <1>2, <1>3

\* A job is created, or was there.
LEMMA EnsureJob ==
    ASSUME MediaInv, NEW c \in Contents, NewJob(c), UNCHANGED <<disk, memo, restarts>>
    PROVE  /\ job' \in [Contents -> Jobs]
           /\ ffmpeg' \in [Processes -> [Contents -> Ffmpegs]]
           /\ \A d \in Contents : FfmpegOK(d)' /\ JobOK(d)' /\ DiskOK(d)'
           /\ job'[c].st # "none"
           /\ \A d \in Contents : job[d].st # "none" => job'[d] = job[d]
<1>0. /\ job \in [Contents -> Jobs] /\ ffmpeg \in [Processes -> [Contents -> Ffmpegs]]
      /\ restarts \in Processes /\ disk[c].listed \in Nat
  BY RenditionRecord DEF MediaInv, MediaTypes
<1>1. CASE job[c].st # "none"
  <2>1. UNCHANGED <<job, ffmpeg>>
    BY <1>1 DEF NewJob
  <2>2. \A d \in Contents : FfmpegOK(d)' /\ JobOK(d)' /\ DiskOK(d)'
    BY <2>1, TitleStays
  <2> QED
    BY <1>0, <1>1, <2>1, <2>2
<1>2. CASE job[c].st = "none"
  <2> DEFINE b == Leftover(c)
             j == [st |-> "running", leftover |-> b]
  <2>1. /\ job' = [job EXCEPT ![c] = j]
        /\ ffmpeg' = [ffmpeg EXCEPT ![restarts] = [ffmpeg[restarts] EXCEPT ![c] = Started]]
    BY <1>2 DEF NewJob
  <2>2. b \in BOOLEAN /\ (~b => disk[c].listed = 0 /\ \A k \in Processes : ~ffmpeg[k][c].run)
    BY <1>0 DEF Leftover
  <2>3. j \in Jobs /\ j.st = "running" /\ j.leftover = b
    BY <2>2, JobRecord
  <2> HIDE DEF b, j
  <2>4. /\ job' \in [Contents -> Jobs] /\ job'[c] = j
        /\ \A d \in Contents \ {c} : job'[d] = job[d]
    BY <1>0, <2>1, <2>3
  <2>5. /\ ffmpeg' \in [Processes -> [Contents -> Ffmpegs]] /\ ffmpeg'[restarts][c] = Started
        /\ \A k \in Processes, d \in Contents :
              k # restarts \/ d # c => ffmpeg'[k][d] = ffmpeg[k][d]
    BY <1>0, <2>1, FfmpegRecord, FfmpegUpdate
  <2>6. \A d \in Contents \ {c} : FfmpegOK(d)' /\ JobOK(d)' /\ DiskOK(d)'
    BY <2>4, <2>5, TitleStays
  <2>7. FfmpegOK(c)'
    <3>1. FfmpegOK(c) /\ restarts \in Nat /\ ~(restarts > restarts)
      BY <1>0, ProcessFacts DEF MediaInv
    <3>2. \A k \in Processes \ {restarts} : ffmpeg'[k][c] = ffmpeg[k][c]
      BY <2>5
    <3> QED
      BY <2>2, <2>3, <2>4, <2>5, <3>1, <3>2, FfmpegRecord DEF FfmpegOK
  <2>8. JobOK(c)' /\ DiskOK(c)'
    <3>1. \A i \in Segments : memo[c][i] = "none" /\ ~(i <= 0)
      BY <1>2, SegmentFacts DEF MediaInv, JobOK
    <3>2. DiskOK(c)'
      BY DEF MediaInv, DiskOK
    <3>3. ~b => Started.next = disk[c].listed + 1
      BY <2>2, FfmpegRecord
    <3> QED
      BY <2>2, <2>3, <2>4, <2>5, <3>1, <3>2, <3>3 DEF JobOK
  <2> QED
    BY <1>2, <2>3, <2>4, <2>5, <2>6, <2>7, <2>8
<1> QED
  BY <1>1, <1>2

\* A playlist that does not change does not shrink.
LEMMA ListedStays ==
    ASSUME disk \in [Contents -> Renditions]
    PROVE  \A d \in Contents : disk[d].listed <= disk[d].listed
<1> TAKE d \in Contents
<1>1. disk[d].listed \in Nat
  BY RenditionRecord
<1> DEFINE n == disk[d].listed
<1> HIDE DEF n
<1>2. n \in Nat => n <= n
  OBVIOUS
<1> QED
  BY <1>1, <1>2 DEF n

\* Readers keep what they hold while jobs stay and their playlists only grow.
LEMMA ReadersStay ==
    ASSUME MediaInv, NEW r \in Readers, reader'[r] = reader[r], disk' \in [Contents -> Renditions],
           \A d \in Contents : job[d].st # "none" =>
              /\ job'[d].st # "none" /\ (job'[d].leftover <=> job[d].leftover)
              /\ ~job[d].leftover => disk[d].listed <= disk'[d].listed
    PROVE  ReaderOK(r)'
<1>1. ReaderOK(r) /\ reader[r] \in ReaderStates
  BY DEF MediaInv, MediaTypes
<1>2. CASE reader[r].pc = "idle"
  BY <1>2 DEF ReaderOK
<1>3. CASE reader[r].pc # "idle"
  <2> DEFINE c == reader[r].of
  <2>1. c \in Contents /\ job[c].st # "none"
    BY <1>1, <1>3 DEF ReaderOK
  <2>2. reader[r].listed \in Nat /\ disk[c].listed \in Nat /\ disk'[c].listed \in Nat
    BY <1>1, <2>1, ReaderRecord, RenditionRecord DEF MediaInv, MediaTypes
  <2>3. ~job[c].leftover /\ reader[r].listed <= disk[c].listed => reader[r].listed <= disk'[c].listed
    <3>1. ~job[c].leftover => disk[c].listed <= disk'[c].listed
      BY <2>1
    <3> QED
      BY <2>2, <3>1
  <2> QED
    BY <1>1, <2>1, <2>3 DEF ReaderOK
<1> QED
  BY <1>2, <1>3

\* One reader goes on with another record; nothing else changes.
LEMMA ReaderUpdate ==
    ASSUME MediaInv, NEW r \in Readers, NEW rd \in ReaderStates, reader' = [reader EXCEPT ![r] = rd],
           UNCHANGED <<job, ffmpeg, disk, restarts>>, memo' \in [Contents -> [Segments -> Bytes]],
           \A c \in Contents : JobOK(c)',
           rd.pc # "idle" => rd.of \in Contents /\ job[rd.of].st # "none",
           rd.pc \in {"hash", "memo"} => rd.at \in 1..rd.listed /\ rd.listed \in Segments,
           rd.pc \in {"hash", "memo"} /\ ~job[rd.of].leftover => rd.listed <= disk[rd.of].listed,
           rd.pc = "memo" /\ ~job[rd.of].leftover => rd.got = "whole"
    PROVE  MediaInv'
<1>1. reader'[r] = rd /\ \A q \in Readers \ {r} : reader'[q] = reader[q]
  BY DEF MediaInv, MediaTypes
<1>2. MediaTypes'
  BY DEF MediaInv, MediaTypes
<1>3. ReaderOK(r)'
  BY <1>1 DEF ReaderOK
<1>4. \A q \in Readers \ {r} : ReaderOK(q)'
  BY <1>1 DEF MediaInv, ReaderOK
<1>5. \A c \in Contents : FfmpegOK(c)' /\ DiskOK(c)'
  BY DEF MediaInv, FfmpegOK, DiskOK
<1> QED
  BY <1>2, <1>3, <1>4, <1>5 DEF MediaInv

\* What InjectHashes goes on with.
LEMMA AdvanceFacts ==
    ASSUME MediaInv, NEW r \in Readers, reader[r].pc \in {"hash", "memo"}
    PROVE  LET rd == Advance(reader[r]) IN
           /\ rd \in ReaderStates
           /\ rd.pc # "idle" => rd.of \in Contents /\ job[rd.of].st # "none"
           /\ rd.pc \in {"hash", "memo"} => rd.at \in 1..rd.listed /\ rd.listed \in Segments
           /\ rd.pc \in {"hash", "memo"} /\ ~job[rd.of].leftover => rd.listed <= disk[rd.of].listed
           /\ rd.pc # "memo"
<1> DEFINE x == reader[r]
<1>1. /\ x \in ReaderStates /\ x.of \in Contents /\ job[x.of].st # "none"
      /\ x.at \in 1..x.listed /\ x.listed \in Segments /\ x.listed \in Nat /\ x.at \in Nat
      /\ ~job[x.of].leftover => x.listed <= disk[x.of].listed
  BY ReaderRecord DEF MediaInv, MediaTypes, ReaderOK
<1> HIDE DEF x
<1>2. CASE x.at >= x.listed
  <2>1. Advance(x) = NotReading
    BY <1>2 DEF Advance
  <2> QED
    BY <2>1, ReaderRecord DEF x
<1>3. CASE ~(x.at >= x.listed)
  <2> DEFINE y == [x EXCEPT !.pc = "hash", !.at = x.at + 1, !.got = "none"]
  <2>1. Advance(x) = y
    BY <1>3 DEF Advance
  <2>2. x.at + 1 \in Nat /\ x.at + 1 \in 1..x.listed
    BY <1>1, <1>3
  <2>3. y \in ReaderStates
    BY <1>1, <2>2, ReaderRecord
  <2>4. y.pc = "hash" /\ y.of = x.of /\ y.listed = x.listed /\ y.at = x.at + 1
    BY <1>1 DEF ReaderStates
  <2> HIDE DEF y
  <2> QED
    BY <1>1, <2>1, <2>2, <2>3, <2>4 DEF x
<1> QED
  BY <1>2, <1>3

LEMMA JobsStay ==
    ASSUME MediaInv, UNCHANGED <<job, ffmpeg, disk, memo, restarts>>
    PROVE  /\ \A c \in Contents : JobOK(c)'
           /\ memo' \in [Contents -> [Segments -> Bytes]]
BY DEF MediaInv, MediaTypes, JobOK

LEMMA ReaderStep ==
    ASSUME MediaInv, NEW r \in Readers, ReadPlaylist(r) \/ HashSegment(r) \/ MemoSegment(r)
    PROVE  MediaInv'
<1> DEFINE x == reader[r]
<1>0. x \in ReaderStates /\ ReaderOK(r) /\ x.of \in Contents /\ job[x.of].st # "none"
  BY DEF MediaInv, MediaTypes, ReaderOK, ReadPlaylist, HashSegment, MemoSegment
<1>a. JobOK(x.of) /\ DiskOK(x.of) /\ disk[x.of] \in Renditions
  BY <1>0 DEF MediaInv, MediaTypes
<1>1. CASE ReadPlaylist(r)
  <2>0. UNCHANGED <<job, ffmpeg, disk, memo, restarts>>
    BY <1>1 DEF ReadPlaylist
  <2>1. CASE disk[x.of].listed = 0
    <3>1. reader' = [reader EXCEPT ![r] = NotReading]
      BY <1>1, <2>1 DEF ReadPlaylist
    <3> QED
      BY <2>0, <3>1, JobsStay, ReaderRecord, ReaderUpdate
  <2>2. CASE disk[x.of].listed # 0
    <3> DEFINE k == disk[x.of].listed
               y == [x EXCEPT !.pc = "hash", !.listed = k, !.at = 1]
    <3>1. reader' = [reader EXCEPT ![r] = y]
      BY <1>1, <2>2 DEF ReadPlaylist
    <3>2. k \in Nat /\ k \in Segments /\ 1 \in 1..k
      <4>1. k \in Nat /\ k <= LastSeg /\ k >= 1
        BY <1>a, <2>2, HostLibraryAssumption DEF DiskOK
      <4> QED
        BY <4>1, SegmentFacts
    <3>3. y \in ReaderStates
      BY <1>0, <3>2, ReaderRecord
    <3>4. y.pc = "hash" /\ y.of = x.of /\ y.listed = k /\ y.at = 1
      BY <1>0 DEF ReaderStates
    <3>5. k <= disk[x.of].listed
      BY <3>2
    <3> HIDE DEF y, k, x
    <3> QED
      BY <1>0, <2>0, <3>1, <3>2, <3>3, <3>4, <3>5, JobsStay, ReaderUpdate
  <2> QED
    BY <2>1, <2>2
<1>2. CASE HashSegment(r)
  <2>0. UNCHANGED <<job, ffmpeg, disk, memo, restarts>> /\ x.pc = "hash"
    BY <1>2 DEF HashSegment
  <2>1. CASE memo[x.of][x.at] # "none" \/ disk[x.of].seg[x.at] = "none"
    <3>1. reader' = [reader EXCEPT ![r] = Advance(x)]
      BY <1>2, <2>1 DEF HashSegment
    <3> QED
      BY <2>0, <3>1, JobsStay, AdvanceFacts, ReaderUpdate
  <2>2. CASE ~(memo[x.of][x.at] # "none" \/ disk[x.of].seg[x.at] = "none")
    <3> DEFINE b == disk[x.of].seg[x.at]
               y == [x EXCEPT !.pc = "memo", !.got = b]
    <3>1. reader' = [reader EXCEPT ![r] = y]
      BY <1>2, <2>2 DEF HashSegment
    <3>2. /\ x.at \in 1..x.listed /\ x.listed \in Segments
          /\ ~job[x.of].leftover => x.listed <= disk[x.of].listed
      BY <1>0, <2>0 DEF ReaderOK
    <3>3. x.at \in Segments /\ x.at <= x.listed /\ x.at \in Nat /\ x.listed \in Nat
      <4>1. x.at \in Nat /\ x.at >= 1 /\ x.at <= x.listed /\ x.listed \in Nat /\ x.listed <= LastSeg
        BY <3>2, SegmentFacts
      <4>2. LastSeg \in Nat
        BY HostLibraryAssumption
      <4> QED
        BY <4>1, <4>2, SegmentFacts
    <3>4. b \in Bytes
      BY <1>a, <3>3, RenditionRecord
    <3>5. ~job[x.of].leftover => b = "whole"
      <4>1. disk[x.of].listed \in Nat
        BY <1>a, RenditionRecord
      <4>2. ~job[x.of].leftover => x.at <= disk[x.of].listed
        BY <3>2, <3>3, <4>1
      <4> QED
        BY <1>0, <1>a, <3>3, <4>2 DEF JobOK
    <3>6. y \in ReaderStates
      BY <1>0, <3>4, ReaderRecord
    <3>7. y.pc = "memo" /\ y.of = x.of /\ y.listed = x.listed /\ y.at = x.at /\ y.got = b
      BY <1>0 DEF ReaderStates
    <3> HIDE DEF y, b, x
    <3> QED
      BY <1>0, <2>0, <3>1, <3>2, <3>5, <3>6, <3>7, JobsStay, ReaderUpdate
  <2> QED
    BY <2>1, <2>2
<1>3. CASE MemoSegment(r)
  <2>0. /\ UNCHANGED <<job, ffmpeg, disk, restarts>> /\ x.pc = "memo"
        /\ memo' = [memo EXCEPT ![x.of] = [memo[x.of] EXCEPT ![x.at] = x.got]]
        /\ reader' = [reader EXCEPT ![r] = Advance(x)]
    BY <1>3 DEF MemoSegment
  <2>1. x.got \in Bytes /\ (~job[x.of].leftover => x.got = "whole")
    BY <1>0, <2>0, ReaderRecord DEF ReaderOK
  <2>2. memo[x.of] \in [Segments -> Bytes] /\ memo \in [Contents -> [Segments -> Bytes]]
    BY <1>0 DEF MediaInv, MediaTypes
  <2>3. memo' \in [Contents -> [Segments -> Bytes]]
    BY <2>0, <2>1, <2>2
  <2>4. \A c \in Contents : JobOK(c)'
    <3> SUFFICES ASSUME NEW c \in Contents
                 PROVE  JobOK(c)'
      OBVIOUS
    <3>1. CASE c # x.of
      <4>1. memo'[c] = memo[c]
        BY <2>0, <2>2, <3>1
      <4> QED
        BY <2>0, <4>1 DEF MediaInv, JobOK
    <3>2. CASE c = x.of
      <4>1. \A i \in Segments : memo'[c][i] = memo[c][i] \/ memo'[c][i] = x.got
        BY <1>0, <2>0, <2>2, <3>2
      <4>2. job[c].st # "none" /\ JobOK(c)
        BY <1>0, <3>2 DEF MediaInv
      <4>3. ~job[c].leftover => \A i \in Segments : memo'[c][i] # "torn"
        BY <2>1, <3>2, <4>1, <4>2 DEF JobOK
      <4> QED
        BY <2>0, <4>2, <4>3 DEF JobOK
    <3> QED
      BY <3>1, <3>2
  <2> QED
    BY <2>0, <2>3, <2>4, AdvanceFacts, ReaderUpdate
<1> QED
  BY <1>1, <1>2, <1>3

\* The job and its own ffmpeg.
LEMMA EngineStep ==
    ASSUME MediaInv, NEW c \in Contents, Segment(c) \/ EndJob(c)
    PROVE  MediaInv'
<1>0. /\ job \in [Contents -> Jobs] /\ disk \in [Contents -> Renditions] /\ restarts \in Processes
      /\ ffmpeg \in [Processes -> [Contents -> Ffmpegs]] /\ job[c] \in Jobs
      /\ FfmpegOK(c) /\ JobOK(c) /\ DiskOK(c)
  BY DEF MediaInv, MediaTypes
<1>1. CASE Segment(c)
  <2>1. NewJob(c) /\ UNCHANGED <<disk, memo, reader, restarts>>
    BY <1>1 DEF Segment
  <2>2. /\ job' \in [Contents -> Jobs] /\ ffmpeg' \in [Processes -> [Contents -> Ffmpegs]]
        /\ \A d \in Contents : FfmpegOK(d)' /\ JobOK(d)' /\ DiskOK(d)'
        /\ \A d \in Contents : job[d].st # "none" => job'[d] = job[d]
    BY <2>1, EnsureJob
  <2>3. \A r \in Readers : ReaderOK(r)'
    BY <1>0, <2>1, <2>2, ListedStays, ReadersStay
  <2> QED
    BY <2>1, <2>2, <2>3 DEF MediaInv, MediaTypes
<1>2. CASE EndJob(c)
  <2> DEFINE j == [job[c] EXCEPT !.st = "complete"]
  <2>1. /\ job' = [job EXCEPT ![c] = j] /\ UNCHANGED <<disk, memo, reader, restarts>>
        /\ ffmpeg' = [ffmpeg EXCEPT ![restarts] = [ffmpeg[restarts] EXCEPT ![c] = NoFfmpeg]]
        /\ job[c].st = "running"
    BY <1>2 DEF EndJob, Ended
  <2>2. j \in Jobs /\ j.st = "complete" /\ (j.leftover <=> job[c].leftover)
    BY <1>0, JobRecord
  <2> HIDE DEF j
  <2>3. /\ job'[c] = j /\ (\A d \in Contents \ {c} : job'[d] = job[d])
        /\ job' \in [Contents -> Jobs]
    BY <1>0, <2>1, <2>2
  <2>4. /\ ffmpeg' \in [Processes -> [Contents -> Ffmpegs]] /\ ffmpeg'[restarts][c] = NoFfmpeg
        /\ \A k \in Processes, d \in Contents :
              k # restarts \/ d # c => ffmpeg'[k][d] = ffmpeg[k][d]
    BY <1>0, <2>1, FfmpegRecord, FfmpegUpdate
  <2>5. \A d \in Contents \ {c} : FfmpegOK(d)' /\ JobOK(d)' /\ DiskOK(d)'
    BY <2>1, <2>3, <2>4, TitleStays
  <2>6. FfmpegOK(c)'
    <3>1. \A k \in Processes \ {restarts} : ffmpeg'[k][c] = ffmpeg[k][c]
      BY <2>4
    <3> QED
      BY <1>0, <2>1, <2>2, <2>3, <2>4, <3>1, FfmpegRecord DEF FfmpegOK
  <2>7. JobOK(c)' /\ DiskOK(c)'
    BY <1>0, <2>1, <2>2, <2>3, <2>4, FfmpegRecord DEF JobOK, DiskOK
  <2>8. \A r \in Readers : ReaderOK(r)'
    BY <1>0, <2>1, <2>2, <2>3, ListedStays, ReadersStay
  <2> QED
    BY <2>1, <2>3, <2>4, <2>5, <2>6, <2>7, <2>8 DEF MediaInv, MediaTypes
<1> QED
  BY <1>1, <1>2

\* An ffmpeg at work, of this process or of one that was killed.
LEMMA WriterStep ==
    ASSUME MediaInv, NEW k \in Processes, NEW c \in Contents,
           OpenSegment(k, c) \/ CloseSegment(k, c) \/ OrphanEnds(k, c)
    PROVE  MediaInv'
<1> DEFINE w == ffmpeg[k][c]
           n == w.next
<1>0. /\ job \in [Contents -> Jobs] /\ disk \in [Contents -> Renditions] /\ restarts \in Processes
      /\ ffmpeg \in [Processes -> [Contents -> Ffmpegs]]
      /\ FfmpegOK(c) /\ JobOK(c) /\ DiskOK(c)
      /\ disk[c] \in Renditions /\ disk[c].seg \in [Segments -> Bytes] /\ disk[c].listed \in Nat
  BY RenditionRecord DEF MediaInv, MediaTypes
<1>a. w \in Ffmpegs /\ n \in Nat /\ w.run \in BOOLEAN /\ w.open \in BOOLEAN
  <2>1. w \in Ffmpegs
    BY <1>0
  <2> QED
    BY <2>1, FfmpegFields
<1>b. w.run /\ job[c].st # "none" /\ ~job[c].leftover => k = restarts
  BY <1>0 DEF FfmpegOK
<1>1. CASE OpenSegment(k, c)
  <2> DEFINE g == [disk[c].seg EXCEPT ![n] = "torn"]
             v == [w EXCEPT !.open = TRUE]
  <2>1. /\ disk' = [disk EXCEPT ![c] = [disk[c] EXCEPT !.seg = g]]
        /\ ffmpeg' = [ffmpeg EXCEPT ![k] = [ffmpeg[k] EXCEPT ![c] = v]]
        /\ UNCHANGED <<job, memo, reader, restarts>> /\ w.run /\ n \in Segments
    BY <1>1 DEF OpenSegment
  <2>2. v \in Ffmpegs /\ v.run = w.run /\ v.next = n
    BY <1>a, FfmpegOpens
  <2>3. g \in [Segments -> Bytes] /\ \A i \in Segments : i # n => g[i] = disk[c].seg[i]
    BY <1>0 DEF Bytes
  <2> HIDE DEF g, v
  <2>4. /\ ffmpeg' \in [Processes -> [Contents -> Ffmpegs]] /\ ffmpeg'[k][c] = v
        /\ \A j \in Processes, d \in Contents : j # k \/ d # c => ffmpeg'[j][d] = ffmpeg[j][d]
    BY <1>0, <2>1, <2>2, FfmpegUpdate
  <2>5. [disk[c] EXCEPT !.seg = g] \in Renditions
    BY <1>0, <2>3, RenditionRecord
  <2>6. /\ disk'[c].seg = g /\ disk'[c].listed = disk[c].listed
        /\ \A d \in Contents \ {c} : disk'[d] = disk[d]
    BY <1>0, <2>1, <2>3, RenditionRecord
  <2>7. disk' \in [Contents -> Renditions]
    BY <1>0, <2>1, <2>5
  <2>8. FfmpegOK(c)'
    <3>1. \A j \in Processes : /\ ffmpeg'[j][c].run = ffmpeg[j][c].run
                               /\ j # k => ffmpeg'[j][c] = ffmpeg[j][c]
      BY <2>2, <2>4
    <3> QED
      BY <1>0, <2>1, <2>2, <2>4, <3>1 DEF FfmpegOK
  <2>9. JobOK(c)' /\ DiskOK(c)'
    <3>1. DiskOK(c)'
      BY <1>0, <2>6 DEF DiskOK
    <3>2. ffmpeg'[restarts][c].run = ffmpeg[restarts][c].run
          /\ ffmpeg'[restarts][c].next = ffmpeg[restarts][c].next
      BY <1>0, <2>2, <2>4
    <3>3. ASSUME job[c].st # "none", ~job[c].leftover, NEW i \in Segments, i <= disk[c].listed
          PROVE  g[i] = "whole"
      <4>1. n = disk[c].listed + 1
        BY <1>0, <1>b, <2>1, <3>3 DEF JobOK
      <4>2. i # n
        BY <1>0, <3>3, <4>1, SegmentFacts
      <4> QED
        BY <1>0, <2>3, <3>3, <4>2 DEF JobOK
    <3> QED
      BY <1>0, <2>1, <2>6, <3>1, <3>2, <3>3 DEF JobOK
  <2>10. \A d \in Contents \ {c} : FfmpegOK(d)' /\ JobOK(d)' /\ DiskOK(d)'
    BY <2>1, <2>4, <2>6, TitleStays
  <2>11. \A d \in Contents : disk[d].listed <= disk'[d].listed
    BY <1>0, <2>6, ListedStays
  <2>12. \A r \in Readers : ReaderOK(r)'
    BY <2>1, <2>7, <2>11, ReadersStay
  <2> QED
    BY <2>1, <2>4, <2>7, <2>8, <2>9, <2>10, <2>12 DEF MediaInv, MediaTypes
<1>2. CASE CloseSegment(k, c)
  <2> DEFINE v == [Started EXCEPT !.next = n + 1]
  <2>0. w.open /\ w.run /\ n \in Segments /\ n \in 0..LastSeg
    <3>1. w.open
      BY <1>2 DEF CloseSegment
    <3>2. w.run /\ n \in Segments
      BY <1>0, <3>1 DEF FfmpegOK
    <3> QED
      BY <3>1, <3>2, SegmentFacts, HostLibraryAssumption
  <2>1. PICK b \in {"torn", "whole"} :
           /\ OnlyWriter(k, c) => b = "whole"
           /\ disk' = [disk EXCEPT ![c] = [listed |-> n, seg |-> [disk[c].seg EXCEPT ![n] = b]]]
    BY <1>2 DEF CloseSegment
  <2> DEFINE g == [disk[c].seg EXCEPT ![n] = b]
  <2>2. /\ ffmpeg' = [ffmpeg EXCEPT ![k] = [ffmpeg[k] EXCEPT ![c] = v]]
        /\ UNCHANGED <<job, memo, reader, restarts>>
    BY <1>2 DEF CloseSegment
  <2>3. v \in Ffmpegs /\ v.run = w.run /\ v.next = n + 1 /\ ~v.open
    <3>1. v \in Ffmpegs
      BY <1>a, FfmpegCloses
    <3>2. v.run = TRUE /\ v.next = n + 1 /\ v.open = FALSE
      BY DEF Started, NoFfmpeg
    <3>3. w.run = TRUE
      BY <1>a, <2>0
    <3> QED
      BY <3>1, <3>2, <3>3
  <2>4. /\ g \in [Segments -> Bytes] /\ g[n] = b
        /\ \A i \in Segments \ {n} : g[i] = disk[c].seg[i]
    BY <1>0, <2>0 DEF Bytes
  <2>5. disk' = [disk EXCEPT ![c] = [listed |-> n, seg |-> g]]
    BY <2>1
  <2> HIDE DEF g, v
  <2>6. /\ ffmpeg' \in [Processes -> [Contents -> Ffmpegs]] /\ ffmpeg'[k][c] = v
        /\ \A j \in Processes, d \in Contents : j # k \/ d # c => ffmpeg'[j][d] = ffmpeg[j][d]
    BY <1>0, <2>2, <2>3, FfmpegUpdate
  <2>7. [listed |-> n, seg |-> g] \in Renditions
    BY <1>a, <2>4, RenditionRecord
  <2>8. /\ disk'[c].seg = g /\ disk'[c].listed = n
        /\ \A d \in Contents \ {c} : disk'[d] = disk[d]
    BY <1>0, <1>a, <2>4, <2>5, RenditionRecord
  <2>9. disk' \in [Contents -> Renditions]
    BY <1>0, <2>5, <2>7
  <2>10. FfmpegOK(c)'
    <3>1. \A j \in Processes : /\ ffmpeg'[j][c].run = ffmpeg[j][c].run
                               /\ j # k => ffmpeg'[j][c] = ffmpeg[j][c]
      BY <2>3, <2>6
    <3> QED
      BY <1>0, <2>2, <2>3, <2>6, <3>1 DEF FfmpegOK
  <2>11. job[c].st # "none" /\ ~job[c].leftover =>
            k = restarts /\ n = disk[c].listed + 1 /\ b = "whole"
    <3> SUFFICES ASSUME job[c].st # "none", ~job[c].leftover
                 PROVE  k = restarts /\ n = disk[c].listed + 1 /\ b = "whole"
      OBVIOUS
    <3>1. k = restarts /\ n = disk[c].listed + 1
      BY <1>0, <1>b, <2>0 DEF JobOK
    <3>2. \A j \in Processes \ {k} : ~ffmpeg[j][c].open
      BY <1>0, <3>1 DEF FfmpegOK
    <3>3. OnlyWriter(k, c)
      BY <3>2 DEF OnlyWriter
    <3> QED
      BY <2>1, <3>1, <3>3
  <2>12. JobOK(c)' /\ DiskOK(c)'
    <3>1. DiskOK(c)'
      BY <2>0, <2>8 DEF DiskOK
    <3>2. ASSUME job[c].st # "none", ~job[c].leftover, NEW i \in Segments, i <= n
          PROVE  g[i] = "whole"
      <4>0. n = disk[c].listed + 1 /\ i <= n
        BY <2>11, <3>2
      <4>a. i \in Nat /\ disk[c].listed \in Nat
        BY <1>0, SegmentFacts
      <4>1. i = n \/ (i # n /\ i <= disk[c].listed)
        BY <4>0, <4>a
      <4> QED
        BY <1>0, <2>4, <2>11, <3>2, <4>1 DEF JobOK
    <3>3. job[c].st # "none" /\ ~job[c].leftover =>
             ffmpeg'[restarts][c].next = n + 1 /\ \A i \in Segments : memo[c][i] # "torn"
      BY <1>0, <2>3, <2>6, <2>11 DEF JobOK
    <3>4. JobOK(c)'
      BY <1>0, <2>2, <2>8, <3>2, <3>3 DEF JobOK
    <3> QED
      BY <3>1, <3>4
  <2>13. \A d \in Contents \ {c} : FfmpegOK(d)' /\ JobOK(d)' /\ DiskOK(d)'
    BY <2>2, <2>6, <2>8, TitleStays
  <2>14. \A d \in Contents : job[d].st # "none" /\ ~job[d].leftover =>
            disk[d].listed <= disk'[d].listed
    <3>1. disk[c].listed <= disk[c].listed + 1
      BY <1>0
    <3>2. \A d \in Contents \ {c} : disk[d].listed <= disk'[d].listed
      BY <1>0, <2>8, ListedStays
    <3> QED
      BY <2>8, <2>11, <3>1, <3>2
  <2>15. \A r \in Readers : ReaderOK(r)'
    BY <2>2, <2>9, <2>14, ReadersStay
  <2> QED
    BY <2>2, <2>6, <2>9, <2>10, <2>12, <2>13, <2>15 DEF MediaInv, MediaTypes
<1>3. CASE OrphanEnds(k, c)
  <2>1. /\ ffmpeg' = [ffmpeg EXCEPT ![k] = [ffmpeg[k] EXCEPT ![c] = NoFfmpeg]] /\ k # restarts
        /\ UNCHANGED <<job, disk, memo, reader, restarts>>
    BY <1>3 DEF OrphanEnds, Ended
  <2>2. /\ ffmpeg' \in [Processes -> [Contents -> Ffmpegs]] /\ ffmpeg'[k][c] = NoFfmpeg
        /\ \A j \in Processes, d \in Contents : j # k \/ d # c => ffmpeg'[j][d] = ffmpeg[j][d]
    BY <1>0, <2>1, FfmpegRecord, FfmpegUpdate
  <2>3. FfmpegOK(c)'
    <3>1. \A j \in Processes \ {k} : ffmpeg'[j][c] = ffmpeg[j][c]
      BY <2>2
    <3> QED
      BY <1>0, <2>1, <2>2, <3>1, FfmpegRecord DEF FfmpegOK
  <2>4. JobOK(c)' /\ DiskOK(c)'
    BY <1>0, <2>1, <2>2 DEF JobOK, DiskOK
  <2>5. \A d \in Contents \ {c} : FfmpegOK(d)' /\ JobOK(d)' /\ DiskOK(d)'
    BY <2>1, <2>2, TitleStays
  <2>6. \A r \in Readers : ReaderOK(r)'
    BY <2>1 DEF MediaInv, ReaderOK
  <2> QED
    BY <2>1, <2>2, <2>3, <2>4, <2>5, <2>6 DEF MediaInv, MediaTypes
<1> QED
  BY <1>1, <1>2, <1>3

\* A process without jobs over whatever the cache directory holds.
LEMMA FreshEngine ==
    ASSUME job' = [c \in Contents |-> NoJob], memo' = [c \in Contents |-> NoHashes],
           reader' = [r \in Readers |-> NotReading], disk' \in [Contents -> Renditions],
           restarts' \in Processes, ffmpeg' \in [Processes -> [Contents -> Ffmpegs]],
           \A c \in Contents : FfmpegOK(c)' /\ DiskOK(c)'
    PROVE  MediaInv'
<1>1. MediaTypes'
  BY JobRecord, ReaderRecord, SegmentFacts DEF MediaTypes
<1>2. \A c \in Contents : JobOK(c)'
  BY JobRecord, SegmentFacts DEF JobOK
<1>3. \A r \in Readers : ReaderOK(r)'
  BY ReaderRecord DEF ReaderOK
<1> QED
  BY <1>1, <1>2, <1>3 DEF MediaInv

LEMMA MediaInit ==
    ASSUME Init
    PROVE  MediaInv
<1>1. 0 \in 0..LastSeg
  BY HostLibraryAssumption
<1>2. MediaTypes
  BY JobRecord, FfmpegRecord, ProcessFacts, ReaderRecord, SegmentFacts, RenditionRecord
  DEF Init, MediaTypes
<1>a. \A k \in Processes, c \in Contents : ~ffmpeg[k][c].run /\ ~ffmpeg[k][c].open
  BY FfmpegRecord DEF Init
<1>b. restarts \in Processes
  BY <1>2 DEF MediaTypes
<1>c. \A c \in Contents : FfmpegOK(c)
  BY <1>a, <1>b DEF FfmpegOK
<1>3. \A c \in Contents : JobOK(c) /\ DiskOK(c)
  BY <1>1, JobRecord, SegmentFacts, RenditionRecord DEF Init, JobOK, DiskOK
<1>4. \A r \in Readers : ReaderOK(r)
  BY ReaderRecord DEF Init, ReaderOK
<1> QED
  BY <1>2, <1>c, <1>3, <1>4 DEF MediaInv

LEMMA MediaStep ==
    ASSUME MediaInv, [Next]_vars
    PROVE  MediaInv'
<1>0. Streamed \subseteq Contents
  BY HostLibraryAssumption
<1>1. ASSUME NEW r \in Readers, NEW c \in Streamed, OpenPlaylist(r, c)
      PROVE  MediaInv'
  <2> DEFINE y == [NotReading EXCEPT !.pc = "read", !.of = c]
  <2>1. /\ NewJob(c) /\ UNCHANGED <<disk, memo, restarts>> /\ c \in Contents
        /\ reader' = [reader EXCEPT ![r] = y]
    BY <1>0, <1>1 DEF OpenPlaylist
  <2>2. /\ job' \in [Contents -> Jobs] /\ ffmpeg' \in [Processes -> [Contents -> Ffmpegs]]
        /\ \A d \in Contents : FfmpegOK(d)' /\ JobOK(d)' /\ DiskOK(d)'
        /\ job'[c].st # "none"
        /\ \A d \in Contents : job[d].st # "none" => job'[d] = job[d]
    BY <2>1, EnsureJob
  <2>3. y \in ReaderStates
    BY <2>1, ReaderRecord
  <2>4. y.pc = "read" /\ y.of = c
    BY DEF NotReading
  <2> HIDE DEF y
  <2>5. /\ reader' \in [Readers -> ReaderStates] /\ reader'[r] = y
        /\ \A q \in Readers \ {r} : reader'[q] = reader[q]
    BY <2>1, <2>3 DEF MediaInv, MediaTypes
  <2>6. ReaderOK(r)'
    BY <2>1, <2>2, <2>4, <2>5 DEF ReaderOK
  <2>7. disk \in [Contents -> Renditions] /\ \A d \in Contents : disk[d].listed <= disk[d].listed
    BY ListedStays DEF MediaInv, MediaTypes
  <2>8. \A q \in Readers \ {r} : ReaderOK(q)'
    BY <2>1, <2>2, <2>5, <2>7, ReadersStay
  <2> QED
    BY <2>1, <2>2, <2>5, <2>6, <2>8 DEF MediaInv, MediaTypes
<1>2. ASSUME NEW r \in Readers, ReadPlaylist(r) \/ HashSegment(r) \/ MemoSegment(r)
      PROVE  MediaInv'
  BY <1>2, ReaderStep
<1>3. ASSUME NEW c \in Streamed,
             \/ Segment(c) \/ EndJob(c)
             \/ \E k \in Processes : OpenSegment(k, c) \/ CloseSegment(k, c) \/ OrphanEnds(k, c)
      PROVE  MediaInv'
  BY <1>0, <1>3, EngineStep, WriterStep
<1>4. CASE Restart
  <2>1. /\ job' = [c \in Contents |-> NoJob] /\ memo' = [c \in Contents |-> NoHashes]
        /\ reader' = [r \in Readers |-> NotReading] /\ disk' = disk
    BY <1>4 DEF Restart, StartProcess
  <2>2. disk' \in [Contents -> Renditions] /\ \A c \in Contents : DiskOK(c)'
    BY <2>1 DEF MediaInv, MediaTypes, DiskOK
  <2>3. /\ restarts \in Nat /\ restarts \in Processes /\ restarts' = restarts + 1
        /\ restarts' \in Processes
        /\ ffmpeg \in [Processes -> [Contents -> Ffmpegs]]
    BY <1>4, ProcessFacts, HostLibraryAssumption DEF Restart, MediaInv, MediaTypes
  <2>4. PICK orphans \in SUBSET Streamed :
           ffmpeg' = [ffmpeg EXCEPT ![restarts] =
                         [c \in Contents |-> IF c \in orphans THEN ffmpeg[restarts][c] ELSE NoFfmpeg]]
    BY <1>4 DEF Restart
  <2>5. [c \in Contents |-> IF c \in orphans THEN ffmpeg[restarts][c] ELSE NoFfmpeg]
          \in [Contents -> Ffmpegs]
    BY <2>3, FfmpegRecord
  <2>6. ffmpeg' \in [Processes -> [Contents -> Ffmpegs]]
    BY <2>3, <2>4, <2>5
  <2>7. \A k \in Processes, c \in Contents :
           ffmpeg'[k][c] = ffmpeg[k][c] \/ ffmpeg'[k][c] = NoFfmpeg
    BY <2>3, <2>4
  <2>8. \A c \in Contents : FfmpegOK(c)'
    <3> SUFFICES ASSUME NEW c \in Contents
                 PROVE  FfmpegOK(c)'
      OBVIOUS
    <3>1. FfmpegOK(c)
      BY DEF MediaInv
    <3>2. \A k \in Processes : k > restarts' => k > restarts
      BY <2>3, ProcessFacts
    <3>3. \A k \in Processes : k > restarts => ~ffmpeg'[k][c].run
      BY <2>7, <3>1, FfmpegRecord DEF FfmpegOK
    <3>4. restarts' > restarts
      BY <2>3
    <3>5. \A k \in Processes :
             ffmpeg'[k][c].open => ffmpeg'[k][c].run /\ ffmpeg'[k][c].next \in Segments
      BY <2>7, <3>1, FfmpegRecord DEF FfmpegOK
    <3>6. job'[c].st = "none"
      BY <2>1, JobRecord
    <3> QED
      BY <2>3, <3>2, <3>3, <3>4, <3>5, <3>6 DEF FfmpegOK
  <2> QED
    BY <2>1, <2>2, <2>3, <2>6, <2>8, FreshEngine
<1>5. ASSUME UNCHANGED <<media, restarts>>
      PROVE  MediaInv'
  BY <1>5 DEF media, MediaInv, MediaTypes, FfmpegOK, JobOK, DiskOK, ReaderOK
<1>6. ASSUME NEW p \in Paths,
             \/ RemoveFile(p)
             \/ \E c \in Contents, st \in Stamps : ChangeFile(p, c, st)
      PROVE  MediaInv'
  BY <1>5, <1>6 DEF ChangeFile, RemoveFile, Reported
<1>7. ASSUME NEW s \in Scans, ScanStep(s)
      PROVE  UNCHANGED <<media, restarts>>
  BY <1>7 DEF ScanStep, SkipMissing, SkipUnchanged, StatFile, HashFile, Probe, Upsert, EndScan,
              TimerFires
<1>8. CASE ScanTimeout \/ StartWatch \/ TakeEvent \/ UNCHANGED vars
  BY <1>5, <1>8 DEF ScanTimeout, StartWatch, TakeEvent, vars
<1> QED
  BY <1>1, <1>2, <1>3, <1>4, <1>5, <1>6, <1>7, <1>8 DEF Next

LEMMA MediaAlways == Spec => []MediaInv
<1>1. Init => MediaInv
  BY MediaInit
<1>2. MediaInv /\ [Next]_vars => MediaInv'
  BY MediaStep
<1> QED
  BY <1>1, <1>2, PTL DEF Spec

\* The index, the scans, the jobs and the cache directory keep their types through
\* changes, concurrent scans and restarts.
THEOREM TypeCorrect == Spec => []TypeOK
<1>1. HonestInv /\ MediaInv => TypeOK
  BY DEF HonestInv, MediaInv, IndexTypes, MediaTypes, TypeOK
<1> QED
  BY <1>1, HonestAlways, MediaAlways, PTL

\* No playlist names the hash of a Segment that ffmpeg had not finished, except over
\* a directory that an earlier process left with a playlist or with an ffmpeg at work.
THEOREM HashesWhole == Spec => []HashOfWholeSegment
<1>1. ASSUME MediaInv
      PROVE  HashOfWholeSegment
  <2> SUFFICES ASSUME NEW c \in Contents, NEW i \in Segments, memo[c][i] = "torn"
               PROVE  job[c].leftover
    BY DEF HashOfWholeSegment
  <2>1. JobOK(c)
    BY <1>1 DEF MediaInv
  <2>2. job[c].st # "none"
    BY <2>1 DEF JobOK
  <2> QED
    BY <2>1, <2>2 DEF JobOK
<1> QED
  BY <1>1, MediaAlways, PTL


-----------------------------------------------------------------------------
\* Access: the inductive invariant

\* A handler at work was wired, and one that passed the policy's check still
\* would: the allow-list only grows.
CheckedBefore ==
    \A v \in Nodes : /\ handler[v] # "idle" => wired
                     /\ handler[v] = "serve" => Allowed(v)

\* The call that is about to tell a Node has allowed it.
AllowedBeforeTold == \A p \in Pages : page[p].click = "grant" => page[p].node \in allow

AccessInv == AccessTypeOK /\ CheckedBefore /\ AllowedBeforeTold /\ GrantHonest /\ OnlyTheAllowedSee

-----------------------------------------------------------------------------
\* Access: the records of a page and of a subscription

\* What a step writes into a page is a page's state again.
LEMMA PageUpdates ==
    ASSUME NEW s \in PageStates
    PROVE  /\ Fetch(s) \in PageStates
           /\ \A pc \in {"closed", "loading", "loaded", "live", "cut"} :
                 [s EXCEPT !.pc = pc] \in PageStates
           /\ \A what \in {"none", "approve", "allow", "grant", "reject"}, v \in Nodes \cup {"none"} :
                 [s EXCEPT !.click = what, !.node = v] \in PageStates
           /\ \A what \in {"approve", "allow", "grant", "reject"} :
                 [s EXCEPT !.click = what] \in PageStates
<1>0. s.fetches + 1 \in Nat /\ s.asked \cup {s.fetches + 1} \in SUBSET Nat
  BY DEF PageStates
<1>a. \A n \in Nat, a \in SUBSET Nat : [s EXCEPT !.fetches = n, !.asked = a] \in PageStates
  BY DEF PageStates
<1>1. Fetch(s) \in PageStates
  BY <1>0, <1>a DEF Fetch
<1>2. \A pc \in {"closed", "loading", "loaded", "live", "cut"} : [s EXCEPT !.pc = pc] \in PageStates
  BY DEF PageStates
<1>3. \A what \in {"none", "approve", "allow", "grant", "reject"}, v \in Nodes \cup {"none"} :
        [s EXCEPT !.click = what, !.node = v] \in PageStates
  BY DEF PageStates
<1>4. \A what \in {"approve", "allow", "grant", "reject"} : [s EXCEPT !.click = what] \in PageStates
  BY DEF PageStates
<1> QED BY <1>1, <1>2, <1>3, <1>4

\* The updates that leave what the user clicked alone.
LEMMA ClickKept ==
    ASSUME NEW s \in PageStates
    PROVE  /\ Fetch(s).click = s.click /\ Fetch(s).node = s.node
           /\ \A pc : /\ [s EXCEPT !.pc = pc].click = s.click
                      /\ [s EXCEPT !.pc = pc].node = s.node
BY DEF PageStates, Fetch

\* A cleared click, and the fetch that follows it.
LEMMA ResolvedPage ==
    ASSUME NEW s \in PageStates
    PROVE  LET f == Fetch([s EXCEPT !.click = "none", !.node = "none"]) IN
           f \in PageStates /\ f.click = "none" /\ f.node = "none"
<1> DEFINE c == [s EXCEPT !.click = "none", !.node = "none"]
<1>1. c \in PageStates /\ c.click = "none" /\ c.node = "none"
  BY DEF PageStates
<1> HIDE DEF c
<1>2. Fetch(c) \in PageStates /\ Fetch(c).click = "none" /\ Fetch(c).node = "none"
  BY <1>1, PageUpdates, ClickKept
<1> QED BY <1>2 DEF c

-----------------------------------------------------------------------------
\* Access: types

\* The part of the type invariant that the host's handlers change.
HandlerTypes ==
    /\ wired \in BOOLEAN
    /\ allow \in SUBSET Nodes
    /\ pending \in SUBSET Nodes
    /\ toHost \in [Nodes -> {"none", "query", "ask"}]
    /\ handler \in [Nodes -> {"idle", "serve", "add", "told"}]
    /\ \A v \in Nodes : handler[v] # "idle" => toHost[v] # "none" /\ wired
    /\ toNode \in [Nodes -> Answers \cup {"none"}]

\* The part the pages change.
PageTypes ==
    /\ page \in [Pages -> PageStates]
    /\ \A p \in Pages : page[p].click = "none" <=> page[p].node = "none"

\* The part the hub and the pumps change.
SubTypes ==
    /\ sub \in [Pages -> SubStates]
    /\ \A p \in Pages : Len(sub[p].C) <= Buffer /\ Len(sub[p].out) <= Buffer /\ Len(sub[p].hold) <= 1

CountTypes ==
    /\ calls \in 0..MaxCalls
    /\ others \in 0..MaxOther
    /\ letDown \in SUBSET Pages

AccessTypes == HandlerTypes /\ PageTypes /\ SubTypes /\ CountTypes

\* One page takes a new state.
LEMMA PageTyped ==
    ASSUME PageTypes, NEW p \in Pages, NEW s \in PageStates,
           s.click = "none" <=> s.node = "none",
           page' = [page EXCEPT ![p] = s]
    PROVE  PageTypes'
BY DEF PageTypes

\* One subscription takes a new state.
LEMMA SubTyped ==
    ASSUME SubTypes, NEW p \in Pages, NEW s \in SubStates,
           Len(s.C) <= Buffer, Len(s.out) <= Buffer, Len(s.hold) <= 1,
           sub' = [sub EXCEPT ![p] = s]
    PROVE  SubTypes'
BY DEF SubTypes

\* A subscription's channels keep within their capacity when an event is
\* queued, taken or handed on.
LEMMA Channels ==
    ASSUME NEW s \in SubStates, Len(s.C) <= Buffer, Len(s.out) <= Buffer, Len(s.hold) <= 1
    PROVE  /\ Len(s.C) < Buffer => \A e \in Events :
                LET n == [s EXCEPT !.C = Append(@, e)] IN
                n \in SubStates /\ Len(n.C) <= Buffer /\ n.out = s.out /\ n.hold = s.hold
           /\ s.C # <<>> =>
                LET n == [s EXCEPT !.C = Tail(@), !.hold = <<Head(s.C)>>] IN
                n \in SubStates /\ Len(n.C) <= Buffer /\ n.out = s.out /\ Len(n.hold) <= 1
           /\ Len(s.out) < Buffer =>
                LET n == [s EXCEPT !.hold = <<>>, !.out = @ \o s.hold] IN
                n \in SubStates /\ Len(n.out) <= Buffer /\ n.C = s.C /\ Len(n.hold) <= 1
           /\ s.out # <<>> =>
                LET n == [s EXCEPT !.out = Tail(@)] IN
                n \in SubStates /\ Len(n.out) <= Buffer /\ n.C = s.C /\ n.hold = s.hold
<1>0. /\ s.C \in Seq(Events) /\ s.hold \in Seq(Events) /\ s.out \in Seq(Events)
      /\ Buffer \in Nat
  BY AccessAssumption DEF SubStates
<1>1. Len(s.C) < Buffer => \A e \in Events :
        Append(s.C, e) \in Seq(Events) /\ Len(Append(s.C, e)) <= Buffer
  BY <1>0
<1>2. s.C # <<>> => /\ Tail(s.C) \in Seq(Events) /\ Len(Tail(s.C)) <= Buffer
                    /\ <<Head(s.C)>> \in Seq(Events) /\ Len(<<Head(s.C)>>) <= 1
  BY <1>0
<1>3. Len(s.out) < Buffer => s.out \o s.hold \in Seq(Events) /\ Len(s.out \o s.hold) <= Buffer
  <2>1. s.out \o s.hold \in Seq(Events) /\ Len(s.out \o s.hold) = Len(s.out) + Len(s.hold)
    BY <1>0
  <2>2. Len(s.out) \in Nat /\ Len(s.hold) \in Nat
    BY <1>0
  <2>3. \A a, b, n \in Nat : a < n /\ b <= 1 => a + b <= n
    OBVIOUS
  <2> QED BY <1>0, <2>1, <2>2, <2>3
<1>4. s.out # <<>> => Tail(s.out) \in Seq(Events) /\ Len(Tail(s.out)) <= Buffer
  BY <1>0
<1>5. <<>> \in Seq(Events) /\ Len(<<>>) <= 1
  OBVIOUS
<1>6. /\ \A q \in Seq(Events) : LET n == [s EXCEPT !.C = q] IN
            n \in SubStates /\ n.C = q /\ n.out = s.out /\ n.hold = s.hold
      /\ \A q \in Seq(Events) : LET n == [s EXCEPT !.out = q] IN
            n \in SubStates /\ n.out = q /\ n.C = s.C /\ n.hold = s.hold
  BY DEF SubStates
<1>a. Len(s.C) < Buffer => \A e \in Events :
        LET n == [s EXCEPT !.C = Append(@, e)] IN
        n \in SubStates /\ Len(n.C) <= Buffer /\ n.out = s.out /\ n.hold = s.hold
  BY <1>1, <1>6
<1>b. s.C # <<>> =>
        LET n == [s EXCEPT !.C = Tail(@), !.hold = <<Head(s.C)>>] IN
        n \in SubStates /\ Len(n.C) <= Buffer /\ n.out = s.out /\ Len(n.hold) <= 1
  <2> DEFINE c == Tail(s.C)
             h == <<Head(s.C)>>
  <2>1. s.C # <<>> => /\ c \in Seq(Events) /\ Len(c) <= Buffer
                      /\ h \in Seq(Events) /\ Len(h) <= 1
    BY <1>2
  <2> HIDE DEF c, h
  <2>2. s.C # <<>> => LET n == [s EXCEPT !.C = c, !.hold = h] IN
          n \in SubStates /\ Len(n.C) <= Buffer /\ n.out = s.out /\ Len(n.hold) <= 1
    BY <2>1 DEF SubStates
  <2> QED BY <2>2 DEF c, h
<1>c. Len(s.out) < Buffer =>
        LET n == [s EXCEPT !.hold = <<>>, !.out = @ \o s.hold] IN
        n \in SubStates /\ Len(n.out) <= Buffer /\ n.C = s.C /\ Len(n.hold) <= 1
  <2> DEFINE o == s.out \o s.hold
             h == <<>>
  <2>1. Len(s.out) < Buffer => o \in Seq(Events) /\ Len(o) <= Buffer
    BY <1>3
  <2>2. h \in Seq(Events) /\ Len(h) <= 1
    BY <1>5
  <2> HIDE DEF o, h
  <2>3. Len(s.out) < Buffer => LET n == [s EXCEPT !.hold = h, !.out = o] IN
          n \in SubStates /\ Len(n.out) <= Buffer /\ n.C = s.C /\ Len(n.hold) <= 1
    BY <2>1, <2>2 DEF SubStates
  <2> QED BY <2>3 DEF o, h
<1>d. s.out # <<>> =>
        LET n == [s EXCEPT !.out = Tail(@)] IN
        n \in SubStates /\ Len(n.out) <= Buffer /\ n.C = s.C /\ n.hold = s.hold
  BY <1>4, <1>6
<1> QED BY <1>a, <1>b, <1>c, <1>d

\* hub.publish keeps every channel within its capacity.
LEMMA PublishTyped ==
    ASSUME SubTypes, CountTypes, NEW e \in Events, Publish(e)
    PROVE  SubTypes' /\ letDown' \in SUBSET Pages
<1>1. ASSUME NEW p \in Pages
      PROVE  /\ sub'[p] \in SubStates
             /\ Len(sub'[p].C) <= Buffer /\ Len(sub'[p].out) <= Buffer /\ Len(sub'[p].hold) <= 1
  <2>1. CASE HasRoom(p)
    <3>1. sub'[p] = [sub[p] EXCEPT !.C = Append(@, e)]
      BY <2>1 DEF Publish
    <3>2. sub[p] \in SubStates /\ Len(sub[p].C) <= Buffer /\ Len(sub[p].out) <= Buffer
          /\ Len(sub[p].hold) <= 1 /\ Len(sub[p].C) < Buffer
      BY <2>1 DEF SubTypes, HasRoom
    <3>3. LET n == [sub[p] EXCEPT !.C = Append(@, e)] IN
          n \in SubStates /\ Len(n.C) <= Buffer /\ n.out = sub[p].out /\ n.hold = sub[p].hold
      BY <3>2, Channels
    <3> QED BY <3>1, <3>2, <3>3
  <2>2. CASE ~HasRoom(p)
    BY <2>2 DEF Publish, SubTypes
  <2> QED BY <2>1, <2>2
<1>2. DOMAIN sub' = Pages /\ sub' = [p \in Pages |-> sub'[p]]
  BY DEF Publish
<1>3. letDown' \in SUBSET Pages
  BY DEF Publish, CountTypes
<1> QED BY <1>1, <1>2, <1>3 DEF SubTypes

\* The handlers, one step each.
LEMMA HandlerStep ==
    ASSUME HandlerTypes, NEW v \in Nodes,
           \/ \E what \in {"query", "ask"} : Call(v, what)
           \/ Serving(v)
    PROVE  HandlerTypes'
<1>0. "denied" \in Answers /\ "unavailable" \in Answers /\ "ack" \in Answers
      /\ "data" \in Answers /\ "notfound" \in Answers /\ "error" \in Answers
  BY DEF Answers
<1>1. CASE \E what \in {"query", "ask"} : Call(v, what)
  BY <1>1 DEF HandlerTypes, Call, hostVars
<1>2. CASE NoHandler(v)
  BY <1>2, <1>0 DEF HandlerTypes, NoHandler, Answer, hostVars
<1>3. CASE Check(v)
  BY <1>3, <1>0 DEF HandlerTypes, Check, Answer, hostVars
<1>4. CASE Serve(v)
  BY <1>4, <1>0 DEF HandlerTypes, Serve, Answer, hostVars
<1>5. CASE Add(v)
  BY <1>5 DEF HandlerTypes, Add
<1>6. CASE OnAdd(v)
  BY <1>6 DEF HandlerTypes, OnAdd, hostVars
<1>7. CASE Ack(v)
  BY <1>7, <1>0 DEF HandlerTypes, Ack, Answer
<1> QED BY <1>1, <1>2, <1>3, <1>4, <1>5, <1>6, <1>7 DEF Serving

\* What a call of the owner does to its page: the next step of the approval, or
\* a cleared click.
LEMMA ContinueTyped ==
    ASSUME PageTypes, NEW p \in Pages, page[p].click \in {"approve", "allow", "grant"},
           Continue(p)
    PROVE  /\ PageTypes'
           /\ \A q \in Pages \ {p} : page'[q] = page[q]
           /\ page[p].click = "approve" => page'[p].click = "allow"
           /\ page[p].click = "allow" => page'[p].click = "grant" /\ page'[p].node = page[p].node
           /\ page[p].click = "grant" => page'[p].click = "none"
<1>0. page[p] \in PageStates /\ page[p].node \in Nodes /\ page \in [Pages -> PageStates]
  <2>1. page[p] \in PageStates /\ page[p].node # "none" /\ page \in [Pages -> PageStates]
    BY DEF PageTypes
  <2> QED BY <2>1 DEF PageStates
<1>1. CASE page[p].click = "grant"
  <2> DEFINE s == Fetch([page[p] EXCEPT !.click = "none", !.node = "none"])
  <2>1. page' = [page EXCEPT ![p] = s]
    BY <1>1 DEF Continue, ApproveSteps, Resolved
  <2>2. s \in PageStates /\ s.click = "none" /\ s.node = "none"
    BY <1>0, ResolvedPage
  <2> HIDE DEF s
  <2>3. page'[p] = s /\ \A q \in Pages \ {p} : page'[q] = page[q]
    BY <1>0, <2>1
  <2>4. PageTypes'
    BY <2>1, <2>2, PageTyped
  <2> QED BY <1>1, <2>2, <2>3, <2>4
<1>2. ASSUME page[p].click # "grant"
      PROVE  LET next == IF page[p].click = "approve" THEN "allow" ELSE "grant"
                 s == [page[p] EXCEPT !.click = next] IN
             page' = [page EXCEPT ![p] = s] /\ s \in PageStates /\ s.click = next
             /\ s.node = page[p].node
  <2> DEFINE next == IF page[p].click = "approve" THEN "allow" ELSE "grant"
  <2>1. ApproveSteps[page[p].click] = next /\ next \in {"allow", "grant"} /\ next # "none"
    BY <1>2 DEF ApproveSteps
  <2> HIDE DEF next
  <2>2. page' = [page EXCEPT ![p] = [page[p] EXCEPT !.click = next]]
    BY <2>1, <1>0 DEF Continue
  <2>3. LET s == [page[p] EXCEPT !.click = next] IN
        s \in PageStates /\ s.click = next /\ s.node = page[p].node
    BY <2>1, <1>0 DEF PageStates
  <2> QED BY <2>2, <2>3 DEF next
<1>3. CASE page[p].click # "grant"
  <2> DEFINE next == IF page[p].click = "approve" THEN "allow" ELSE "grant"
             s == [page[p] EXCEPT !.click = next]
  <2>1. page' = [page EXCEPT ![p] = s] /\ s \in PageStates /\ s.click = next /\ s.node = page[p].node
    BY <1>2, <1>3
  <2>2. next # "none" /\ (page[p].click = "approve" => next = "allow")
        /\ (page[p].click = "allow" => next = "grant")
    OBVIOUS
  <2> HIDE DEF s, next
  <2>3. s.click # "none" /\ s.node # "none"
    BY <2>1, <2>2, <1>0, AccessAssumption
  <2>4. PageTypes'
    BY <2>1, <2>3, PageTyped
  <2>5. page'[p] = s /\ \A q \in Pages \ {p} : page'[q] = page[q]
    BY <1>0, <2>1
  <2> QED BY <1>3, <2>1, <2>2, <2>4, <2>5
<1> QED BY <1>1, <1>3

\* A page that was told fetches again, and a click is cleared with its Node.
LEMMA ResolvedTyped ==
    ASSUME PageTypes, NEW p \in Pages, Resolved(p)
    PROVE  /\ PageTypes'
           /\ page'[p].click = "none"
           /\ \A q \in Pages \ {p} : page'[q] = page[q]
<1>0. page[p] \in PageStates /\ page \in [Pages -> PageStates]
  BY DEF PageTypes
<1> DEFINE s == Fetch([page[p] EXCEPT !.click = "none", !.node = "none"])
<1>1. page' = [page EXCEPT ![p] = s]
  BY DEF Resolved
<1>2. s \in PageStates /\ s.click = "none" /\ s.node = "none"
  BY <1>0, ResolvedPage
<1> HIDE DEF s
<1> QED BY <1>0, <1>1, <1>2, PageTyped

\* A call that failed clears the click and fetches nothing.
LEMMA FailedTyped ==
    ASSUME PageTypes, NEW p \in Pages, Failed(p)
    PROVE  /\ PageTypes'
           /\ page'[p].click = "none"
           /\ \A q \in Pages \ {p} : page'[q] = page[q]
<1>0. page[p] \in PageStates /\ page \in [Pages -> PageStates]
  BY DEF PageTypes
<1> DEFINE s == [page[p] EXCEPT !.click = "none", !.node = "none"]
<1>1. page' = [page EXCEPT ![p] = s]
  BY <1>0 DEF Failed
<1>2. s \in PageStates /\ s.click = "none" /\ s.node = "none"
  BY <1>0 DEF PageStates
<1> HIDE DEF s
<1> QED BY <1>0, <1>1, <1>2, PageTyped

\* What every page shows of its user's click stays as it was.
ClicksKept == \A q \in Pages : page'[q].click = page[q].click /\ page'[q].node = page[q].node

\* One page takes a new state with the same click.
LEMMA PageKeepsClick ==
    ASSUME PageTypes, NEW p \in Pages, NEW s \in PageStates,
           s.click = page[p].click, s.node = page[p].node,
           page' = [page EXCEPT ![p] = s]
    PROVE  PageTypes' /\ ClicksKept
<1>1. s.click = "none" <=> s.node = "none"
  BY DEF PageTypes
<1>2. PageTypes'
  BY <1>1, PageTyped
<1>3. page \in [Pages -> PageStates]
  BY DEF PageTypes
<1> QED BY <1>2, <1>3 DEF ClicksKept

\* Loading, streaming and leaving change a page, never its user's click.
LEMMA PageStep ==
    ASSUME PageTypes, HandlerTypes, NEW p \in Pages,
           Open(p) \/ Cut(p) \/ Close(p) \/ Streaming(p) \/ Fetching(p)
    PROVE  PageTypes' /\ ClicksKept
<1>0. page[p] \in PageStates /\ page \in [Pages -> PageStates] /\ pending \in SUBSET Nodes
  BY DEF PageTypes, HandlerTypes
<1> DEFINE P == page[p]
<1>1. CASE Open(p)
  <2> DEFINE o == [page[p] EXCEPT !.pc = "loading", !.last = page[p].fetches]
  <2>1. o \in PageStates /\ o.click = page[p].click /\ o.node = page[p].node
    BY <1>0 DEF PageStates
  <2>2. page' = [page EXCEPT ![p] = Fetch(o)]
    BY <1>1 DEF Open
  <2> HIDE DEF o
  <2>3. Fetch(o) \in PageStates /\ Fetch(o).click = page[p].click /\ Fetch(o).node = page[p].node
    BY <2>1, PageUpdates, ClickKept
  <2> QED BY <2>2, <2>3, PageKeepsClick
<1>2. ASSUME NEW pc \in {"cut", "live"}, page' = [page EXCEPT ![p].pc = pc]
      PROVE  PageTypes' /\ ClicksKept
  <2> DEFINE s == [page[p] EXCEPT !.pc = pc]
  <2>1. s \in PageStates /\ s.click = page[p].click /\ s.node = page[p].node
    BY <1>0, PageUpdates, ClickKept
  <2>2. page' = [page EXCEPT ![p] = s]
    BY <1>2
  <2> HIDE DEF s
  <2> QED BY <2>1, <2>2, PageKeepsClick
<1>3. CASE Cut(p)
  BY <1>2, <1>3 DEF Cut
<1>4. CASE Subscribe(p)
  BY <1>2, <1>4 DEF Subscribe
<1>5. CASE Close(p)
  <2> DEFINE s == [Closed EXCEPT !.fetches = page[p].fetches]
  <2>1. page[p].fetches \in Nat /\ page[p].click = "none"
    BY <1>0, <1>5 DEF PageStates, Close
  <2>2. page[p].node = "none"
    BY <2>1 DEF PageTypes
  <2>3. s \in PageStates /\ s.click = "none" /\ s.node = "none"
    BY <2>1 DEF Closed, PageStates
  <2>4. page' = [page EXCEPT ![p] = s]
    BY <1>5 DEF Close
  <2> HIDE DEF s
  <2> QED BY <2>1, <2>2, <2>3, <2>4, PageKeepsClick
<1>6. CASE Write(p)
  <2> DEFINE s == IF Head(sub[p].out) = "request" THEN Fetch(page[p]) ELSE page[p]
  <2>1. page' = [page EXCEPT ![p] = s]
    BY <1>6 DEF Write
  <2>2. s \in PageStates /\ s.click = page[p].click /\ s.node = page[p].node
    BY <1>0, PageUpdates, ClickKept
  <2> HIDE DEF s
  <2> QED BY <2>1, <2>2, PageKeepsClick
<1>7. ASSUME NEW k \in page[p].asked, PendingRequests(p, k)
      PROVE  PageTypes' /\ ClicksKept
  <2> DEFINE s == [page[p] EXCEPT !.asked = @ \ {k}, !.landing = @ \cup {<<k, pending>>}]
  <2>1. k \in Nat /\ <<k, pending>> \in Nat \X SUBSET Nodes
    BY <1>0 DEF PageStates
  <2>2. s \in PageStates /\ s.click = page[p].click /\ s.node = page[p].node
    BY <1>0, <2>1 DEF PageStates
  <2>3. page' = [page EXCEPT ![p] = s]
    BY <1>0, <1>7 DEF PendingRequests
  <2> HIDE DEF s
  <2> QED BY <2>2, <2>3, PageKeepsClick
<1>8. ASSUME NEW a \in page[p].landing, Land(p, a)
      PROVE  PageTypes' /\ ClicksKept
  <2> DEFINE n == IF a[1] > page[p].last THEN a[1] ELSE page[p].last
             c == IF page[p].pc = "loading" THEN "loaded" ELSE page[p].pc
             s == [page[p] EXCEPT !.landing = @ \ {a}, !.shown = a[2], !.last = n, !.pc = c]
  <2>1. a \in Nat \X SUBSET Nodes
    BY <1>0 DEF PageStates
  <2>2. n \in Nat /\ a[2] \in SUBSET Nodes
    BY <1>0, <2>1 DEF PageStates
  <2>3. c \in {"closed", "loading", "loaded", "live", "cut"}
    BY <1>0 DEF PageStates
  <2>4. page' = [page EXCEPT ![p] = s]
    BY <1>0, <1>8 DEF Land
  <2> HIDE DEF n, c
  <2>5. s \in PageStates /\ s.click = page[p].click /\ s.node = page[p].node
    BY <1>0, <2>2, <2>3 DEF PageStates
  <2> HIDE DEF s
  <2> QED BY <2>4, <2>5, PageKeepsClick
<1> QED BY <1>1, <1>3, <1>4, <1>5, <1>6, <1>7, <1>8 DEF Streaming, Fetching

\* A user clicks on a request that the page shows.
LEMMA ClickTyped ==
    ASSUME PageTypes, NEW p \in Pages, NEW v \in Nodes, NEW what \in {"approve", "reject"},
           Click(p, v, what)
    PROVE  /\ PageTypes'
           /\ page'[p].click # "grant"
           /\ \A q \in Pages \ {p} : page'[q] = page[q]
<1>0. page[p] \in PageStates /\ page \in [Pages -> PageStates]
  BY DEF PageTypes
<1> DEFINE s == [page[p] EXCEPT !.click = what, !.node = v]
<1>1. page' = [page EXCEPT ![p] = s]
  BY <1>0 DEF Click
<1>2. s \in PageStates /\ s.click = what /\ s.node = v
  BY <1>0 DEF PageStates
<1> HIDE DEF s
<1>3. what \notin {"none", "grant"} /\ v # "none"
  BY AccessAssumption
<1> QED BY <1>0, <1>1, <1>2, <1>3, PageTyped

\* The pumps and the stream move events within the channels' capacities.
LEMMA SubStep ==
    ASSUME SubTypes, NEW p \in Pages,
           Open(p) \/ Cut(p) \/ Close(p) \/ Streaming(p) \/ Pump(p)
    PROVE  SubTypes'
<1>0. /\ sub[p] \in SubStates /\ sub \in [Pages -> SubStates] /\ Buffer \in Nat
      /\ Len(sub[p].C) <= Buffer /\ Len(sub[p].out) <= Buffer /\ Len(sub[p].hold) <= 1
  BY AccessAssumption DEF SubTypes
<1>1. NoSub \in SubStates /\ NoSub.C = <<>> /\ NoSub.out = <<>> /\ NoSub.hold = <<>>
      /\ Len(<<>>) <= Buffer /\ Len(<<>>) <= 1
  BY AccessAssumption DEF NoSub, SubStates
<1>2. CASE Open(p)
  BY <1>1, <1>2, SubTyped DEF Open
<1>3. ASSUME NEW on \in BOOLEAN, NEW pump \in BOOLEAN,
             sub' = [sub EXCEPT ![p] = [NoSub EXCEPT !.on = on, !.pump = pump]]
      PROVE  SubTypes'
  <2> DEFINE s == [NoSub EXCEPT !.on = on, !.pump = pump]
  <2>1. s \in SubStates /\ s.C = <<>> /\ s.out = <<>> /\ s.hold = <<>>
    BY <1>1 DEF SubStates
  <2>2. sub' = [sub EXCEPT ![p] = s]
    BY <1>3
  <2> HIDE DEF s
  <2> QED BY <1>1, <2>1, <2>2, SubTyped
<1>4. CASE Subscribe(p)
  BY <1>3, <1>4 DEF Subscribe
<1>5. ASSUME NEW s \in SubStates, s.C = sub[p].C, s.out = sub[p].out, s.hold = sub[p].hold,
             sub' = [sub EXCEPT ![p] = s]
      PROVE  SubTypes'
  BY <1>0, <1>5, SubTyped
<1>6. CASE Cancel(p)
  <2> DEFINE s == [sub[p] EXCEPT !.on = FALSE, !.done = TRUE]
  <2>1. s \in SubStates /\ s.C = sub[p].C /\ s.out = sub[p].out /\ s.hold = sub[p].hold
    BY <1>0 DEF SubStates
  <2>2. sub' = [sub EXCEPT ![p] = s]
    BY <1>0, <1>6 DEF Cancel
  <2> HIDE DEF s
  <2> QED BY <1>5, <2>1, <2>2
<1>7. CASE PumpEnd(p)
  <2> DEFINE s == [sub[p] EXCEPT !.pump = FALSE]
  <2>1. s \in SubStates /\ s.C = sub[p].C /\ s.out = sub[p].out /\ s.hold = sub[p].hold
    BY <1>0 DEF SubStates
  <2>2. sub' = [sub EXCEPT ![p] = s]
    BY <1>0, <1>7 DEF PumpEnd
  <2> HIDE DEF s
  <2> QED BY <1>5, <2>1, <2>2
<1>8. CASE PumpTake(p)
  <2> DEFINE s == [sub[p] EXCEPT !.C = Tail(@), !.hold = <<Head(sub[p].C)>>]
  <2>1. s \in SubStates /\ Len(s.C) <= Buffer /\ s.out = sub[p].out /\ Len(s.hold) <= 1
    BY <1>0, <1>8, Channels DEF PumpTake
  <2>2. sub' = [sub EXCEPT ![p] = s]
    BY <1>0, <1>8 DEF PumpTake
  <2> HIDE DEF s
  <2> QED BY <1>0, <2>1, <2>2, SubTyped
<1>9. CASE PumpPut(p)
  <2> DEFINE s == [sub[p] EXCEPT !.hold = <<>>, !.out = @ \o sub[p].hold]
  <2>1. s \in SubStates /\ Len(s.out) <= Buffer /\ s.C = sub[p].C /\ Len(s.hold) <= 1
    BY <1>0, <1>9, Channels DEF PumpPut
  <2>2. sub' = [sub EXCEPT ![p] = s]
    BY <1>0, <1>9 DEF PumpPut
  <2> HIDE DEF s
  <2> QED BY <1>0, <2>1, <2>2, SubTyped
<1>10. CASE Write(p)
  <2> DEFINE s == [sub[p] EXCEPT !.out = Tail(@)]
  <2>1. s \in SubStates /\ Len(s.out) <= Buffer /\ s.C = sub[p].C /\ s.hold = sub[p].hold
    BY <1>0, <1>10, Channels DEF Write
  <2>2. sub' = [sub EXCEPT ![p] = s]
    BY <1>0, <1>10 DEF Write
  <2> HIDE DEF s
  <2> QED BY <1>0, <2>1, <2>2, SubTyped
<1> QED BY <1>2, <1>4, <1>6, <1>7, <1>8, <1>9, <1>10 DEF Streaming, Pump, Cut, Close

-----------------------------------------------------------------------------
\* Access: the invariant, step by step

LEMMA TypesAre == AccessTypeOK /\ CheckedBefore <=> AccessTypes /\ CheckedBefore
BY DEF AccessTypeOK, AccessTypes, HandlerTypes, PageTypes, SubTypes, CountTypes, CheckedBefore

AccessSafe == CheckedBefore /\ AllowedBeforeTold /\ GrantHonest /\ OnlyTheAllowedSee

\* A step of the hub, a page or a pump changes neither the policy, nor a handler,
\* nor what a Node was told.
LEMMA QuietStep ==
    ASSUME AccessTypes, AccessSafe, UNCHANGED <<wired, allow, handler, toNode>>,
           \A p \in Pages : \/ page'[p].click = page[p].click /\ page'[p].node = page[p].node
                            \/ page'[p].click # "grant"
    PROVE  AccessSafe'
BY DEF AccessSafe, CheckedBefore, AllowedBeforeTold, GrantHonest, OnlyTheAllowedSee, Allowed

LEMMA ServingSafe ==
    ASSUME AccessTypes, AccessSafe, NEW v \in Nodes, Serving(v)
    PROVE  AccessSafe'
<1>0. /\ handler \in [Nodes -> {"idle", "serve", "add", "told"}]
      /\ toNode \in [Nodes -> Answers \cup {"none"}]
  BY DEF AccessTypes, HandlerTypes
<1>a. UNCHANGED <<wired, allow, page>>
  BY DEF Serving, NoHandler, Check, Serve, Add, OnAdd, Ack, hostVars
<1>b. (\A w \in Nodes : Allowed(w) = Allowed(w)') /\ AllowedBeforeTold'
  BY <1>a DEF AccessSafe, Allowed, AllowedBeforeTold
<1>c. ASSUME NEW a \in {"denied", "unavailable", "ack"}, toNode' = [toNode EXCEPT ![v] = a]
      PROVE  GrantHonest' /\ OnlyTheAllowedSee'
  BY <1>0, <1>a, <1>b, <1>c DEF AccessSafe, GrantHonest, OnlyTheAllowedSee
<1>d. toNode' = toNode => GrantHonest' /\ OnlyTheAllowedSee'
  BY <1>a, <1>b DEF AccessSafe, GrantHonest, OnlyTheAllowedSee
<1>1. CASE NoHandler(v)
  <2>1. CheckedBefore'
    BY <1>1, <1>a, <1>b DEF AccessSafe, CheckedBefore, NoHandler
  <2> QED BY <1>1, <1>b, <1>c, <2>1 DEF AccessSafe, NoHandler, Answer
<1>2. CASE Check(v)
  <2>1. CheckedBefore'
    BY <1>0, <1>2, <1>a, <1>b DEF AccessSafe, CheckedBefore, Check
  <2> QED BY <1>2, <1>b, <1>c, <1>d, <2>1 DEF AccessSafe, Check, Answer
<1>3. CASE Serve(v)
  <2>1. CheckedBefore'
    BY <1>0, <1>3, <1>a, <1>b DEF AccessSafe, CheckedBefore, Serve
  <2>2. Allowed(v)
    BY <1>3 DEF AccessSafe, CheckedBefore, Serve
  <2>3. PICK a \in {"data", "notfound", "error"} : toNode' = [toNode EXCEPT ![v] = a]
    BY <1>3 DEF Serve, Answer
  <2>4. GrantHonest' /\ OnlyTheAllowedSee'
    BY <1>0, <1>a, <1>b, <2>2, <2>3 DEF AccessSafe, GrantHonest, OnlyTheAllowedSee, Allowed
  <2> QED BY <1>b, <2>1, <2>4 DEF AccessSafe
<1>4. CASE Add(v)
  <2>1. CheckedBefore'
    BY <1>0, <1>4, <1>a, <1>b DEF AccessSafe, CheckedBefore, Add
  <2> QED BY <1>4, <1>b, <1>d, <2>1 DEF AccessSafe, Add
<1>5. CASE OnAdd(v)
  <2>1. CheckedBefore'
    BY <1>0, <1>5, <1>a, <1>b DEF AccessSafe, CheckedBefore, OnAdd
  <2> QED BY <1>5, <1>b, <1>d, <2>1 DEF AccessSafe, OnAdd
<1>6. CASE Ack(v)
  <2>1. CheckedBefore'
    BY <1>0, <1>6, <1>a, <1>b DEF AccessSafe, CheckedBefore, Ack
  <2> QED BY <1>6, <1>b, <1>c, <2>1 DEF AccessSafe, Ack, Answer
<1> QED BY <1>1, <1>2, <1>3, <1>4, <1>5, <1>6 DEF Serving

\* The owner's calls: only AddAllow changes the policy, and it only adds; only
\* Grant tells a Node, and the click it comes from has allowed it.
LEMMA OwningSafe ==
    ASSUME AccessTypes, AccessSafe, NEW p \in Pages, Owning(p)
    PROVE  AccessTypes' /\ AccessSafe'
<1>0. HandlerTypes /\ PageTypes /\ SubTypes /\ CountTypes
  BY DEF AccessTypes
<1>n. page[p].click # "none" => page[p].node \in Nodes
  <2>1. page[p] \in PageStates /\ (page[p].click # "none" => page[p].node # "none")
    BY <1>0 DEF PageTypes
  <2> QED BY <2>1 DEF PageStates
<1>s. UNCHANGED <<sub, calls, others, letDown, wired, handler>> => SubTypes' /\ CountTypes'
  BY <1>0 DEF SubTypes, CountTypes
<1>1. CASE Reject(p)
  <2>1. PageTypes' /\ page'[p].click = "none" /\ \A q \in Pages \ {p} : page'[q] = page[q]
    BY <1>0, <1>1, ResolvedTyped DEF Reject
  <2>2. HandlerTypes'
    BY <1>0, <1>1 DEF HandlerTypes, Reject
  <2>3. AccessSafe'
    BY <1>1, <2>1, QuietStep DEF Reject
  <2> QED BY <1>1, <1>s, <2>1, <2>2, <2>3 DEF AccessTypes, Reject
<1>2. CASE Take(p)
  <2>1. PageTypes' /\ page'[p].click = "allow" /\ \A q \in Pages \ {p} : page'[q] = page[q]
    BY <1>0, <1>2, ContinueTyped DEF Take
  <2>2. HandlerTypes'
    BY <1>0, <1>2 DEF HandlerTypes, Take
  <2>3. AccessSafe'
    BY <1>2, <2>1, QuietStep DEF Take
  <2> QED BY <1>2, <1>s, <2>1, <2>2, <2>3 DEF AccessTypes, Take
<1>3. CASE AddAllow(p)
  <2>1. /\ PageTypes' /\ page'[p].node = page[p].node
        /\ \A q \in Pages \ {p} : page'[q] = page[q]
    BY <1>0, <1>3, ContinueTyped DEF AddAllow
  <2>2. HandlerTypes'
    BY <1>0, <1>3, <1>n DEF HandlerTypes, AddAllow
  <2>3. allow' = allow \cup {page[p].node} /\ UNCHANGED <<wired, handler, toNode>>
    BY <1>3 DEF AddAllow
  <2>4. \A v \in Nodes : Allowed(v) => Allowed(v)'
    BY <2>3 DEF Allowed
  <2>5. CheckedBefore' /\ GrantHonest' /\ OnlyTheAllowedSee'
    BY <2>3, <2>4 DEF AccessSafe, CheckedBefore, GrantHonest, OnlyTheAllowedSee
  <2>6. AllowedBeforeTold'
    BY <2>1, <2>3 DEF AccessSafe, AllowedBeforeTold
  <2> QED BY <1>3, <1>s, <2>1, <2>2, <2>5, <2>6 DEF AccessTypes, AccessSafe, AddAllow
<1>4. CASE Grant(p)
  <2>1. PageTypes' /\ page'[p].click = "none" /\ \A q \in Pages \ {p} : page'[q] = page[q]
    <3>1. page[p].click = "grant" /\ (Continue(p) \/ Failed(p))
      BY <1>4 DEF Grant
    <3>2. CASE Continue(p)
      BY <1>0, <3>1, <3>2, ContinueTyped
    <3>3. CASE Failed(p)
      BY <1>0, <3>3, FailedTyped
    <3> QED BY <3>1, <3>2, <3>3
  <2>2. toNode \in [Nodes -> Answers \cup {"none"}] /\ "granted" \in Answers
    BY <1>0 DEF HandlerTypes, Answers
  <2>3. HandlerTypes'
    BY <1>0, <1>4, <2>2 DEF HandlerTypes, Grant, hostVars
  <2>4. UNCHANGED <<wired, allow, handler>>
    BY <1>4 DEF Grant, hostVars
  <2>5. CheckedBefore' /\ AllowedBeforeTold'
    BY <2>1, <2>4 DEF AccessSafe, CheckedBefore, AllowedBeforeTold, Allowed
  <2>6. page[p].node \in allow /\ page[p].node \in Nodes
    BY <1>4, <1>n DEF Grant, AccessSafe, AllowedBeforeTold
  <2>7. toNode' = toNode \/ toNode' = [toNode EXCEPT ![page[p].node] = "granted"]
    BY <1>4 DEF Grant
  <2>8. GrantHonest' /\ OnlyTheAllowedSee'
    BY <2>2, <2>4, <2>6, <2>7 DEF AccessSafe, GrantHonest, OnlyTheAllowedSee, Allowed
  <2> QED BY <1>4, <1>s, <2>1, <2>3, <2>4, <2>5, <2>8 DEF AccessTypes, AccessSafe, Grant
<1> QED BY <1>1, <1>2, <1>3, <1>4 DEF Owning

LEMMA AccessStep == AccessTypes /\ AccessSafe /\ [AccessNext]_accessVars => AccessTypes' /\ AccessSafe'
<1> SUFFICES ASSUME AccessTypes, AccessSafe, [AccessNext]_accessVars
             PROVE  AccessTypes' /\ AccessSafe'
  OBVIOUS
<1>0. HandlerTypes /\ PageTypes /\ SubTypes /\ CountTypes
  BY DEF AccessTypes
<1>n. {MaxCalls, MaxOther} \subseteq Nat
  BY AccessAssumption
<1>1. CASE UNCHANGED accessVars
  BY <1>1, <1>0, QuietStep
     DEF accessVars, hostVars, AccessTypes, HandlerTypes, PageTypes, SubTypes, CountTypes
<1>2. CASE SetCatalog
  <2>1. HandlerTypes' /\ PageTypes' /\ SubTypes' /\ CountTypes'
    BY <1>2, <1>0 DEF SetCatalog, HandlerTypes, PageTypes, SubTypes, CountTypes
  <2>2. AccessSafe'
    BY <1>2 DEF SetCatalog, AccessSafe, CheckedBefore, AllowedBeforeTold, GrantHonest,
                OnlyTheAllowedSee, Allowed
  <2> QED BY <2>1, <2>2 DEF AccessTypes
<1>3. CASE OtherEvent
  <2>1. SubTypes' /\ letDown' \in SUBSET Pages
    BY <1>3, <1>0, PublishTyped DEF OtherEvent, Events
  <2>2. HandlerTypes' /\ PageTypes'
    BY <1>3, <1>0 DEF OtherEvent, hostVars, HandlerTypes, PageTypes
  <2>3. CountTypes'
    BY <1>3, <1>0, <1>n, <2>1 DEF OtherEvent, CountTypes
  <2>4. AccessSafe'
    BY <1>3, QuietStep DEF OtherEvent, hostVars
  <2> QED BY <2>1, <2>2, <2>3, <2>4 DEF AccessTypes
<1>4. ASSUME NEW v \in Nodes, NEW what \in {"query", "ask"}, Call(v, what)
      PROVE  AccessTypes' /\ AccessSafe'
  <2>1. HandlerTypes'
    BY <1>4, <1>0, HandlerStep
  <2>2. PageTypes' /\ SubTypes' /\ CountTypes'
    BY <1>4, <1>0, <1>n DEF Call, PageTypes, SubTypes, CountTypes
  <2>3. AccessSafe'
    BY <1>4, QuietStep DEF Call, hostVars
  <2> QED BY <2>1, <2>2, <2>3 DEF AccessTypes
<1>5. ASSUME NEW v \in Nodes, Serving(v)
      PROVE  AccessTypes' /\ AccessSafe'
  <2>1. HandlerTypes'
    BY <1>5, <1>0, HandlerStep
  <2>2. AccessSafe'
    BY <1>5, ServingSafe
  <2>3. UNCHANGED <<page, calls, others>> /\ (OnAdd(v) \/ UNCHANGED <<sub, letDown>>)
    BY <1>5 DEF Serving, NoHandler, Check, Serve, Add, OnAdd, Ack
  <2>4. SubTypes' /\ letDown' \in SUBSET Pages
    <3>1. CASE OnAdd(v)
      BY <3>1, <1>0, PublishTyped DEF OnAdd, Events
    <3>2. CASE UNCHANGED <<sub, letDown>>
      BY <3>2, <1>0 DEF SubTypes, CountTypes
    <3> QED BY <2>3, <3>1, <3>2
  <2>5. PageTypes' /\ CountTypes'
    BY <2>3, <2>4, <1>0 DEF PageTypes, CountTypes
  <2> QED BY <2>1, <2>2, <2>4, <2>5 DEF AccessTypes
<1>6. ASSUME NEW p \in Pages, Open(p) \/ Cut(p) \/ Close(p) \/ Streaming(p) \/ Fetching(p) \/ Pump(p)
      PROVE  AccessTypes' /\ AccessSafe'
  <2>1. UNCHANGED <<wired, allow, pending, toHost, handler, toNode, calls, others>>
    BY <1>6 DEF Open, Cut, Close, Streaming, Subscribe, Write, Fetching, PendingRequests, Land,
                Pump, PumpTake, PumpPut, PumpEnd, hostVars
  <2>2. PageTypes' /\ ClicksKept
    <3>1. CASE Pump(p)
      BY <3>1, <1>0 DEF Pump, PumpTake, PumpPut, PumpEnd, PageTypes, ClicksKept
    <3>2. CASE ~Pump(p)
      BY <1>6, <3>2, <1>0, PageStep
    <3> QED BY <3>1, <3>2
  <2>3. SubTypes'
    <3>1. CASE Fetching(p)
      BY <3>1, <1>0 DEF Fetching, PendingRequests, Land, SubTypes
    <3>2. CASE ~Fetching(p)
      BY <1>6, <3>2, <1>0, SubStep
    <3> QED BY <3>1, <3>2
  <2>4. letDown' \in SUBSET Pages
    BY <1>6, <1>0 DEF Open, Cut, Close, Streaming, Subscribe, Write, Fetching, PendingRequests, Land,
                Pump, PumpTake, PumpPut, PumpEnd, CountTypes
  <2>5. HandlerTypes' /\ CountTypes'
    BY <2>1, <2>4, <1>0 DEF HandlerTypes, CountTypes
  <2>6. AccessSafe'
    BY <2>1, <2>2, QuietStep DEF ClicksKept
  <2> QED BY <2>2, <2>3, <2>5, <2>6 DEF AccessTypes
<1>7. ASSUME NEW p \in Pages, NEW v \in Nodes, NEW what \in {"approve", "reject"}, Click(p, v, what)
      PROVE  AccessTypes' /\ AccessSafe'
  <2>1. PageTypes' /\ page'[p].click # "grant" /\ \A q \in Pages \ {p} : page'[q] = page[q]
    BY <1>7, <1>0, ClickTyped
  <2>2. HandlerTypes' /\ SubTypes' /\ CountTypes'
    BY <1>7, <1>0 DEF Click, hostVars, HandlerTypes, SubTypes, CountTypes
  <2>3. AccessSafe'
    BY <1>7, <2>1, QuietStep DEF Click, hostVars
  <2> QED BY <2>1, <2>2, <2>3 DEF AccessTypes
<1>8. ASSUME NEW p \in Pages, Owning(p)
      PROVE  AccessTypes' /\ AccessSafe'
  BY <1>8, OwningSafe
<1> QED BY <1>1, <1>2, <1>3, <1>4, <1>5, <1>6, <1>7, <1>8 DEF AccessNext

LEMMA AccessStart == AccessInit => AccessTypes /\ AccessSafe
<1> SUFFICES ASSUME AccessInit PROVE AccessTypes /\ AccessSafe
  OBVIOUS
<1>1. HandlerTypes
  BY AccessAssumption DEF AccessInit, HandlerTypes
<1>2. Closed \in PageStates /\ Closed.click = "none" /\ Closed.node = "none"
  BY DEF Closed, PageStates
<1>3. page = [p \in Pages |-> Closed] /\ sub = [p \in Pages |-> NoSub]
  BY DEF AccessInit
<1>4. PageTypes
  BY <1>2, <1>3 DEF PageTypes
<1>5. NoSub \in SubStates /\ NoSub.C = <<>> /\ NoSub.out = <<>> /\ NoSub.hold = <<>>
      /\ Len(<<>>) <= Buffer /\ Len(<<>>) <= 1
  BY AccessAssumption DEF NoSub, SubStates
<1>6. SubTypes
  BY <1>3, <1>5 DEF SubTypes
<1>7. CountTypes
  BY AccessAssumption DEF AccessInit, CountTypes
<1>8. AccessSafe
  BY <1>2, <1>3 DEF AccessInit, AccessSafe, CheckedBefore, AllowedBeforeTold, GrantHonest,
                    OnlyTheAllowedSee
<1> QED BY <1>1, <1>4, <1>6, <1>7, <1>8 DEF AccessTypes

LEMMA AccessInvariant == AccessSpec => [](AccessTypes /\ AccessSafe)
BY AccessStart, AccessStep, PTL DEF AccessSpec

\* The access lists, calls, pages and subscriptions keep their types, and the
\* hub's channels their capacity, for any Nodes, pages and buffer size.
THEOREM AccessTypeCorrect == AccessSpec => []AccessTypeOK
<1>1. AccessTypes /\ AccessSafe => AccessTypeOK
  BY TypesAre DEF AccessSafe
<1> QED BY <1>1, AccessInvariant, PTL

\* ApproveAccess tells a Node AccessGranted only once the policy lets it in (or
\* it is blocked), however its calls and other pages' calls fall in between.
THEOREM GrantsHonest == AccessSpec => []GrantHonest
<1>1. AccessSafe => GrantHonest
  BY DEF AccessSafe
<1> QED BY <1>1, AccessInvariant, PTL

\* What the handlers tell a Node of the Library it may see when it is told,
\* although the policy was asked before the store was read.
THEOREM LibraryGuarded == AccessSpec => []OnlyTheAllowedSee
<1>1. AccessSafe => OnlyTheAllowedSee
  BY DEF AccessSafe
<1> QED BY <1>1, AccessInvariant, PTL

=============================================================================
