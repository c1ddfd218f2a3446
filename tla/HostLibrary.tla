---------------------------- MODULE HostLibrary ----------------------------
(***************************************************************************)
(* What a Host serves: the Shared folder, the index library.Scanner keeps  *)
(* of it (library/scanner.go, store.go) and the HLS renditions             *)
(* media.Engine makes of an indexed Title (media/engine.go, hash.go).      *)
(*                                                                         *)
(* The user changes files while scans run; Watch starts a scan half a      *)
(* second after the last change, also while another one still runs; ffmpeg *)
(* writes Segments while playlist requests read and hash them; the process *)
(* may be killed and started again over the index and the cache it left,   *)
(* with an ffmpeg of its predecessor still at work.                        *)
(*                                                                         *)
(* Data: a file is its content (what HashFile identifies) and its stamp,   *)
(* the size and the whole second of its mtime as one value: a change may   *)
(* leave it as it was, or bring back an earlier one. A Segment file is     *)
(* "none", "torn" (opened, not complete) or "whole". Requests the access   *)
(* policy denies never reach the engine.                                   *)
(* Posters (ensureThumb, Engine.Thumbnail) are files nothing here reads.   *)
(***************************************************************************)
EXTENDS Naturals, FiniteSets

CONSTANTS
    Paths,        \* eligible files under the Shared folders
    Contents,     \* file contents, by Content ID
    Streamed,     \* the Titles somebody plays
    NoContent,    \* there is no file
    Stamps,       \* what os.FileInfo tells indexFile: size and ModTime().Unix()
    NoPath,       \* the path of a row that does not exist
    Scans,        \* goroutines that can be inside ScanOnce at the same time
    StartScan,    \* the one main runs before it starts Watch
    Readers,      \* concurrent requests for a media playlist
    LastSeg,      \* Segments of a rendition
    MaxChanges,   \* bound: changes the user makes to the files
    MaxRestarts   \* bound: times the process is killed and started again

ASSUME HostLibraryAssumption ==
    /\ NoContent \notin Contents
    /\ Streamed \subseteq Contents
    /\ NoPath \notin Paths
    /\ Stamps \subseteq Nat
    /\ 0 \in Stamps
    /\ StartScan \in Scans
    /\ LastSeg \in Nat
    /\ MaxChanges \in Nat
    /\ MaxRestarts \in Nat

VARIABLES
    file,      \* the Shared folder
    rows,      \* Store: the titles table, by content_id
    phase,     \* start-up: "scan", "scanned" or "watch"
    expired,   \* scanCtx of the start-up scan has timed out
    event,     \* a file-system event waits for Watch
    timer,     \* the debounce timer is armed
    scan,      \* the calls of ScanOnce
    missed,    \* auxiliary: files the start-up scan may have left out
    seen,      \* history: the stamps earlier versions of each file had
    changes,   \* changes so far
    job,       \* Engine.jobs
    ffmpeg,    \* the ffmpeg processes, by the process that started them
    disk,      \* the renditions in the cache directory
    memo,      \* SegmentHashes.cache of each job
    reader,    \* the calls of Engine.File for index.m3u8
    restarts

index == <<file, rows, phase, expired, event, timer, scan, missed, seen, changes>>
media == <<job, ffmpeg, disk, memo, reader>>
vars == <<index, media, restarts>>

Segments == 1..LastSeg

\* The process with so many restarts before it.
Processes == 0..MaxRestarts

-----------------------------------------------------------------------------
\* Types of the state

Files == [content : Contents \cup {NoContent}, stamp : Stamps]

Rows == [path : Paths \cup {NoPath}, stamp : Stamps]

NoRow == [path |-> NoPath, stamp |-> 0]

ScanStates ==
    [pc : {"idle", "walk", "hash", "probe", "upsert"}, todo : SUBSET Paths,
     path : Paths \cup {NoPath}, stamp : Stamps, content : Contents \cup {NoContent}]

Walking(todo) == [pc |-> "walk", todo |-> todo, path |-> NoPath, stamp |-> 0,
                  content |-> NoContent]

NotScanning == [Walking({}) EXCEPT !.pc = "idle"]

Bytes == {"none", "torn", "whole"}

\* leftover: when the job was created the directory held a playlist of an earlier
\* process, or an ffmpeg of one was still writing to it.
Jobs == [st : {"none", "running", "complete"}, leftover : BOOLEAN]

NoJob == [st |-> "none", leftover |-> FALSE]

\* An ffmpeg at work: the Segment it is at, and whether it has its file open.
Ffmpegs == [run : BOOLEAN, next : Nat, open : BOOLEAN]

NoFfmpeg == [run |-> FALSE, next |-> 1, open |-> FALSE]

Started == [NoFfmpeg EXCEPT !.run = TRUE]

Renditions == [listed : Nat, seg : [Segments -> Bytes]]

ReaderStates ==
    [pc : {"idle", "read", "hash", "memo"}, of : Contents \cup {NoContent},
     listed : Nat, at : Nat, got : Bytes]

NotReading == [pc |-> "idle", of |-> NoContent, listed |-> 0, at |-> 0, got |-> "none"]

-----------------------------------------------------------------------------
\* The user and the file system

\* fsnotify reports a change once Watch has registered the folders.
Reported(p) ==
    /\ changes < MaxChanges
    /\ changes' = changes + 1
    /\ event' = (event \/ phase = "watch")
    /\ missed' = IF phase = "watch" THEN missed ELSE missed \cup {p}
    /\ UNCHANGED <<rows, phase, expired, timer, scan, media, restarts>>

\* Something is written to path p: c is what it then holds. The stamp moves on if
\* the size changes or the second does; a tool that keeps times may set any.
ChangeFile(p, c, st) ==
    /\ Reported(p)
    /\ file' = [file EXCEPT ![p] = [content |-> c, stamp |-> st]]
    /\ seen' = [seen EXCEPT ![p] = @ \cup {file[p].stamp}]

RemoveFile(p) ==
    /\ file[p].content # NoContent
    /\ Reported(p)
    /\ file' = [file EXCEPT ![p].content = NoContent]
    /\ UNCHANGED seen

-----------------------------------------------------------------------------
\* The Scanner

\* Store.All: the Titles the Library and the Catalog list.
Titles == {c \in Contents : rows[c] # NoRow}

\* Store.GetByPath: some row with that path, if there is one; a path whose file
\* changed has a row for each content it was indexed with.
RowsAt(p) == {c \in Contents : rows[c].path = p}

\* indexFile's mtime cache, for the row GetByPath returns: size and whole seconds.
Unchanged(p, c) == rows[c].stamp = file[p].stamp

\* The walk reaches a path with no file any more.
SkipMissing(s, p) ==
    /\ scan[s].pc = "walk"
    /\ p \in scan[s].todo
    /\ file[p].content = NoContent
    /\ scan' = [scan EXCEPT ![s] = Walking(@.todo \ {p})]
    /\ missed' = missed \ {p}
    /\ UNCHANGED <<file, rows, phase, expired, event, timer, seen, changes, media, restarts>>

\* indexFile finds path, size and mtime in the index and goes on to the next.
SkipUnchanged(s, p) ==
    /\ scan[s].pc = "walk"
    /\ p \in scan[s].todo
    /\ file[p].content # NoContent
    /\ \E c \in RowsAt(p) : Unchanged(p, c)
    /\ scan' = [scan EXCEPT ![s] = Walking(@.todo \ {p})]
    /\ missed' = missed \ {p}
    /\ UNCHANGED <<file, rows, phase, expired, event, timer, seen, changes, media, restarts>>

\* indexFile takes size and mtime and goes on to hash.
StatFile(s, p) ==
    /\ scan[s].pc = "walk"
    /\ p \in scan[s].todo
    /\ file[p].content # NoContent
    /\ RowsAt(p) = {} \/ \E c \in RowsAt(p) : ~Unchanged(p, c)
    /\ scan' = [scan EXCEPT ![s] = [pc |-> "hash", todo |-> @.todo \ {p}, path |-> p,
                                    stamp |-> file[p].stamp, content |-> NoContent]]
    /\ missed' = missed \ {p}
    /\ UNCHANGED <<file, rows, phase, expired, event, timer, seen, changes, media, restarts>>

\* HashFile reads what the file holds now; if it is gone indexFile returns.
HashFile(s) ==
    LET sc == scan[s]
        c == file[sc.path].content IN
    /\ sc.pc = "hash"
    /\ scan' = [scan EXCEPT ![s] =
                    IF c = NoContent THEN Walking(sc.todo)
                    ELSE [sc EXCEPT !.pc = "probe", !.content = c]]
    /\ UNCHANGED <<file, rows, phase, expired, event, timer, missed, seen, changes, media, restarts>>

\* The prober runs ffprobe with the scan's context: once scanCtx is over, every
\* remaining file of the start-up scan is skipped with "probe failed".
Probe(s) ==
    /\ scan[s].pc = "probe"
    /\ IF expired /\ phase = "scan" /\ s = StartScan
       THEN /\ scan' = [scan EXCEPT ![s] = Walking(@.todo)]
            /\ missed' = missed \cup {scan[s].path}
       ELSE /\ scan' = [scan EXCEPT ![s].pc = "upsert"]
            /\ UNCHANGED missed
    /\ UNCHANGED <<file, rows, phase, expired, event, timer, seen, changes, media, restarts>>

\* Faulty variant of BuildTitle: size and mtime are taken after the hash.
BuildTitleLate(sc) == [path |-> sc.path, stamp |-> file[sc.path].stamp]

\* BuildTitle: the row, with the size and mtime indexFile took at its start.
BuildTitle(sc) == [path |-> sc.path, stamp |-> sc.stamp]

\* Store.Upsert, keyed by Content ID.
Upsert(s) ==
    /\ scan[s].pc = "upsert"
    /\ rows' = [rows EXCEPT ![scan[s].content] = BuildTitle(scan[s])]
    /\ scan' = [scan EXCEPT ![s] = Walking(@.todo)]
    /\ UNCHANGED <<file, phase, expired, event, timer, missed, seen, changes, media, restarts>>

\* ScanOnce returns; main is done with scanCtx and goes on to start Watch.
EndScan(s) ==
    /\ scan[s].pc = "walk"
    /\ scan[s].todo = {}
    /\ scan' = [scan EXCEPT ![s] = NotScanning]
    /\ phase' = IF s = StartScan /\ phase = "scan" THEN "scanned" ELSE phase
    /\ expired' = (expired /\ phase' = "scan")
    /\ UNCHANGED <<file, rows, event, timer, missed, seen, changes, media, restarts>>

\* The two minutes main gives the start-up scan are over.
ScanTimeout ==
    /\ phase = "scan"
    /\ ~expired
    /\ expired' = TRUE
    /\ UNCHANGED <<file, rows, phase, event, timer, scan, missed, seen, changes, media, restarts>>

\* Watch registers the folders; from here on changes are reported.
StartWatch ==
    /\ phase = "scanned"
    /\ phase' = "watch"
    /\ UNCHANGED <<file, rows, expired, event, timer, scan, missed, seen, changes, media, restarts>>

\* Faulty variant of Debounced: a scan that runs is taken to be enough.
DebouncedWhileIdle == timer \/ \A s \in Scans : scan[s].pc = "idle"

\* debounce (re)arms the timer, whatever runs.
Debounced == TRUE

\* Watch takes an event.
TakeEvent ==
    /\ phase = "watch"
    /\ event
    /\ event' = FALSE
    /\ timer' = Debounced
    /\ UNCHANGED <<file, rows, phase, expired, scan, missed, seen, changes, media, restarts>>

\* The timer's goroutine runs ScanOnce whether or not another scan runs.
TimerFires(s) ==
    /\ timer
    /\ scan[s].pc = "idle"
    /\ timer' = FALSE
    /\ scan' = [scan EXCEPT ![s] = Walking(Paths)]
    /\ missed' = {}
    /\ UNCHANGED <<file, rows, phase, expired, event, seen, changes, media, restarts>>

-----------------------------------------------------------------------------
\* The media engine

\* What is in the directory of a new job that is not its own.
Leftover(c) == disk[c].listed > 0 \/ \E k \in Processes : ffmpeg[k][c].run

\* Faulty variant of NewJob: the check for a job that is there is lost.
NewJobAlways(c) ==
    /\ job' = [job EXCEPT ![c] = [st |-> "running",
                                  leftover |-> IF @.st = "none" THEN Leftover(c) ELSE @.leftover]]
    /\ ffmpeg' = [ffmpeg EXCEPT ![restarts] = [@ EXCEPT ![c] = Started]]

\* ensureJob: the job of a Content ID, created on first request with an ffmpeg of
\* its own. A job that is complete, or failed, is never started again.
NewJob(c) ==
    \/ job[c].st # "none" /\ UNCHANGED <<job, ffmpeg>>
    \/ /\ job[c].st = "none"
       /\ job' = [job EXCEPT ![c] = [st |-> "running", leftover |-> Leftover(c)]]
       /\ ffmpeg' = [ffmpeg EXCEPT ![restarts] = [@ EXCEPT ![c] = Started]]

\* ensureJob finds a job or a Title; otherwise File answers ErrNotFound.
Known(c) == job[c].st # "none" \/ c \in Titles

\* Engine.File for a Segment, or for a playlist that is generated: no file it
\* reads matters here, but it starts the job as well.
Segment(c) ==
    /\ Known(c)
    /\ NewJob(c)
    /\ UNCHANGED <<index, disk, memo, reader, restarts>>

\* Engine.File for index.m3u8 gets its job.
OpenPlaylist(r, c) ==
    /\ reader[r].pc = "idle"
    /\ Known(c)
    /\ NewJob(c)
    /\ reader' = [reader EXCEPT ![r] = [NotReading EXCEPT !.pc = "read", !.of = c]]
    /\ UNCHANGED <<index, disk, memo, restarts>>

\* os.ReadFile of the playlist; without one File answers ErrUnavailable, or
\* ErrNotFound when the job is complete.
ReadPlaylist(r) ==
    LET rd == reader[r] IN
    /\ rd.pc = "read"
    /\ reader' = [reader EXCEPT ![r] =
                    IF disk[rd.of].listed = 0
                    THEN NotReading
                    ELSE [rd EXCEPT !.pc = "hash", !.listed = disk[rd.of].listed, !.at = 1]]
    /\ UNCHANGED <<index, job, ffmpeg, disk, memo, restarts>>

\* InjectHashes moves on to the next line of the playlist, or File returns.
Advance(rd) == IF rd.at >= rd.listed THEN NotReading
               ELSE [rd EXCEPT !.pc = "hash", !.at = @ + 1, !.got = "none"]

\* SegmentHashes.Hash up to the read: a memoized hash is used, and a Segment that
\* is not on disk gets no tag.
HashSegment(r) ==
    LET rd == reader[r] IN
    /\ rd.pc = "hash"
    /\ reader' = [reader EXCEPT ![r] =
                    IF memo[rd.of][rd.at] # "none" \/ disk[rd.of].seg[rd.at] = "none"
                    THEN Advance(rd)
                    ELSE [rd EXCEPT !.pc = "memo", !.got = disk[rd.of].seg[rd.at]]]
    /\ UNCHANGED <<index, job, ffmpeg, disk, memo, restarts>>

\* SegmentHashes.Hash memoizes the hash of the bytes it read.
MemoSegment(r) ==
    LET rd == reader[r] IN
    /\ rd.pc = "memo"
    /\ memo' = [memo EXCEPT ![rd.of] = [@ EXCEPT ![rd.at] = rd.got]]
    /\ reader' = [reader EXCEPT ![r] = Advance(rd)]
    /\ UNCHANGED <<index, job, ffmpeg, disk, restarts>>

\* ffmpeg opens the next Segment's file for writing (-y: an old one is emptied).
\* k is the process that started it: this one, or one that was killed.
OpenSegment(k, c) ==
    LET w == ffmpeg[k][c] IN
    /\ w.run /\ ~w.open
    /\ w.next \in Segments
    /\ disk' = [disk EXCEPT ![c].seg = [@ EXCEPT ![w.next] = "torn"]]
    /\ ffmpeg' = [ffmpeg EXCEPT ![k] = [@ EXCEPT ![c].open = TRUE]]
    /\ UNCHANGED <<index, job, memo, reader, restarts>>

\* Nobody else has the file open, so what was written to it is what is there.
OnlyWriter(k, c) ==
    \A j \in Processes \ {k} : ffmpeg[j][c].open => ffmpeg[j][c].next # ffmpeg[k][c].next

\* ffmpeg closes it and replaces the playlist by one that ends with it. Two that
\* write one file leave a whole one or not.
CloseSegment(k, c) ==
    LET w == ffmpeg[k][c] IN
    /\ w.open
    /\ \E b \in {"torn", "whole"} :
          /\ OnlyWriter(k, c) => b = "whole"
          /\ disk' = [disk EXCEPT ![c] = [listed |-> w.next,
                                          seg |-> [@.seg EXCEPT ![w.next] = b]]]
    /\ ffmpeg' = [ffmpeg EXCEPT ![k] = [@ EXCEPT ![c] = [Started EXCEPT !.next = w.next + 1]]]
    /\ UNCHANGED <<index, job, memo, reader, restarts>>

\* ffmpeg ends, with all Segments written or because it failed.
Ended(k, c) == ffmpeg' = [ffmpeg EXCEPT ![k] = [@ EXCEPT ![c] = NoFfmpeg]]

\* runJob returns when its ffmpeg does.
EndJob(c) ==
    /\ job[c].st = "running"
    /\ job' = [job EXCEPT ![c].st = "complete"]
    /\ Ended(restarts, c)
    /\ UNCHANGED <<index, disk, memo, reader, restarts>>

\* Nobody waits for the one of a process that was killed.
OrphanEnds(k, c) ==
    /\ k # restarts
    /\ ffmpeg[k][c].run
    /\ Ended(k, c)
    /\ UNCHANGED <<index, job, disk, memo, reader, restarts>>

-----------------------------------------------------------------------------
\* The process

NoRendition == [listed |-> 0, seg |-> [i \in Segments |-> "none"]]

NoHashes == [i \in Segments |-> "none"]

\* What a new process has of its own: main starts the start-up scan, the engine
\* has no jobs.
StartProcess ==
    /\ phase' = "scan"
    /\ expired' = FALSE
    /\ event' = FALSE
    /\ timer' = FALSE
    /\ missed' = {}
    /\ scan' = [s \in Scans |-> IF s = StartScan THEN Walking(Paths) ELSE NotScanning]
    /\ job' = [c \in Contents |-> NoJob]
    /\ memo' = [c \in Contents |-> NoHashes]
    /\ reader' = [r \in Readers |-> NotReading]

\* The process is killed and started again: the index and the cache directory
\* are what they were. Its ffmpegs run under context.Background() and nothing ends
\* them; some die with it all the same (a signal to the whole group), some go on.
Restart ==
    /\ restarts < MaxRestarts
    /\ restarts' = restarts + 1
    /\ StartProcess
    /\ \E orphans \in SUBSET Streamed :
          ffmpeg' = [ffmpeg EXCEPT ![restarts] =
                        [c \in Contents |-> IF c \in orphans THEN @[c] ELSE NoFfmpeg]]
    /\ UNCHANGED <<file, rows, disk, seen, changes>>

Init ==
    /\ file \in [Paths -> [content : Contents, stamp : {0}]]
    /\ rows = [c \in Contents |-> NoRow]
    /\ phase = "scan"
    /\ expired = FALSE
    /\ event = FALSE
    /\ timer = FALSE
    /\ scan = [s \in Scans |-> IF s = StartScan THEN Walking(Paths) ELSE NotScanning]
    /\ missed = {}
    /\ seen = [p \in Paths |-> {}]
    /\ changes = 0
    /\ job = [c \in Contents |-> NoJob]
    /\ ffmpeg = [k \in Processes |-> [c \in Contents |-> NoFfmpeg]]
    /\ disk = [c \in Contents |-> NoRendition]
    /\ memo = [c \in Contents |-> NoHashes]
    /\ reader = [r \in Readers |-> NotReading]
    /\ restarts = 0

ScanStep(s) ==
    \/ \E p \in Paths : SkipMissing(s, p) \/ SkipUnchanged(s, p) \/ StatFile(s, p)
    \/ HashFile(s)
    \/ Probe(s)
    \/ Upsert(s)
    \/ EndScan(s)
    \/ TimerFires(s)

Next ==
    \/ \E p \in Paths, c \in Contents, st \in Stamps : ChangeFile(p, c, st)
    \/ \E p \in Paths : RemoveFile(p)
    \/ \E s \in Scans : ScanStep(s)
    \/ ScanTimeout
    \/ StartWatch
    \/ TakeEvent
    \/ \E r \in Readers, c \in Streamed : OpenPlaylist(r, c)
    \/ \E r \in Readers : ReadPlaylist(r) \/ HashSegment(r) \/ MemoSegment(r)
    \/ \E c \in Streamed : Segment(c) \/ EndJob(c)
    \/ \E k \in Processes, c \in Streamed :
          OpenSegment(k, c) \/ CloseSegment(k, c) \/ OrphanEnds(k, c)
    \/ Restart

Spec == Init /\ [][Next]_vars

\* A scan that has started goes on, Watch takes its events and the timer fires.
ScannerFairness ==
    /\ \A s \in Scans : WF_vars(ScanStep(s))
    /\ WF_vars(StartWatch)
    /\ WF_vars(TakeEvent)

FairSpec == Spec /\ ScannerFairness

-----------------------------------------------------------------------------
\* Type invariant: the index, the scans, the jobs and the cache directory hold
\* what their Go types and the file names give them; a scan past its stat has a
\* path, and a Title is only built from a hash.
TypeOK ==
    /\ file \in [Paths -> Files]
    /\ rows \in [Contents -> Rows]
    /\ phase \in {"scan", "scanned", "watch"}
    /\ expired \in BOOLEAN
    /\ event \in BOOLEAN
    /\ timer \in BOOLEAN
    /\ scan \in [Scans -> ScanStates]
    /\ \A s \in Scans :
          /\ scan[s].pc \in {"hash", "probe", "upsert"} => scan[s].path \in Paths
          /\ scan[s].pc \in {"probe", "upsert"} => scan[s].content \in Contents
    /\ missed \subseteq Paths
    /\ seen \in [Paths -> SUBSET Stamps]
    /\ changes \in Nat
    /\ job \in [Contents -> Jobs]
    /\ ffmpeg \in [Processes -> [Contents -> Ffmpegs]]
    /\ disk \in [Contents -> Renditions]
    /\ memo \in [Contents -> [Segments -> Bytes]]
    /\ reader \in [Readers -> ReaderStates]
    /\ restarts \in Processes

\* The file at p has the size and the second of an earlier version of it: a
\* rewrite in the same second that keeps the length, or a copy that keeps times.
Blurred(p) == file[p].stamp \in seen[p]

\* The mtime cache never lies of a file that size and second tell from its
\* earlier versions: when the row of a Title has the path, size and second of
\* the file that is there, that file's content is the Title's. This is what lets
\* indexFile skip the hash of a file whose row matches, however a change falls
\* between its stat, its hash and its Upsert, or between two scans. (Of a Blurred
\* file it does lie, and no scan ever finds out.)
RowHonest ==
    \A c \in Contents, p \in Paths :
        /\ rows[c].path = p
        /\ rows[c].stamp = file[p].stamp
        /\ file[p].content # NoContent
        /\ ~Blurred(p)
        => file[p].content = c

\* Every hash the engine memoizes, and writes into the playlist Viewers check
\* Segments against, is the hash of a whole Segment; only the job of a directory
\* in which an earlier process left a playlist, or an ffmpeg that goes on writing,
\* can hold another one.
HashOfWholeSegment ==
    \A c \in Contents, i \in Segments : memo[c][i] = "torn" => job[c].leftover

\* Once the user stops changing files, every file that is there ends up in the
\* index for good; the exceptions are files main's start-up scan left out, because
\* they changed before Watch was registered or were probed after scanCtx was over,
\* and Blurred ones, whose row indexFile takes for the present version's.
IndexCatchesUp ==
    <>[](\A p \in Paths :
            file[p].content # NoContent /\ p \notin missed /\ ~Blurred(p)
                => file[p].content \in Titles)
=============================================================================
