--------------------------- MODULE InotifyWatcher ---------------------------
(***************************************************************************)
(* InotifyWatcher of src/InotifyWatcher.cc, the files it follows, and the  *)
(* kernel's queue of inotify events between them: one watched path, at     *)
(* which files are created, written, renamed and removed at any moment,    *)
(* also between any two system calls of the watcher.                       *)
(***************************************************************************)
EXTENDS WatcherImplementation

CONSTANTS
  MaxMoves,       \* bound: changes of the directory entry
  MaxQueue,       \* fs.inotify.max_queued_events
  BatchSize       \* events that fit in the buffer of work()

ASSUME SizeAssumption ==
  /\ MaxMoves \in Nat
  /\ MaxQueue \in Nat \ {0} /\ BatchSize \in Nat \ {0}

VARIABLES
  unlinked,       \* files removed, or renamed over
  dying,          \* the entry of path is being removed
  moves,          \* changes of the directory entry so far
  queue,          \* events in the kernel
  watch,          \* watch[f]: the watch descriptor of f, or NoWatch
  lastWd,         \* the last watch descriptor the kernel handed out
  pc,             \* where the watcher is
  batch,          \* events read by work() and not yet handled
  file_wd,
  owed,           \* history: owed[f]: f's length when it left path, if open and watched
  late,           \* history: files that left path before its last change was handled
  calm,           \* history: each change of the entry found the last one handled
  overflowed      \* history: the queue has overflowed

files == <<at, content, unlinked, dying, moves, visits, calm, owed, late>>
events == <<queue, overflowed>>
vars == <<files, events, watch, lastWd, pc, batch, reader, file_wd, skipped>>

NoWatch == -1     \* no watch descriptor; also the wd of an overflow event
DirWatch == 0     \* dir_wd

Event == [wd : Int, mask : {"create", "delete", "moved_from", "moved_to",
                            "modify", "self", "overflow"}]

\* The constructor's call of openFile(), and the one of work(): before
\* fopen(), before inotify_add_watch(), and before what the caller does next.
Opening == {"init.fopen", "init.watch", "init.seek", "fopen", "watch", "read"}

\* The file was gone when it was to be watched; a null FILE pointer was
\* used; any other failure.
Stopped == {"gone", "crashed", "failed"}

TypeOK ==
  /\ ReaderTypeOK
  /\ unlinked \subseteq File
  /\ dying \in BOOLEAN
  /\ moves \in 0 .. MaxMoves
  /\ queue \in Seq(Event) /\ Len(queue) <= MaxQueue + 1
  /\ watch \in [File -> Int]
  /\ lastWd \in Nat
  /\ pc \in {"init", "idle", "event"} \cup Opening \cup Stopped
  /\ batch \in Seq(Event) /\ Len(batch) <= BatchSize
  /\ file_wd \in Int
  /\ owed \in [File -> Nat]
  /\ late \subseteq File
  /\ calm \in BOOLEAN
  /\ overflowed \in BOOLEAN

Init ==
  /\ ReaderInit
  /\ unlinked = {}
  /\ dying = FALSE
  /\ moves = 0
  /\ queue = <<>>
  /\ watch = [f \in File |-> NoWatch]
  /\ lastWd = DirWatch
  /\ pc = "init"
  /\ batch = <<>>
  /\ file_wd = NoWatch
  /\ owed = [f \in File |-> 0]
  /\ late = {}
  /\ calm = TRUE
  /\ overflowed = FALSE
-----------------------------------------------------------------------------
(* The kernel.  An event equal to the last one of the queue is merged with *)
(* it; a full queue takes one overflow event.  The events of one operation *)
(* are posted together.  IN_IGNORED is left out: it carries a descriptor   *)
(* that the watcher no longer has, and none is given out twice.            *)

Overflow == [wd |-> NoWatch, mask |-> "overflow"]

Post(q, e) ==
  IF q # <<>> /\ Last(q) \in {e, Overflow} THEN q
  ELSE IF Len(q) < MaxQueue THEN Append(q, e)
  ELSE Append(q, Overflow)

PostAny(q, es) == IF es = <<>> THEN q ELSE Post(q, Head(es))

\* At most one event of the directory, and then one of the file.
PostAll(ofDir, ofFile) ==
  /\ queue' = PostAny(PostAny(queue, ofDir), ofFile)
  /\ overflowed' = (overflowed \/ Overflow \in ToSet(queue'))

\* An event of file f itself, if f is watched.
OfFile(f, mask) ==
  IF f # None /\ watch[f] # NoWatch THEN <<[wd |-> watch[f], mask |-> mask]>> ELSE <<>>

\* An event of the directory that names path, if the directory is watched.
OfDir(mask) == IF pc = "init" THEN <<>> ELSE <<[wd |-> DirWatch, mask |-> mask]>>
-----------------------------------------------------------------------------
(* What other programs do to the files.                                    *)

\* Nothing matters any more once the daemon is gone.
Running == pc \notin Stopped

DirEvents == {e \in ToSet(queue) \cup ToSet(batch) : e.wd = DirWatch}

\* The watcher holds f open and gets its events.
Follows(f) == fp = f /\ watch[f] # NoWatch /\ watch[f] = file_wd

\* The changes so far have been handled, and the watcher is in no call.
Calm == DirEvents = {} /\ pc \in {"init", "idle", "event"}

\* What the watcher must still read of the file that leaves path.
Leave ==
  IF at # None /\ Follows(at)
  THEN /\ owed' = [owed EXCEPT ![at] = Len(content[at])]
       /\ late' = IF DirEvents = {} THEN late ELSE late \cup {at}
  ELSE UNCHANGED <<owed, late>>

\* The entry of path changes to f.
Move(f) ==
  /\ Running
  /\ moves < MaxMoves
  /\ moves' = moves + 1
  /\ Arrive(f)
  /\ UNCHANGED <<content, watch, lastWd, pc, batch, reader, file_wd, skipped>>

\* A new, empty file is made at path.
Create(f) ==
  /\ at = None
  /\ visits[f] = 0
  /\ content[f] = <<>>
  /\ Move(f)
  /\ calm' = (calm /\ Calm)
  /\ UNCHANGED <<unlinked, dying, owed, late>>
  /\ PostAll(OfDir("create"), <<>>)

\* A file is renamed to path, and replaces the one that is there.
MoveIn(f) ==
  /\ at # f
  /\ ~dying
  /\ f \notin unlinked
  /\ Move(f)
  /\ unlinked' = unlinked \cup ({at} \ {None})
  /\ calm' = (calm /\ Calm)
  /\ Leave
  /\ UNCHANGED dying
  /\ PostAll(OfDir("moved_to"), OfFile(f, "self"))

\* The file at path is renamed, as log rotation does.
MoveAway ==
  /\ at # None
  /\ ~dying
  /\ Move(None)
  /\ calm' = (calm /\ Calm)
  /\ Leave
  /\ UNCHANGED <<unlinked, dying>>
  /\ PostAll(OfDir("moved_from"), OfFile(at, "self"))

\* The file at path is removed.  Kernels before 5.3 post the event first,
\* and it may be handled while the entry is still there.
Unlink ==
  /\ Running
  /\ at # None
  /\ ~dying
  /\ moves < MaxMoves
  /\ dying' = TRUE
  /\ calm' = (calm /\ Calm)
  /\ Leave
  /\ UNCHANGED <<at, content, unlinked, moves, visits, watch, lastWd, pc, batch, reader,
                 file_wd, skipped>>
  /\ PostAll(OfDir("delete"), <<>>)

Vanish ==
  /\ dying
  /\ Move(None)
  /\ dying' = FALSE
  /\ unlinked' = unlinked \cup {at}
  /\ calm' = (calm /\ DirEvents # {})
  /\ UNCHANGED <<owed, late, events>>

\* The last descriptor of a removed file is closed.
Forget(f) ==
  /\ Running
  /\ f \in unlinked
  /\ fp # f
  /\ watch[f] # NoWatch
  /\ watch' = [watch EXCEPT ![f] = NoWatch]
  /\ PostAll(<<>>, OfFile(f, "self"))
  /\ UNCHANGED <<files, lastWd, pc, batch, reader, file_wd, skipped>>

\* A program appends to a file, also to one that it still holds open after
\* it was renamed or removed.
Write(f, c) ==
  /\ Running
  /\ Extend(f, c)
  /\ PostAll(<<>>, OfFile(f, "modify"))
  /\ UNCHANGED <<at, unlinked, dying, moves, visits, calm, owed, late, watch, lastWd, pc, batch,
                 reader, file_wd, skipped>>
-----------------------------------------------------------------------------
(* closeFile().                                                            *)

\* rm_watch(): EINVAL, if the kernel dropped the watch itself, is tolerated.
Unwatched == [f \in File |-> IF watch[f] = file_wd THEN NoWatch ELSE watch[f]]

\* mutant of CloseFile: file_wd is not reset
CloseFileKeepsWd ==
  /\ Close
  /\ watch' = Unwatched
  /\ UNCHANGED file_wd

CloseFile ==
  /\ Close
  /\ watch' = Unwatched
  /\ file_wd' = NoWatch

\* readLines() and then closeFile(): all that is left in the file.
ReadAndClose ==
  /\ Process(line \o [k \in 1 .. Len(content[fp]) - pos |-> <<fp, pos + k>>])
  /\ line' = <<>>
  /\ watch' = Unwatched
  /\ file_wd' = NoWatch
  /\ fp' = None
  /\ pos' = 0
-----------------------------------------------------------------------------
(* The constructor, and openFile() in its two system calls.                *)

WatchDir ==
  /\ pc = "init"
  /\ pc' = "init.fopen"
  /\ UNCHANGED <<files, events, watch, lastWd, batch, reader, file_wd, skipped>>

Starting == pc \in {"init.fopen", "init.watch"}

FOpen ==
  /\ pc \in {"init.fopen", "fopen"}
  /\ fp' = at
  /\ pc' = IF at = None THEN IF Starting THEN "idle" ELSE "event"
                        ELSE IF Starting THEN "init.watch" ELSE "watch"
  /\ UNCHANGED <<files, events, watch, lastWd, batch, pos, line, passed, torn, file_wd,
                 skipped>>

\* The watch goes to the file that is at path now, which need not be fp.
AddWatch ==
  /\ pc \in {"init.watch", "watch"}
  /\ IF at = None
     THEN pc' = "gone" /\ UNCHANGED <<watch, lastWd, file_wd>>
     ELSE /\ pc' = IF Starting THEN "init.seek" ELSE "read"
          /\ IF watch[at] = NoWatch
             THEN lastWd' = lastWd + 1 /\ watch' = [watch EXCEPT ![at] = lastWd + 1]
             ELSE UNCHANGED <<watch, lastWd>>
          /\ file_wd' = watch'[at]
  /\ UNCHANGED <<files, events, batch, reader, skipped>>

\* The constructor discards the initial content.
SeekEnd ==
  /\ pc = "init.seek"
  /\ pos' = Len(content[fp])
  /\ skipped' = [skipped EXCEPT ![fp] = Len(content[fp])]
  /\ pc' = "idle"
  /\ UNCHANGED <<files, events, watch, lastWd, batch, fp, line, passed, torn, file_wd>>

\* mutant of ReadAfterOpen: a new file is read when its first event comes
NoReadAfterOpen ==
  /\ pc = "read"
  /\ pc' = "event"
  /\ UNCHANGED <<files, events, watch, lastWd, batch, reader, file_wd, skipped>>

\* work() has opened a new file, which may have content already.
ReadAfterOpen ==
  /\ pc = "read"
  /\ ReadLines
  /\ pc' = "event"
  /\ UNCHANGED <<files, events, watch, lastWd, batch, file_wd, skipped>>
-----------------------------------------------------------------------------
(* work(), once the main loop finds ifd readable.                          *)

\* mutant of ReadEvents: more events than the buffer holds
ReadEventsUnbounded ==
  /\ pc = "idle"
  /\ queue # <<>>
  /\ batch' = queue
  /\ queue' = <<>>
  /\ pc' = "event"
  /\ UNCHANGED <<files, overflowed, watch, lastWd, reader, file_wd, skipped>>

ReadEvents ==
  /\ pc = "idle"
  /\ queue # <<>>
  /\ LET m == Min({BatchSize, Len(queue)})
     IN  batch' = SubSeq(queue, 1, m) /\ queue' = SubSeq(queue, m + 1, Len(queue))
  /\ pc' = "event"
  /\ UNCHANGED <<files, overflowed, watch, lastWd, reader, file_wd, skipped>>

\* An event with the watch descriptor of the file: read it, and close it if
\* it moved.  Without a file an overflow event, whose wd is -1, comes here.
HandleFileEvent ==
  /\ pc = "event"
  /\ batch # <<>>
  /\ Head(batch).wd = file_wd
  /\ batch' = Tail(batch)
  /\ IF fp = None
     THEN pc' = "crashed" /\ UNCHANGED <<watch, reader, file_wd>>
     ELSE /\ UNCHANGED pc
          /\ IF Head(batch).mask = "self"
             THEN ReadAndClose
             ELSE ReadLines /\ UNCHANGED <<watch, file_wd>>
  /\ UNCHANGED <<files, events, lastWd, skipped>>

\* mutant of HandleDirEvent: an open file is kept
HandleDirEventIfClosed ==
  /\ pc = "event"
  /\ batch # <<>>
  /\ Head(batch).wd = DirWatch
  /\ batch' = Tail(batch)
  /\ pc' = IF fp = None THEN "fopen" ELSE pc
  /\ UNCHANGED <<files, events, watch, lastWd, reader, file_wd, skipped>>

\* The entry of path changed: close what is open, and open what is there.
HandleDirEvent ==
  /\ pc = "event"
  /\ batch # <<>>
  /\ Head(batch).wd = DirWatch
  /\ batch' = Tail(batch)
  /\ pc' = "fopen"
  /\ CloseFile
  /\ UNCHANGED <<files, events, lastWd, skipped>>

\* Events of an earlier watch, and an overflow while a file is open.
IgnoreEvent ==
  /\ pc = "event"
  /\ batch # <<>>
  /\ Head(batch).wd \notin {file_wd, DirWatch}
  /\ batch' = Tail(batch)
  /\ UNCHANGED <<files, events, watch, lastWd, pc, reader, file_wd, skipped>>

EndBatch ==
  /\ pc = "event"
  /\ batch = <<>>
  /\ pc' = "idle"
  /\ UNCHANGED <<files, events, watch, lastWd, batch, reader, file_wd, skipped>>

\* Any other error of a system call: an exception that ends the daemon.
Fail ==
  /\ Running
  /\ pc' = "failed"
  /\ UNCHANGED <<files, events, watch, lastWd, batch, reader, file_wd, skipped>>

Watcher ==
  \/ WatchDir
  \/ FOpen
  \/ AddWatch
  \/ SeekEnd
  \/ ReadAfterOpen
  \/ ReadEvents
  \/ HandleFileEvent
  \/ HandleDirEvent
  \/ IgnoreEvent
  \/ EndBatch

Others ==
  \/ \E f \in File : Create(f) \/ MoveIn(f) \/ Forget(f)
  \/ MoveAway
  \/ Unlink
  \/ Vanish
  \/ \E f \in File, c \in Char : Write(f, c)

Next == Watcher \/ Others \/ Fail

Spec == Init /\ [][Next]_vars

FairSpec == Spec /\ WF_vars(Watcher)
-----------------------------------------------------------------------------
\* Wherever the directory changed while the watcher was between two of its
\* system calls, once work() has nothing left to do the watcher has the file
\* at path open, gets its events, and has read all of it.
Settled ==
  pc = "idle" /\ queue = <<>> /\ ~overflowed /\ at # None =>
    Follows(at) /\ pos = Len(content[at])

\* Rotation loses nothing: a file that the watcher followed when it left
\* path is closed only after all it held then went to processLine().
KeptUp ==
  ~overflowed =>
    \A f \in File \ {fp} : \A k \in 1 .. owed[f] : k <= skipped[f] \/ passed[f][k] > 0

\* It is so if the watcher had handled the earlier changes of the directory
\* when the file left; a late event of one closes the file without reading it.
KeptUpUnlessLate ==
  ~overflowed =>
    \A f \in File \ ({fp} \cup late) : \A k \in 1 .. owed[f] :
      k <= skipped[f] \/ passed[f][k] > 0

\* No line is made of the end of one file and the start of the next, or
\* begins in the middle of a line, whatever is closed in mid-line.
LinesWhole == ~torn

\* A file is handed over at most once for each time it came to path.  (It
\* is read again when it is renamed back: tests/watch-expect-4.)
AtMostOnce == \A f \in File, k \in 1 .. MaxLength : passed[f][k] <= visits[f]

\* It is so if each change of the directory is handled before the next one
\* and a removal shows before its event is handled.
AtMostOnceIfCalm == calm /\ ~dying => AtMostOnce

\* The null FILE pointer is used only when the kernel's queue has overflowed:
\* file_wd never names a watch whose file is closed, whichever events are
\* still queued.
CrashNeedsOverflow == pc = "crashed" => overflowed

\* A line in the file at path goes to processLine(), or the file leaves.
LinesArrive ==
  \A f \in File, k \in 1 .. MaxLength :
    (at = f /\ k \in DOMAIN content[f] /\ content[f][k] = "newline") ~>
      (passed[f][k] > 0 \/ k <= skipped[f] \/ at # f \/ overflowed \/ pc \in Stopped)
=============================================================================
