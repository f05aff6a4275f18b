--------------------------- MODULE PollingWatcher ---------------------------
(***************************************************************************)
(* PollingWatcher of src/PollingWatcher.cc, which looks at its path once a *)
(* second, with the part of the main loop that puts it to sleep: the       *)
(* deadline of pollfd(), the timeout of select() computed by timeval.h,    *)
(* and the test of the deadline afterwards.                                *)
(*                                                                         *)
(* Time is counted from the beginning of the current second of the wall    *)
(* clock, so that it may run for ever: the clock shows <<0, usec>>, and    *)
(* next is due seconds after the current one.                              *)
(***************************************************************************)
EXTENDS WatcherImplementation

CONSTANTS
  Second,         \* units of tv_usec in a second
  MaxMoves,       \* bound: changes of the directory entry, and failures of stat()
  ClockSteps,     \* seconds by which the clock may be set forward or back
  MaxSteps        \* bound: how often it is

ASSUME TimeAssumption ==
  /\ Second \in Nat \ {0} /\ MaxMoves \in Nat
  /\ ClockSteps \subseteq Int /\ MaxSteps \in Nat

VARIABLES
  pc,             \* where the watcher and the main loop are
  usec,           \* the wall clock's tv_usec
  due,            \* next, less the wall clock's tv_sec; -1 for any time past
  remaining,      \* what is left of the timeout of select()
  signalled,      \* SIGHUP has interrupted select(): signal_pipe is readable
  moves,          \* changes of the directory entry, and failures of stat(), so far
  steps,          \* how often the clock was set
  polled          \* history: polled[f]: f's length when last found at path

files == <<at, content, visits, moves>>
clock == <<usec, due, remaining, steps>>
vars == <<files, clock, pc, signalled, reader, skipped, polled>>

Stopped == {"failed", "deleted", "crashed"}

TypeOK ==
  /\ ReaderTypeOK
  /\ pc \in {"init", "timeout", "select", "test", "work", "stat", "fopen", "read"} \cup Stopped
  /\ usec \in 0 .. Second - 1
  /\ due \in Int /\ due >= -1
  /\ remaining \in Nat
  /\ signalled \in BOOLEAN
  /\ moves \in 0 .. MaxMoves
  /\ steps \in 0 .. MaxSteps
  /\ polled \in [File -> 0 .. MaxLength]

\* next is the current time in seconds.
Init ==
  /\ ReaderInit
  /\ pc = "init"
  /\ usec \in 0 .. Second - 1
  /\ due = 0
  /\ remaining = 0
  /\ signalled = FALSE
  /\ moves = 0
  /\ steps = 0
  /\ polled = [f \in File |-> 0]
-----------------------------------------------------------------------------
(* Other programs, and time.                                               *)

Running == pc \notin Stopped

\* The file at path is removed or renamed, or another one, new or not, is
\* renamed or linked to path.
Move(f) ==
  /\ Running
  /\ f # at
  /\ moves < MaxMoves
  /\ moves' = moves + 1
  /\ Arrive(f)
  /\ UNCHANGED <<content, clock, pc, reader, signalled, skipped, polled>>

Write(f, c) ==
  /\ Running
  /\ Extend(f, c)
  /\ UNCHANGED <<at, visits, moves, clock, pc, reader, signalled, skipped, polled>>

\* next is s seconds nearer.
Nearer(s) == due' = Max({due - s, -1})

Tick ==
  /\ Running
  /\ usec' = (usec + 1) % Second
  /\ Nearer(IF usec' = 0 THEN 1 ELSE 0)
  /\ remaining' = Max({remaining - 1, 0})
  /\ UNCHANGED <<files, steps, pc, reader, signalled, skipped, polled>>

\* The wall clock is set; select() does not notice.
SetClock(s) ==
  /\ Running
  /\ steps < MaxSteps
  /\ steps' = steps + 1
  /\ Nearer(s)
  /\ UNCHANGED <<files, usec, remaining, pc, reader, signalled, skipped, polled>>
-----------------------------------------------------------------------------
(* The main loop around the watcher.                                       *)

\* mutant of Minus: no borrow
MinusNoBorrow(a, b) == [sec |-> a.sec - b.sec, usec |-> Max({a.usec - b.usec, 0})]

\* operator-
Minus(a, b) ==
  IF a.usec >= b.usec
  THEN [sec |-> a.sec - b.sec, usec |-> a.usec - b.usec]
  ELSE [sec |-> a.sec - b.sec - 1, usec |-> a.usec - b.usec + Second]

Now == [sec |-> 0, usec |-> usec]

\* pollfd(): when to call work(), if no other watcher is earlier.
Limit == [sec |-> due, usec |-> 0]

\* mutant of Timeout: a deadline in the past is not noticed
TimeoutUnchecked ==
  LET delta == Minus(Limit, Now)
  IN  delta.sec * Second + delta.usec

\* limit - now, if that is not negative.
Timeout ==
  LET delta == Minus(Limit, Now)
  IN  IF delta.sec < 0 THEN 0 ELSE delta.sec * Second + delta.usec

Select ==
  /\ pc = "timeout"
  /\ remaining' = IF signalled THEN 0 ELSE Timeout
  /\ pc' = IF signalled THEN "test" ELSE "select"
  /\ UNCHANGED <<files, usec, due, steps, reader, signalled, skipped, polled>>

\* select() returns 0.
TimeOut ==
  /\ pc = "select"
  /\ remaining = 0
  /\ pc' = "test"
  /\ UNCHANGED <<files, clock, reader, signalled, skipped, polled>>

\* select() returns since another watcher is readable.
Wake ==
  /\ pc = "select"
  /\ remaining' = 0
  /\ pc' = "test"
  /\ UNCHANGED <<files, usec, due, steps, reader, signalled, skipped, polled>>

\* EINTR: the loop starts again without testing the deadline.
Interrupt ==
  /\ pc = "select"
  /\ remaining' = 0
  /\ signalled' = TRUE
  /\ pc' = "timeout"
  /\ UNCHANGED <<files, usec, due, steps, reader, skipped, polled>>

\* now >= limit
Due == Now.sec >= Limit.sec

\* Afterwards the pipe is drained, for a reload that keeps the watcher.
Test ==
  /\ pc = "test"
  /\ pc' = IF Due THEN "work" ELSE "timeout"
  /\ signalled' = FALSE
  /\ UNCHANGED <<files, clock, reader, skipped, polled>>
-----------------------------------------------------------------------------
(* The constructor, work() and the destructor.                             *)

\* f is at path now.
Found(f) == polled' = IF f = None THEN polled ELSE [polled EXCEPT ![f] = Len(content[f])]

\* work(): check again in a second.
Work ==
  /\ pc = "work"
  /\ due' = 1
  /\ pc' = IF fp = None THEN "fopen" ELSE "stat"
  /\ UNCHANGED <<files, usec, remaining, steps, reader, signalled, skipped, polled>>

\* mutant of Stat: any file at path will do
StatExists ==
  /\ pc = "stat"
  /\ IF at # None
     THEN pc' = "read" /\ Found(fp) /\ UNCHANGED reader
     ELSE pc' = "fopen" /\ Close /\ UNCHANGED polled
  /\ UNCHANGED <<files, clock, signalled, skipped>>

\* The open file is read on if it is the one at path, and closed otherwise.
\* No other file has its dev and ino as long as it is open.
Stat ==
  /\ pc = "stat"
  /\ IF at = fp
     THEN pc' = "read" /\ Found(fp) /\ UNCHANGED reader
     ELSE pc' = "fopen" /\ Close /\ UNCHANGED polled
  /\ UNCHANGED <<files, clock, signalled, skipped>>

\* stat() fails although the file is there: it is taken for another one, and
\* will be read again, as if it had come to path once more.
StatFails ==
  /\ pc = "stat"
  /\ at = fp
  /\ moves < MaxMoves
  /\ moves' = moves + 1
  /\ Arrive(fp)
  /\ Close
  /\ pc' = "fopen"
  /\ UNCHANGED <<content, clock, signalled, skipped, polled>>

\* mutant of OpenFile: a new file is not read before the next poll
OpenFileOnly ==
  /\ pc \in {"init", "fopen"}
  /\ fp' = at
  /\ Found(at)
  /\ pc' = "timeout"
  /\ UNCHANGED <<files, clock, pos, line, passed, torn, signalled, skipped>>

\* openFile(), which the constructor calls too.
OpenFile ==
  /\ pc \in {"init", "fopen"}
  /\ fp' = at
  /\ IF pc = "init" THEN UNCHANGED polled ELSE Found(at)
  /\ pc' = IF pc = "init" \/ at = None THEN "timeout" ELSE "read"
  /\ UNCHANGED <<files, clock, pos, line, passed, torn, signalled, skipped>>

Read ==
  /\ pc = "read"
  /\ ReadLines
  /\ pc' = "timeout"
  /\ UNCHANGED <<files, clock, signalled, skipped, polled>>

\* A system call fails: an exception that ends the daemon.
Fail ==
  /\ pc \in {"init", "fopen", "read"}
  /\ pc' = "failed"
  /\ UNCHANGED <<files, clock, reader, signalled, skipped, polled>>

\* Both destructors close an open file; what the second does is undefined.
\* A partial line is forgotten.
Delete ==
  /\ pc \in {"timeout", "test"}
  /\ fp' = None
  /\ pc' \in IF fp = None THEN {"deleted"} ELSE {"deleted", "crashed"}
  /\ UNCHANGED <<files, clock, pos, line, passed, torn, signalled, skipped, polled>>

Main ==
  \/ Select
  \/ TimeOut
  \/ Test
  \/ Work
  \/ Stat
  \/ OpenFile
  \/ Read

Others ==
  \/ \E f \in File \cup {None} : Move(f)
  \/ \E f \in File, c \in Char : Write(f, c)
  \/ \E s \in ClockSteps : SetClock(s)
  \/ Tick
  \/ Wake
  \/ Interrupt
  \/ StatFails

Next == Main \/ Others \/ Fail \/ Delete

Spec == Init /\ [][Next]_vars

FairSpec == Spec /\ WF_vars(Main) /\ WF_vars(Tick)
-----------------------------------------------------------------------------
\* No line is made of the end of one file and the start of the next, or
\* begins in the middle of a line, wherever a rotation finds the watcher.
LinesWhole == ~torn

\* A file is handed over at most once for each time it came to path, however
\* often it is exchanged between two polls or two system calls of one.
AtMostOnce == \A f \in File, k \in 1 .. MaxLength : passed[f][k] <= visits[f]

\* What a file held when work() found it at path is passed on by that call,
\* but for an incomplete line; only what is written after the last poll
\* before a rotation is lost.
PolledPassed ==
  pc \in {"timeout", "select", "test", "work", "stat"} =>
    \A f \in File, k \in 1 .. MaxLength :
      k <= polled[f] => passed[f][k] > 0 \/ \E i \in DOMAIN line : line[i] = <<f, k>>

\* Unless the clock is set, select() sleeps until the deadline and no
\* longer: it does not return early, to spin, nor late, to miss a poll.
SleepsTillDue ==
  pc = "select" /\ steps = 0 => remaining = Max({due * Second - usec, 0})

\* A line in the file at path goes to processLine(), or the file leaves,
\* although select() may be interrupted before each deadline, and also after
\* the clock was set back.
LinesArrive ==
  \A f \in File, k \in 1 .. MaxLength :
    (at = f /\ k \in DOMAIN content[f] /\ content[f][k] = "newline") ~>
      (passed[f][k] > 0 \/ at # f \/ pc \in Stopped)
=============================================================================
