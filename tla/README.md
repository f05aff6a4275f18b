# A verification development of blockad

blockad watches logfiles, picks the addresses of failed logins out of their
lines, and blocks an address that fails too often.  This directory models the
daemon in TLA+, checks the models with TLC on small instances, and proves with
TLAPS, for every value of the constants, that the invariants hold and that the
detailed specifications implement the abstract ones.

## The system

| Part | Source | State | Operations |
|---|---|---|---|
| Detection | `blockad.cc` 41-117 | `addressData` (per address: the deque of attempt times, the blocked flag), shared by all watchers | `processLine`, `detectedAddress`, `blockAddress` |
| Main loop | `blockad.cc` 119-317 | signal mask, SIGHUP handler, `signal_pipe`, `config`, `watchers` | start, wait in `select`, work the watchers, drain the pipe, reload (`updateWatchers`) |
| Inotify watcher | `InotifyWatcher.cc`, `WatcherImplementation.cc` | `fp`, `line`, `file_wd`; in the kernel the event queue and the watches | constructor, `openFile`, `closeFile`, `readLines`, `work` |
| Polling watcher | `PollingWatcher.cc` | `fp`, `line`, `next`, `dev`, `ino` | constructor, `work` once a second |
| Configuration file | `ConfFile.cc` | files, patterns, exemptions, rate, block method | `splitLine`, `parseString`, `parseLine` |
| Addresses | `Address.cc` | 128-bit address, network and mask | `convert`, `assign`, `matches` |
| Regular expressions | `Regex.cc` | reference count of the compiled expression | `compile`, copy, assign, destroy, `execute` |
| Block methods | `iptables.cc`, `hosts.deny.cc`, `BlockMethod.cc`, `execute.cc` | the firewall or hosts.deny, a child process and its pipe | `block`, `execute` |
| Helpers | `StdioFile.cc`, `IOError.cc`, `log.cc`, `nonblock.cc`, `timeval.h` | an open `FILE` | wrappers; subtraction and comparison of times |

Everything runs in one thread.  What makes the program hard is what happens
around it between two of its system calls: SIGHUP at any moment; files
created, renamed, removed and written while events about them wait in the
kernel, or between two polls; the wall clock set back; commands that fail
after they have done half of their work, or block on their output; and sequences of reloads that hand watchers from one list to
the next.  `PROJECT.json` lists these hazards at their lines, with the
properties that watch them.

The parts interact thus: `main()` (Daemon) calls `work()` of a watcher whose
descriptor is readable (InotifyWatcher) or whose time has come
(PollingWatcher); `readLines()` (WatcherImplementation) calls `processLine()`
for each line (Detector), which calls the block method (BlockMethods), and that
may wait for a child process.  No
line is processed while a reload runs, as constructors and destructors of
watchers read none; so a reload is one step for Detector, and many for
Daemon.

## Modules

| Module | What it is |
|---|---|
| `RatePolicy` | abstract specification: who is blocked, over complete histories of attempts |
| `Detector` | detection as the code does it; implements `RatePolicy` |
| `DetectorProofs` | theorems about `Detector`, and that it implements `RatePolicy` |
| `Daemon` | `main()`, the signal handler, `updateWatchers()` |
| `DaemonProofs` | theorems about `Daemon` |
| `WatcherImplementation` | the base class of the watchers: files, lines, `readLines()`, `processLine()` |
| `WatcherImplementationProofs` | lemmas about `readLines()` and `closeFile()`, for both watchers |
| `InotifyWatcher` | the watcher that waits for events, and the kernel's queue |
| `InotifyWatcherProofs` | theorems about `InotifyWatcher` |
| `PollingWatcher` | the watcher that looks once a second, and how the main loop wakes it |
| `PollingWatcherProofs` | theorems about `PollingWatcher` |
| `BlockPromise` | abstract specification: what detection relies on when it calls `block()` |
| `BlockMethods` | iptables with `execute()` and the child process, and hosts.deny; implements `BlockPromise` |
| `BlockMethodsProofs` | theorems about `BlockMethods` |
| `ConfFile` | the parser of the configuration file, and the reload as it sees it |
| `ConfFileProofs` | theorems about `ConfFile` |
| `AddressPattern` | networks and masks, with a reference definition |
| `AddressPatternProofs` | that the two agree |
| `MC...` | values of the constants for TLC |

Operators whose comment begins "mutant of" are variants of the definition they
name, each with a plausible bug; they take no part in the specifications and
show that each property can fail.

### Detector and RatePolicy

One action per branch of the loop in `processLine`: `Skip` (no match, exempt,
already blocked), `Detect` (all of `detectedAddress`, with the block
attempt), `BadCapture` (a captured text that is no address ends the daemon,
an unset group aborts it).  A line that matches several patterns is counted
once for each, as in the code.  `block()` may succeed, fail, or (iptables)
throw, and a failure may leave an entry behind (`Verdicts`, `Install`).  The
clock ticks and may be set back (`SetBack`); reload and restart replace the
configuration.  `hist` and `failures` are history variables: every counted
attempt of this process, and every failed attempt to block.

`RatePolicy` has no deque: `Attempt` blocks, or fails to block, exactly when
the complete history holds more than `rate_max` attempts in the window.  After
a clock step it promises nothing about when; after a reload that widens the
interval it promises that a block is justified but not that it happens, since
attempts pruned under the shorter interval are gone.

### Daemon

`pc` walks through startup (`pidfile`, `read`, `mask`, `handler`),
`updateWatchers` (`update`, one iteration of the first loop per step; `delete`,
one of the second per step), and the inner loop (`unmask`, `select`, `return`,
`work`, `signal`), then `parse`.  `heap` says which watcher objects are
allocated, and for which path; `watchers` and `newWatchers` hold pointers.
`Sighup` may come in every state: masked it becomes pending, caught it puts a
byte in the pipe (`AddByte`: none if the pipe is full), otherwise it kills.
`SameFile` is the comparison of line 140 as written, with its index `i` on
both sides; beyond the end of the old list the value read is undefined and
both outcomes, and a crash (`Die`), are allowed.

### InotifyWatcher

One path and a few inodes.  `Create`, `MoveIn`, `MoveAway`, `Unlink`/`Vanish`,
`Write` and `Forget` are what other programs and the kernel do, at any moment;
each posts its events to `queue` as inotify does: equal neighbours are merged,
and a full queue takes one overflow event.  The watcher takes one step per
system call that others can come between: `WatchDir`, `FOpen`, `AddWatch`
(whose path need not lead to the open file any more), `SeekEnd`,
`ReadAfterOpen`, `ReadEvents`, and one step per event handled.  `readLines()`
is one step: what is written during it is read by it or announced by an event
after it, which is a write before or after the step.

The class the two watchers derive from is a module that theirs extend, as in
the code.  A line handed to `processLine()` is the sequence of places
`<<f, k>>` it was read from.  The history variables count how often each place
was handed over (`passed`), how long a followed file was when it left the path
(`owed`), how often it came there (`visits`), and whether the watcher kept pace
(`late`, `calm`).

What is assumed of the kernel: the events of one rename are posted together;
no watch descriptor is used twice (so IN_IGNORED, which carries a stale one,
is left out); up to Linux 5.2 an unlink posts its event before the entry is
gone, later ones do both at once, and the model allows both.

### PollingWatcher

`pc` follows one watcher and the main loop around it: `timeout` (`pollfd()`
and the timeout), `select`, `test` (`now >= limit`), then `work()` by its
system calls (`work`, `stat`, `fopen`, `read`).  `select()` ends when its
timeout has run down, at any moment for another watcher (`Wake`), or with
EINTR (`Interrupt`), after which the loop goes back without testing the
deadline but finds the signal pipe readable.  As one path is polled, what lies
at it may change (`Move`) between any two steps; inode and device identify an
open file, so `dev` and `ino` are `fp` itself.  `StatFails` is the case that
`stat()` fails although the file is there, which closes it, and it is read
again; `visits` counts this as another visit.

Times are relative to the current second of the wall clock, so that it may run
for ever in finitely many states: `due` is `next` less that second, `usec` the
fraction, `remaining` what is left of the timeout.  `Minus` is the subtraction
of `timeval.h` with its borrow.  `SetClock` sets the wall clock, which
`select()` does not notice.

The constructor reads nothing, but it does not skip the content of the file
either: the first `work()` hands it all over.  So a restarted daemon counts the
attempts in its logfiles again, as of now, where blockad.8:94-95 says that it
has forgotten them ("fresh start").  The destructor closes `fp`
and leaves it to the base class's destructor, which closes it again (`Delete`,
with both outcomes of that).

### BlockMethods and BlockPromise

A call (`Call`) of either method.  iptables: `execute()` has one action per
system call, each of which may fail; `Exec`, `Output`, `Exit` are the child's,
`Insert`, `Spawn`, `CloseOutput` what the command may do, and `Killed` a signal.
The command exits with 0 only if the rule is there; it may write more than the
pipe holds, and leave a descendant that has its output.  `fds` are the daemon's
descriptors, `writers` those who hold the write end otherwise.  Any exception
goes through `Catch` and ends the daemon.

hosts.deny: `Open`, `Printf` (into the buffer), `Flush` (the `fclose()` in
`close()`, or in the destructor after a failure), which may let nothing, a part or all
of the line through, with or without an error in the last case.  A line
appended to an incomplete one is of no effect: `denied` counts lines of their
own only.  The file may end so from the start, by an earlier failure, or by an
edit, and may be replaced while it is open (`Edit`).

`BlockPromise` says that a call makes at most one entry, that TRUE means the
entry is there unless the list was spoiled, and that FALSE and an exception
mean nothing.  `Install` and `Verdicts` of Detector are this promise for a list
that is not spoiled: Detector's exact count of entries assumes that hosts.deny
does not end in half a line.

### ConfFile and AddressPattern

`splitLine()` and `parseString()` take a line apart one character or escape
per step (`pc` is `split` or `string`), `parseLine()` applies its directive
(`parse`), and the file ends `accepted`, `rejected` (a `SyntaxError`, which
`main()` logs) or `aborted` (any other exception: `EscapeAtEnd`).  `draft` is
the `ConfFile` under construction and `config` the one in force.  A line is a
sequence of character codes; codes above 255 stand for runs of letters that
matter only as a whole, such as keywords and paths.  What `strtol()`,
`regcomp()` and `inet_pton()` make of a word is given by the functions
`Number`, `Groups`, `Rate` and `Exempt`: words outside their domains are
invalid.  `strtol()` reads a count and its interval together, as `COUNT/UNIT`.
The value of an escape is that of its last three digits (`Value`) unless one
before them is not 0, which is the test the code makes after each digit
(`TooLarge`).

The properties know how a file came about: `document.words` holds the words
its lines were written from (or `Unknown` for lines of arbitrary characters),
and `SplitsAsWritten` and `AllOrNothing` compare with them.  What it means that
a line was written from words is `WritesLine`, read off the manual page and not
off the parser: each word stands at a place of `document.places`, bare, in
single quotes, or in double quotes where each of its characters stands for
itself or is written as one of the escapes, with blanks between them, and
perhaps a comment behind.  `DocumentAssumption` demands it of the files, and TLC
evaluates it for those of the runs.  `Means` says what the directives of a file
amount to: those of one command are numbered in order (`Rank`), and the last
one of `rate` and of `block` wins (`IsLast`).

`AddressPattern` has no state: `Pattern` is `assign()`, `Matches` is
`matches()`, and `InNetwork` says bit by bit what a network is.

## Runs

| Run | Question | Result |
|---|---|---|
| `detector` | Does the pruned deque implement the policy? Are blocks counted once? Is the deque bounded? | holds |
| `daemon` | Is a SIGHUP ever lost, or deadly? Who owns each watcher at each step of a reload? Which file does it watch? | holds |
| `daemon_live` | Do reloads take effect, and do watchers with events get their turn? | holds |
| `daemon_watched` | Is every configured file watched after any reload? | violated |
| `inotify` | Right file, nothing lost, nothing twice, whole lines, no null `FILE`? | holds |
| `inotify_live` | Does a written line arrive? | holds |
| `inotify_late` | Is a file that leaves its path always read to the end? | violated |
| `polling` | Does the watcher wake in time and read what it found, once, in whole lines? | holds |
| `block` | Does `block()` return, clean up, keep other entries, and tell the truth? | holds |
| `conffile` | Are words found again however they are quoted? Does a file take effect as a whole or not at all? Do masks mean networks? | holds |
| `conffile_abort` | Does a wrong file always leave the old configuration in force? | violated |
| `exempt_hostbits` | Is a network exempt whichever of its addresses names it? | violated |

### Bounds

* `detector`: two addresses, two patterns, five lines (one per pattern, one
  that matches both, one that captures no address, one with an unset group),
  configurations that differ in rate, interval, exemptions and method, three
  clock values and three attempts per address: more than the largest rate plus
  one failed block, and time enough for an attempt to expire under one interval
  and not under the other.
* `daemon`: lists that keep, shorten, extend, reorder and exchange files, and
  one that names a file twice; five objects, what an update needs that replaces
  three watchers by two; a pipe of five bytes, one more than a drain, so that a
  reload leaves a byte behind and the pipe overflows.  Objects are symmetric.
* `daemon_live`: fewer lists and three objects, no symmetry.
* `inotify`: two inodes of two characters, two changes of the directory (enough
  for a rotation, and for a second change during the handling of the first), a
  queue of three events (two changes and a write, or an overflow) and batches
  of two (so that a batch ends between two events of one change).  `MaxMoves`
  and `MaxLength` bound the environment.  Deadlock is not checked, as the
  watcher may rest when the environment has used up its changes.
* `inotify_live`: the same with files of one character, no symmetry.
* `polling`: two inodes of one character (longer files are read by the same
  `readLines()` in `inotify`), two changes of the path (a rotation and a
  return), half seconds (the smallest unit that needs a borrow), the clock set
  once by a second forward or back.  No symmetry, as liveness is checked.
* `block`: two addresses, three calls (one whose line is torn, one that is
  glued to it, one after it), a pipe that holds two of up to three writes.
  Deadlock is not checked, as the calls are bounded.

* `conffile`: every word of up to two of eight characters (the special ones, a
  digit, a letter, a newline) in every way of writing it; two such words of one
  character on a line with blanks and a comment; files of up to two of 23
  directives, right and wrong, and of three of nine; every line of up to four
  special characters, and escapes of up to three digits.  Parsing a line
  carries only `bit`, `bits` and `quote` from one word to the next, and a file
  only `draft`.  An address has three bytes, an IPv4 address two and a prefix
  of one: masks end before, at, inside and after a byte.  Addresses are judged
  on those named and on all at a distance of one bit from them.  Parsing
  stops, so deadlock is not checked.

### Fairness

`Daemon!FairSpec` is weak fairness of `Main`, the process's own steps taken
together: one thread that never waits except in `select()` (disabled while
nothing is readable).  Nothing is assumed of signals, events, edits or deaths.
`InotifyWatcher!FairSpec` is weak fairness of the watcher's own steps, which
the main loop justifies: `EventsWorked` of Daemon is what it needs.
`PollingWatcher!FairSpec` is weak fairness of `Main`, the loop and `work()`,
which wait only in `select()`, and of `Tick`: time passes.  Nothing is assumed
of wake-ups, signals, failures and other programs.  `BlockMethods!FairSpec` is
weak fairness of the daemon's steps but for failures of `read()` and
`waitpid()`, and of `Child`: a command that can write does, and one that has
nothing left to write ends.  Nothing is assumed of descendants.

## What the violations show

* `daemon_watched`: line 140 of `blockad.cc` compares `oldConfig->files[i]`
  where it means `files[j]`.  A list `[a, b]` reloaded as `[c, b]` gives `b`
  the watcher of `a` and deletes that of `b`.  `WatchedIfAligned` states what
  remains true, and `CommonPrefixKept` that the beginning the lists share keeps
  its watchers.
* `inotify_late`: an event about the arrival of a file that is open already
  closes it unread; if the file has left, the rest is lost.
* `conffile_abort`: line 208 of `ConfFile.cc` tests `pos > line.size()` where
  `pos` can only be equal; `line.at()` then throws what nobody catches.
* `exempt_hostbits`: `exempt 10.0.1.1/24` matches nothing, since the masked
  address is compared with the unmasked network.

Known limits of the code that the properties name as exceptions:

* `SighupKillsOnlyAtStartup`: the pidfile is written before SIGHUP is blocked
  and caught, so one that comes at once terminates the daemon.
* `AtMostOnceIfCalm`: the "trouble" that `tests/t-watch` notes at line 63.  The
  event of a removal may be handled while the name still leads to the file,
  which is then opened and read again.
* `PolledPassed`: what is written to a file after the last poll before its
  rotation is lost.
* `KeepsPromise`: after a part of a line got through to hosts.deny, on a full
  disk, the next line is glued to it, and `block()` returns true for an address
  that no line denies; so does a line that goes to a file just replaced.
* `Returns`: a descendant of the command that keeps its output open blocks the
  whole daemon.

The model of the inotify watcher also reaches `"gone"` (the file goes away
between `fopen()` and `inotify_add_watch()`, and the daemon exits, although a
missing file is meant to be waited for) and `"crashed"`: an overflow event has `wd` -1, which is
`file_wd` while no file is open, and `readLines()` then uses a null `FILE`.

## Proofs

Assumed are only the types of the constants and what keeps two of them apart
(`ConfigAssumption`, `LineAssumption`, `BoundAssumption`; `FilesAssumption`,
`RefAssumption`, `PipeAssumption`; `FileAssumption`, `LengthAssumption`;
`TimeAssumption`; `SizeAssumption`; `BytesAssumption`; `WordAssumption`, what
`strtol()`, `regcomp()` and `inet_pton()` can return), and how files are written
(`DocumentAssumption`).  The bounds of the
model-checked instances are constants too, and the theorems hold for all of
them.

`DetectorProofs`:
* `TypeCorrect`.
* `DequeCorrect`, by the invariant `IInv`: besides the property, the times of
  the history are sorted and none is in the future while the clock was never
  set back (`Ordered`).  The order is needed because the loop looks only at the
  front of the deque: what it keeps may hide nothing, and what it pops is older
  than anything it keeps.  `PopAndPush` is the arithmetic of one detection.
* `EntriesCorrect`: one entry per address, and bounded deques, by the effect of
  each verdict.
* `PolicyCorrect`, the refinement of `RatePolicy`.  `DetectRefines` is the step
  that matters: the number of attempts of the complete history in the window is
  the length of the pruned deque (`DequeCounts`), because, the history being
  sorted, what is in the window is its tail (`TailInWindow`).  Every other step
  maps to a step of the policy of its own, or to a stutter.

`DaemonProofs`:
* `TypeCorrect`, with `Shape`: in which phase which array has which length and
  may hold null pointers.
* `SignalCorrect`: `NoLostReload` is inductive, given that a pipe with bytes
  left after a drain is about to be answered by the reload it started.
* `OwnershipCorrect`: ownership moves from the old array to the new one in
  `Reuse`, appears in `Create` and disappears in `Delete`.
* `ReloadCorrect`: by `ReloadInv` (the null slots of the old array are a
  prefix; new slots hold the watchers of the old ones at their place as far as
  the lists agree).
* `StartupCorrect`: `SighupKillsOnlyAtStartup`, by `Guarded` (masked until the
  handler is installed, and from then on caught).

`BlockMethodsProofs`: its `IInv` says of each system call which descriptors are
open (`Descriptors`), whether there is a child and who can write to the pipe
(`Children`), and whether the entry can be there (`Made`).
* `TypeCorrect`, `LeakCorrect`: parts and consequences of it.  `LeakCorrect`
  needs `Children` because nothing but `waitpid()` removes the child.
* `EntriesCorrect`: no step but `Insert` and `Flush` touches the lists, and
  these add one (`EntriesStep`, `OneMore`).
* `PromiseCorrect`, the refinement of `BlockPromise`: while `block()` runs most
  steps are its `Work` or stutter; `Insert` is a `Work`, and `Flush` a `Return`,
  that makes the entry (which is not there yet, by `Made`); every other way out
  is `Return` or `Throw`.  That TRUE tells the truth rests on `Made`'s account of
  the exit status.

`WatcherImplementationProofs`: lemmas both watchers rest on.  `Begun`, where the
incomplete line begins, splits what was read of the open file into lines that
went to `processLine()` and what is in `line`; `ReadEffect` and `RunProcessed`
say what `readLines()` makes of a file that has grown, and the `...Keeps` lemmas
that reading, closing, opening and the growth of files keep `LinesWhole` and the
counts per character.

`PollingWatcherProofs`, by `Invariant`, which has a part about the files and one
about time:
* `PollingTypes`.
* `PollingLinesWhole`: a line never joins pieces of two files, as `closeFile()`
  processes the partial line and clears it before another file is opened.
* `PollingAtMostOnce`: needs `Counts`, that an unread character was handed over
  fewer times than its file came to the path.
* `PollingLosesNothing`: needs `Polled`, the same property inside `work()`.
* `PollingSleepsTillDue`: `TimeoutIsLeft` is the arithmetic of `timeval.h`, and
  `TickKeeps` that time runs off the deadline and the timeout alike.

`InotifyWatcherProofs`, by `Invariant`, which is about `Pending`: the events in
the buffer of `work()`, and behind them those in the kernel's queue.
* `InotifyTypes`, from `Base`, which holds always: among others, which watches
  exist in which phase (`Watches`), and that no line is cut (`LinesWhole`).
* `InotifySettles` and `InotifyKeepsUp`, from `Following`, which holds as long as
  no event was lost: another file than the open one is at the path only while
  an event of the directory is pending or `fopen()` is still to come (`Noticed`);
  the event that closes the open file is behind one of the directory
  (`SelfLater`); the file at the path is followed, and what was not read of it
  will be read before the next event of the directory (`Tracked`); so is what a
  file held when it left (`Owed`).  Each system call of the watcher has
  a lemma, and so has each kind of change by others (`ChangeKeeps`): where a
  change falls between two calls, its events are what keeps `Noticed`.
* `InotifyLinesWhole`.
* `InotifyAtMostOnce`, from `Counting`, which holds while the watcher is calm:
  at most one change is pending (`OneChange`), and `Counts` as above.
* `InotifyCrashes`: while no file is open `file_wd` is -1 (`Phases`), and only
  an overflow event carries that (`Watches`).

`AddressPatternProofs`: `MasksCorrect` says that a pattern of any number of
bytes matches the addresses that agree with its argument in the bits of the
mask, and none if the argument has others: the run `exempt_hostbits` shows that
case.  A byte under a byte of the mask is judged by its eight bits
(`ByteMasked`, nine cases), and a bit of an address is found in its byte
(`BitPlaces`, `BitSplits`).

`ConfFileProofs`, by `Invariant`, for files and lines of any length:
* `ConfFileTypes`.
* `ConfFileSplits`, by `Tracks`: between two words the parser stands behind the
  last word it has found and before the next one, or before nothing but blanks
  and a comment (`Between`); between quotes it stands before one of the next
  word's characters, and has all those before it (`Within`).  So the step it
  takes is the one the next word demands (`Upcoming`, `UpcomingCharacter`).
  That an escape ends where it was meant to is `OneEnd`, and that a bare word
  does is `BareText`.
* `ConfFileAllOrNothing`, by `Drafted`: `draft` holds what the lines before this
  one mean, and `config` is still the old one.  A line of a command puts its
  directive behind the earlier ones, whose numbers remain (`RankNext`,
  `RankKept`), and leaves the other commands alone (`OtherLine`).  A line
  without words means nothing (`BlankLine`); that the parser takes no other line
  for one is `Tracks` again.
* `ConfFileExempts`, from `Exempts`, that each exemption in `draft` is the
  pattern of its argument with an accepted number of bits, and `MasksCorrect`.

Model-checked only: liveness (`ReloadTakesEffect`, `EventsWorked`, `LinesArrive`
of both watchers, `Returns` of `BlockMethods`), which is outside the prover's
reach.  Every other property of the passing runs is stated by a theorem.

## Not modelled, and the plan

1. The reference count of `CompiledRegex`.  `compile()` of a Regex that is
   compiled already would delete what others refer to, but blockad never does
   that: it compiles each once, and copies it only into the vector of patterns.
2. A composition of Daemon's loop with watchers and Detector: a line logged is
   an attempt counted.

Files truncated in place are not modelled: the position of the reader is then
beyond the end, and no document promises anything.

Left out for good: logging, option parsing, packaging, `IOError`, the methods
of `StdioFile` that hosts.deny does not use, the signal mask a child starts
with, failures of memory allocation.
