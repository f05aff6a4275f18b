------------------------------- MODULE Daemon -------------------------------
(***************************************************************************)
(* main() and updateWatchers() of src/blockad.cc: how the process starts,  *)
(* waits in select() for its watchers and for SIGHUP, lets the watchers    *)
(* work, and exchanges them for those of a re-read configuration file.     *)
(*                                                                         *)
(* Only the list of watched files of a configuration matters here.  A      *)
(* watcher is the heap object; what it reads and does is the subject of    *)
(* other modules, and here it only has an event to be worked or has none   *)
(* (an inotify event queued, or the time of its next poll come).  SIGHUP   *)
(* is masked except around select(), and its handler writes a byte to a    *)
(* non-blocking pipe that select() watches.                                *)
(***************************************************************************)
EXTENDS Integers, Sequences

CONSTANTS
  Files,          \* file lists of valid configuration files
  Invalid,        \* a file ConfFile rejects with a runtime_error
  Fatal,          \* a file on which ConfFile throws any other exception
  Ref,            \* addresses of watcher objects
  Free,           \* heap[r] when r is not allocated
  Null,           \* a null pointer
  SignalPipe,     \* signal_pipe[0] among select's descriptors
  PipeCapacity    \* bytes the pipe holds before write() fails with EAGAIN

Drain == 4        \* sizeof drain

Paths == UNION {{f[k] : k \in DOMAIN f} : f \in Files}

ASSUME FilesAssumption ==
  /\ \A f \in Files : f \in Seq(Paths)
  /\ {Invalid, Fatal} \cap Files = {}
ASSUME RefAssumption == {Null, SignalPipe} \cap Ref = {} /\ Free \notin Paths
ASSUME PipeAssumption == PipeCapacity \in Nat \ {0}

VARIABLES
  file,           \* contents of the configuration file
  pc,             \* where main() is
  masked,         \* SIGHUP is blocked
  handler,        \* SIGHUP is caught
  pending,        \* SIGHUP is pending
  pipe,           \* bytes in signal_pipe
  config,         \* config->files
  oldFiles,       \* updateWatchers(): oldConfig->files, empty if NULL
  newFiles,       \* updateWatchers(): newConfig->files
  watchers,       \* watchers (oldWatchers in updateWatchers)
  newWatchers,    \* updateWatchers(): newWatchers
  heap,           \* heap[r]: the path of the watcher at r, or Free
  ready,          \* watchers with an event to work
  got,            \* descriptors select() returned; {} after EINTR
  n,              \* index of the loops over watchers, from 1
  unserved,       \* history: SIGHUP was sent since the file was last read
  aligned         \* history: no reload reordered the file list (Aligned)

signals == <<masked, handler, pending, pipe>>
update == <<oldFiles, newFiles, newWatchers>>
vars == <<file, pc, signals, config, update, watchers, heap, ready, got, n,
          unserved, aligned>>

\* No process: none yet or exited ("down"), or terminated by SIGHUP ("killed");
\* before each startup step ("pidfile" .. "handler"); in updateWatchers
\* ("update", "delete"); at the parts of the inner loop.
Down == {"down", "killed"}
Startup == {"pidfile", "read", "mask", "handler"}
Waiting == {"unmask", "select", "return"}
Working == {"work", "signal"}
PC == Down \cup {"parse", "update", "delete"} \cup Startup \cup Waiting \cup Working

TypeOK ==
  /\ file \in Files \cup {Invalid, Fatal}
  /\ pc \in PC
  /\ masked \in BOOLEAN
  /\ handler \in BOOLEAN
  /\ pending \in BOOLEAN
  /\ pipe \in 0 .. PipeCapacity
  /\ config \in Seq(Paths)
  /\ oldFiles \in Seq(Paths)
  /\ newFiles \in Seq(Paths)
  /\ watchers \in Seq(Ref \cup {Null})
  /\ newWatchers \in Seq(Ref)
  /\ heap \in [Ref -> Paths \cup {Free}]
  /\ ready \subseteq Ref
  /\ got \subseteq Ref \cup {SignalPipe}
  /\ n \in Nat \ {0}
  /\ unserved \in BOOLEAN
  /\ aligned \in BOOLEAN

Empty == [r \in Ref |-> Free]

Init ==
  /\ file \in Files \cup {Invalid, Fatal}
  /\ pc = "down"
  /\ masked = FALSE
  /\ handler = FALSE
  /\ pending = FALSE
  /\ pipe = 0
  /\ config = <<>>
  /\ oldFiles = <<>>
  /\ newFiles = <<>>
  /\ watchers = <<>>
  /\ newWatchers = <<>>
  /\ heap = Empty
  /\ ready = {}
  /\ got = {}
  /\ n = 1
  /\ unserved = FALSE
  /\ aligned = TRUE

\* The process is gone, and everything it held with it.
Gone(how) ==
  /\ pc' = how
  /\ masked' = FALSE
  /\ handler' = FALSE
  /\ pending' = FALSE
  /\ pipe' = 0
  /\ config' = <<>>
  /\ oldFiles' = <<>>
  /\ newFiles' = <<>>
  /\ watchers' = <<>>
  /\ newWatchers' = <<>>
  /\ heap' = Empty
  /\ ready' = {}
  /\ got' = {}
  /\ n' = 1
  /\ unserved' = FALSE
  /\ aligned' = TRUE
  /\ UNCHANGED file
-----------------------------------------------------------------------------
(* Startup.                                                                *)

Start ==
  /\ pc \in Down
  /\ pc' = "pidfile"
  /\ UNCHANGED <<file, signals, config, update, watchers, heap, ready, got, n,
                 unserved, aligned>>

\* Options, daemon(), and the pidfile that tells others whom to signal.
WritePidfile ==
  /\ pc = "pidfile"
  /\ pc' = "read"
  /\ UNCHANGED <<file, signals, config, update, watchers, heap, ready, got, n,
                 unserved, aligned>>

ReadFirst ==
  /\ pc = "read"
  /\ IF file \in Files
     THEN /\ config' = file
          /\ newFiles' = file
          /\ pc' = "mask"
          /\ unserved' = FALSE
          /\ UNCHANGED <<file, signals, oldFiles, newWatchers, watchers, heap,
                         ready, got, n, aligned>>
     ELSE Gone("down")

\* mutant of MaskSignal: SIGHUP is not blocked before the handler is there
MaskSignalNot ==
  /\ pc = "mask"
  /\ pc' = "handler"
  /\ UNCHANGED <<file, masked, handler, pending, pipe, config, update, watchers, heap,
                 ready, got, n, unserved, aligned>>

MaskSignal ==
  /\ pc = "mask"
  /\ masked' = TRUE
  /\ pc' = "handler"
  /\ UNCHANGED <<file, handler, pending, pipe, config, update, watchers, heap,
                 ready, got, n, unserved, aligned>>

CatchSignal ==
  /\ pc = "handler"
  /\ handler' = TRUE
  /\ pc' = "update"
  /\ UNCHANGED <<file, masked, pending, pipe, config, update, watchers, heap,
                 ready, got, n, unserved, aligned>>
-----------------------------------------------------------------------------
(* updateWatchers(oldConfig, newConfig, watchers).                         *)

\* The index i of its loop: newWatchers grows by one in every iteration.
Next_i == Len(newWatchers) + 1

\* mutant of SameFile: no watcher is re-used
NeverSame == {FALSE}

\* newConfig->files[i] == oldConfig->files[i].  Beyond the end of the old
\* list the read is undefined: it may yield anything, or crash (see Die).
SameFile ==
  IF Next_i <= Len(oldFiles) THEN {newFiles[Next_i] = oldFiles[Next_i]}
                             ELSE BOOLEAN

\* mutant of FirstHeld: the search runs from the end of the old array
LastHeld(j) ==
  /\ j \in DOMAIN oldFiles
  /\ watchers[j] # Null
  /\ \A k \in j + 1 .. Len(watchers) : watchers[k] = Null

FirstHeld(j) ==
  /\ j \in DOMAIN oldFiles
  /\ watchers[j] # Null
  /\ \A k \in 1 .. j - 1 : watchers[k] = Null

\* mutant of Reuse: the old pointer is not nulled
ReuseShared ==
  /\ pc = "update"
  /\ Next_i <= Len(newFiles)
  /\ TRUE \in SameFile
  /\ \E j \in DOMAIN oldFiles :
       /\ FirstHeld(j)
       /\ newWatchers' = Append(newWatchers, watchers[j])
  /\ UNCHANGED <<file, pc, signals, config, oldFiles, newFiles, watchers, heap,
                 ready, got, n, unserved, aligned>>

Reuse ==
  /\ pc = "update"
  /\ Next_i <= Len(newFiles)
  /\ TRUE \in SameFile
  /\ \E j \in DOMAIN oldFiles :
       /\ FirstHeld(j)
       /\ newWatchers' = Append(newWatchers, watchers[j])
       /\ watchers' = [watchers EXCEPT ![j] = Null]
  /\ UNCHANGED <<file, pc, signals, config, oldFiles, newFiles, heap, ready,
                 got, n, unserved, aligned>>

Create(r) ==
  /\ pc = "update"
  /\ Next_i <= Len(newFiles)
  /\ FALSE \in SameFile \/ ~\E j \in DOMAIN oldFiles : FirstHeld(j)
  /\ heap[r] = Free
  /\ heap' = [heap EXCEPT ![r] = newFiles[Next_i]]
  /\ newWatchers' = Append(newWatchers, r)
  /\ UNCHANGED <<file, pc, signals, config, oldFiles, newFiles, watchers, ready,
                 got, n, unserved, aligned>>

\* mutant of EndUpdate: the last file is left out
EndUpdateEarly ==
  /\ pc = "update"
  /\ Next_i >= Len(newFiles)
  /\ pc' = "delete"
  /\ n' = 1
  /\ UNCHANGED <<file, signals, config, update, watchers, heap, ready, got,
                 unserved, aligned>>

EndUpdate ==
  /\ pc = "update"
  /\ Next_i > Len(newFiles)
  /\ pc' = "delete"
  /\ n' = 1
  /\ UNCHANGED <<file, signals, config, update, watchers, heap, ready, got,
                 unserved, aligned>>

\* One iteration of the loop that deletes the watchers left over.
Delete ==
  /\ pc = "delete"
  /\ n <= Len(watchers)
  /\ IF watchers[n] = Null
     THEN UNCHANGED <<heap, ready>>
     ELSE /\ heap' = [heap EXCEPT ![watchers[n]] = Free]
          /\ ready' = ready \ {watchers[n]}
  /\ n' = n + 1
  /\ UNCHANGED <<file, pc, signals, config, update, watchers, got, unserved, aligned>>

\* The new array, and then the new configuration, replace the old ones.
Install ==
  /\ pc = "delete"
  /\ n > Len(watchers)
  /\ watchers' = newWatchers
  /\ config' = newFiles
  /\ newWatchers' = <<>>
  /\ oldFiles' = <<>>
  /\ newFiles' = <<>>
  /\ n' = 1
  /\ pc' = "unmask"
  /\ UNCHANGED <<file, signals, heap, ready, got, unserved, aligned>>
-----------------------------------------------------------------------------
(* The inner loop.                                                         *)

AddByteUnchecked(k) == k + 1     \* mutant of AddByte: the pipe is never full

AddByte(k) == IF k < PipeCapacity THEN k + 1 ELSE k

\* The set of descriptors is built; a pending SIGHUP is delivered at once.
Unmask ==
  /\ pc = "unmask"
  /\ masked' = FALSE
  /\ pending' = FALSE
  /\ pipe' = IF pending THEN AddByte(pipe) ELSE pipe
  /\ pc' = "select"
  /\ UNCHANGED <<file, handler, config, update, watchers, heap, ready, got, n,
                 unserved, aligned>>

Live == {watchers[k] : k \in DOMAIN watchers}

Readable == (ready \cap Live) \cup (IF pipe > 0 THEN {SignalPipe} ELSE {})

Select ==
  /\ pc = "select"
  /\ Readable # {}
  /\ got' = Readable
  /\ pc' = "return"
  /\ UNCHANGED <<file, signals, config, update, watchers, heap, ready, n,
                 unserved, aligned>>

\* mutant of Mask: a reload goes before the watchers
MaskReloadFirst ==
  /\ pc = "return"
  /\ masked' = TRUE
  /\ n' = 1
  /\ pc' = IF got = {} THEN "unmask" ELSE IF SignalPipe \in got THEN "signal" ELSE "work"
  /\ UNCHANGED <<file, handler, pending, pipe, config, update, watchers, heap,
                 ready, got, unserved, aligned>>

\* Back from select() with events, or with EINTR: round again.
Mask ==
  /\ pc = "return"
  /\ masked' = TRUE
  /\ n' = 1
  /\ pc' = IF got = {} THEN "unmask" ELSE "work"
  /\ UNCHANGED <<file, handler, pending, pipe, config, update, watchers, heap,
                 ready, got, unserved, aligned>>

\* Watcher n is worked if it has an event: its lines go to the detector.
Work ==
  /\ pc = "work"
  /\ n <= Len(watchers)
  /\ ready' = IF watchers[n] \in got THEN ready \ {watchers[n]} ELSE ready
  /\ n' = n + 1
  /\ UNCHANGED <<file, pc, signals, config, update, watchers, heap, got,
                 unserved, aligned>>

EndWork ==
  /\ pc = "work"
  /\ n > Len(watchers)
  /\ n' = 1
  /\ pc' = "signal"
  /\ UNCHANGED <<file, signals, config, update, watchers, heap, ready, got,
                 unserved, aligned>>

\* mutant of CheckPipe: the pipe is drained whether or not select() reported it
CheckPipeBlind ==
  /\ pc = "signal"
  /\ got' = {}
  /\ pc' = IF SignalPipe \in got THEN "parse" ELSE "unmask"
  /\ pipe' = IF pipe < Drain THEN 0 ELSE pipe - Drain
  /\ UNCHANGED <<file, masked, handler, pending, config, update, watchers, heap,
                 ready, n, unserved, aligned>>

\* mutant of CheckPipe: a reload waits until no watcher has anything to do
CheckPipeWhenIdle ==
  /\ pc = "signal"
  /\ got' = {}
  /\ IF got = {SignalPipe}
     THEN pc' = "parse" /\ pipe' = IF pipe < Drain THEN 0 ELSE pipe - Drain
     ELSE pc' = "unmask" /\ UNCHANGED pipe
  /\ UNCHANGED <<file, masked, handler, pending, config, update, watchers, heap,
                 ready, n, unserved, aligned>>

\* A byte in the pipe, of which up to Drain are read, ends the inner loop.
CheckPipe ==
  /\ pc = "signal"
  /\ got' = {}
  /\ IF SignalPipe \in got
     THEN pc' = "parse" /\ pipe' = IF pipe < Drain THEN 0 ELSE pipe - Drain
     ELSE pc' = "unmask" /\ UNCHANGED pipe
  /\ UNCHANGED <<file, masked, handler, pending, config, update, watchers, heap,
                 ready, n, unserved, aligned>>

\* A reload keeps to the positions of the old list: files equal to the old
\* list at their position come before all others, and if the list grows the
\* whole of the old one is kept.
Aligned(old, new) ==
  /\ \A j, k \in 1 .. Len(new) :
       j < k /\ k <= Len(old) /\ new[k] = old[k] => new[j] = old[j]
  /\ Len(new) > Len(old) => \A j \in 1 .. Len(old) : new[j] = old[j]

\* The configuration file is read again; an invalid one changes nothing.
Parse ==
  /\ pc = "parse"
  /\ IF file = Fatal
     THEN Gone("down")
     ELSE /\ unserved' = FALSE
          /\ IF file = Invalid
             THEN pc' = "unmask" /\ UNCHANGED <<oldFiles, newFiles, aligned>>
             ELSE /\ oldFiles' = config
                  /\ newFiles' = file
                  /\ aligned' = (aligned /\ Aligned(config, file))
                  /\ pc' = "update"
          /\ UNCHANGED <<file, signals, config, newWatchers, watchers, heap,
                         ready, got, n>>
-----------------------------------------------------------------------------
(* The environment.                                                        *)

\* SIGHUP is sent to the process that the pidfile names.  Masked, it stays
\* pending; caught, the handler writes to the pipe; otherwise it terminates
\* the process.  If it interrupts a select() that has nothing to report, that
\* returns EINTR.
Sighup ==
  /\ pc \notin Down \cup {"pidfile"}
  /\ IF masked
     THEN /\ pending' = TRUE
          /\ unserved' = TRUE
          /\ UNCHANGED <<file, pc, masked, handler, pipe, config, update, watchers,
                         heap, ready, got, n, aligned>>
     ELSE IF handler
     THEN /\ pipe' = AddByte(pipe)
          /\ unserved' = TRUE
          /\ \/ UNCHANGED <<pc, got>>
             \/ pc = "select" /\ Readable = {} /\ pc' = "return" /\ got' = {}
          /\ UNCHANGED <<file, masked, handler, pending, config, update, watchers,
                         heap, ready, n, aligned>>
     ELSE Gone("killed")

\* Something happens to a watched file, or the time to poll it comes.
Event(r) ==
  /\ heap[r] # Free
  /\ r \notin ready
  /\ ready' = ready \cup {r}
  /\ UNCHANGED <<file, pc, signals, config, update, watchers, heap, got, n,
                 unserved, aligned>>

\* The administrator replaces the configuration file.
Edit(c) ==
  /\ file' = c
  /\ UNCHANGED <<pc, signals, config, update, watchers, heap, ready, got, n,
                 unserved, aligned>>

\* An exception that main() turns into exit(1) (a watcher's constructor or
\* work(), nonblock()), a failed system call, an uncaught exception, the
\* crash of an undefined read, or another signal.
Die == pc \notin Down /\ Gone("down")

\* What the process does by itself.
Main ==
  \/ WritePidfile
  \/ ReadFirst
  \/ MaskSignal
  \/ CatchSignal
  \/ Reuse
  \/ \E r \in Ref : Create(r)
  \/ EndUpdate
  \/ Delete
  \/ Install
  \/ Unmask
  \/ Select
  \/ Mask
  \/ Work
  \/ EndWork
  \/ CheckPipe
  \/ Parse

Next ==
  \/ Main
  \/ Start
  \/ Sighup
  \/ \E r \in Ref : Event(r)
  \/ \E c \in Files \cup {Invalid, Fatal} : Edit(c)
  \/ Die

Spec == Init /\ [][Next]_vars

FairSpec == Spec /\ WF_vars(Main)
-----------------------------------------------------------------------------
\* However signals fall around the mask, select(), EINTR, a full pipe and the
\* four bytes of a drain, a SIGHUP that was sent and not yet answered by
\* reading the file is pending, in the pipe, or about to be answered.
NoLostReload == unserved => pending \/ pipe > 0 \/ pc = "parse"

\* Slots that own a watcher: delete leaves dangling pointers behind it.
OldSlots == {k \in DOMAIN watchers : watchers[k] # Null /\ (pc = "delete" => k >= n)}

\* At every step of every reload each allocated watcher has exactly one
\* owner, in the old or in the new array, and nothing else is owned: no
\* watcher is leaked, deleted twice, or worked after it was deleted.
OneOwner ==
  /\ \A r \in Ref : heap[r] # Free <=>
       \/ \E k \in OldSlots : watchers[k] = r
       \/ \E k \in DOMAIN newWatchers : newWatchers[k] = r
  /\ \A k \in OldSlots, m \in OldSlots : watchers[k] = watchers[m] => k = m
  /\ \A k \in DOMAIN newWatchers, m \in DOMAIN newWatchers :
       newWatchers[k] = newWatchers[m] => k = m
  /\ \A k \in OldSlots, m \in DOMAIN newWatchers : watchers[k] # newWatchers[m]

\* The inner loop has one watcher per configured file.
WatcherPerFile ==
  pc \in Waiting \cup Working \cup {"parse"} =>
    Len(watchers) = Len(config) /\ \A k \in DOMAIN watchers : watchers[k] \in Ref

\* The comments of updateWatchers ("re-use existing watchers if possible"):
\* after a reload each file is watched by the watcher in its place.
Watched ==
  pc \in Waiting \cup Working \cup {"parse"} =>
    \A k \in DOMAIN config : heap[watchers[k]] = config[k]

\* It is so as long as no reload reorders the list (Aligned).
WatchedIfAligned == aligned => Watched

\* Whatever else a reload does, it deletes no watcher of the part that the
\* old and the new list begin with: these files are read on from where they
\* were, and no line written during the reload is lost.
CommonPrefixKept ==
  pc = "delete" =>
    \A k \in DOMAIN watchers :
      (\A m \in 1 .. k : m \in DOMAIN newFiles /\ newFiles[m] = oldFiles[m])
        => watchers[k] = Null

\* SIGHUP terminates the daemon at most before it is blocked, while the
\* pidfile is there already (which blockad.8 does not say); later never, in
\* whichever order it meets the mask and the handler.
SighupKillsOnlyAtStartup == [][pc' = "killed" => pc \in {"read", "mask", "killed"}]_vars

\* Once a valid file is signalled and stays in place, it comes into force.
ReloadTakesEffect ==
  \A c \in Files : (unserved /\ file = c) ~> (config = c \/ file # c \/ pc \in Down)

\* An event of a watcher in use is worked, whatever signals arrive.
EventsWorked == \A r \in Ref : (r \in ready) ~> (r \notin ready)
=============================================================================
