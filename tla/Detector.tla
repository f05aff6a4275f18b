------------------------------ MODULE Detector ------------------------------
(***************************************************************************)
(* BlockingWatcher of src/blockad.cc: a line read from a logfile is tried  *)
(* against every configured pattern; each address captured is counted, and *)
(* an address counted too often is handed to the configured block method.  *)
(*                                                                         *)
(* Time is the wall clock, which may be set back.  SIGHUP replaces the     *)
(* configuration between two lines; addressData survives it and dies with  *)
(* the process.  A pattern stands for a regex and its capture number, and  *)
(* Capture says what it yields on each line.                               *)
(***************************************************************************)
EXTENDS Integers, Sequences

CONSTANTS
  Addr,           \* addresses (class Address)
  Pattern,        \* ConfFile::Match
  Line,           \* lines a logfile may hold
  Capture,        \* Capture[l][p]: what pattern p yields on line l:
  NoMatch,        \*   the regex does not match,
  NotAnAddress,   \*   the text captured is no address,
  NoCapture,      \*   the group took no part in the match, or an address
  NoLine,         \* no line is being processed
  Config,         \* configurations the administrator may install
  MaxTime,        \* bound: the clock stops here
  MaxAttempts     \* bound: attempts of an address after which no line is read

BlockMethod == {"iptables", "hosts.deny"}

ConfigRecord ==
  [patterns : Seq(Pattern), exempted : SUBSET Addr, rate_max : Nat \ {0},
   rate_interval : Nat \ {0}, block : BlockMethod]

ASSUME ConfigAssumption == Config \subseteq ConfigRecord
ASSUME LineAssumption ==
  /\ Capture \in [Line -> [Pattern -> Addr \cup {NoMatch, NotAnAddress, NoCapture}]]
  /\ Addr \cap {NoMatch, NotAnAddress, NoCapture} = {}
  /\ NoLine \notin Line
ASSUME BoundAssumption == MaxTime \in Nat /\ MaxAttempts \in Nat

VARIABLES
  now,            \* time()
  config,         \* *config
  addressData,    \* BlockingWatcher::addressData
  line,           \* processLine's argument, or NoLine
  i,              \* processLine's loop index, from 1
  status,         \* "running", "exited" (exit(1) or killed), "aborted"
  installed,      \* entries put in the firewall or hosts.deny by this process
  hist,           \* history: times of every counted attempt of this process
  failures,       \* history: failed attempts to block
  stepped,        \* history: the clock was set back
  widened         \* history: a reload enlarged rate_interval

process == <<addressData, line, i, status>>
ghosts == <<hist, failures, stepped, widened>>
vars == <<now, config, process, installed, ghosts>>

AddressData == [times : Seq(Int), blocked : BOOLEAN]

TypeOK ==
  /\ now \in 0 .. MaxTime
  /\ config \in Config
  /\ addressData \in [Addr -> AddressData]
  /\ line \in Line \cup {NoLine}
  /\ i \in 1 .. Len(config.patterns) + 1
  /\ status \in {"running", "exited", "aborted"}
  /\ installed \in [Addr -> Nat]
  /\ hist \in [Addr -> Seq(Int)]
  /\ failures \in [Addr -> Nat]
  /\ stepped \in BOOLEAN
  /\ widened \in BOOLEAN

NoData == [a \in Addr |-> [times |-> <<>>, blocked |-> FALSE]]
NoHist == [a \in Addr |-> <<>>]
Zero == [a \in Addr |-> 0]

Init ==
  /\ now = 0
  /\ config \in Config
  /\ addressData = NoData
  /\ line = NoLine
  /\ i = 1
  /\ status = "running"
  /\ installed = Zero
  /\ hist = NoHist
  /\ failures = Zero
  /\ stepped = FALSE
  /\ widened = FALSE
-----------------------------------------------------------------------------
\* readLines hands over a complete line.
BeginLine(l) ==
  /\ status = "running"
  /\ line = NoLine
  /\ \A a \in Addr : Len(hist[a]) < MaxAttempts
  /\ line' = l
  /\ i' = 1
  /\ UNCHANGED <<now, config, addressData, status, installed, ghosts>>

Matching == status = "running" /\ line # NoLine /\ i <= Len(config.patterns)

Captured == Capture[line][config.patterns[i]]

\* The pattern does not match, the address is exempt, or already blocked.
Skip ==
  /\ Matching
  /\ \/ Captured = NoMatch
     \/ Captured \in config.exempted
     \/ Captured \in Addr /\ addressData[Captured].blocked
  /\ i' = i + 1
  /\ UNCHANGED <<now, config, addressData, line, status, installed, ghosts>>

PopsNone(s, cutoff, k) == k = 0     \* mutant of PopsOld: nothing expires

\* mutant of PopsOld: an attempt exactly rate_interval ago expires
PopsBoundary(s, cutoff, k) ==
  /\ k \in 0 .. Len(s)
  /\ \A j \in 1 .. k : s[j] <= cutoff
  /\ k < Len(s) => s[k + 1] > cutoff

\* Exactly k times lead deque s and are older than cutoff: the loop pops k.
PopsOld(s, cutoff, k) ==
  /\ k \in 0 .. Len(s)
  /\ \A j \in 1 .. k : s[j] < cutoff
  /\ k < Len(s) => s[k + 1] >= cutoff

\* The deque after the loop and push_back.
Counted(s, k) == Append(SubSeq(s, k + 1, Len(s)), now)

\* mutant of Exceeds: one attempt too many is allowed
ExceedsByTwo(times) == Len(times) > config.rate_max + 1

Exceeds(times) == Len(times) > config.rate_max

\* What block(a) may do: return true, return false, or (execute() only; the
\* hosts.deny method catches its errors) throw.
Verdicts(method) ==
  {"blocked", "failed"} \cup IF method = "iptables" THEN {"threw"} ELSE {}

\* block() returning true has installed an entry; a failure may have left
\* one behind (fclose() fails after a flush, the command is killed late).
Install(a, verdict) ==
  \E left \in {0, 1} :
    /\ verdict = "blocked" => left = 1
    /\ installed' = [installed EXCEPT ![a] = @ + left]
    /\ failures' = [failures EXCEPT ![a] = @ + IF verdict = "blocked" THEN 0 ELSE 1]

\* mutant of BlockAddress: the blocked flag is forgotten
BlockForgotten(a, times) ==
  \E verdict \in Verdicts(config.block) :
    /\ Install(a, verdict)
    /\ addressData' = [addressData EXCEPT ![a].times = times]
    /\ status' = IF verdict = "threw" THEN "exited" ELSE status

\* The rate is exceeded: block, and remember it only if block() said so.
BlockAddress(a, times) ==
  \E verdict \in Verdicts(config.block) :
    /\ Install(a, verdict)
    /\ addressData' =
         [addressData EXCEPT ![a] = [times |-> times, blocked |-> verdict = "blocked"]]
    /\ status' = IF verdict = "threw" THEN "exited" ELSE status

NoBlock(a, times) ==
  /\ addressData' = [addressData EXCEPT ![a].times = times]
  /\ UNCHANGED <<status, installed, failures>>

\* detectedAddress(): prune, count, and block if the rate is exceeded.
Detect(a) ==
  /\ Matching
  /\ Captured = a
  /\ a \notin config.exempted
  /\ ~addressData[a].blocked
  /\ \E k \in 0 .. Len(addressData[a].times) :
       /\ PopsOld(addressData[a].times, now - config.rate_interval, k)
       /\ LET times == Counted(addressData[a].times, k) IN
          IF Exceeds(times) THEN BlockAddress(a, times) ELSE NoBlock(a, times)
  /\ hist' = [hist EXCEPT ![a] = Append(@, now)]
  /\ i' = i + 1
  /\ UNCHANGED <<now, config, line, stepped, widened>>

\* Address(address) throws InvalidAddress, which only main() catches; an
\* unset group makes std::string throw out_of_range, which nobody catches.
BadCapture ==
  /\ Matching
  /\ Captured \in {NotAnAddress, NoCapture}
  /\ status' = IF Captured = NotAnAddress THEN "exited" ELSE "aborted"
  /\ UNCHANGED <<now, config, addressData, line, i, installed, ghosts>>

EndLine ==
  /\ status = "running"
  /\ line # NoLine
  /\ i = Len(config.patterns) + 1
  /\ line' = NoLine
  /\ i' = 1
  /\ UNCHANGED <<now, config, addressData, status, installed, ghosts>>
-----------------------------------------------------------------------------
Tick ==
  /\ now < MaxTime
  /\ now' = now + 1
  /\ UNCHANGED <<config, process, installed, ghosts>>

\* The administrator, or a time service, sets the clock back.
SetBack ==
  /\ now' \in 0 .. now - 1
  /\ stepped' = TRUE
  /\ UNCHANGED <<config, process, installed, hist, failures, widened>>

\* mutant of Reload: the signal handler itself reloads, at any time
ReloadAnytime(c) ==
  /\ status = "running"
  /\ config' = c
  /\ widened' = (widened \/ c.rate_interval > config.rate_interval)
  /\ UNCHANGED <<now, process, installed, hist, failures, stepped>>

\* SIGHUP with a valid file: only between two lines, as main() is one thread.
Reload(c) ==
  /\ status = "running"
  /\ line = NoLine
  /\ config' = c
  /\ widened' = (widened \/ c.rate_interval > config.rate_interval)
  /\ UNCHANGED <<now, process, installed, hist, failures, stepped>>

\* The process is stopped by a signal, at any point.
Kill ==
  /\ status = "running"
  /\ status' = "exited"
  /\ UNCHANGED <<now, config, addressData, line, i, installed, ghosts>>

Restart(c) ==
  /\ status # "running"
  /\ config' = c
  /\ addressData' = NoData
  /\ line' = NoLine
  /\ i' = 1
  /\ status' = "running"
  /\ installed' = Zero
  /\ hist' = NoHist
  /\ failures' = Zero
  /\ stepped' = FALSE
  /\ widened' = FALSE
  /\ UNCHANGED now

Next ==
  \/ \E l \in Line : BeginLine(l)
  \/ Skip
  \/ \E a \in Addr : Detect(a)
  \/ BadCapture
  \/ EndLine
  \/ Tick
  \/ SetBack
  \/ \E c \in Config : Reload(c)
  \/ Kill
  \/ \E c \in Config : Restart(c)

Spec == Init /\ [][Next]_vars
-----------------------------------------------------------------------------
Blocked == {a \in Addr : addressData[a].blocked}

Policy == INSTANCE RatePolicy WITH blocked <- Blocked

\* Counting attempts in a pruned deque implements the policy over complete
\* histories: detectedAddress() tries to block exactly when the address made
\* more than rate_max attempts in the last rate_interval seconds, never an
\* exempt one, and a reload forgets nothing.
ImplementsPolicy == Policy!Spec

\* Deque s is the end of history h.
IsTailOf(s, h) ==
  /\ Len(s) <= Len(h)
  /\ \A j \in 1 .. Len(s) : s[j] = h[(Len(h) - Len(s)) + j]

\* What s lacks of h is older than cutoff.
ForgottenBefore(s, h, cutoff) == \A j \in 1 .. Len(h) - Len(s) : h[j] < cutoff

\* What the deque holds: the latest attempts, and while the clock was never
\* set back and no reload widened the interval, every attempt missing from
\* it is out of the window.  (The while loop only looks at the front.)
DequeIsRecentHistory ==
  \A a \in Addr :
    /\ IsTailOf(addressData[a].times, hist[a])
    /\ ~stepped /\ ~widened =>
         ForgottenBefore(addressData[a].times, hist[a], now - config.rate_interval)

\* An address is blocked at most once per process: beyond one entry, every
\* further entry is what a failed block() left behind; and the blocked flag,
\* which switches detection off, is never set without an entry.
OneEntryPerAddress ==
  \A a \in Addr :
    /\ installed[a] <= failures[a] + IF addressData[a].blocked THEN 1 ELSE 0
    /\ addressData[a].blocked => installed[a] >= 1

\* The deque of an address grows beyond the largest configured rate only by
\* failed attempts to block it: with a block method that works, detection
\* needs bounded memory per address whatever is logged.
DequeBounded ==
  \A a \in Addr :
    \E c \in Config :
      Len(addressData[a].times)
        <= c.rate_max + failures[a] + IF addressData[a].blocked THEN 1 ELSE 0
=============================================================================
