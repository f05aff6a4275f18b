----------------------------- MODULE RatePolicy -----------------------------
(***************************************************************************)
(* What blockad promises about addresses, without its data structures: an  *)
(* address is blocked when, and only when, it makes more than rate_max     *)
(* attempts within rate_interval, unless it is exempt.  The policy keeps   *)
(* the complete history of an address, where the daemon keeps a pruned     *)
(* deque (module Detector, which implements this specification).           *)
(*                                                                         *)
(* Two events weaken the promise, and the policy says how:                 *)
(*   stepped   the wall clock was set back: "within the interval" has lost *)
(*             its meaning, and the promise with it;                       *)
(*   widened   a reload enlarged rate_interval: an attempt the shorter     *)
(*             interval had expired may or may not be counted, so a block  *)
(*             is still justified but no longer certain.                   *)
(***************************************************************************)
EXTENDS Integers, Sequences, FiniteSets

CONSTANTS
  Addr,       \* addresses
  Config      \* configurations the administrator may install

VARIABLES
  now,        \* the wall clock, in seconds
  config,     \* the active configuration
  hist,       \* hist[a]: times of the counted attempts of a, oldest first
  blocked,    \* addresses the process has blocked
  failures,   \* failures[a]: times that blocking a was tried and failed
  stepped,    \* the clock has been set back since the process started
  widened     \* a reload has enlarged rate_interval since then

policyVars == <<now, config, hist, blocked, failures, stepped, widened>>

\* The attempts of history h that count at time t under configuration c.
InWindow(h, t, c) == {j \in DOMAIN h : h[j] >= t - c.rate_interval}

OverRate(h, t, c) == Cardinality(InWindow(h, t, c)) > c.rate_max

NoHist == [a \in Addr |-> <<>>]
Zero == [a \in Addr |-> 0]

Init ==
  /\ now = 0
  /\ config \in Config
  /\ hist = NoHist
  /\ blocked = {}
  /\ failures = Zero
  /\ stepped = FALSE
  /\ widened = FALSE

\* Address a makes an attempt.  It is counted; then it is blocked, or
\* blocking it fails, only if it is over the rate, and certainly then.
Attempt(a) ==
  /\ a \notin blocked \cup config.exempted
  /\ hist' = [hist EXCEPT ![a] = Append(@, now)]
  /\ LET over == OverRate(hist'[a], now, config) IN
     \/ /\ over \/ stepped
        /\ blocked' = blocked \cup {a}
        /\ UNCHANGED failures
     \/ /\ over \/ stepped
        /\ failures' = [failures EXCEPT ![a] = @ + 1]
        /\ UNCHANGED blocked
     \/ /\ ~over \/ stepped \/ widened
        /\ UNCHANGED <<blocked, failures>>
  /\ UNCHANGED <<now, config, stepped, widened>>

Advance ==
  /\ now' = now + 1
  /\ UNCHANGED <<config, hist, blocked, failures, stepped, widened>>

SetBack ==
  /\ now' \in 0 .. now - 1
  /\ stepped' = TRUE
  /\ UNCHANGED <<config, hist, blocked, failures, widened>>

\* SIGHUP: the record of past attempts survives (blockad.8, NOTES).
Reload(c) ==
  /\ config' = c
  /\ widened' = (widened \/ c.rate_interval > config.rate_interval)
  /\ UNCHANGED <<now, hist, blocked, failures, stepped>>

\* A new process has forgotten everything ("fresh start", blockad.8, NOTES).
Restart(c) ==
  /\ config' = c
  /\ hist' = NoHist
  /\ blocked' = {}
  /\ failures' = Zero
  /\ stepped' = FALSE
  /\ widened' = FALSE
  /\ UNCHANGED now

Next ==
  \/ \E a \in Addr : Attempt(a)
  \/ Advance
  \/ SetBack
  \/ \E c \in Config : Reload(c) \/ Restart(c)

Spec == Init /\ [][Next]_policyVars
=============================================================================
