---------------------------- MODULE BlockPromise ----------------------------
(***************************************************************************)
(* What detection relies on when it calls block(): an abstract             *)
(* specification that BlockMethods implements.  Install and Verdicts of    *)
(* Detector are this promise for a list of entries that is not spoiled.    *)
(***************************************************************************)
EXTENDS Naturals

CONSTANT Address

VARIABLES
  caller,         \* "idle", "waiting" for block(), or "exited"
  address,        \* the argument of the latest call
  verdict,        \* what the latest call returned
  made,           \* the latest call has made its entry
  entries,        \* entries[a]: how many entries block a
  spoiled         \* an entry made now would be of no effect

vars == <<caller, address, verdict, made, entries, spoiled>>

Init ==
  /\ caller = "idle"
  /\ address \in Address
  /\ verdict = FALSE
  /\ made = FALSE
  /\ entries = [a \in Address |-> 0]
  /\ spoiled \in BOOLEAN

Call(a) ==
  /\ caller = "idle"
  /\ caller' = "waiting"
  /\ address' = a
  /\ made' = FALSE
  /\ UNCHANGED <<verdict, entries>>

\* The call in progress has made its one entry, or makes it now.
Make ==
  /\ made' \in {made, TRUE}
  /\ entries' = IF made' = made THEN entries ELSE [entries EXCEPT ![address] = @ + 1]

\* TRUE means that there is an entry.  After FALSE there may be one, too.
Return ==
  /\ caller = "waiting"
  /\ caller' = "idle"
  /\ Make
  /\ verdict' \in BOOLEAN
  /\ verdict' => made' \/ spoiled
  /\ UNCHANGED address

\* block() throws; the command may still make the entry afterwards.
Throw ==
  /\ caller = "waiting"
  /\ caller' = "exited"
  /\ UNCHANGED <<address, verdict, made, entries>>

\* The list is spoiled by half of an entry, or by other programs.
Work ==
  /\ caller # "idle" \/ made' = made
  /\ Make
  /\ UNCHANGED <<caller, address, verdict>>

Next == ((\E a \in Address : Call(a)) \/ Return \/ Throw \/ Work) /\ spoiled' \in BOOLEAN

Spec == Init /\ [][Next]_vars
=============================================================================
