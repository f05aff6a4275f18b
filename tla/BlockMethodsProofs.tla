------------------------- MODULE BlockMethodsProofs -------------------------
(***************************************************************************)
(* Theorems about BlockMethods, for every pipe, every command's output and *)
(* every number of calls: types, no leaks, entries are kept, and the       *)
(* promise of BlockPromise.                                                *)
(***************************************************************************)
EXTENDS BlockMethods, TLAPS

\* Which descriptors are open where.
Descriptors ==
  /\ pc \in {"idle", "exited", "pipe", "open", "reap"} => fds = {}
  /\ pc \in {"fork", "close"} => fds = {"r", "w"}
  /\ pc = "read" => fds = {"r"}
  /\ pc = "catch" => fds \in {{}, {"r"}, {"r", "w"}}
  /\ pc \in {"print", "flush"} => fds = {"file"}

\* There is no child, and nothing of one, until fork() and after waitpid().
Children ==
  /\ pc \in {"idle", "pipe", "fork"} \cup Appending => child = "none"
  /\ pc \in {"idle", "pipe", "fork", "reap"} \cup Appending => writers = {} /\ pipe = 0

\* An exit status of 0 tells the truth, and no line is there before the flush.
Made ==
  /\ child = "zombie" /\ status = 0 => made
  /\ pc \in Appending => ~made

IInv == TypeOK /\ Descriptors /\ Children /\ Made

ChildStep == Exec \/ Output \/ Insert \/ Spawn \/ CloseOutput \/ DescendantExits \/ Exit \/ Killed
DaemonStep == Pipe \/ Fork \/ CloseWriteEnd \/ Read \/ ReadEnd \/ Reap \/ WaitFails \/ Catch
ListStep == Open \/ Printf \/ Flush \/ Edit

LEMMA InitInv == Init => IInv
<1> SUFFICES ASSUME Init PROVE IInv
  OBVIOUS
<1> USE DEF Init
<1>1. TypeOK
  <2>1. torn \in BOOLEAN
    OBVIOUS
  <2>2. pipe \in 0 .. PipeSize /\ todo \in 0 .. MaxOutput + 1 /\ calls \in 0 .. MaxCalls
    BY SizeAssumption
  <2>3. rules \in [Address -> Nat] /\ denied \in [Address -> Nat]
    OBVIOUS
  <2> QED  BY <2>1, <2>2, <2>3, Zenon DEF TypeOK
<1>2. Descriptors
  BY DEF Descriptors
<1>3. Children
  BY DEF Children, Appending
<1>4. Made
  BY DEF Made, Appending
<1> QED  BY <1>1, <1>2, <1>3, <1>4 DEF IInv

LEMMA CallInv ==
  ASSUME IInv, NEW a \in Address, Call(a)
  PROVE  IInv'
<1> USE DEF Call, IInv, process, list
<1>1. calls' \in 0 .. MaxCalls
  BY SizeAssumption DEF TypeOK
<1>2. TypeOK'
  BY <1>1 DEF TypeOK, Executing, Appending
<1>3. Descriptors'
  BY DEF TypeOK, Descriptors
<1>4. Children'
  BY DEF Children, Appending
<1>5. Made'
  BY DEF Made, Children, TypeOK
<1> QED  BY <1>2, <1>3, <1>4, <1>5

\* execute() in the daemon.
LEMMA DaemonInv ==
  ASSUME IInv, DaemonStep
  PROVE  IInv'
<1> USE SizeAssumption DEF SizeAssumption, IInv, TypeOK, Descriptors, Children, Made, Executing, Appending, process, list
<1>1. CASE Pipe
  BY <1>1 DEF Pipe
<1>2. CASE Fork
  BY <1>2 DEF Fork
<1>3. CASE CloseWriteEnd
  BY <1>3 DEF CloseWriteEnd
<1>4. CASE Read
  BY <1>4 DEF Read
<1>5. CASE ReadEnd
  BY <1>5 DEF ReadEnd
<1>6. CASE Reap
  BY <1>6 DEF Reap, Return
<1>7. CASE WaitFails
  BY <1>7 DEF WaitFails
<1>8. CASE Catch
  BY <1>8 DEF Catch
<1> QED  BY <1>1, <1>2, <1>3, <1>4, <1>5, <1>6, <1>7, <1>8 DEF DaemonStep

\* The child and its descendant run beside the daemon.
LEMMA ChildInv ==
  ASSUME IInv, ChildStep
  PROVE  IInv'
<1> USE SizeAssumption DEF SizeAssumption, IInv, TypeOK, Descriptors, Children, Made, Executing, Appending, process, list
<1>1. CASE Exec
  BY <1>1 DEF Exec
<1>2. CASE Output
  BY <1>2 DEF Output
<1>3. CASE Insert
  BY <1>3 DEF Insert
<1>4. CASE Spawn
  BY <1>4 DEF Spawn
<1>5. CASE CloseOutput
  BY <1>5 DEF CloseOutput
<1>6. CASE DescendantExits
  BY <1>6 DEF DescendantExits
<1>7. CASE Exit
  BY <1>7 DEF Exit, Exits
<1>8. CASE Killed
  BY <1>8 DEF Killed, Exits
<1> QED  BY <1>1, <1>2, <1>3, <1>4, <1>5, <1>6, <1>7, <1>8 DEF ChildStep

\* hosts.deny, and those who edit it.
LEMMA ListInv ==
  ASSUME IInv, ListStep
  PROVE  IInv'
<1> USE SizeAssumption DEF SizeAssumption, IInv, TypeOK, Descriptors, Children, Made, Executing, Appending, process, list
<1>1. CASE Open
  BY <1>1 DEF Open, Return
<1>2. CASE Printf
  BY <1>2 DEF Printf, Return
<1>3. CASE Flush
  <2> USE <1>3 DEF Flush, Append, Return
  <2>1. torn' \in BOOLEAN
    OBVIOUS
  <2>2. verdict' \in BOOLEAN /\ made' \in BOOLEAN /\ pc' = "idle"
    OBVIOUS
  <2>3. denied' \in [Address -> Nat]
    OBVIOUS
  <2>4. TypeOK'
    BY <2>1, <2>2, <2>3, Zenon
  <2>5. Descriptors' /\ Children' /\ Made'
    OBVIOUS
  <2> QED  BY <2>4, <2>5
<1>4. CASE Edit
  <2> USE <1>4 DEF Edit
  <2>1. torn' \in BOOLEAN
    OBVIOUS
  <2>2. replaced' \in BOOLEAN
    OBVIOUS
  <2>3. TypeOK'
    BY <2>1, <2>2, Zenon
  <2>4. Descriptors' /\ Children' /\ Made'
    OBVIOUS
  <2> QED  BY <2>3, <2>4
<1> QED  BY <1>1, <1>2, <1>3, <1>4 DEF ListStep
LEMMA NextCases ==
  ASSUME Next
  PROVE  (\E a \in Address : Call(a)) \/ DaemonStep \/ ChildStep \/ ListStep
BY DEF Next, Daemon, Child, Others, DaemonStep, ChildStep, ListStep

LEMMA StepInv == IInv /\ [Next]_vars => IInv'
<1> SUFFICES ASSUME IInv, [Next]_vars PROVE IInv'
  OBVIOUS
<1>1. CASE UNCHANGED vars
  BY <1>1 DEF IInv, TypeOK, Descriptors, Children, Made, Executing, Appending, vars, process, list
<1>2. CASE Next
  BY <1>2, NextCases, CallInv, DaemonInv, ChildInv, ListInv
<1> QED  BY <1>1, <1>2

\* The strengthening on which the theorems below rest: which descriptors,
\* child and output there may be at each system call of execute().
THEOREM InductiveInvariant == Spec => []IInv
BY InitInv, StepInv, PTL DEF Spec

\* BlockMethods' variables keep their types.
THEOREM TypeCorrect == Spec => []TypeOK
<1>1. IInv => TypeOK
  BY DEF IInv
<1> QED  BY <1>1, InductiveInvariant, PTL

\* execute() and the hosts.deny method leave no descriptor open on any path,
\* and execute() returns only when its child is reaped and its output read.
THEOREM LeakCorrect == Spec => []NothingLeaked
<1>1. IInv => NothingLeaked
  BY DEF IInv, Descriptors, Children, NothingLeaked
<1> QED  BY <1>1, InductiveInvariant, PTL
-----------------------------------------------------------------------------
(* Entries.  The list in the firewall and the one in hosts.deny change by  *)
(* one entry, or not at all.                                               *)

More(f, g) == \A a \in Address : g[a] >= f[a]

LEMMA OneMore ==
  ASSUME NEW f \in [Address -> Nat], NEW g, NEW b \in Address,
         g = f \/ g = [f EXCEPT ![b] = @ + 1]
  PROVE  More(f, g)
BY DEF More

LEMMA EntriesStep ==
  ASSUME IInv, [Next]_vars
  PROVE  /\ rules' = rules \/ rules' = [rules EXCEPT ![addr] = @ + 1]
         /\ denied' = denied \/ denied' = [denied EXCEPT ![addr] = @ + 1]
<1>1. CASE UNCHANGED vars
  BY <1>1 DEF vars, process, list
<1>2. CASE \E a \in Address : Call(a)
  BY <1>2 DEF Call, process, list
<1>3. CASE DaemonStep
  BY <1>3 DEF DaemonStep, Pipe, Fork, CloseWriteEnd, Read, ReadEnd, Reap, WaitFails, Catch,
              process, list
<1>4. CASE ChildStep
  BY <1>4 DEF ChildStep, Exec, Output, Insert, Spawn, CloseOutput, DescendantExits, Exit,
              Killed, list
<1>5. CASE ListStep
  BY <1>5 DEF ListStep, Open, Printf, Flush, Append, Edit, process, list
<1> QED  BY <1>1, <1>2, <1>3, <1>4, <1>5, NextCases

\* No call of block(), whether it succeeds or fails, removes the entry of
\* another.
THEOREM EntriesCorrect == Spec => EntriesKept
<1>1. ASSUME IInv, [Next]_vars
      PROVE  [\A a \in Address : rules'[a] >= rules[a] /\ denied'[a] >= denied[a]]_vars
  <2>1. addr \in Address /\ rules \in [Address -> Nat] /\ denied \in [Address -> Nat]
    BY <1>1 DEF IInv, TypeOK
  <2>2. More(rules, rules') /\ More(denied, denied')
    BY <1>1, <2>1, EntriesStep, OneMore
  <2> QED  BY <2>2 DEF More
<1> QED  BY <1>1, InductiveInvariant, PTL DEF Spec, EntriesKept
-----------------------------------------------------------------------------
(* BlockMethods implements BlockPromise.  Under the refinement mapping most *)
(* steps are Work, with or without the entry; Call, Return and Throw are    *)
(* the steps that enter and leave block().                                  *)

LEMMA InitStep == Init => Promise!Init
<1> SUFFICES ASSUME Init PROVE Promise!Init
  OBVIOUS
<1>1. Entries = [a \in Address |-> 0]
  BY DEF Init, Entries
<1>2. Spoiled \in BOOLEAN
  BY DEF Spoiled
<1> QED  BY <1>1, <1>2 DEF Init, Promise!Init, Caller

\* A step that makes no entry, and neither enters nor leaves block().
LEMMA NoEntryStep ==
  ASSUME Caller' = Caller, UNCHANGED <<addr, verdict, made, rules, denied>>
  PROVE  Promise!Next
<1>1. Entries' = Entries
  BY DEF Entries
<1>2. Promise!Make
  BY <1>1 DEF Promise!Make
<1>3. Promise!Work
  BY <1>2 DEF Promise!Work
<1> QED  BY <1>3 DEF Promise!Next, Spoiled

\* block() returns, and makes no entry in this step.
LEMMA ReturnStep ==
  ASSUME Caller = "waiting", Caller' = "idle", UNCHANGED <<addr, made, rules, denied>>,
         verdict' \in BOOLEAN, verdict' => made
  PROVE  Promise!Next
<1>1. Entries' = Entries
  BY DEF Entries
<1>2. Promise!Return
  BY <1>1 DEF Promise!Return, Promise!Make
<1> QED  BY <1>2 DEF Promise!Next, Spoiled

\* One more rule, or one more line, is one more entry.
LEMMA OneEntry ==
  ASSUME IInv,
         \/ rules' = [rules EXCEPT ![addr] = @ + 1] /\ denied' = denied
         \/ denied' = [denied EXCEPT ![addr] = @ + 1] /\ rules' = rules
  PROVE  Entries' = [Entries EXCEPT ![addr] = @ + 1]
<1>1. rules \in [Address -> Nat] /\ denied \in [Address -> Nat] /\ addr \in Address
  BY DEF IInv, TypeOK
<1>2. \A a \in Address : Entries'[a] = [Entries EXCEPT ![addr] = @ + 1][a]
  BY <1>1 DEF Entries
<1> QED  BY <1>2 DEF Entries

LEMMA CallStep ==
  ASSUME NEW a \in Address, Call(a)
  PROVE  Promise!Next
<1>1. Entries' = Entries
  BY DEF Call, Entries, process, list
<1>2. Promise!Call(a)
  BY <1>1 DEF Call, Promise!Call, Caller
<1> QED  BY <1>2 DEF Promise!Next, Spoiled

LEMMA DaemonRefines ==
  ASSUME IInv, DaemonStep
  PROVE  Promise!Next
<1> USE DEF process, list
<1>1. CASE Pipe \/ Fork \/ CloseWriteEnd \/ Read \/ ReadEnd \/ WaitFails
  BY <1>1, NoEntryStep DEF Pipe, Fork, CloseWriteEnd, Read, ReadEnd, WaitFails, Caller
<1>2. CASE Reap
  <2>1. status = 0 => made
    BY <1>2 DEF Reap, IInv, Made
  <2> QED  BY <1>2, <2>1, ReturnStep DEF Reap, Return, Caller
<1>3. CASE Catch
  <2>1. Entries' = Entries
    BY <1>3 DEF Catch, Entries
  <2>2. Promise!Throw
    BY <1>3, <2>1 DEF Catch, Promise!Throw, Caller
  <2> QED  BY <2>2 DEF Promise!Next, Spoiled
<1> QED  BY <1>1, <1>2, <1>3 DEF DaemonStep

LEMMA ChildRefines ==
  ASSUME IInv, ChildStep
  PROVE  Promise!Next
<1> USE DEF process, list
<1>1. CASE Insert
  <2>1. Caller # "idle"
    BY <1>1 DEF Insert, IInv, Children, Caller
  <2>2. Entries' = [Entries EXCEPT ![addr] = @ + 1]
    BY <1>1, OneEntry DEF Insert
  <2>3. Promise!Make
    BY <1>1, <2>2 DEF Insert, Promise!Make
  <2>4. Promise!Work
    BY <1>1, <2>1, <2>3 DEF Insert, Promise!Work, Caller
  <2> QED  BY <2>4 DEF Promise!Next, Spoiled
<1>2. CASE Exec \/ Output \/ Spawn \/ CloseOutput \/ DescendantExits \/ Exit \/ Killed
  BY <1>2, NoEntryStep
     DEF Exec, Output, Spawn, CloseOutput, DescendantExits, Exit, Killed, Caller
<1> QED  BY <1>1, <1>2 DEF ChildStep

LEMMA ListRefines ==
  ASSUME IInv, ListStep
  PROVE  Promise!Next
<1> USE DEF process, list
<1>1. CASE Open
  BY <1>1, NoEntryStep, ReturnStep DEF Open, Return, Caller
<1>2. CASE Printf
  BY <1>2, NoEntryStep, ReturnStep DEF Printf, Return, Caller
<1>3. CASE Flush
  <2>1. PICK part \in {"none", "some", "whole"} :
          Append(part) /\ (Return(FALSE) \/ (part = "whole" /\ Return(TRUE)))
    BY <1>3 DEF Flush
  <2>2. made = FALSE
    BY <1>3 DEF Flush, IInv, TypeOK, Made, Appending
  <2>3. made' \in {made, TRUE}
    BY <2>1, <2>2 DEF Append
  <2>4. Entries' = IF made' = made THEN Entries ELSE [Entries EXCEPT ![addr] = @ + 1]
    <3>1. CASE made'
      BY <1>3, <2>1, <2>2, <3>1, OneEntry DEF Flush, Append
    <3>2. CASE ~made'
      BY <1>3, <2>1, <2>2, <3>2 DEF Flush, Append, Entries
    <3> QED  BY <3>1, <3>2
  <2>5. verdict' \in BOOLEAN /\ (verdict' => made' \/ Spoiled)
    BY <1>3, <2>1 DEF Flush, Append, Return, Spoiled, Appending
  <2>6. Promise!Return
    BY <1>3, <2>1, <2>3, <2>4, <2>5 DEF Flush, Return, Promise!Return, Promise!Make, Caller
  <2> QED  BY <2>6 DEF Promise!Next, Spoiled
<1>4. CASE Edit
  BY <1>4, NoEntryStep DEF Edit, Caller
<1> QED  BY <1>1, <1>2, <1>3, <1>4 DEF ListStep

LEMMA NextRefines == IInv /\ [Next]_vars => [Promise!Next]_(Promise!vars)
<1> SUFFICES ASSUME IInv, [Next]_vars PROVE [Promise!Next]_(Promise!vars)
  OBVIOUS
<1>1. CASE UNCHANGED vars
  BY <1>1 DEF vars, process, list, Promise!vars, Caller, Entries, Spoiled
<1>2. CASE Next
  BY <1>2, NextCases, CallStep, DaemonRefines, ChildRefines, ListRefines
<1> QED  BY <1>1, <1>2

\* Both block methods keep the promise that detection relies on.
THEOREM PromiseCorrect == Spec => KeepsPromise
BY InitStep, NextRefines, InductiveInvariant, PTL DEF Spec, KeepsPromise, Promise!Spec
=============================================================================
