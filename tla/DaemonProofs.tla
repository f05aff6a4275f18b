---------------------------- MODULE DaemonProofs ----------------------------
(***************************************************************************)
(* Theorems about main() and updateWatchers(), for every set of file       *)
(* lists, every number of objects and every size of the pipe.              *)
(*                                                                         *)
(* The argument about reloads rests on what the loop of updateWatchers     *)
(* keeps true although it compares the wrong index: the pointers it has    *)
(* nulled are the first ones, at most one per iteration (Nulls), and each  *)
(* position of the common beginning of the two lists is among them         *)
(* (PrefixMoved).                                                          *)
(***************************************************************************)
EXTENDS Daemon, TLAPS

Updating == pc \in {"update", "delete"}

\* The lengths of the arrays and lists, and what is empty when.
Shape ==
  /\ pc \in Down \cup Startup => watchers = <<>> /\ heap = Empty
  /\ ~Updating => newWatchers = <<>> /\ oldFiles = <<>>
  /\ Updating => Len(watchers) = Len(oldFiles) /\ Len(newWatchers) <= Len(newFiles)
  /\ pc = "delete" => Len(newWatchers) = Len(newFiles)
  /\ WatcherPerFile

LEMMA FilesType ==
  ASSUME NEW f \in Files
  PROVE  f \in Seq(Paths) /\ f # Invalid /\ f # Fatal
BY FilesAssumption

LEMMA EmptyType ==
  /\ <<>> \in Seq(Paths) /\ <<>> \in Seq(Ref) /\ <<>> \in Seq(Ref \cup {Null})
  /\ Len(<<>>) = 0
  /\ Empty \in [Ref -> Paths \cup {Free}]
  /\ 0 \in 0 .. PipeCapacity
  /\ {} \subseteq Ref /\ {} \subseteq Ref \cup {SignalPipe}
BY PipeAssumption DEF Empty

LEMMA GoneType ==
  ASSUME TypeOK, NEW how \in Down, Gone(how)
  PROVE  TypeOK' /\ Shape'
<1>1. /\ pc' \in PC /\ pc' \in Down
      /\ pc' \notin {"update", "delete", "parse"} \cup Waiting \cup Working
  BY DEF Gone, PC, Down, Waiting, Working
<1>2. TypeOK'
  <2>1. got' \subseteq Ref \cup {SignalPipe} /\ ready' \subseteq Ref
    BY DEF Gone
  <2>2. config' \in Seq(Paths) /\ oldFiles' \in Seq(Paths) /\ newFiles' \in Seq(Paths)
    BY EmptyType DEF Gone
  <2>3. watchers' \in Seq(Ref \cup {Null}) /\ newWatchers' \in Seq(Ref)
    BY EmptyType DEF Gone
  <2>4. heap' \in [Ref -> Paths \cup {Free}] /\ pipe' \in 0 .. PipeCapacity
    BY EmptyType DEF Gone
  <2>5. /\ masked' \in BOOLEAN /\ handler' \in BOOLEAN /\ pending' \in BOOLEAN
        /\ unserved' \in BOOLEAN /\ aligned' \in BOOLEAN
    BY Zenon DEF Gone
  <2>6. file' \in Files \cup {Invalid, Fatal} /\ n' \in Nat \ {0}
    <3>1. file' = file /\ n' = 1
      BY DEF Gone
    <3> QED
      BY <3>1 DEF TypeOK
  <2> QED
    BY <1>1, <2>1, <2>2, <2>3, <2>4, <2>5, <2>6 DEF TypeOK
<1>3. Shape'
  BY <1>1 DEF Gone, Shape, Updating, WatcherPerFile
<1> QED
  BY <1>2, <1>3

LEMMA AddByteType ==
  ASSUME NEW k \in 0 .. PipeCapacity
  PROVE  AddByte(k) \in 0 .. PipeCapacity /\ AddByte(k) > 0
BY PipeAssumption DEF AddByte

LEMMA ShapeInit == Init => TypeOK /\ Shape
<1> SUFFICES ASSUME Init PROVE TypeOK /\ Shape
  OBVIOUS
<1>1. /\ pc \in PC /\ pc \in Down
      /\ pc \notin {"update", "delete", "parse"} \cup Waiting \cup Working
  BY DEF Init, PC, Down, Waiting, Working
<1>2. TypeOK
  <2>1. /\ config \in Seq(Paths) /\ oldFiles \in Seq(Paths) /\ newFiles \in Seq(Paths)
        /\ watchers \in Seq(Ref \cup {Null}) /\ newWatchers \in Seq(Ref)
        /\ heap \in [Ref -> Paths \cup {Free}] /\ pipe \in 0 .. PipeCapacity
        /\ got \subseteq Ref \cup {SignalPipe} /\ ready \subseteq Ref
    BY EmptyType DEF Init
  <2>2. /\ masked \in BOOLEAN /\ handler \in BOOLEAN /\ pending \in BOOLEAN
        /\ unserved \in BOOLEAN /\ aligned \in BOOLEAN
    BY Zenon DEF Init
  <2>3. file \in Files \cup {Invalid, Fatal} /\ n \in Nat \ {0}
    BY DEF Init
  <2> QED
    BY <1>1, <2>1, <2>2, <2>3 DEF TypeOK
<1>3. Shape
  BY <1>1 DEF Init, Shape, Updating, WatcherPerFile
<1> QED
  BY <1>2, <1>3

\* What one iteration of the loop does when it re-uses a watcher.
LEMMA ReuseEffect ==
  ASSUME TypeOK, Shape, Reuse
  PROVE  \E j \in 1 .. Len(watchers) :
           /\ FirstHeld(j)
           /\ watchers[j] \in Ref
           /\ watchers' \in Seq(Ref \cup {Null})
           /\ Len(watchers') = Len(watchers)
           /\ \A k \in 1 .. Len(watchers) :
                watchers'[k] = IF k = j THEN Null ELSE watchers[k]
           /\ newWatchers' = Append(newWatchers, watchers[j])
           /\ newWatchers' \in Seq(Ref)
           /\ Len(newWatchers') = Len(newWatchers) + 1
           /\ newWatchers'[Len(newWatchers) + 1] = watchers[j]
           /\ \A k \in 1 .. Len(newWatchers) : newWatchers'[k] = newWatchers[k]
<1>1. PICK j \in DOMAIN oldFiles :
        /\ FirstHeld(j)
        /\ newWatchers' = Append(newWatchers, watchers[j])
        /\ watchers' = [watchers EXCEPT ![j] = Null]
  BY DEF Reuse
<1>2. /\ j \in 1 .. Len(watchers) /\ DOMAIN watchers = 1 .. Len(watchers)
      /\ watchers \in Seq(Ref \cup {Null}) /\ newWatchers \in Seq(Ref)
  BY <1>1 DEF Reuse, Shape, Updating, TypeOK
<1>3. watchers[j] \in Ref
  BY <1>1, <1>2 DEF FirstHeld
<1>4. /\ watchers' \in Seq(Ref \cup {Null})
      /\ Len(watchers') = Len(watchers)
      /\ \A k \in 1 .. Len(watchers) : watchers'[k] = IF k = j THEN Null ELSE watchers[k]
  BY <1>1, <1>2
<1>5. /\ newWatchers' \in Seq(Ref)
      /\ Len(newWatchers') = Len(newWatchers) + 1
      /\ newWatchers'[Len(newWatchers) + 1] = watchers[j]
      /\ \A k \in 1 .. Len(newWatchers) : newWatchers'[k] = newWatchers[k]
  BY <1>1, <1>2, <1>3
<1> QED
  BY <1>1, <1>2, <1>3, <1>4, <1>5

\* And when it makes a new one.
LEMMA CreateEffect ==
  ASSUME TypeOK, Shape, NEW r \in Ref, Create(r)
  PROVE  /\ newWatchers' \in Seq(Ref)
         /\ Len(newWatchers') = Len(newWatchers) + 1
         /\ newWatchers'[Len(newWatchers) + 1] = r
         /\ \A k \in 1 .. Len(newWatchers) : newWatchers'[k] = newWatchers[k]
         /\ newFiles[Len(newWatchers) + 1] \in Paths
         /\ heap[r] = Free
         /\ heap' \in [Ref -> Paths \cup {Free}]
         /\ heap'[r] = newFiles[Len(newWatchers) + 1]
         /\ \A s \in Ref : s # r => heap'[s] = heap[s]
<1>1. /\ newWatchers \in Seq(Ref) /\ newFiles \in Seq(Paths)
      /\ heap \in [Ref -> Paths \cup {Free}]
      /\ heap[r] = Free
      /\ heap' = [heap EXCEPT ![r] = newFiles[Len(newWatchers) + 1]]
      /\ newWatchers' = Append(newWatchers, r)
      /\ Len(newWatchers) + 1 <= Len(newFiles)
  BY DEF TypeOK, Create, Next_i
<1>2. newFiles[Len(newWatchers) + 1] \in Paths
  BY <1>1
<1> QED
  BY <1>1, <1>2

LEMMA ShapeStep == TypeOK /\ Shape /\ [Next]_vars => TypeOK' /\ Shape'
<1> SUFFICES ASSUME TypeOK, Shape, [Next]_vars PROVE TypeOK' /\ Shape'
  OBVIOUS
<1>t. /\ watchers \in Seq(Ref \cup {Null}) /\ newWatchers \in Seq(Ref)
      /\ oldFiles \in Seq(Paths) /\ newFiles \in Seq(Paths) /\ config \in Seq(Paths)
      /\ n \in Nat \ {0} /\ pipe \in 0 .. PipeCapacity
  BY DEF TypeOK
<1> USE DEF PC, Down, Startup, Waiting, Working
<1>1. ASSUME NEW how \in Down, Gone(how) PROVE TypeOK' /\ Shape'
  BY <1>1, GoneType
<1>2. CASE WritePidfile \/ MaskSignal \/ CatchSignal \/ Start \/ Unmask \/ Select
           \/ Mask \/ Work \/ EndWork \/ CheckPipe \/ EndUpdate
  <2>1. /\ TypeOK'
        /\ UNCHANGED <<watchers, heap, newWatchers, oldFiles, newFiles, config>>
    <3>1. AddByte(pipe) \in 0 .. PipeCapacity
      BY <1>t, AddByteType
    <3>2. pipe >= Drain => pipe - Drain \in 0 .. PipeCapacity
      BY <1>t, PipeAssumption DEF Drain
    <3>3. 0 \in 0 .. PipeCapacity /\ n + 1 \in Nat \ {0} /\ 1 \in Nat \ {0}
      BY <1>t, EmptyType
    <3>4. CASE WritePidfile \/ MaskSignal \/ CatchSignal \/ Start \/ EndWork \/ EndUpdate
      BY <1>2, <3>3, <3>4 DEF WritePidfile, MaskSignal, CatchSignal, Start, EndWork,
         EndUpdate, signals, update, TypeOK
    <3>5. CASE Unmask
      BY <3>1, <3>5 DEF Unmask, update, TypeOK
    <3>6. CASE Select
      BY <3>6 DEF Select, Readable, signals, update, TypeOK
    <3>7. CASE Mask
      BY <3>3, <3>7 DEF Mask, update, TypeOK
    <3>8. CASE Work
      BY <3>3, <3>8 DEF Work, signals, update, TypeOK
    <3>9. CASE CheckPipe
      <4>1. pipe' \in 0 .. PipeCapacity
        <5>1. pipe' = pipe \/ pipe' = 0 \/ (pipe >= Drain /\ pipe' = pipe - Drain)
          BY <1>t, <3>9 DEF CheckPipe, Drain
        <5> QED
          BY <1>t, <3>2, <3>3, <5>1
      <4>2. pc' \in {"parse", "unmask"} /\ got' = {}
        BY <3>9 DEF CheckPipe
      <4> QED
        <5>1. got' \subseteq Ref \cup {SignalPipe}
          BY <4>2
        <5>2. pc' \in PC
          BY <4>2
        <5>3. UNCHANGED <<file, masked, handler, pending, config, update, watchers, heap,
                 ready, n, unserved, aligned>>
          BY <3>9 DEF CheckPipe
        <5> QED
          BY <4>1, <5>1, <5>2, <5>3 DEF update, TypeOK
    <3> QED
      BY <1>2, <3>4, <3>5, <3>6, <3>7, <3>8, <3>9
  <2>2. Shape'
    <3>1. CASE EndUpdate
      BY <1>t, <2>1, <3>1 DEF EndUpdate, Shape, Updating, WatcherPerFile, Next_i
    <3>2. CASE pc \in Down \cup {"pidfile", "mask", "handler"} /\ (pc' \in Startup \/ pc' = "update")
      BY <1>t, <2>1, <3>2, EmptyType DEF Shape, Updating, WatcherPerFile
    <3>3. CASE pc \in Waiting \cup Working /\ pc' \in Waiting \cup Working \cup {"parse"}
      BY <1>t, <2>1, <3>3 DEF Shape, Updating, WatcherPerFile
    <3> QED
      BY <1>2, <3>1, <3>2, <3>3 DEF WritePidfile, MaskSignal, CatchSignal, Start, Unmask,
         Select, Mask, Work, EndWork, CheckPipe
  <2> QED
    BY <2>1, <2>2
<1>3. CASE ReadFirst
  <2>1. CASE file \in Files
    BY <1>3, <2>1, FilesType DEF ReadFirst, signals, TypeOK, Shape, Updating, WatcherPerFile
  <2>2. CASE file \notin Files
    BY <1>1, <1>3, <2>2 DEF ReadFirst
  <2> QED
    BY <2>1, <2>2
<1>4. CASE Reuse
  <2>1. /\ watchers' \in Seq(Ref \cup {Null}) /\ newWatchers' \in Seq(Ref)
        /\ Len(watchers') = Len(watchers) /\ Len(newWatchers') = Len(newWatchers) + 1
    BY <1>4, ReuseEffect
  <2>2. /\ pc' = "update" /\ pc = "update" /\ Len(newWatchers) + 1 <= Len(newFiles)
        /\ UNCHANGED <<file, pc, signals, config, oldFiles, newFiles, heap, ready,
                       got, n, unserved, aligned>>
    BY <1>4 DEF Reuse, Next_i
  <2>3. TypeOK'
    BY <2>1, <2>2 DEF signals, TypeOK
  <2>4. Shape'
    BY <2>1, <2>2 DEF Shape, Updating, WatcherPerFile
  <2> QED
    BY <2>3, <2>4
<1>5. ASSUME NEW r \in Ref, Create(r) PROVE TypeOK' /\ Shape'
  <2>1. /\ newWatchers' \in Seq(Ref) /\ heap' \in [Ref -> Paths \cup {Free}]
        /\ Len(newWatchers') = Len(newWatchers) + 1
    BY <1>5, CreateEffect
  <2>2. /\ pc' = "update" /\ pc = "update" /\ Len(newWatchers) + 1 <= Len(newFiles)
        /\ UNCHANGED <<file, pc, signals, config, oldFiles, newFiles, watchers, ready,
                       got, n, unserved, aligned>>
    BY <1>5 DEF Create, Next_i
  <2>3. TypeOK'
    BY <2>1, <2>2 DEF signals, TypeOK
  <2>4. Shape'
    BY <2>1, <2>2 DEF Shape, Updating, WatcherPerFile
  <2> QED
    BY <2>3, <2>4
<1>6. CASE Delete
  <2>1. heap' \in [Ref -> Paths \cup {Free}] /\ ready' \subseteq Ref
    BY <1>6 DEF Delete, TypeOK
  <2>2. n + 1 \in Nat \ {0}
    BY <1>t
  <2>3. TypeOK'
    BY <1>6, <2>1, <2>2 DEF Delete, signals, update, TypeOK
  <2>4. Shape'
    BY <1>6 DEF Delete, update, Shape, Updating, WatcherPerFile
  <2> QED
    BY <2>3, <2>4
<1>7. CASE Install
  <2>1. newWatchers \in Seq(Ref \cup {Null}) /\ \A k \in DOMAIN newWatchers : newWatchers[k] \in Ref
    BY <1>t
  <2>2. TypeOK'
    BY <1>7, <1>t, <2>1, EmptyType DEF Install, signals, TypeOK
  <2>3. Shape'
    BY <1>7, <2>1 DEF Install, Shape, Updating, WatcherPerFile
  <2> QED
    BY <2>2, <2>3
<1>8. CASE Parse
  <2>1. CASE file = Fatal
    BY <1>1, <1>8, <2>1 DEF Parse
  <2>2. CASE file = Invalid
    BY <1>8, <2>2, FilesAssumption, <1>1 DEF Parse, signals, TypeOK, Shape, Updating, WatcherPerFile
  <2>3. CASE file \in Files
    <3>1. file \in Seq(Paths) /\ file # Invalid /\ file # Fatal
      BY <2>3, FilesType
    <3>2. aligned' \in BOOLEAN
      BY <1>8, <2>3, <3>1 DEF Parse, TypeOK
    <3>3. TypeOK'
      BY <1>8, <1>t, <3>1, <3>2 DEF Parse, signals, TypeOK
    <3>4. Shape'
      BY <1>8, <1>t, <3>1, EmptyType DEF Parse, Shape, Updating, WatcherPerFile
    <3> QED
      BY <3>3, <3>4
  <2> QED
    BY <2>1, <2>2, <2>3 DEF TypeOK
<1>9. CASE Sighup
  <2>1. CASE masked
    BY <1>9, <2>1 DEF Sighup, update, TypeOK, Shape, Updating, WatcherPerFile
  <2>2. CASE ~masked /\ handler
    <3>1. AddByte(pipe) \in 0 .. PipeCapacity
      BY <1>t, AddByteType
    <3>2. TypeOK'
      BY <1>9, <2>2, <3>1 DEF Sighup, update, TypeOK
    <3>3. Shape'
      BY <1>9, <2>2 DEF Sighup, update, Shape, Updating, WatcherPerFile
    <3> QED
      BY <3>2, <3>3
  <2>3. CASE ~masked /\ ~handler
    BY <1>1, <1>9, <2>3 DEF Sighup
  <2> QED
    BY <2>1, <2>2, <2>3
<1>10. ASSUME NEW r \in Ref, Event(r) PROVE TypeOK' /\ Shape'
  BY <1>10 DEF Event, signals, update, TypeOK, Shape, Updating, WatcherPerFile
<1>11. ASSUME NEW c \in Files \cup {Invalid, Fatal}, Edit(c) PROVE TypeOK' /\ Shape'
  BY <1>11 DEF Edit, signals, update, TypeOK, Shape, Updating, WatcherPerFile
<1>12. CASE Die
  BY <1>1, <1>12 DEF Die
<1>13. CASE UNCHANGED vars
  BY <1>13 DEF vars, signals, update, TypeOK, Shape, Updating, WatcherPerFile
<1> QED
  BY <1>2, <1>3, <1>4, <1>5, <1>6, <1>7, <1>8, <1>9, <1>10, <1>11, <1>12, <1>13
     DEF Next, Main

\* The state of main() stays well typed, and in every configuration it runs
\* with it has as many watchers as files.
THEOREM TypeCorrect == Spec => [](TypeOK /\ WatcherPerFile)
<1>1. Spec => [](TypeOK /\ Shape)
  BY ShapeInit, ShapeStep, PTL DEF Spec
<1>2. Shape => WatcherPerFile
  BY DEF Shape
<1> QED
  BY <1>1, <1>2, PTL
-----------------------------------------------------------------------------
\* No step loses a SIGHUP: a masked one is pending until Unmask turns it into
\* a byte, the pipe has room for one, and only a reload takes bytes out.
LEMMA NoLostStep == TypeOK /\ NoLostReload /\ [Next]_vars => NoLostReload'
<1> SUFFICES ASSUME TypeOK, NoLostReload, [Next]_vars PROVE NoLostReload'
  OBVIOUS
<1>t. pipe \in 0 .. PipeCapacity /\ AddByte(pipe) > 0
  BY AddByteType DEF TypeOK
<1> USE DEF NoLostReload
<1>1. ASSUME NEW how \in Down, Gone(how) PROVE NoLostReload'
  BY <1>1 DEF Gone
<1>2. CASE ReadFirst
  BY <1>1, <1>2 DEF ReadFirst, Down
<1>3. CASE Unmask
  BY <1>t, <1>3 DEF Unmask
<1>4. CASE CheckPipe
  BY <1>4 DEF CheckPipe
<1>5. CASE Parse
  BY <1>1, <1>5 DEF Parse, Down
<1>6. CASE Sighup
  BY <1>1, <1>t, <1>6 DEF Sighup, Down
<1>7. CASE Die
  BY <1>1, <1>7 DEF Die, Down
<1>8. CASE UNCHANGED <<pending, pipe, unserved>> /\ (pc = "parse" => pc' = "parse")
  BY <1>8
<1>9. CASE Reuse \/ (\E r \in Ref : Create(r)) \/ EndUpdate \/ Delete \/ Install
  BY <1>8, <1>9 DEF Reuse, Create, EndUpdate, Delete, Install, signals
<1>10. CASE WritePidfile \/ MaskSignal \/ CatchSignal \/ Start
  BY <1>8, <1>10 DEF WritePidfile, MaskSignal, CatchSignal, Start, signals, Down
<1>11. CASE Select \/ Mask \/ Work \/ EndWork
  BY <1>8, <1>11 DEF Select, Mask, Work, EndWork, signals
<1>12. CASE (\E r \in Ref : Event(r)) \/ (\E c \in Files \cup {Invalid, Fatal} : Edit(c))
            \/ UNCHANGED vars
  BY <1>8, <1>12 DEF Event, Edit, vars, signals
<1> QED
  BY <1>2, <1>3, <1>4, <1>5, <1>6, <1>7, <1>9, <1>10, <1>11, <1>12 DEF Next, Main

\* Between the mask, the handler and the pipe no SIGHUP is lost.
THEOREM SignalCorrect == Spec => []NoLostReload
<1>1. Init => NoLostReload
  BY DEF Init, NoLostReload
<1>2. Spec => [](TypeOK /\ WatcherPerFile)
  BY TypeCorrect
<1> QED
  BY <1>1, <1>2, NoLostStep, PTL DEF Spec
-----------------------------------------------------------------------------
\* What protects the process: the mask until the handler is there, and then
\* the handler, whether or not the signal is masked.
Guarded ==
  /\ pc = "handler" => masked
  /\ pc \notin Down \cup Startup => handler

LEMMA GuardedStep == Guarded /\ [Next]_vars => Guarded'
<1> SUFFICES ASSUME Guarded, [Next]_vars PROVE Guarded'
  OBVIOUS
<1> USE DEF Guarded, Down, Startup
<1>1. ASSUME NEW how \in Down, Gone(how) PROVE Guarded'
  BY <1>1 DEF Gone
<1>2. CASE ReadFirst
  BY <1>1, <1>2 DEF ReadFirst, signals
<1>3. CASE MaskSignal \/ CatchSignal \/ Unmask \/ Mask
  BY <1>3 DEF MaskSignal, CatchSignal, Unmask, Mask
<1>4. CASE Parse
  BY <1>1, <1>4 DEF Parse, signals
<1>5. CASE Sighup
  BY <1>1, <1>5 DEF Sighup
<1>6. CASE Die
  BY <1>1, <1>6 DEF Die
<1>7. CASE Start \/ WritePidfile \/ Select \/ Work \/ EndWork \/ CheckPipe
  BY <1>7 DEF Start, WritePidfile, Select, Work, EndWork, CheckPipe, signals
<1>8. CASE Reuse \/ (\E r \in Ref : Create(r)) \/ EndUpdate \/ Delete \/ Install
  BY <1>8 DEF Reuse, Create, EndUpdate, Delete, Install, signals
<1>9. CASE (\E r \in Ref : Event(r)) \/ (\E c \in Files \cup {Invalid, Fatal} : Edit(c))
           \/ UNCHANGED vars
  BY <1>9 DEF Event, Edit, vars, signals
<1> QED
  BY <1>2, <1>3, <1>4, <1>5, <1>6, <1>7, <1>8, <1>9 DEF Next, Main

LEMMA KillStep ==
  ASSUME Guarded, [Next]_vars, pc' = "killed"
  PROVE  pc \in {"read", "mask", "killed"}
<1> USE DEF Guarded, Down, Startup
<1>1. CASE Sighup
  BY <1>1 DEF Sighup, Gone
<1>2. CASE ReadFirst \/ Parse \/ Die
  BY <1>2 DEF ReadFirst, Parse, Die, Gone
<1>3. CASE Start \/ WritePidfile \/ MaskSignal \/ CatchSignal \/ EndUpdate \/ Install
  BY <1>3 DEF Start, WritePidfile, MaskSignal, CatchSignal, EndUpdate, Install
<1>4. CASE Unmask \/ Select \/ Mask \/ EndWork \/ CheckPipe
  BY <1>4 DEF Unmask, Select, Mask, EndWork, CheckPipe
<1>5. CASE Work \/ Reuse \/ (\E r \in Ref : Create(r)) \/ Delete
  BY <1>5 DEF Work, Reuse, Create, Delete
<1>6. CASE (\E r \in Ref : Event(r)) \/ (\E c \in Files \cup {Invalid, Fatal} : Edit(c))
           \/ UNCHANGED vars
  BY <1>6 DEF Event, Edit, vars
<1> QED
  BY <1>1, <1>2, <1>3, <1>4, <1>5, <1>6 DEF Next, Main

\* SIGHUP terminates the daemon at most before main() has blocked it.
THEOREM StartupCorrect == Spec => SighupKillsOnlyAtStartup
<1>1. Init => Guarded
  BY DEF Init, Guarded, Down
<1>2. Guarded /\ [Next]_vars => [pc' = "killed" => pc \in {"read", "mask", "killed"}]_vars
  BY KillStep
<1> QED
  BY <1>1, <1>2, GuardedStep, PTL DEF Spec, SighupKillsOnlyAtStartup
-----------------------------------------------------------------------------
\* Steps that touch neither arrays nor objects, nor the phase of a reload.
Aside ==
  /\ UNCHANGED <<heap, watchers, newWatchers>>
  /\ pc' # "delete"
  /\ pc # "delete"

LEMMA AsideSteps ==
  ASSUME [Next]_vars
  PROVE  \/ Aside
         \/ Reuse
         \/ \E r \in Ref : Create(r)
         \/ EndUpdate
         \/ Delete
         \/ Install
         \/ \E how \in Down : Gone(how)
         \/ UNCHANGED <<heap, watchers, newWatchers, pc, n>>
<1> USE DEF Aside, Down
<1>1. CASE ReadFirst
  BY <1>1 DEF ReadFirst
<1>2. CASE WritePidfile \/ MaskSignal \/ CatchSignal \/ Start
  BY <1>2 DEF WritePidfile, MaskSignal, CatchSignal, Start, update
<1>3. CASE Unmask \/ Select \/ Mask \/ Work \/ EndWork \/ CheckPipe
  BY <1>3 DEF Unmask, Select, Mask, Work, EndWork, CheckPipe, update
<1>4. CASE Parse
  BY <1>4 DEF Parse
<1>5. CASE Sighup
  BY <1>5 DEF Sighup, update
<1>6. CASE (\E r \in Ref : Event(r)) \/ (\E c \in Files \cup {Invalid, Fatal} : Edit(c))
           \/ UNCHANGED vars
  BY <1>6 DEF Event, Edit, vars, update
<1>7. CASE Die
  BY <1>7 DEF Die
<1> QED
  BY <1>1, <1>2, <1>3, <1>4, <1>5, <1>6, <1>7 DEF Next, Main

LEMMA OwnerStep == TypeOK /\ Shape /\ OneOwner /\ [Next]_vars => OneOwner'
<1> SUFFICES ASSUME TypeOK, Shape, OneOwner, [Next]_vars PROVE OneOwner'
  OBVIOUS
<1>t. /\ watchers \in Seq(Ref \cup {Null}) /\ newWatchers \in Seq(Ref)
      /\ DOMAIN watchers = 1 .. Len(watchers) /\ DOMAIN newWatchers = 1 .. Len(newWatchers)
      /\ heap \in [Ref -> Paths \cup {Free}] /\ Null \notin Ref /\ Free \notin Paths
      /\ n \in Nat \ {0} /\ Len(watchers) \in Nat /\ Len(newWatchers) \in Nat
  BY RefAssumption DEF TypeOK
<1>1. CASE Aside
  <2>1. OldSlots' = OldSlots
    BY <1>1 DEF Aside, OldSlots
  <2> QED
    BY <1>1, <2>1 DEF Aside, OneOwner
<1>2. CASE Reuse
  <2>1. PICK j \in 1 .. Len(watchers) :
          /\ watchers[j] \in Ref
          /\ watchers' \in Seq(Ref \cup {Null})
          /\ Len(watchers') = Len(watchers)
          /\ \A k \in 1 .. Len(watchers) :
               watchers'[k] = IF k = j THEN Null ELSE watchers[k]
          /\ newWatchers' \in Seq(Ref)
          /\ Len(newWatchers') = Len(newWatchers) + 1
          /\ newWatchers'[Len(newWatchers) + 1] = watchers[j]
          /\ \A k \in 1 .. Len(newWatchers) : newWatchers'[k] = newWatchers[k]
    BY <1>2, ReuseEffect
  <2>2. /\ pc = "update" /\ pc' = "update" /\ heap' = heap
        /\ DOMAIN watchers' = 1 .. Len(watchers)
        /\ DOMAIN newWatchers' = 1 .. Len(newWatchers) + 1
    BY <1>2, <2>1 DEF Reuse
  <2>3. /\ OldSlots = {k \in 1 .. Len(watchers) : watchers[k] # Null}
        /\ OldSlots' = OldSlots \ {j} /\ j \in OldSlots
    BY <1>t, <2>1, <2>2 DEF OldSlots
  <2>4. \A k \in 1 .. Len(newWatchers) + 1 :
          k \in 1 .. Len(newWatchers) \/ k = Len(newWatchers) + 1
    BY <1>t
  <2>5. Len(newWatchers) + 1 \in 1 .. Len(newWatchers) + 1
        /\ 1 .. Len(newWatchers) \subseteq 1 .. Len(newWatchers) + 1
        /\ OldSlots \subseteq 1 .. Len(watchers)
    BY <1>t, <2>3
  <2> DEFINE last == Len(newWatchers) + 1
  <2>6. \A r \in Ref : heap'[r] # Free <=>
          \/ \E k \in OldSlots' : watchers'[k] = r
          \/ \E k \in DOMAIN newWatchers' : newWatchers'[k] = r
    <3> SUFFICES ASSUME NEW r \in Ref
                 PROVE  heap[r] # Free <=>
                          \/ \E k \in OldSlots \ {j} : watchers'[k] = r
                          \/ \E k \in 1 .. last : newWatchers'[k] = r
      BY <2>2, <2>3
    <3>1. heap[r] # Free <=> \/ \E k \in OldSlots : watchers[k] = r
                             \/ \E k \in 1 .. Len(newWatchers) : newWatchers[k] = r
      BY <1>t DEF OneOwner
    <3>2. \A k \in OldSlots \ {j} : watchers'[k] = watchers[k]
      BY <2>1, <2>5
    <3>3. (\E k \in OldSlots : watchers[k] = r) <=>
            watchers[j] = r \/ \E k \in OldSlots \ {j} : watchers'[k] = r
      BY <2>3, <3>2
    <3>4. (\E k \in 1 .. last : newWatchers'[k] = r) <=>
            watchers[j] = r \/ \E k \in 1 .. Len(newWatchers) : newWatchers[k] = r
      BY <2>1, <2>4, <2>5
    <3> QED
      BY <3>1, <3>3, <3>4
  <2>7. \A k \in OldSlots', m \in OldSlots' : watchers'[k] = watchers'[m] => k = m
    BY <2>1, <2>3, <2>5 DEF OneOwner
  <2>8. \A k \in 1 .. Len(newWatchers) : newWatchers[k] # watchers[j]
    BY <1>t, <2>3 DEF OneOwner
  <2>9. \A k \in DOMAIN newWatchers', m \in DOMAIN newWatchers' :
          newWatchers'[k] = newWatchers'[m] => k = m
    <3> SUFFICES ASSUME NEW k \in 1 .. last, NEW m \in 1 .. last,
                        newWatchers'[k] = newWatchers'[m]
                 PROVE  k = m
      BY <2>2
    <3>1. CASE k = last /\ m = last
      BY <3>1
    <3>2. CASE k = last /\ m \in 1 .. Len(newWatchers)
      BY <2>1, <2>8, <3>2
    <3>3. CASE k \in 1 .. Len(newWatchers) /\ m = last
      BY <2>1, <2>8, <3>3
    <3>4. CASE k \in 1 .. Len(newWatchers) /\ m \in 1 .. Len(newWatchers)
      <4>1. newWatchers[k] = newWatchers[m]
        BY <2>1, <3>4
      <4>2. k \in DOMAIN newWatchers /\ m \in DOMAIN newWatchers
        BY <1>t, <3>4
      <4> QED
        BY <4>1, <4>2 DEF OneOwner
    <3> QED
      BY <2>4, <3>1, <3>2, <3>3, <3>4
  <2>10. \A k \in OldSlots', m \in DOMAIN newWatchers' : watchers'[k] # newWatchers'[m]
    <3> SUFFICES ASSUME NEW k \in OldSlots \ {j}, NEW m \in 1 .. last
                 PROVE  watchers'[k] # newWatchers'[m]
      BY <2>2, <2>3
    <3>1. watchers'[k] = watchers[k] /\ k \in OldSlots
      BY <2>1, <2>5
    <3>2. CASE m = last
      BY <2>1, <2>3, <3>1, <3>2 DEF OneOwner
    <3>3. CASE m \in 1 .. Len(newWatchers)
      BY <1>t, <2>1, <3>1, <3>3 DEF OneOwner
    <3> QED
      BY <2>4, <3>2, <3>3
  <2> QED
    BY <2>6, <2>7, <2>9, <2>10 DEF OneOwner
<1>3. ASSUME NEW r \in Ref, Create(r) PROVE OneOwner'
  <2> DEFINE last == Len(newWatchers) + 1
  <2>1. /\ newWatchers' \in Seq(Ref)
        /\ Len(newWatchers') = last
        /\ newWatchers'[last] = r
        /\ \A k \in 1 .. Len(newWatchers) : newWatchers'[k] = newWatchers[k]
        /\ newFiles[last] \in Paths
        /\ heap[r] = Free
        /\ heap'[r] = newFiles[last]
        /\ \A s \in Ref : s # r => heap'[s] = heap[s]
    BY <1>3, CreateEffect
  <2>2. /\ pc = "update" /\ pc' = "update" /\ watchers' = watchers
        /\ OldSlots' = OldSlots
        /\ DOMAIN newWatchers' = 1 .. last
    BY <1>3, <2>1 DEF Create, OldSlots
  <2>3. /\ \A k \in 1 .. last : k \in 1 .. Len(newWatchers) \/ k = last
        /\ last \in 1 .. last /\ 1 .. Len(newWatchers) \subseteq 1 .. last
    BY <1>t
  <2>4. /\ \A k \in OldSlots : watchers[k] # r
        /\ \A k \in 1 .. Len(newWatchers) : newWatchers[k] # r
    BY <1>t, <2>1 DEF OneOwner
  <2> HIDE DEF last
  <2>5. \A s \in Ref : heap'[s] # Free <=>
          \/ \E k \in OldSlots' : watchers'[k] = s
          \/ \E k \in DOMAIN newWatchers' : newWatchers'[k] = s
    <3> SUFFICES ASSUME NEW s \in Ref
                 PROVE  heap'[s] # Free <=>
                          \/ \E k \in OldSlots : watchers[k] = s
                          \/ \E k \in 1 .. last : newWatchers'[k] = s
      BY <2>2
    <3>1. CASE s = r
      BY <1>t, <2>1, <2>3, <3>1
    <3>2. CASE s # r
      <4>1. heap[s] # Free <=> \/ \E k \in OldSlots : watchers[k] = s
                               \/ \E k \in 1 .. Len(newWatchers) : newWatchers[k] = s
        BY <1>t DEF OneOwner
      <4>2. (\E k \in 1 .. last : newWatchers'[k] = s) <=>
              \E k \in 1 .. Len(newWatchers) : newWatchers[k] = s
        BY <2>1, <2>3, <3>2
      <4> QED
        BY <2>1, <3>2, <4>1, <4>2
    <3> QED
      BY <3>1, <3>2
  <2>6. \A k \in DOMAIN newWatchers', m \in DOMAIN newWatchers' :
          newWatchers'[k] = newWatchers'[m] => k = m
    <3> SUFFICES ASSUME NEW k \in 1 .. last, NEW m \in 1 .. last,
                        newWatchers'[k] = newWatchers'[m]
                 PROVE  k = m
      BY <2>2
    <3>1. CASE k \in 1 .. Len(newWatchers) /\ m \in 1 .. Len(newWatchers)
      BY <1>t, <2>1, <3>1 DEF OneOwner
    <3>2. CASE k = last \/ m = last
      BY <2>1, <2>3, <2>4, <3>2
    <3> QED
      BY <2>3, <3>1, <3>2
  <2>7. \A k \in OldSlots', m \in DOMAIN newWatchers' : watchers'[k] # newWatchers'[m]
    <3> SUFFICES ASSUME NEW k \in OldSlots, NEW m \in 1 .. last
                 PROVE  watchers[k] # newWatchers'[m]
      BY <2>2
    <3>1. CASE m = last
      BY <2>1, <2>4, <3>1
    <3>2. CASE m \in 1 .. Len(newWatchers)
      BY <1>t, <2>1, <3>2 DEF OneOwner
    <3> QED
      BY <2>3, <3>1, <3>2
  <2> QED
    BY <2>2, <2>5, <2>6, <2>7 DEF OneOwner
<1>4. CASE EndUpdate
  <2>1. OldSlots' = OldSlots /\ UNCHANGED <<heap, watchers, newWatchers>>
    <3>1. /\ pc = "update" /\ n' = 1 /\ UNCHANGED <<heap, watchers, newWatchers>>
      BY <1>4 DEF EndUpdate, update
    <3>2. \A k \in DOMAIN watchers : k >= 1
      BY <1>t
    <3> QED
      BY <3>1, <3>2 DEF OldSlots
  <2> QED
    BY <2>1 DEF OneOwner
<1>5. CASE Delete
  <2>1. /\ pc = "delete" /\ pc' = "delete" /\ n' = n + 1 /\ n \in 1 .. Len(watchers)
        /\ UNCHANGED <<watchers, newWatchers>>
    BY <1>t, <1>5 DEF Delete, update
  <2>2. /\ OldSlots = {k \in 1 .. Len(watchers) : watchers[k] # Null /\ k >= n}
        /\ OldSlots' = {k \in 1 .. Len(watchers) : watchers[k] # Null /\ k >= n + 1}
    BY <1>t, <2>1 DEF OldSlots
  <2>3. OldSlots' = OldSlots \ {n}
    BY <1>t, <2>1, <2>2
  <2>4. CASE watchers[n] = Null
    <3>1. OldSlots' = OldSlots /\ heap' = heap
      BY <1>5, <2>2, <2>3, <2>4 DEF Delete
    <3> QED
      BY <2>1, <3>1 DEF OneOwner
  <2>5. CASE watchers[n] # Null
    <3> DEFINE r == watchers[n]
    <3>1. /\ n \in OldSlots /\ r \in Ref
          /\ heap'[r] = Free /\ \A s \in Ref : s # r => heap'[s] = heap[s]
      <4>1. heap' = [heap EXCEPT ![r] = Free]
        BY <1>5, <2>5 DEF Delete
      <4>2. r \in Ref \cup {Null}
        BY <1>t, <2>1
      <4>3. n \in OldSlots
        BY <1>t, <2>1, <2>2, <2>5
      <4> QED
        BY <1>t, <2>5, <4>1, <4>2, <4>3
    <3>2. /\ \A k \in OldSlots' : watchers[k] # r
          /\ \A k \in DOMAIN newWatchers : newWatchers[k] # r
      BY <2>3, <3>1 DEF OneOwner
    <3> HIDE DEF r
    <3>3. \A s \in Ref : heap'[s] # Free <=>
            \/ \E k \in OldSlots' : watchers[k] = s
            \/ \E k \in DOMAIN newWatchers : newWatchers[k] = s
      <4> SUFFICES ASSUME NEW s \in Ref
                   PROVE  heap'[s] # Free <=>
                            \/ \E k \in OldSlots' : watchers[k] = s
                            \/ \E k \in DOMAIN newWatchers : newWatchers[k] = s
        OBVIOUS
      <4>1. CASE s = r
        BY <3>1, <3>2, <4>1
      <4>2. CASE s # r
        BY <2>3, <3>1, <4>2 DEF OneOwner, r
      <4> QED
        BY <4>1, <4>2
    <3> QED
      BY <2>1, <2>3, <3>3 DEF OneOwner
  <2> QED
    BY <2>4, <2>5
<1>6. CASE Install
  <2>1. /\ pc = "delete" /\ pc' = "unmask" /\ n > Len(watchers) /\ heap' = heap
        /\ watchers' = newWatchers /\ newWatchers' = <<>>
    BY <1>6 DEF Install
  <2>2. OldSlots = {}
    BY <1>t, <2>1 DEF OldSlots
  <2>3. OldSlots' = DOMAIN newWatchers
    BY <1>t, <2>1 DEF OldSlots
  <2>4. DOMAIN newWatchers' = {}
    BY <2>1
  <2> QED
    BY <2>1, <2>2, <2>3, <2>4 DEF OneOwner
<1>7. ASSUME NEW how \in Down, Gone(how) PROVE OneOwner'
  <2>1. OldSlots' = {} /\ DOMAIN newWatchers' = {} /\ \A r \in Ref : heap'[r] = Free
    BY <1>7 DEF Gone, OldSlots, Empty
  <2> QED
    BY <2>1 DEF OneOwner
<1>8. CASE UNCHANGED <<heap, watchers, newWatchers, pc, n>>
  <2>1. OldSlots' = OldSlots
    BY <1>8 DEF OldSlots
  <2> QED
    BY <1>8, <2>1 DEF OneOwner
<1> QED
  BY AsideSteps, <1>1, <1>2, <1>3, <1>4, <1>5, <1>6, <1>7, <1>8

\* However often and whatever is reloaded, no watcher object is leaked,
\* shared, freed twice, or used after it was freed.
THEOREM OwnershipCorrect == Spec => []OneOwner
<1>1. Init => OneOwner
  <2> SUFFICES ASSUME Init PROVE OneOwner
    OBVIOUS
  <2>1. OldSlots = {} /\ DOMAIN newWatchers = {} /\ \A r \in Ref : heap[r] = Free
    BY DEF Init, OldSlots, Empty
  <2> QED
    BY <2>1 DEF OneOwner
<1> QED
  BY <1>1, ShapeInit, ShapeStep, OwnerStep, PTL DEF Spec
-----------------------------------------------------------------------------
\* The two lists agree up to position k.
Common(k) == \A m \in 1 .. k : m \in DOMAIN newFiles /\ newFiles[m] = oldFiles[m]

\* The pointers nulled so far are the first ones, at most one per iteration.
Nulls ==
  Updating =>
    \E h \in 0 .. Len(newWatchers) :
      \A k \in 1 .. Len(watchers) : watchers[k] = Null <=> k <= h

\* Every position of the common beginning that the loop has passed is moved.
PrefixMoved ==
  Updating =>
    \A k \in 1 .. Len(watchers) :
      k <= Len(newWatchers) /\ Common(k) => watchers[k] = Null

\* While no reload reordered the list, each watcher not yet moved follows the
\* old list, and each one in the new array follows the new list.
Follow ==
  aligned =>
    /\ Watched
    /\ Updating =>
         /\ Aligned(oldFiles, newFiles)
         /\ \A k \in 1 .. Len(watchers) :
              watchers[k] # Null /\ (pc = "delete" => k >= n)
                => heap[watchers[k]] = oldFiles[k]
         /\ \A k \in 1 .. Len(newWatchers) : heap[newWatchers[k]] = newFiles[k]

ReloadInv == Nulls /\ PrefixMoved /\ Follow

\* Reuse moves the first pointer that is left: position h + 1, and that is
\* the position of the loop if the list so far agrees.
LEMMA ReloadReuse ==
  ASSUME TypeOK, Shape, ReloadInv, Reuse
  PROVE  ReloadInv'
<1> DEFINE i == Len(newWatchers) + 1
<1>1. PICK j \in 1 .. Len(watchers) :
        /\ FirstHeld(j)
        /\ watchers[j] \in Ref
        /\ Len(watchers') = Len(watchers)
        /\ \A k \in 1 .. Len(watchers) :
             watchers'[k] = IF k = j THEN Null ELSE watchers[k]
        /\ Len(newWatchers') = Len(newWatchers) + 1
        /\ newWatchers'[Len(newWatchers) + 1] = watchers[j]
        /\ \A k \in 1 .. Len(newWatchers) : newWatchers'[k] = newWatchers[k]
  BY ReuseEffect
<1>2. /\ pc = "update" /\ pc' = "update"
      /\ UNCHANGED <<heap, oldFiles, newFiles, aligned>>
      /\ i <= Len(newFiles)
      /\ i <= Len(oldFiles) => newFiles[i] = oldFiles[i]
  BY DEF Reuse, Next_i, SameFile
<1>3. /\ Len(watchers) \in Nat /\ Len(newWatchers) \in Nat /\ Null \notin Ref
      /\ Len(oldFiles) = Len(watchers) /\ Len(newFiles) \in Nat /\ i \in Nat
      /\ DOMAIN newFiles = 1 .. Len(newFiles)
  BY <1>2, RefAssumption DEF TypeOK, Shape, Updating
<1>4. PICK h \in 0 .. Len(newWatchers) :
        \A k \in 1 .. Len(watchers) : watchers[k] = Null <=> k <= h
  BY <1>2 DEF ReloadInv, Nulls, Updating
<1>5. j = h + 1
  <2>1. watchers[j] # Null /\ \A k \in 1 .. j - 1 : watchers[k] = Null
    BY <1>1 DEF FirstHeld
  <2>2. ~(j <= h)
    BY <1>4, <2>1
  <2>3. CASE j > h + 1
    <3>1. h + 1 \in 1 .. j - 1 /\ h + 1 \in 1 .. Len(watchers)
      BY <1>3, <2>3
    <3> QED
      BY <1>4, <2>1, <3>1
  <2> QED
    BY <1>3, <2>2, <2>3
<1> HIDE DEF i
<1>6. h + 1 <= i /\ h + 1 \in 0 .. i
  BY <1>3 DEF i
<1>7. Nulls'
  <2>1. \A k \in 1 .. Len(watchers) : watchers'[k] = Null <=> k <= h + 1
    <3> SUFFICES ASSUME NEW k \in 1 .. Len(watchers)
                 PROVE  watchers'[k] = Null <=> k <= h + 1
      OBVIOUS
    <3>1. k <= h + 1 <=> k = h + 1 \/ k <= h
      BY <1>3
    <3> QED
      BY <1>1, <1>3, <1>4, <1>5, <3>1
  <2> QED
    BY <1>1, <1>6, <2>1 DEF Nulls, i
<1>8. \A k \in 1 .. Len(watchers) : k <= Len(newWatchers) /\ Common(k) => watchers[k] = Null
  BY <1>2 DEF ReloadInv, PrefixMoved, Updating
<1>9. \A k : Common(k)' <=> Common(k)
  BY <1>2 DEF Common
<1>10. ASSUME i \in 1 .. Len(watchers), Common(i) PROVE j = i
  <2>1. CASE i = 1
    BY <1>3, <1>5, <1>6, <2>1
  <2>2. CASE i > 1
    <3>1. i - 1 \in 1 .. Len(watchers) /\ i - 1 <= Len(newWatchers)
      BY <1>3, <1>10, <2>2 DEF i
    <3>2. Common(i - 1)
      BY <1>3, <1>10, <2>2 DEF Common
    <3>3. watchers[i - 1] = Null
      BY <1>8, <3>1, <3>2
    <3>4. i - 1 <= h
      BY <1>4, <3>1, <3>3
    <3> QED
      BY <1>3, <1>5, <1>6, <3>4
  <2> QED
    BY <1>3, <1>10, <2>1, <2>2
<1>11. PrefixMoved'
  <2> SUFFICES ASSUME NEW k \in 1 .. Len(watchers), k <= i, Common(k)
               PROVE  watchers'[k] = Null
    BY <1>1, <1>2, <1>9 DEF PrefixMoved, i
  <2>1. CASE k = i
    BY <1>1, <1>10, <2>1
  <2>2. CASE k # i
    <3>1. k <= Len(newWatchers)
      BY <1>3, <2>2 DEF i
    <3> QED
      BY <1>1, <1>8, <3>1
  <2> QED
    BY <2>1, <2>2
<1>12. ASSUME aligned, Aligned(oldFiles, newFiles) PROVE i \in 1 .. Len(watchers) /\ Common(i)
  <2>1. CASE i <= Len(oldFiles)
    <3>1. newFiles[i] = oldFiles[i]
      BY <1>2, <2>1
    <3>2. ASSUME NEW m \in 1 .. i PROVE m \in DOMAIN newFiles /\ newFiles[m] = oldFiles[m]
      <4>1. m \in 1 .. Len(newFiles) /\ i \in 1 .. Len(newFiles)
        BY <1>2, <1>3, <1>6
      <4>2. CASE m < i
        BY <1>12, <2>1, <3>1, <4>1, <4>2 DEF Aligned
      <4>3. CASE m = i
        BY <1>3, <3>1, <4>1, <4>3
      <4> QED
        BY <1>3, <4>1, <4>2, <4>3
    <3> QED
      BY <1>3, <1>6, <2>1, <3>2 DEF Common
  <2>2. CASE ~(i <= Len(oldFiles))
    <3>1. Len(newFiles) > Len(oldFiles)
      BY <1>2, <1>3, <2>2
    <3>2. \A m \in 1 .. Len(oldFiles) : newFiles[m] = oldFiles[m]
      BY <1>12, <3>1 DEF Aligned
    <3>3. j \in DOMAIN newFiles /\ \A m \in 1 .. j : m \in DOMAIN newFiles /\ newFiles[m] = oldFiles[m]
      BY <1>3, <3>1, <3>2
    <3>4. j <= Len(newWatchers)
      BY <1>3, <2>2 DEF i
    <3>5. watchers[j] = Null
      BY <1>8, <3>3, <3>4 DEF Common
    <3> QED
      BY <1>1, <1>3, <3>5
  <2> QED
    BY <2>1, <2>2
<1>13. Follow'
  <2> SUFFICES ASSUME aligned
               PROVE  /\ Aligned(oldFiles, newFiles)
                      /\ \A k \in 1 .. Len(watchers) :
                           watchers'[k] # Null => heap[watchers'[k]] = oldFiles[k]
                      /\ \A k \in 1 .. i : heap[newWatchers'[k]] = newFiles[k]
    BY <1>1, <1>2 DEF Follow, Watched, Waiting, Working, i, Aligned
  <2>1. /\ Aligned(oldFiles, newFiles)
        /\ \A k \in 1 .. Len(watchers) : watchers[k] # Null => heap[watchers[k]] = oldFiles[k]
        /\ \A k \in 1 .. Len(newWatchers) : heap[newWatchers[k]] = newFiles[k]
    BY <1>2 DEF ReloadInv, Follow, Updating
  <2>2. j = i /\ newFiles[i] = oldFiles[i]
    BY <1>2, <1>3, <1>10, <1>12, <2>1
  <2>3. heap[newWatchers'[i]] = newFiles[i]
    BY <1>1, <1>3, <2>1, <2>2 DEF i
  <2>4. \A k \in 1 .. Len(watchers) :
          watchers'[k] # Null => heap[watchers'[k]] = oldFiles[k]
    BY <1>1, <2>1
  <2>5. \A k \in 1 .. i : k = i \/ k \in 1 .. Len(newWatchers)
    BY <1>3 DEF i
  <2> QED
    BY <1>1, <2>1, <2>3, <2>4, <2>5
<1> QED
  BY <1>7, <1>11, <1>13 DEF ReloadInv

LEMMA ReloadCreate ==
  ASSUME TypeOK, Shape, OneOwner, ReloadInv, NEW r \in Ref, Create(r)
  PROVE  ReloadInv'
<1> DEFINE i == Len(newWatchers) + 1
<1>1. /\ Len(newWatchers') = i
      /\ newWatchers'[i] = r
      /\ \A k \in 1 .. Len(newWatchers) : newWatchers'[k] = newWatchers[k]
      /\ heap[r] = Free
      /\ heap'[r] = newFiles[i]
      /\ \A s \in Ref : s # r => heap'[s] = heap[s]
  BY CreateEffect
<1>2. /\ pc = "update" /\ pc' = "update"
      /\ UNCHANGED <<watchers, oldFiles, newFiles, aligned>>
      /\ i <= Len(newFiles)
      /\ FALSE \in SameFile \/ ~\E j \in DOMAIN oldFiles : FirstHeld(j)
  BY DEF Create, Next_i
<1>3. /\ Len(watchers) \in Nat /\ Len(newWatchers) \in Nat /\ i \in Nat
      /\ Len(oldFiles) = Len(watchers)
      /\ DOMAIN oldFiles = 1 .. Len(watchers)
      /\ watchers \in Seq(Ref \cup {Null}) /\ newWatchers \in Seq(Ref)
      /\ DOMAIN watchers = 1 .. Len(watchers) /\ DOMAIN newWatchers = 1 .. Len(newWatchers)
  BY <1>2 DEF TypeOK, Shape, Updating
<1>4. PICK h \in 0 .. Len(newWatchers) :
        \A k \in 1 .. Len(watchers) : watchers[k] = Null <=> k <= h
  BY <1>2 DEF ReloadInv, Nulls, Updating
<1>5. Nulls'
  <2>1. h \in 0 .. i
    BY <1>3
  <2> QED
    BY <1>1, <1>2, <1>4, <2>1 DEF Nulls
<1>6. PrefixMoved'
  <2> SUFFICES ASSUME NEW k \in 1 .. Len(watchers), k <= i, Common(k)
               PROVE  watchers[k] = Null
    <3>1. \A k : Common(k)' <=> Common(k)
      BY <1>2 DEF Common
    <3> QED
      BY <1>1, <1>2, <3>1 DEF PrefixMoved
  <2>1. \A m \in 1 .. Len(watchers) : m <= Len(newWatchers) /\ Common(m) => watchers[m] = Null
    BY <1>2 DEF ReloadInv, PrefixMoved, Updating
  <2>2. CASE k = i
    <3>1. newFiles[i] = oldFiles[i] /\ i <= Len(oldFiles)
      BY <1>3, <2>2 DEF Common
    <3>2. ~\E j \in DOMAIN oldFiles : FirstHeld(j)
      BY <1>2, <3>1 DEF SameFile, Next_i
    <3>3. ASSUME watchers[k] # Null PROVE FALSE
      <4>1. ASSUME NEW m \in 1 .. k - 1 PROVE watchers[m] = Null
        <5>1. m \in 1 .. Len(watchers) /\ m <= Len(newWatchers)
          BY <1>3, <2>2
        <5>2. Common(m)
          BY <1>3, <2>2, <4>1 DEF Common
        <5> QED
          BY <2>1, <5>1, <5>2
      <4>2. FirstHeld(k)
        BY <1>3, <3>3, <4>1 DEF FirstHeld
      <4> QED
        BY <1>3, <3>2, <4>2
    <3> QED
      BY <3>3
  <2>3. CASE k # i
    <3>1. k <= Len(newWatchers)
      BY <1>3, <2>3
    <3> QED
      BY <2>1, <3>1
  <2> QED
    BY <2>2, <2>3
<1>7. Follow'
  <2> SUFFICES ASSUME aligned
               PROVE  /\ Aligned(oldFiles, newFiles)
                      /\ \A k \in 1 .. Len(watchers) :
                           watchers[k] # Null => heap'[watchers[k]] = oldFiles[k]
                      /\ \A k \in 1 .. i : heap'[newWatchers'[k]] = newFiles[k]
    BY <1>1, <1>2 DEF Follow, Watched, Waiting, Working, Aligned
  <2>1. /\ Aligned(oldFiles, newFiles)
        /\ \A k \in 1 .. Len(watchers) : watchers[k] # Null => heap[watchers[k]] = oldFiles[k]
        /\ \A k \in 1 .. Len(newWatchers) : heap[newWatchers[k]] = newFiles[k]
    BY <1>2 DEF ReloadInv, Follow, Updating
  <2>2. ASSUME NEW k \in 1 .. Len(watchers), watchers[k] # Null
        PROVE  heap'[watchers[k]] = oldFiles[k]
    <3>1. watchers[k] \in Ref /\ k \in OldSlots
      BY <1>2, <1>3, <2>2 DEF OldSlots
    <3>2. watchers[k] # r
      BY <1>1, <3>1 DEF OneOwner
    <3> QED
      BY <1>1, <2>1, <2>2, <3>1, <3>2
  <2>3. ASSUME NEW k \in 1 .. Len(newWatchers) PROVE heap'[newWatchers'[k]] = newFiles[k]
    <3>1. newWatchers[k] \in Ref /\ newWatchers[k] # r
      BY <1>1, <1>3 DEF OneOwner
    <3> QED
      BY <1>1, <2>1, <3>1
  <2>4. \A k \in 1 .. i : k = i \/ k \in 1 .. Len(newWatchers)
    BY <1>3
  <2> QED
    BY <1>1, <2>1, <2>2, <2>3, <2>4
<1> QED
  BY <1>5, <1>6, <1>7 DEF ReloadInv

LEMMA ReloadStep == TypeOK /\ Shape /\ OneOwner /\ ReloadInv /\ [Next]_vars => ReloadInv'
<1> SUFFICES ASSUME TypeOK, Shape, OneOwner, ReloadInv, [Next]_vars PROVE ReloadInv'
  OBVIOUS
<1>t. /\ watchers \in Seq(Ref \cup {Null}) /\ newWatchers \in Seq(Ref)
      /\ DOMAIN watchers = 1 .. Len(watchers) /\ DOMAIN newWatchers = 1 .. Len(newWatchers)
      /\ Len(watchers) \in Nat /\ Len(newWatchers) \in Nat
      /\ n \in Nat \ {0} /\ Null \notin Ref
      /\ config \in Seq(Paths) /\ DOMAIN config = 1 .. Len(config)
  BY RefAssumption DEF TypeOK
<1>1. CASE Reuse
  BY <1>1, ReloadReuse
<1>2. ASSUME NEW r \in Ref, Create(r) PROVE ReloadInv'
  BY <1>2, ReloadCreate
<1>3. CASE EndUpdate
  <2>1. /\ pc = "update" /\ pc' = "delete" /\ n' = 1
        /\ UNCHANGED <<heap, watchers, newWatchers, oldFiles, newFiles, config, aligned>>
    BY <1>3 DEF EndUpdate, update
  <2> QED
    BY <1>t, <2>1 DEF ReloadInv, Nulls, PrefixMoved, Common, Follow, Updating, Watched,
       Waiting, Working, Aligned
<1>4. CASE Delete
  <2>1. /\ pc = "delete" /\ pc' = "delete" /\ n' = n + 1 /\ n \in 1 .. Len(watchers)
        /\ UNCHANGED <<watchers, newWatchers, oldFiles, newFiles, config, aligned>>
    BY <1>t, <1>4 DEF Delete, update
  <2>2. /\ \A s \in Ref : s # watchers[n] => heap'[s] = heap[s]
        /\ watchers[n] = Null => heap' = heap
    <3>1. heap \in [Ref -> Paths \cup {Free}]
      BY DEF TypeOK
    <3> QED
      BY <1>4, <3>1 DEF Delete
  <2>3. Nulls' /\ PrefixMoved'
    BY <2>1 DEF ReloadInv, Nulls, PrefixMoved, Common, Updating
  <2>4. Follow'
    <3> SUFFICES ASSUME aligned
                 PROVE  /\ Aligned(oldFiles, newFiles)
                        /\ \A k \in 1 .. Len(watchers) :
                             watchers[k] # Null /\ k >= n + 1
                               => heap'[watchers[k]] = oldFiles[k]
                        /\ \A k \in 1 .. Len(newWatchers) : heap'[newWatchers[k]] = newFiles[k]
      BY <2>1 DEF Follow, Watched, Waiting, Working, Aligned
    <3>1. /\ Aligned(oldFiles, newFiles)
          /\ \A k \in 1 .. Len(watchers) :
               watchers[k] # Null /\ k >= n => heap[watchers[k]] = oldFiles[k]
          /\ \A k \in 1 .. Len(newWatchers) : heap[newWatchers[k]] = newFiles[k]
      BY <2>1 DEF ReloadInv, Follow, Updating
    <3>2. ASSUME NEW k \in 1 .. Len(watchers), watchers[k] # Null, k >= n + 1
          PROVE  heap'[watchers[k]] = oldFiles[k]
      <4>1. k >= n /\ k # n /\ k \in OldSlots /\ watchers[k] \in Ref
        BY <1>t, <2>1, <3>2 DEF OldSlots
      <4>2. watchers[n] # Null => n \in OldSlots
        BY <1>t, <2>1 DEF OldSlots
      <4>3. watchers[k] # watchers[n]
        BY <3>2, <4>1, <4>2 DEF OneOwner
      <4> QED
        BY <2>2, <3>1, <3>2, <4>1, <4>3
    <3>3. ASSUME NEW k \in 1 .. Len(newWatchers) PROVE heap'[newWatchers[k]] = newFiles[k]
      <4>1. newWatchers[k] \in Ref
        BY <1>t
      <4>2. watchers[n] # Null => n \in OldSlots
        BY <1>t, <2>1 DEF OldSlots
      <4>3. newWatchers[k] # watchers[n]
        BY <1>t, <4>1, <4>2 DEF OneOwner
      <4> QED
        BY <2>2, <3>1, <4>1, <4>3
    <3> QED
      BY <3>1, <3>2, <3>3
  <2> QED
    BY <2>3, <2>4 DEF ReloadInv
<1>5. CASE Install
  <2>1. /\ pc = "delete" /\ pc' = "unmask" /\ watchers' = newWatchers /\ config' = newFiles
        /\ UNCHANGED <<heap, aligned>>
        /\ Len(newWatchers) = Len(newFiles) /\ DOMAIN newFiles = 1 .. Len(newFiles)
    BY <1>5 DEF Install, Shape, TypeOK
  <2>2. aligned => \A k \in DOMAIN newFiles : heap[newWatchers[k]] = newFiles[k]
    BY <2>1 DEF ReloadInv, Follow, Updating
  <2> QED
    BY <2>1, <2>2 DEF ReloadInv, Nulls, PrefixMoved, Follow, Updating, Watched
<1>6. ASSUME NEW how \in Down, Gone(how) PROVE ReloadInv'
  BY <1>6 DEF Gone, Down, ReloadInv, Nulls, PrefixMoved, Follow, Updating, Watched,
     Waiting, Working
<1>7. CASE CatchSignal
  <2>1. /\ pc = "handler" /\ pc' = "update" /\ watchers' = <<>> /\ newWatchers' = <<>>
        /\ oldFiles' = <<>> /\ Len(watchers') = 0 /\ Len(newWatchers') = 0
        /\ Len(oldFiles') = 0
    BY <1>7 DEF CatchSignal, update, Shape, Startup, Updating
  <2>2. Nulls'
    <3>1. 0 \in 0 .. Len(newWatchers') /\ 1 .. Len(watchers') = {}
      BY <2>1
    <3> QED
      BY <3>1 DEF Nulls
  <2>3. PrefixMoved'
    BY <2>1 DEF PrefixMoved
  <2>4. Aligned(oldFiles, newFiles)'
    <3>1. Len(newFiles') \in Nat
      BY <1>7 DEF CatchSignal, update, TypeOK
    <3> QED
      BY <2>1, <3>1 DEF Aligned
  <2>5. Follow'
    BY <2>1, <2>4 DEF Follow, Watched, Waiting, Working
  <2> QED
    BY <2>2, <2>3, <2>5 DEF ReloadInv
<1>8. CASE Parse /\ file \in Files
  <2>1. /\ pc = "parse" /\ pc' = "update" /\ oldFiles' = config /\ newFiles' = file
        /\ aligned' = (aligned /\ Aligned(config, file))
        /\ UNCHANGED <<heap, watchers, newWatchers, config>>
    BY <1>8, FilesType DEF Parse
  <2>2. /\ newWatchers = <<>> /\ Len(newWatchers) = 0 /\ Len(watchers) = Len(config)
        /\ \A k \in 1 .. Len(watchers) : watchers[k] \in Ref
    BY <1>t, <2>1 DEF Shape, Updating, WatcherPerFile
  <2>3. Nulls'
    <3>1. 0 \in 0 .. Len(newWatchers)
      BY <1>t
    <3>2. \A k \in 1 .. Len(watchers) : watchers[k] = Null <=> k <= 0
      BY <1>t, <2>2
    <3> QED
      BY <2>1, <3>1, <3>2 DEF Nulls
  <2>4. PrefixMoved'
    BY <2>1, <2>2 DEF PrefixMoved
  <2>5. aligned => \A k \in 1 .. Len(config) : heap[watchers[k]] = config[k]
    BY <1>t, <2>1 DEF ReloadInv, Follow, Watched
  <2>6. Follow'
    <3> SUFFICES ASSUME aligned, Aligned(config, file)
                 PROVE  \A k \in 1 .. Len(watchers) : heap[watchers[k]] = config[k]
      <4>1. Aligned(oldFiles, newFiles)' <=> Aligned(config, file)
        BY <2>1 DEF Aligned
      <4>2. Watched'
        BY <2>1 DEF Watched, Waiting, Working
      <4>3. 1 .. Len(newWatchers') = {} /\ 1 .. Len(watchers') = 1 .. Len(watchers)
        BY <2>1, <2>2
      <4>4. aligned' => aligned /\ Aligned(config, file)
        BY <2>1
      <4>5. \A k : heap'[watchers'[k]] = heap[watchers[k]] /\ oldFiles'[k] = config[k]
        BY <2>1
      <4> QED
        BY <4>1, <4>2, <4>3, <4>4, <4>5 DEF Follow
    <3> QED
      BY <2>2, <2>5
  <2> QED
    BY <2>3, <2>4, <2>6 DEF ReloadInv
<1>9. CASE UNCHANGED <<heap, watchers, newWatchers, oldFiles, newFiles, config, aligned>>
           /\ (Updating <=> Updating') /\ (pc = "delete" <=> pc' = "delete") /\ n' = n
           /\ (pc \in Waiting \cup Working \cup {"parse"}
                 <=> pc' \in Waiting \cup Working \cup {"parse"})
  BY <1>9 DEF ReloadInv, Nulls, PrefixMoved, Common, Follow, Watched, Aligned
<1>10. CASE ~Updating /\ ~Updating'
            /\ UNCHANGED <<heap, watchers, config, aligned>>
            /\ (pc' \in Waiting \cup Working \cup {"parse"}
                  => pc \in Waiting \cup Working \cup {"parse"})
  BY <1>10 DEF ReloadInv, Nulls, PrefixMoved, Follow, Watched
<1>11. CASE ReadFirst
  <2>1. CASE file \in Files
    BY <1>11, <2>1 DEF ReadFirst, ReloadInv, Nulls, PrefixMoved, Follow, Updating,
       Watched, Waiting, Working
  <2>2. CASE file \notin Files
    BY <1>6, <1>11, <2>2 DEF ReadFirst, Down
  <2> QED
    BY <2>1, <2>2
<1>12. CASE WritePidfile \/ MaskSignal \/ Start
  BY <1>10, <1>12 DEF WritePidfile, MaskSignal, Start, Updating, Waiting, Working, Down
<1>13. CASE Unmask \/ Select \/ Mask \/ Work \/ EndWork \/ CheckPipe
  BY <1>10, <1>13 DEF Unmask, Select, Mask, Work, EndWork, CheckPipe, Updating, Waiting, Working
<1>14. CASE Parse /\ file \notin Files
  <2>1. CASE file = Fatal
    BY <1>6, <1>14, <2>1 DEF Parse, Down
  <2>2. CASE file = Invalid
    BY <1>6, <1>10, <1>14, <2>2 DEF Parse, Updating, Waiting, Working, Down
  <2> QED
    BY <1>14, <2>1, <2>2 DEF TypeOK
<1>15. CASE Sighup
  <2>1. CASE masked \/ handler
    <3>1. CASE pc' = pc
      BY <1>9, <1>15, <2>1, <3>1 DEF Sighup, update, Updating
    <3>2. CASE pc' # pc
      BY <1>10, <1>15, <2>1, <3>2 DEF Sighup, update, Updating, Waiting, Working
    <3> QED
      BY <3>1, <3>2
  <2>2. CASE ~masked /\ ~handler
    BY <1>6, <1>15, <2>2 DEF Sighup, Down
  <2> QED
    BY <2>1, <2>2
<1>16. CASE (\E r \in Ref : Event(r)) \/ (\E c \in Files \cup {Invalid, Fatal} : Edit(c))
            \/ UNCHANGED vars
  <2>1. UNCHANGED <<pc, heap, watchers, newWatchers, oldFiles, newFiles, config, aligned, n>>
    BY <1>16 DEF Event, Edit, vars, update
  <2> QED
    BY <1>9, <2>1 DEF Updating
<1>17. CASE Die
  BY <1>6, <1>17 DEF Die, Down
<1> QED
  BY <1>1, <1>2, <1>3, <1>4, <1>5, <1>7, <1>8, <1>11, <1>12, <1>13, <1>14, <1>15,
     <1>16, <1>17 DEF Next, Main

\* A reload deletes no watcher of the common beginning of the two lists; and
\* as long as no reload reordered the list, every configured file is watched
\* by the watcher in its place.
THEOREM ReloadCorrect == Spec => [](CommonPrefixKept /\ WatchedIfAligned)
<1>1. Init => OneOwner /\ ReloadInv
  <2> SUFFICES ASSUME Init PROVE OneOwner /\ ReloadInv
    OBVIOUS
  <2>1. OldSlots = {} /\ DOMAIN newWatchers = {} /\ \A r \in Ref : heap[r] = Free
    BY DEF Init, OldSlots, Empty
  <2>2. ReloadInv
    BY DEF Init, ReloadInv, Nulls, PrefixMoved, Follow, Updating, Watched, Waiting, Working
  <2> QED
    BY <2>1, <2>2 DEF OneOwner
<1>2. Spec => [](TypeOK /\ Shape /\ OneOwner /\ ReloadInv)
  BY <1>1, ShapeInit, ShapeStep, OwnerStep, ReloadStep, PTL DEF Spec
<1>3. TypeOK /\ Shape /\ ReloadInv => CommonPrefixKept /\ WatchedIfAligned
  <2> SUFFICES ASSUME TypeOK, Shape, ReloadInv PROVE CommonPrefixKept /\ WatchedIfAligned
    OBVIOUS
  <2>1. ASSUME pc = "delete", NEW k \in DOMAIN watchers, Common(k)
        PROVE  watchers[k] = Null
    <3>1. /\ k \in 1 .. Len(watchers) /\ Len(newWatchers) = Len(newFiles)
          /\ DOMAIN newFiles = 1 .. Len(newFiles)
      BY <2>1 DEF TypeOK, Shape
    <3>2. k <= Len(newWatchers)
      BY <2>1, <3>1 DEF Common
    <3> QED
      BY <2>1, <3>1, <3>2 DEF ReloadInv, PrefixMoved, Updating
  <2> QED
    BY <2>1 DEF CommonPrefixKept, Common, ReloadInv, Follow, WatchedIfAligned
<1> QED
  BY <1>2, <1>3, PTL
=============================================================================
