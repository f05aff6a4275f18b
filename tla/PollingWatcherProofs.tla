------------------------ MODULE PollingWatcherProofs ------------------------
(***************************************************************************)
(* Theorems about PollingWatcher: its type invariant and the four          *)
(* invariants of its run, by one induction over the steps of the watcher,  *)
(* the main loop, the clock and the programs that write the files.         *)
(***************************************************************************)
EXTENDS PollingWatcher, WatcherImplementationProofs

Phases ==
  /\ pc \in {"init", "fopen"} => fp = None
  /\ pc \in {"stat", "read"} => fp # None

\* The k-th character of f has still to be handed over for the last time f
\* came to path.
Unread(f, k) == IF f = fp THEN k > Begun ELSE f = at

Counts ==
  \A f \in File, k \in 1 .. MaxLength : Unread(f, k) => passed[f][k] < visits[f]

\* What was found at path is handed over, or in line, or about to be read.
Polled ==
  \A f \in File : /\ polled[f] <= Len(content[f])
                  /\ skipped[f] = 0
                  /\ \A k \in 1 .. polled[f] :
                       \/ passed[f][k] > 0
                       \/ f = fp /\ k > Begun /\ (k <= pos \/ pc = "read")

\* Once the daemon is gone, or the watcher deleted, nothing happens any more.
FilesOK ==
  /\ ReaderTypeOK
  /\ polled \in [File -> 0 .. MaxLength]
  /\ Bounded
  /\ LinesWhole
  /\ AtMostOnce
  /\ Running => Reading /\ Phases /\ Counts /\ Polled

PhaseNames == {"init", "timeout", "select", "test", "work", "stat", "fopen", "read"} \cup Stopped

ClockOK ==
  /\ pc \in PhaseNames
  /\ usec \in 0 .. Second - 1
  /\ due \in Int /\ due >= -1
  /\ remaining \in Nat
  /\ signalled \in BOOLEAN
  /\ moves \in 0 .. MaxMoves
  /\ steps \in 0 .. MaxSteps
  /\ SleepsTillDue

Invariant == FilesOK /\ ClockOK
-----------------------------------------------------------------------------
(* The clock and the timeout of select().                                  *)

LEMMA MaxOfTwo ==
  ASSUME NEW a \in Int, NEW b \in Int
  PROVE  Max({a, b}) = IF a >= b THEN a ELSE b
<1> DEFINE m == IF a >= b THEN a ELSE b
<1>1. m \in {a, b} /\ \A y \in {a, b} : m >= y
  OBVIOUS
<1>2. \A x \in {a, b} : (\A y \in {a, b} : x >= y) => x = m
  OBVIOUS
<1>3. Max({a, b}) = CHOOSE x \in {a, b} : \A y \in {a, b} : x >= y
  BY DEF Max
<1> HIDE DEF m
<1> QED  BY <1>1, <1>2, <1>3

\* Whole seconds, in units of tv_usec.
LEMMA Seconds ==
  /\ \A d \in Int : d * Second \in Int /\ (d - 1) * Second = d * Second - Second
  /\ \A d \in Int : d <= 0 => d * Second <= 0
  /\ \A d \in Int : d >= 1 => d * Second >= Second
  /\ \A d \in Int : d >= 0 => d * Second >= 0
<1>1. Second \in Int /\ Second > 0
  BY TimeAssumption
<1>2. ASSUME NEW d \in Int
      PROVE  /\ d * Second \in Int /\ (d - 1) * Second = d * Second - Second
             /\ d <= 0 => d * Second <= 0
             /\ d >= 1 => d * Second >= Second
             /\ d >= 0 => d * Second >= 0
  <2>1. ASSUME NEW x \in Int, NEW y \in Int, y > 0
        PROVE  /\ x * y \in Int /\ (x - 1) * y = x * y - y
               /\ x <= 0 => x * y <= 0
               /\ x >= 1 => x * y >= y
               /\ x >= 0 => x * y >= 0
    BY <2>1, SMTT(30)
  <2> QED  BY <1>1, <2>1
<1> QED  BY <1>2

\* The timeout is the time that is left until the deadline.
LEMMA TimeoutIsLeft ==
  ASSUME ClockOK
  PROVE  Timeout \in Nat /\ Timeout = Max({due * Second - usec, 0})
<1> DEFINE p == due * Second
<1>1. /\ due \in Int /\ usec \in Int /\ Second \in Int /\ Second > 0
      /\ usec >= 0 /\ usec < Second
  BY TimeAssumption DEF ClockOK
<1>2. /\ p \in Int /\ (due - 1) * Second = p - Second
      /\ due <= 0 => p <= 0
      /\ due >= 1 => p >= Second
  BY <1>1, Seconds
<1>3. Max({p - usec, 0}) = IF p - usec >= 0 THEN p - usec ELSE 0
  <2> HIDE DEF p
  <2> QED  BY <1>1, <1>2, MaxOfTwo
<1>4. CASE usec = 0
  <2>1. Minus(Limit, Now) = [sec |-> due, usec |-> 0]
    BY <1>1, <1>4 DEF Minus, Limit, Now
  <2>2. Timeout = IF due < 0 THEN 0 ELSE p + 0
    BY <2>1 DEF Timeout
  <2> HIDE DEF p
  <2>3. due < 0 \/ due = 0 \/ due >= 1
    BY <1>1
  <2> QED  BY <1>1, <1>2, <1>3, <1>4, <2>2, <2>3 DEF p
<1>5. CASE usec > 0
  <2>1. Minus(Limit, Now) = [sec |-> due - 1, usec |-> Second - usec]
    <3>1. ~(0 >= usec) /\ due - 0 - 1 = due - 1 /\ 0 - usec + Second = Second - usec
      BY <1>1, <1>5
    <3> QED  BY <3>1 DEF Minus, Limit, Now
  <2>2. Timeout = IF due - 1 < 0 THEN 0 ELSE (p - Second) + (Second - usec)
    BY <1>2, <2>1 DEF Timeout
  <2> HIDE DEF p
  <2>3. due <= 0 \/ due >= 1
    BY <1>1
  <2> QED  BY <1>1, <1>2, <1>3, <1>5, <2>2, <2>3
<1> QED  BY <1>1, <1>4, <1>5

LEMMA NearerOK ==
  ASSUME due \in Int, due >= -1, NEW s \in Int, Nearer(s)
  PROVE  due' \in Int /\ due' >= -1 /\ due' = IF due - s >= -1 THEN due - s ELSE -1
BY MaxOfTwo DEF Nearer

\* A tick takes as much from the timeout as from the time until the deadline.
LEMMA TickKeeps ==
  ASSUME ClockOK, Tick
  PROVE  ClockOK'
<1> DEFINE p == due * Second
<1>1. /\ due \in Int /\ due >= -1 /\ usec \in Int /\ Second \in Int /\ Second > 0
      /\ usec >= 0 /\ usec < Second /\ remaining \in Nat
  BY TimeAssumption DEF ClockOK
<1>2. usec' = IF usec + 1 = Second THEN 0 ELSE usec + 1
  <2>1. ASSUME NEW u \in Int, NEW n \in Int, 0 <= u, u < n
        PROVE  (u + 1) % n = IF u + 1 = n THEN 0 ELSE u + 1
    BY <2>1, SMTT(30)
  <2> QED  BY <1>1, <2>1 DEF Tick
<1>3. due' \in Int /\ due' >= -1
      /\ due' = IF due - (IF usec' = 0 THEN 1 ELSE 0) >= -1 THEN due - (IF usec' = 0 THEN 1 ELSE 0) ELSE -1
  BY <1>1, NearerOK DEF Tick
<1>4. remaining' \in Nat /\ remaining' = IF remaining - 1 >= 0 THEN remaining - 1 ELSE 0
  BY <1>1, MaxOfTwo DEF Tick
<1>5. ASSUME pc' = "select", steps' = 0
      PROVE  remaining' = Max({due' * Second - usec', 0})
  <2>1. /\ p \in Int /\ (due - 1) * Second = p - Second
        /\ due <= 0 => p <= 0
        /\ due' * Second \in Int /\ (due' <= 0 => due' * Second <= 0)
    BY <1>1, <1>3, Seconds
  <2>2. remaining = Max({p - usec, 0})
    BY <1>5 DEF Tick, ClockOK, SleepsTillDue
  <2> HIDE DEF p
  <2>3. remaining = IF p - usec >= 0 THEN p - usec ELSE 0
    BY <1>1, <2>1, <2>2, MaxOfTwo
  <2>4. usec' \in Int
    BY <1>1, <1>2
  <2> DEFINE q == due' * Second
  <2>5. Max({q - usec', 0}) = IF q - usec' >= 0 THEN q - usec' ELSE 0
    <3>1. q \in Int
      BY <2>1
    <3> HIDE DEF q
    <3>2. q - usec' \in Int /\ 0 \in Int
      BY <2>4, <3>1
    <3>3. \A a \in Int, b \in Int : Max({a, b}) = IF a >= b THEN a ELSE b
      BY MaxOfTwo
    <3> QED  BY <3>2, <3>3
  <2>6. CASE usec + 1 # Second
    <3>1. due' = due /\ usec' = usec + 1
      BY <1>1, <1>2, <1>3, <2>6
    <3>2. q = p
      BY <3>1 DEF p
    <3> HIDE DEF q
    <3> QED  BY <1>1, <1>4, <2>1, <2>3, <2>5, <3>1, <3>2 DEF q
  <2>7. CASE usec + 1 = Second /\ due >= 0
    <3>1. due' = due - 1 /\ usec' = 0
      BY <1>1, <1>2, <1>3, <2>7
    <3>2. q = p - Second
      BY <2>1, <3>1
    <3> HIDE DEF q
    <3> QED  BY <1>1, <1>4, <2>1, <2>3, <2>5, <2>7, <3>1, <3>2 DEF q
  <2>8. CASE usec + 1 = Second /\ due < 0
    <3>1. due' = -1 /\ usec' = 0
      BY <1>1, <1>2, <1>3, <2>8
    <3>2. q \in Int /\ q <= 0
      BY <2>1, <3>1
    <3> HIDE DEF q
    <3> QED  BY <1>1, <1>4, <2>1, <2>3, <2>5, <2>8, <3>1, <3>2 DEF q
  <2> QED  BY <1>1, <2>6, <2>7, <2>8
<1>6. usec' \in 0 .. Second - 1
  BY <1>1, <1>2
<1>7. SleepsTillDue'
  BY <1>5 DEF SleepsTillDue
<1> QED  BY <1>3, <1>4, <1>6, <1>7 DEF Tick, ClockOK, files

LEMMA ClockKept ==
  ASSUME ClockOK, [Next]_vars
  PROVE  ClockOK'
<1>0. Second \in Nat \ {0} /\ MaxSteps \in Nat /\ MaxMoves \in Nat /\ ClockSteps \subseteq Int
  BY TimeAssumption
<1>1. CASE Select
  <2>1. Timeout \in Nat /\ Timeout = Max({due * Second - usec, 0})
    BY TimeoutIsLeft
  <2>2. SleepsTillDue'
    BY <1>1, <2>1 DEF Select, SleepsTillDue
  <2> QED  BY <1>1, <2>1, <2>2 DEF Select, ClockOK, PhaseNames, files
<1>2. CASE TimeOut \/ Test \/ Stat \/ OpenFile \/ Read \/ Fail \/ Delete \/ Wake \/ Interrupt
  <2>1. /\ pc' \in PhaseNames \ {"select"}
        /\ UNCHANGED <<usec, due, steps, moves>> /\ remaining' \in {remaining, 0}
        /\ signalled' \in {signalled, TRUE, FALSE}
    BY <1>2 DEF TimeOut, Test, Stat, OpenFile, Read, Fail, Delete, Wake, Interrupt,
                files, clock, PhaseNames, Stopped
  <2>2. SleepsTillDue'
    BY <2>1 DEF SleepsTillDue
  <2>3. signalled' \in BOOLEAN
    BY <2>1, Zenon DEF ClockOK
  <2> QED  BY <2>1, <2>2, <2>3 DEF ClockOK
<1>3. CASE Work
  BY <1>3 DEF Work, ClockOK, SleepsTillDue, PhaseNames, files
<1>4. CASE StatFails
  BY <1>0, <1>4 DEF StatFails, ClockOK, SleepsTillDue, PhaseNames, clock
<1>5. ASSUME NEW f \in File \cup {None}, Move(f) PROVE ClockOK'
  BY <1>0, <1>5 DEF Move, ClockOK, SleepsTillDue, clock
<1>6. ASSUME NEW f \in File, NEW c \in Char, Write(f, c) PROVE ClockOK'
  BY <1>6 DEF Write, ClockOK, SleepsTillDue, clock
<1>7. ASSUME NEW s \in ClockSteps, SetClock(s) PROVE ClockOK'
  <2>1. due' \in Int /\ due' >= -1
    BY <1>0, <1>7, NearerOK DEF SetClock, ClockOK
  <2>2. steps' \in 1 .. MaxSteps
    BY <1>0, <1>7 DEF SetClock, ClockOK
  <2> QED  BY <1>7, <2>1, <2>2 DEF SetClock, ClockOK, SleepsTillDue, files
<1>8. CASE Tick
  BY <1>8, TickKeeps
<1>9. CASE UNCHANGED vars
  BY <1>9 DEF vars, clock, files, ClockOK, SleepsTillDue
<1> QED
  BY <1>1, <1>2, <1>3, <1>4, <1>5, <1>6, <1>7, <1>8, <1>9 DEF Next, Main, Others
-----------------------------------------------------------------------------
(* What is read, and what has been handed over.                            *)

\* The main loop and the clock do not touch the files.
LEMMA QuietKeeps ==
  ASSUME FilesOK, Running, UNCHANGED <<at, content, visits, reader, skipped, polled>>,
         Running' => Phases' /\ (pc' = "read" <=> pc = "read")
  PROVE  FilesOK'
<1>1. UNCHANGED <<fp, pos, line, passed, torn>>
  BY DEF reader
<1>2. Bounded' /\ Reading'
  BY <1>1, OthersKeep DEF FilesOK
<1>3. ReaderTypeOK' /\ LinesWhole' /\ AtMostOnce'
  BY <1>1 DEF FilesOK, ReaderTypeOK, LinesWhole, AtMostOnce
<1>4. Counts'
  BY <1>1 DEF FilesOK, Counts, Unread, Begun
<1>5. Running' => Polled'
  BY <1>1 DEF FilesOK, Polled, Begun
<1> QED  BY <1>2, <1>3, <1>4, <1>5 DEF FilesOK

LEMMA MoveKeeps ==
  ASSUME FilesOK, NEW f \in File \cup {None}, Move(f)
  PROVE  FilesOK'
<1>1. /\ Running /\ Arrive(f)
      /\ UNCHANGED <<content, pc, fp, pos, line, passed, torn, skipped, polled>>
  BY DEF Move, reader
<1>2. /\ at' \in File \cup {None} /\ visits' \in [File -> Nat] /\ at' = f
      /\ \A g \in File : visits'[g] = IF g = f THEN visits[g] + 1 ELSE visits[g]
  BY <1>1, ArriveCounts DEF FilesOK, Arrive
<1>3. Bounded' /\ Reading'
  BY <1>1, OthersKeep DEF FilesOK
<1>4. ReaderTypeOK'
  BY <1>1, <1>2 DEF FilesOK, ReaderTypeOK
<1>5. ASSUME NEW g \in File, NEW k \in 1 .. MaxLength
      PROVE  /\ passed'[g][k] <= visits'[g]
             /\ Unread(g, k)' => passed'[g][k] < visits'[g]
  <2>1. /\ passed[g][k] \in Nat /\ visits[g] \in Nat /\ passed'[g][k] = passed[g][k]
        /\ passed[g][k] <= visits[g]
        /\ Unread(g, k) => passed[g][k] < visits[g]
    BY <1>1, Histories DEF FilesOK, AtMostOnce, Counts
  <2>2. Unread(g, k)' => Unread(g, k) \/ g = f
    BY <1>1, <1>2 DEF Unread, Begun
  <2> QED  BY <1>2, <2>1, <2>2
<1>6. AtMostOnce' /\ Counts'
  BY <1>5 DEF AtMostOnce, Counts
<1>7. Phases' /\ Polled' /\ LinesWhole'
  BY <1>1 DEF FilesOK, Phases, Polled, LinesWhole, Begun
<1> QED  BY <1>1, <1>3, <1>4, <1>6, <1>7 DEF FilesOK

LEMMA WriteKeeps ==
  ASSUME FilesOK, NEW f \in File, NEW c \in Char, Write(f, c)
  PROVE  FilesOK'
<1>1. /\ Running /\ Extend(f, c)
      /\ UNCHANGED <<at, visits, pc, reader, fp, pos, line, passed, torn, skipped, polled>>
  BY DEF Write, reader
<1>2. /\ ReaderTypeOK' /\ Bounded' /\ Reading'
      /\ \A g \in File : Len(content[g]) \in Nat /\ Len(content'[g]) \in Nat
      /\ \A g \in File : Len(content'[g]) >= Len(content[g])
  BY <1>1, ExtendKeeps DEF FilesOK
<1>3. AtMostOnce' /\ Counts' /\ LinesWhole' /\ Phases'
  BY <1>1 DEF FilesOK, AtMostOnce, Counts, LinesWhole, Phases, Unread, Begun
<1>4. ASSUME NEW g \in File PROVE polled'[g] <= Len(content'[g])
  <2>1. polled[g] \in Nat /\ polled[g] <= Len(content[g]) /\ polled'[g] = polled[g]
    BY <1>1, LengthAssumption DEF FilesOK, Polled
  <2>2. Len(content[g]) <= Len(content'[g])
    BY <1>2
  <2> QED  BY <1>2, <2>1, <2>2
<1>5. Polled'
  BY <1>1, <1>4 DEF FilesOK, Polled, Begun
<1> QED  BY <1>1, <1>2, <1>3, <1>5 DEF FilesOK

\* closeFile() in work() hands over what is left of what was found at path.
LEMMA ClosePassed ==
  ASSUME FilesOK, pc = "stat", Close, UNCHANGED content
  PROVE  /\ fp' = None /\ line' = <<>> /\ pos' = 0
         /\ fp \in File
         /\ passed' \in [File -> [1 .. MaxLength -> Nat]]
         /\ Bounded' /\ Reading' /\ LinesWhole' /\ torn' = torn
         /\ \A f \in File, k \in 1 .. MaxLength :
              /\ passed[f][k] \in Nat /\ visits[f] \in Nat /\ passed'[f][k] \in Nat
              /\ passed'[f][k] <= visits[f]
              /\ f # fp => passed'[f][k] = passed[f][k]
              /\ k <= polled[f] => passed'[f][k] > 0
<1>1. /\ Running /\ ReaderTypeOK /\ Bounded /\ Reading /\ fp # None
      /\ AtMostOnce /\ Counts /\ Polled /\ ~torn
  BY DEF FilesOK, Running, Stopped, Phases, LinesWhole
<1>2. /\ fp' = None /\ line' = <<>> /\ pos' = 0 /\ torn' = torn
      /\ passed' \in [File -> [1 .. MaxLength -> Nat]]
      /\ Passes(fp, Begun, pos)
      /\ Bounded' /\ Reading'
  BY <1>1, CloseKeeps
<1>3. fp \in File /\ Begun \in Nat /\ pos \in Nat
  BY <1>1, RestIsRun DEF ReaderTypeOK
<1>4. ASSUME NEW f \in File, NEW k \in 1 .. MaxLength
      PROVE  /\ passed[f][k] \in Nat /\ visits[f] \in Nat /\ passed'[f][k] \in Nat
             /\ passed'[f][k] <= visits[f]
             /\ f # fp => passed'[f][k] = passed[f][k]
             /\ k <= polled[f] => passed'[f][k] > 0
  <2>1. /\ passed[f][k] \in Nat /\ visits[f] \in Nat
        /\ passed[f][k] <= visits[f]
        /\ f = fp /\ k > Begun => passed[f][k] < visits[f]
    BY <1>1, Histories DEF AtMostOnce, Counts, Unread
  <2>2. passed'[f][k] = passed[f][k] + IF f = fp /\ k \in Begun + 1 .. pos THEN 1 ELSE 0
    BY <1>2 DEF Passes
  <2>3. k \in Int /\ k >= 1
    OBVIOUS
  <2>4. polled[f] \in Nat
    BY LengthAssumption DEF FilesOK
  <2>5. k <= polled[f] => passed[f][k] > 0 \/ (f = fp /\ k > Begun /\ k <= pos)
    BY <1>1, <2>3, <2>4 DEF Polled
  <2> QED  BY <1>3, <2>1, <2>2, <2>3, <2>5
<1> QED  BY <1>1, <1>2, <1>3, <1>4 DEF LinesWhole

\* The file that was open is not the one at path, or will be read again.
LEMMA CloseInWork ==
  ASSUME FilesOK, pc = "stat", Close, pc' = "fopen", UNCHANGED <<content, skipped, polled>>,
         \/ at # fp /\ UNCHANGED <<at, visits>>
         \/ at = fp /\ Arrive(fp)
  PROVE  FilesOK'
<1>1. /\ fp' = None /\ line' = <<>> /\ pos' = 0
      /\ fp \in File
      /\ passed' \in [File -> [1 .. MaxLength -> Nat]]
      /\ Bounded' /\ Reading' /\ LinesWhole' /\ torn' = torn
      /\ \A f \in File, k \in 1 .. MaxLength :
           /\ passed[f][k] \in Nat /\ visits[f] \in Nat /\ passed'[f][k] \in Nat
           /\ passed'[f][k] <= visits[f]
           /\ f # fp => passed'[f][k] = passed[f][k]
           /\ k <= polled[f] => passed'[f][k] > 0
  BY ClosePassed
<1>2. /\ at' = at /\ visits' \in [File -> Nat]
      /\ \A f \in File : visits'[f] = IF at = fp /\ f = fp THEN visits[f] + 1 ELSE visits[f]
  BY <1>1, ArriveCounts DEF FilesOK, ReaderTypeOK, Arrive
<1>3. ReaderTypeOK'
  <2>1. pos' \in 0 .. MaxLength /\ line' \in Seq(File \X (1 .. MaxLength))
    BY <1>1, LengthAssumption
  <2>2. torn' \in BOOLEAN
    BY <1>1 DEF FilesOK, ReaderTypeOK
  <2> QED  BY <1>1, <1>2, <2>1, <2>2 DEF FilesOK, ReaderTypeOK
<1>4. AtMostOnce'
  BY <1>1, <1>2 DEF AtMostOnce
<1>5. Counts'
  <2> SUFFICES ASSUME NEW f \in File, NEW k \in 1 .. MaxLength, Unread(f, k)'
               PROVE  passed'[f][k] < visits'[f]
    BY DEF Counts
  <2>1. f # None /\ f = at
    BY <1>1, <1>2, FileAssumption DEF Unread
  <2>2. CASE at = fp
    BY <1>1, <1>2, <2>1, <2>2
  <2>3. CASE at # fp
    <3>1. passed[f][k] < visits[f]
      BY <2>1, <2>3 DEF FilesOK, Running, Stopped, Counts, Unread
    <3> QED  BY <1>1, <1>2, <2>1, <2>3, <3>1
  <2> QED  BY <2>2, <2>3
<1>6. Polled'
  <2> SUFFICES ASSUME NEW f \in File
               PROVE  /\ polled'[f] <= Len(content'[f]) /\ skipped'[f] = 0
                      /\ \A k \in 1 .. polled'[f] : passed'[f][k] > 0
    BY DEF Polled
  <2>1. polled[f] \in 0 .. MaxLength /\ polled[f] <= Len(content[f]) /\ skipped[f] = 0
    BY DEF FilesOK, Running, Stopped, Polled
  <2>2. \A k \in 1 .. polled[f] : k \in 1 .. MaxLength /\ k <= polled[f]
    BY <2>1, LengthAssumption
  <2> QED  BY <1>1, <2>1, <2>2
<1>7. Phases'
  BY <1>1 DEF Phases
<1> QED  BY <1>1, <1>3, <1>4, <1>5, <1>6, <1>7 DEF FilesOK

LEMMA StatKeeps ==
  ASSUME FilesOK, Stat
  PROVE  FilesOK'
<1>1. CASE at = fp
  <2>1. /\ pc = "stat" /\ pc' = "read"
        /\ polled' = IF fp = None THEN polled ELSE [polled EXCEPT ![fp] = Len(content[fp])]
        /\ UNCHANGED <<at, content, visits, fp, pos, line, passed, torn, skipped>>
    BY <1>1 DEF Stat, Found, files, reader
  <2>2. fp \in File /\ Reading /\ Polled /\ Begun \in Nat /\ Len(content[fp]) \in 0 .. MaxLength
    <3>1. ReaderTypeOK /\ Bounded /\ Reading /\ fp # None /\ Polled
      BY <2>1 DEF FilesOK, Running, Stopped, Phases
    <3> QED  BY <3>1, RestIsRun
  <2>3. Bounded' /\ Reading'
    BY <2>1, OthersKeep DEF FilesOK, Running, Stopped
  <2>4. ReaderTypeOK' /\ LinesWhole' /\ AtMostOnce'
    BY <2>1 DEF FilesOK, ReaderTypeOK, LinesWhole, AtMostOnce
  <2>5. Counts' /\ Phases'
    BY <2>1, <2>2, FileAssumption DEF FilesOK, Running, Stopped, Counts, Unread, Begun, Phases
  <2>6. polled' \in [File -> 0 .. MaxLength]
        /\ \A f \in File : polled'[f] = IF f = fp THEN Len(content[fp]) ELSE polled[f]
    BY <2>1, <2>2, FileAssumption DEF FilesOK
  <2>7. ASSUME NEW k \in 1 .. Len(content[fp])
        PROVE  passed[fp][k] > 0 \/ k > Begun
    <3>1. CASE k > Begun
      BY <3>1
    <3>2. CASE ~(k > Begun)
      <4>1. k \in 1 .. Begun /\ ~(k <= 0)
        BY <2>2, <3>2
      <4>2. passed[fp][k] > 0 \/ k <= skipped[fp]
        BY <2>2, <4>1, FileAssumption DEF Reading
      <4> QED  BY <2>2, <4>1, <4>2 DEF Polled
    <3> QED  BY <3>1, <3>2
  <2>8. Polled'
    <3> SUFFICES ASSUME NEW f \in File
                 PROVE  /\ polled'[f] <= Len(content[f])
                        /\ \A k \in 1 .. polled'[f] :
                             \/ passed[f][k] > 0
                             \/ f = fp /\ k > Begun
      BY <2>1, <2>2 DEF Polled, Begun
    <3>1. CASE f = fp
      BY <2>2, <2>6, <2>7, <3>1
    <3>2. CASE f # fp
      BY <2>1, <2>2, <2>6, <3>2 DEF Polled
    <3> QED  BY <3>1, <3>2
  <2> QED  BY <2>3, <2>4, <2>5, <2>6, <2>8 DEF FilesOK
<1>2. CASE at # fp
  BY <1>2, CloseInWork DEF Stat, files
<1> QED  BY <1>1, <1>2

LEMMA OpenFileKeeps ==
  ASSUME FilesOK, OpenFile
  PROVE  FilesOK'
<1>1. /\ pc \in {"init", "fopen"} /\ fp' = at
      /\ polled' = IF pc = "init" \/ at = None THEN polled
                   ELSE [polled EXCEPT ![at] = Len(content[at])]
      /\ pc' = IF pc = "init" \/ at = None THEN "timeout" ELSE "read"
      /\ UNCHANGED <<at, content, visits, pos, line, passed, torn, skipped>>
  BY DEF OpenFile, Found, files
<1>2. /\ ReaderTypeOK /\ Bounded /\ Reading /\ fp = None /\ AtMostOnce /\ Counts /\ Polled /\ LinesWhole
      /\ at \in File \cup {None}
  BY <1>1 DEF FilesOK, Running, Stopped, Phases, ReaderTypeOK
<1>3. Bounded' /\ Reading' /\ pos' = 0 /\ line' = <<>>
  BY <1>1, <1>2, OpenKeeps
<1>4. ReaderTypeOK' /\ LinesWhole' /\ AtMostOnce'
  BY <1>1, <1>2, <1>3 DEF ReaderTypeOK, LinesWhole, AtMostOnce
<1>5. Begun' = 0
  <2>1. Begun' = pos' - Len(line') /\ Len(<<>>) = 0
    BY DEF Begun
  <2>2. Begun' = 0 - 0
    BY <1>3, <2>1
  <2> QED  BY <2>2
<1>6. Counts'
  BY <1>1, <1>2, <1>5, FileAssumption DEF Counts, Unread
<1>7. Phases'
  BY <1>1, <1>2 DEF Phases
<1>8. \A f \in File : Len(content[f]) \in 0 .. MaxLength
  BY <1>2, LengthAssumption DEF ReaderTypeOK, Bounded
<1>9. polled' \in [File -> 0 .. MaxLength]
  BY <1>1, <1>2, <1>8 DEF FilesOK
<1>10. Polled'
  <2> SUFFICES ASSUME NEW f \in File
               PROVE  /\ polled'[f] <= Len(content[f])
                      /\ \A k \in 1 .. polled'[f] :
                           passed[f][k] > 0 \/ (f = at /\ pc' = "read")
    BY <1>1, <1>2, <1>5 DEF Polled
  <2>1. CASE f = at /\ pc' = "read"
    <3>1. polled'[f] = Len(content[f])
      BY <1>1, <2>1 DEF FilesOK
    <3> QED  BY <1>8, <2>1, <3>1
  <2>2. CASE ~(f = at /\ pc' = "read")
    <3>1. polled'[f] = polled[f]
      BY <1>1, <1>2, <2>2 DEF FilesOK
    <3> QED  BY <1>2, <3>1, FileAssumption DEF Polled
  <2> QED  BY <2>1, <2>2
<1> QED  BY <1>3, <1>4, <1>6, <1>7, <1>9, <1>10 DEF FilesOK

LEMMA ReadAllKeeps ==
  ASSUME FilesOK, Read
  PROVE  FilesOK'
<1>1. /\ pc = "read" /\ pc' = "timeout" /\ ReadLines
      /\ UNCHANGED <<at, content, visits, skipped, polled>>
  BY DEF Read, files
<1>2. /\ ReaderTypeOK /\ Bounded /\ Reading /\ fp # None /\ AtMostOnce /\ Counts /\ Polled /\ ~torn
  BY <1>1 DEF FilesOK, Running, Stopped, Phases, LinesWhole
<1>3. /\ ReaderTypeOK' /\ Bounded' /\ Reading'
  BY <1>1, <1>2, ReadKeeps
<1>4. /\ fp' = fp /\ pos' = Len(content[fp])
      /\ Begun' \in Nat /\ Begun <= Begun'
      /\ Passes(fp, Begun, Begun')
      /\ torn' = torn
  BY <1>1, <1>2, ReadEffect
<1>5. fp \in File /\ Begun \in Nat /\ Len(content[fp]) \in Nat
  BY <1>2, RestIsRun, LengthAssumption
<1>6. ASSUME NEW f \in File, NEW k \in 1 .. MaxLength
      PROVE  /\ passed'[f][k] <= visits[f]
             /\ Unread(f, k)' => passed'[f][k] < visits[f]
             /\ k <= polled[f] => passed'[f][k] > 0 \/ (f = fp /\ k > Begun' /\ k <= pos')
  <2>1. /\ passed[f][k] \in Nat /\ visits[f] \in Nat
        /\ passed[f][k] <= visits[f]
        /\ Unread(f, k) => passed[f][k] < visits[f]
    BY <1>2, Histories DEF AtMostOnce, Counts
  <2>2. passed'[f][k] = passed[f][k] + IF f = fp /\ k \in Begun + 1 .. Begun' THEN 1 ELSE 0
    BY <1>4 DEF Passes
  <2>3. k \in Int /\ k >= 1
    OBVIOUS
  <2>4. polled[f] \in Nat /\ polled[f] <= Len(content[f])
    BY <1>2, LengthAssumption DEF FilesOK, Polled
  <2>5. k <= polled[f] => passed[f][k] > 0 \/ (f = fp /\ k > Begun)
    BY <1>2, <2>3, <2>4 DEF Polled
  <2>6. /\ Unread(f, k) <=> IF f = fp THEN k > Begun ELSE f = at
        /\ Unread(f, k)' <=> IF f = fp THEN k > Begun' ELSE f = at
    BY <1>1, <1>4 DEF Unread
  <2>7. k <= polled[f] /\ f = fp => k <= pos'
    BY <1>4, <1>5, <2>3, <2>4
  <2>8. CASE f = fp /\ k \in Begun + 1 .. Begun'
    <3>1. passed'[f][k] = passed[f][k] + 1 /\ passed[f][k] < visits[f] /\ ~Unread(f, k)'
      BY <1>4, <1>5, <2>1, <2>2, <2>3, <2>6, <2>8
    <3> QED  BY <2>1, <3>1
  <2>9. CASE ~(f = fp /\ k \in Begun + 1 .. Begun')
    <3>1. passed'[f][k] = passed[f][k]
      BY <2>1, <2>2, <2>9
    <3>2. Unread(f, k)' => Unread(f, k)
      BY <1>4, <1>5, <2>3, <2>6
    <3>3. f = fp /\ k > Begun => k > Begun'
      BY <1>4, <1>5, <2>3, <2>9
    <3> QED  BY <2>1, <2>5, <2>7, <3>1, <3>2, <3>3
  <2> QED  BY <2>8, <2>9
<1>7. AtMostOnce' /\ Counts'
  BY <1>1, <1>6 DEF AtMostOnce, Counts
<1>8. Polled'
  <2> SUFFICES ASSUME NEW f \in File
               PROVE  \A k \in 1 .. polled[f] :
                        passed'[f][k] > 0 \/ (f = fp' /\ k > Begun' /\ k <= pos')
    BY <1>1, <1>2 DEF Polled
  <2>1. \A k \in 1 .. polled[f] : k \in 1 .. MaxLength /\ k <= polled[f]
    BY LengthAssumption DEF FilesOK
  <2> QED  BY <1>4, <1>6, <2>1
<1>9. Phases' /\ LinesWhole'
  BY <1>1, <1>2, <1>4 DEF Phases, LinesWhole
<1> QED  BY <1>1, <1>3, <1>7, <1>8, <1>9 DEF FilesOK

\* What was open is forgotten, and nothing happens any more.
LEMMA DeleteKeeps ==
  ASSUME FilesOK, Delete
  PROVE  FilesOK'
<1>1. /\ fp' = None /\ pc' \in Stopped
      /\ UNCHANGED <<at, content, visits, pos, line, passed, torn, skipped, polled>>
  BY DEF Delete, files, Stopped
<1> QED  BY <1>1 DEF FilesOK, ReaderTypeOK, Bounded, LinesWhole, AtMostOnce, Running

LEMMA FilesKept ==
  ASSUME FilesOK, ClockOK, [Next]_vars
  PROVE  FilesOK'
<1>1. CASE Select \/ TimeOut \/ Test \/ Work \/ Wake \/ Interrupt \/ Tick \/ Fail
  <2>1. Running /\ UNCHANGED <<at, content, visits, reader, skipped, polled>>
    BY <1>1 DEF Select, TimeOut, Test, Work, Wake, Interrupt, Tick, Fail, Running, Stopped, files
  <2>2. UNCHANGED fp
    BY <2>1 DEF reader
  <2>3. Running' => Phases' /\ (pc' = "read" <=> pc = "read")
    BY <1>1, <2>1, <2>2 DEF Select, TimeOut, Test, Work, Wake, Interrupt, Tick, Fail, Running,
                            Stopped, Phases, FilesOK
  <2> QED  BY <2>1, <2>3, QuietKeeps
<1>2. ASSUME NEW s \in ClockSteps, SetClock(s) PROVE FilesOK'
  <2>1. Running /\ UNCHANGED <<pc, at, content, visits, reader, fp, skipped, polled>>
    BY <1>2 DEF SetClock, files, reader
  <2>2. Phases'
    BY <2>1 DEF FilesOK, Phases
  <2> QED  BY <2>1, <2>2, QuietKeeps
<1>3. CASE StatFails
  BY <1>3, CloseInWork DEF StatFails
<1>4. CASE UNCHANGED vars
  <2>1. UNCHANGED <<pc, at, content, visits, reader, fp, pos, line, passed, torn, skipped, polled>>
    BY <1>4 DEF vars, files, reader
  <2>2. CASE Running
    <3>1. Phases'
      BY <2>1, <2>2 DEF FilesOK, Phases
    <3> QED  BY <2>1, <2>2, <3>1, QuietKeeps
  <2>3. CASE ~Running
    BY <2>1, <2>3 DEF FilesOK, ReaderTypeOK, Bounded, LinesWhole, AtMostOnce, Running
  <2> QED  BY <2>2, <2>3
<1> QED
  BY <1>1, <1>2, <1>3, <1>4, MoveKeeps, WriteKeeps, StatKeeps, OpenFileKeeps, ReadAllKeeps, DeleteKeeps
  DEF Next, Main, Others

LEMMA InitInvariant == Init => Invariant
<1> SUFFICES ASSUME Init PROVE Invariant
  OBVIOUS
<1>1. ReaderTypeOK /\ Bounded /\ Reading /\ ~torn
  BY ReaderStarts DEF Init
<1>2. ClockOK
  <2>1. moves \in 0 .. MaxMoves /\ steps \in 0 .. MaxSteps
    BY TimeAssumption DEF Init
  <2>2. pc \in PhaseNames /\ pc # "select"
    BY DEF Init, PhaseNames
  <2>3. due = 0 /\ remaining = 0 /\ signalled = FALSE
    BY DEF Init
  <2>4. usec \in 0 .. Second - 1
    BY DEF Init
  <2>5. SleepsTillDue
    BY <2>2 DEF SleepsTillDue
  <2>6. signalled \in BOOLEAN
    BY <2>3, Zenon
  <2>7. 0 \in Int /\ 0 >= -1 /\ 0 \in Nat
    OBVIOUS
  <2>8. due \in Int /\ due >= -1 /\ remaining \in Nat
    BY <2>3, <2>7, Zenon
  <2> QED  BY <2>1, <2>2, <2>4, <2>5, <2>6, <2>8, Zenon DEF ClockOK
<1>3. Phases
  BY DEF Init, ReaderInit, Phases
<1>4. AtMostOnce /\ Counts
  <2>1. \A f \in File, k \in 1 .. MaxLength : passed[f][k] = 0
    BY DEF Init, ReaderInit
  <2>2. \A f \in File : visits[f] = IF f = at THEN 1 ELSE 0
    BY DEF Init, ReaderInit
  <2>3. fp = None
    BY DEF Init, ReaderInit
  <2> QED  BY <2>1, <2>2, <2>3, FileAssumption DEF AtMostOnce, Counts, Unread
<1>5. polled \in [File -> 0 .. MaxLength] /\ \A f \in File : polled[f] = 0
  BY LengthAssumption DEF Init
<1>6. Polled
  <2>1. \A f \in File : skipped[f] = 0 /\ Len(content[f]) \in Nat
    BY <1>1 DEF Init, ReaderInit, ReaderTypeOK
  <2> QED  BY <1>5, <2>1 DEF Polled
<1> QED  BY <1>1, <1>2, <1>3, <1>4, <1>5, <1>6 DEF Invariant, FilesOK, LinesWhole

LEMMA InvariantHolds == Spec => []Invariant
<1>1. Invariant /\ [Next]_vars => Invariant'
  BY FilesKept, ClockKept DEF Invariant
<1> QED  BY InitInvariant, <1>1, PTL DEF Spec
-----------------------------------------------------------------------------
\* The state has the types of TypeOK in every step of every behaviour.
THEOREM PollingTypes == Spec => []TypeOK
<1>1. Invariant => TypeOK
  BY DEF Invariant, FilesOK, ClockOK, TypeOK, PhaseNames
<1> QED  BY InvariantHolds, <1>1, PTL

\* readLines() and closeFile() hand over whole lines of one file, however
\* the file at path is exchanged between two system calls.
THEOREM PollingLinesWhole == Spec => []LinesWhole
<1>1. Invariant => LinesWhole
  BY DEF Invariant, FilesOK
<1> QED  BY InvariantHolds, <1>1, PTL

\* No line is handed over twice, unless its file came back to path.
THEOREM PollingAtMostOnce == Spec => []AtMostOnce
<1>1. Invariant => AtMostOnce
  BY DEF Invariant, FilesOK
<1> QED  BY InvariantHolds, <1>1, PTL

\* Whatever work() found at path has been handed over, or waits in line for
\* its newline, when the watcher is in no call.
THEOREM PollingLosesNothing == Spec => []PolledPassed
<1>1. Invariant => PolledPassed
  <2> SUFFICES ASSUME Invariant, pc \in {"timeout", "select", "test", "work", "stat"},
                      NEW f \in File, NEW k \in 1 .. MaxLength, k <= polled[f], ~(passed[f][k] > 0)
               PROVE  \E i \in DOMAIN line : line[i] = <<f, k>>
    BY DEF PolledPassed
  <2>1. /\ ReaderTypeOK /\ Bounded /\ Reading /\ Polled /\ polled[f] \in Nat /\ pc # "read"
    BY LengthAssumption DEF Invariant, FilesOK, Running, Stopped
  <2>2. f = fp /\ k > Begun /\ k <= pos
    BY <2>1 DEF Polled
  <2>3. /\ Begun \in Nat /\ pos \in Nat /\ Len(line) = pos - Begun
        /\ IsRun(line, fp, Begun, Len(line))
    BY <2>1, <2>2, FileAssumption, RestIsRun DEF Reading, ReaderTypeOK
  <2>4. k - Begun \in 1 .. Len(line) /\ Begun + (k - Begun) = k
    BY <2>2, <2>3
  <2>5. k - Begun \in DOMAIN line /\ line[k - Begun] = <<f, k>>
    BY <2>2, <2>3, <2>4 DEF IsRun
  <2> QED  BY <2>5
<1> QED  BY InvariantHolds, <1>1, PTL

\* select() sleeps exactly until the next deadline: the arithmetic of
\* timeval.h neither shortens nor lengthens any timeout.
THEOREM PollingSleepsTillDue == Spec => []SleepsTillDue
<1>1. Invariant => SleepsTillDue
  BY DEF Invariant, ClockOK
<1> QED  BY InvariantHolds, <1>1, PTL
=============================================================================
