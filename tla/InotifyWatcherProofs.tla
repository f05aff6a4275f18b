------------------------ MODULE InotifyWatcherProofs ------------------------
(***************************************************************************)
(* Theorems about InotifyWatcher: its type invariant and the five          *)
(* invariants of its run, for every number of files, moves and characters  *)
(* and every size of the kernel's queue and of the buffer of work().       *)
(*                                                                         *)
(* The induction is about Pending, the events that work() has still to     *)
(* handle, in their order.                                                 *)
(***************************************************************************)
EXTENDS InotifyWatcher, WatcherImplementationProofs

Pending == batch \o queue

IsDir(i) == Pending[i].wd = DirWatch

\* An event of the directory is among the first n.
DirWithin(n) == \E i \in 1 .. n : IsDir(i)

DirPending == DirWithin(Len(Pending))

\* Before fopen() and before inotify_add_watch(), for either caller.
BeforeFOpen == pc \in {"init", "init.fopen", "fopen"}
BeforeWatch == pc \in {"init.watch", "watch"}

\* openFile() has been called, and its caller has still to read the file.
BeforeRead == pc \in {"init.seek", "read"}

Phases ==
  /\ BeforeFOpen => fp = None
  /\ BeforeWatch \/ BeforeRead => fp # None /\ pos = 0 /\ line = <<>>
  /\ fp = None \/ BeforeWatch => file_wd = NoWatch
  /\ pc \in {"init", "init.fopen", "init.watch", "init.seek", "idle"} => batch = <<>>
  /\ pc = "init" => ~DirPending

\* Only one watch of a file exists, and file_wd is its descriptor.
Watches ==
  /\ file_wd = NoWatch \/ file_wd \in 1 .. lastWd
  /\ \A f \in File : watch[f] # NoWatch => watch[f] = file_wd
  /\ \A i \in 1 .. Len(Pending) :
       /\ Pending[i].wd \in NoWatch .. lastWd
       /\ Pending[i].wd = NoWatch => overflowed
-----------------------------------------------------------------------------
\* A file other than the open one is at path, or watched, only while an
\* event of the directory tells so.
Noticed ==
  /\ at # None /\ fp # at => DirPending \/ BeforeFOpen
  /\ \A f \in File : watch[f] # NoWatch /\ f # fp => DirPending

\* The event that closes the file comes after one of the directory.
SelfLater ==
  \A i \in 1 .. Len(Pending) :
    Pending[i].wd = file_wd /\ Pending[i].mask = "self" => DirWithin(i - 1)

\* The file is read before the next event of the directory is handled.
ReadFirst ==
  \/ BeforeRead
  \/ \E i \in 1 .. Len(Pending) : Pending[i].wd = file_wd /\ ~DirWithin(i)

Tracked ==
  pc \in {"idle", "event"} \/ BeforeRead =>
    (at # None /\ ~DirPending => Follows(at) /\ (ReadFirst \/ pos = Len(content[at])))

\* What is owed of a file is handed over, or in line, or read in time.
Owed ==
  \A f \in File \ late :
    /\ owed[f] <= Len(content[f])
    /\ \A k \in 1 .. owed[f] :
         \/ k <= skipped[f]
         \/ passed[f][k] > 0
         \/ f = fp /\ k > Begun /\ (k <= pos \/ ReadFirst)
-----------------------------------------------------------------------------
\* One change of the directory at a time.
OneChange ==
  /\ \A i, j \in 1 .. Len(Pending) : IsDir(i) /\ IsDir(j) => i = j
  /\ DirPending => pc \in {"idle", "event"}

\* A removal shows before it is handled.
Shown == dying => DirPending

\* The characters of the open file that were not handed over have been
\* handed over less often than it came to path, and so have those of the file
\* that will be opened; both may be the same file.
Counts ==
  \A f \in File, k \in 1 .. MaxLength :
    /\ f = fp /\ k > Begun => passed[f][k] < visits[f]
    /\ f = at /\ ~dying /\ (DirPending \/ BeforeFOpen) =>
         (passed[f][k] + IF f = fp /\ k > Begun THEN 1 ELSE 0) < visits[f]

\* A queue that the kernel can be left with.
Bounds(q) ==
  /\ q \in Seq(Event)
  /\ Len(q) <= MaxQueue + 1
  /\ Len(q) = MaxQueue + 1 => Last(q) = Overflow

\* Types, and what holds whatever the queue has lost.
Base ==
  /\ TypeOK
  /\ Bounds(queue)
  /\ Bounded
  /\ LinesWhole
  /\ CrashNeedsOverflow
  /\ dying => at # None
  /\ Running => Reading /\ Phases /\ Watches

\* What holds as long as no event is lost.
Following == Running /\ ~overflowed => Noticed /\ SelfLater /\ Tracked /\ Owed

\* What holds as long as each change finds the last one handled.
Counting ==
  /\ calm /\ Shown => AtMostOnce
  /\ Running /\ calm => OneChange
  /\ Running /\ calm /\ Shown => Counts

Invariant == Base /\ Following /\ Counting
-----------------------------------------------------------------------------
(* The kernel's queue.                                                     *)

\* r is q, or q and one event more; its last event is e or an overflow.
Posted(q, r, e) ==
  /\ Len(r) \in {Len(q), Len(q) + 1} /\ Len(r) >= 1
  /\ \A i \in 1 .. Len(q) : r[i] = q[i]
  /\ r[Len(r)] \in {e, Overflow}

LEMMA PostEffect ==
  ASSUME NEW q, Bounds(q), NEW e \in Event
  PROVE  Bounds(Post(q, e)) /\ Posted(q, Post(q, e), e)
<1>1. q \in Seq(Event) /\ Len(q) \in Nat /\ Len(q) <= MaxQueue + 1 /\ MaxQueue \in Nat
  BY SizeAssumption DEF Bounds
<1>2. Overflow \in Event
  BY DEF Overflow, Event, NoWatch
<1>3. CASE q # <<>> /\ Last(q) \in {e, Overflow}
  <2>1. Post(q, e) = q
    BY <1>3 DEF Post
  <2>2. Len(q) >= 1 /\ q[Len(q)] \in {e, Overflow}
    BY <1>1, <1>3, EmptySeq DEF Last
  <2> QED  BY <1>1, <2>1, <2>2 DEF Posted
<1>4. ASSUME NEW x \in {e, Overflow}, Post(q, e) = Append(q, x), Len(q) < MaxQueue \/ x = Overflow,
             Len(q) <= MaxQueue
      PROVE  Bounds(Post(q, e)) /\ Posted(q, Post(q, e), e)
  <2> DEFINE r == Append(q, x)
  <2>1. /\ r \in Seq(Event) /\ Len(r) = Len(q) + 1 /\ r[Len(q) + 1] = x
        /\ \A i \in 1 .. Len(q) : r[i] = q[i]
    BY <1>1, <1>2, <1>4, AppendProperties
  <2> HIDE DEF r
  <2>2. Last(r) = x
    BY <2>1 DEF Last
  <2>3. Bounds(r)
    BY <1>1, <1>4, <2>1, <2>2 DEF Bounds
  <2>4. Posted(q, r, e)
    BY <1>1, <1>4, <2>1 DEF Posted
  <2> QED  BY <1>4, <2>3, <2>4 DEF r
<1>5. CASE ~(q # <<>> /\ Last(q) \in {e, Overflow})
  <2>1. Len(q) # MaxQueue + 1
    <3>1. ASSUME Len(q) = MaxQueue + 1 PROVE FALSE
      <4>1. Last(q) = Overflow /\ q # <<>>
        BY <1>1, <3>1, EmptySeq, SizeAssumption DEF Bounds
      <4> QED  BY <1>5, <4>1
    <3> QED  BY <3>1
  <2>2. Len(q) <= MaxQueue
    BY <1>1, <2>1
  <2>3. CASE Len(q) < MaxQueue
    BY <1>4, <1>5, <2>2, <2>3 DEF Post
  <2>4. CASE ~(Len(q) < MaxQueue)
    BY <1>4, <1>5, <2>2, <2>4 DEF Post
  <2> QED  BY <2>3, <2>4
<1> QED  BY <1>3, <1>5

\* No event, or one.
Some == {<<>>} \cup {<<e>> : e \in Event}

LEMMA PostAnyEffect ==
  ASSUME NEW q, Bounds(q), NEW es \in Some
  PROVE  /\ Bounds(PostAny(q, es))
         /\ es = <<>> => PostAny(q, es) = q
         /\ es # <<>> => Head(es) \in Event /\ Posted(q, PostAny(q, es), Head(es))
<1>1. CASE es = <<>>
  BY <1>1 DEF PostAny
<1>2. CASE es # <<>>
  <2>1. PICK e \in Event : es = <<e>>
    BY <1>2 DEF Some
  <2>2. Head(es) = e
    BY <2>1
  <2> QED  BY <1>2, <2>2, PostEffect DEF PostAny
<1> QED  BY <1>1, <1>2

\* What is handled next is where it was; what the operation posted comes
\* after it, the event of the directory first.
LEMMA PostAllEffect ==
  ASSUME batch \in Seq(Event), Bounds(queue), overflowed \in BOOLEAN,
         NEW d \in Some, NEW x \in Some, PostAll(d, x), batch' = batch
  PROVE  /\ Bounds(queue') /\ overflowed' \in BOOLEAN
         /\ overflowed => overflowed'
         /\ Pending \in Seq(Event) /\ Pending' \in Seq(Event)
         /\ Len(Pending) \in Nat /\ Len(Pending') \in Nat
         /\ Len(Pending') >= Len(Pending)
         /\ \A i \in 1 .. Len(Pending) : Pending'[i] = Pending[i]
         /\ \A i \in Len(Pending) + 1 .. Len(Pending') :
              \/ Pending'[i] = Overflow /\ overflowed'
              \/ d # <<>> /\ i = Len(Pending) + 1 /\ Pending'[i] = Head(d)
              \/ x # <<>> /\ Pending'[i] = Head(x)
                 /\ (d # <<>> /\ ~overflowed' => i - 1 \in 1 .. Len(Pending') /\ Pending'[i - 1] = Head(d))
         /\ d # <<>> /\ ~overflowed' => \E i \in 1 .. Len(Pending') : Pending'[i] = Head(d)
         /\ x # <<>> /\ ~overflowed' => Len(Pending') >= 1 /\ Pending'[Len(Pending')] = Head(x)
<1> DEFINE r == PostAny(queue, d)
           b == Len(batch)
           n == Len(queue)
           m == Len(r)
           l == Len(queue')
<1>1. /\ Bounds(r)
      /\ d = <<>> => r = queue
      /\ d # <<>> => Posted(queue, r, Head(d))
  BY PostAnyEffect
<1>2. /\ Bounds(queue')
      /\ x = <<>> => queue' = r
      /\ x # <<>> => Posted(r, queue', Head(x))
  <2> HIDE DEF r
  <2>1. queue' = PostAny(r, x)
    BY DEF PostAll, r
  <2> QED  BY <1>1, <2>1, PostAnyEffect
<1>3. /\ queue \in Seq(Event) /\ r \in Seq(Event) /\ queue' \in Seq(Event)
      /\ b \in Nat /\ n \in Nat /\ m \in Nat /\ l \in Nat
  <2> HIDE DEF r
  <2> QED  BY <1>1, <1>2 DEF Bounds
<1>4. overflowed' \in BOOLEAN /\ (overflowed => overflowed')
      /\ \A j \in 1 .. l : queue'[j] = Overflow => overflowed'
  <2>1. overflowed' = (overflowed \/ Overflow \in ToSet(queue'))
    BY DEF PostAll
  <2>2. \A j \in 1 .. l : queue'[j] \in ToSet(queue')
    BY <1>3, LenProperties DEF ToSet
  <2>3. overflowed' \in BOOLEAN /\ (overflowed => overflowed')
    BY <2>1, Zenon
  <2>4. Overflow \in ToSet(queue') => overflowed'
    BY <2>1, Zenon
  <2> QED  BY <2>2, <2>3, <2>4
<1>5. /\ Pending \in Seq(Event) /\ Len(Pending) = b + n
      /\ \A i \in 1 .. b + n : Pending[i] = IF i <= b THEN batch[i] ELSE queue[i - b]
  BY <1>3, ConcatProperties DEF Pending
<1>6. /\ Pending' \in Seq(Event) /\ Len(Pending') = b + l
      /\ \A i \in 1 .. b + l : Pending'[i] = IF i <= b THEN batch[i] ELSE queue'[i - b]
  <2>1. Pending' = batch \o queue'
    BY DEF Pending
  <2> QED  BY <1>3, <2>1, ConcatProperties
<1> HIDE DEF r, b, n, m, l
<1>7. /\ m >= n /\ (d = <<>> => m = n) /\ (d # <<>> => m \in {n, n + 1} /\ m >= 1)
      /\ \A j \in 1 .. n : r[j] = queue[j]
      /\ d # <<>> => r[m] \in {Head(d), Overflow}
  BY <1>1, <1>3 DEF Posted, m, n
<1>8. /\ l >= m /\ (x = <<>> => l = m) /\ (x # <<>> => l \in {m, m + 1} /\ l >= 1)
      /\ \A j \in 1 .. m : queue'[j] = r[j]
      /\ x # <<>> => queue'[l] \in {Head(x), Overflow}
  BY <1>2, <1>3 DEF Posted, m, l
<1>9. Len(Pending') >= Len(Pending) /\ \A i \in 1 .. Len(Pending) : Pending'[i] = Pending[i]
  <2>1. ASSUME NEW i \in 1 .. b + n PROVE Pending'[i] = Pending[i]
    <3>1. i \in 1 .. b + l /\ (~(i <= b) => i - b \in 1 .. n /\ i - b \in 1 .. m)
      BY <1>3, <1>7, <1>8
    <3> QED  BY <1>5, <1>6, <1>7, <1>8, <3>1
  <2> QED  BY <1>3, <1>5, <1>6, <1>7, <1>8, <2>1
<1>10. \A j \in 1 .. l : b + j \in 1 .. b + l /\ Pending'[b + j] = queue'[j]
  BY <1>3, <1>6
<1>11. ASSUME d # <<>>, ~overflowed' PROVE m \in 1 .. l /\ queue'[m] = Head(d)
  <2>1. m \in 1 .. l /\ m \in 1 .. m /\ r[m] \in {Head(d), Overflow}
    BY <1>3, <1>7, <1>8, <1>11
  <2> QED  BY <1>4, <1>8, <1>11, <2>1
<1>12. ASSUME NEW i \in b + n + 1 .. b + l
       PROVE  \/ Pending'[i] = Overflow /\ overflowed'
              \/ d # <<>> /\ i = b + n + 1 /\ Pending'[i] = Head(d)
              \/ x # <<>> /\ Pending'[i] = Head(x)
                 /\ (d # <<>> /\ ~overflowed' => i - 1 \in 1 .. b + l /\ Pending'[i - 1] = Head(d))
  <2> DEFINE j == i - b
  <2>1. j \in n + 1 .. l /\ j \in 1 .. l /\ Pending'[i] = queue'[j] /\ i = b + j
    <3>1. i - b \in n + 1 .. l /\ i - b \in 1 .. l /\ i = b + (i - b)
      BY <1>3
    <3> QED  BY <1>10, <3>1
  <2> HIDE DEF j
  <2>2. CASE j <= m
    <3>1. d # <<>> /\ j = n + 1 /\ j = m
      BY <1>3, <1>7, <2>1, <2>2
    <3>2. queue'[j] = r[j] /\ r[j] \in {Head(d), Overflow}
      BY <1>3, <1>7, <1>8, <2>1, <3>1
    <3>3. i = b + n + 1
      BY <1>3, <2>1, <3>1
    <3> QED  BY <1>4, <2>1, <3>1, <3>2, <3>3
  <2>3. CASE ~(j <= m)
    <3>1. x # <<>> /\ j = m + 1 /\ j = l
      BY <1>3, <1>8, <2>1, <2>3
    <3>2. queue'[j] \in {Head(x), Overflow}
      BY <1>8, <3>1
    <3>3. ASSUME d # <<>>, ~overflowed'
          PROVE  i - 1 \in 1 .. b + l /\ Pending'[i - 1] = Head(d)
      <4>1. m \in 1 .. l /\ queue'[m] = Head(d)
        BY <1>11, <3>3
      <4>2. i - 1 = b + m
        BY <1>3, <2>1, <3>1
      <4> QED  BY <1>10, <4>1, <4>2
    <3> QED  BY <1>4, <2>1, <3>1, <3>2, <3>3
  <2> QED  BY <2>2, <2>3
<1>13. ASSUME d # <<>>, ~overflowed' PROVE \E i \in 1 .. b + l : Pending'[i] = Head(d)
  BY <1>10, <1>11, <1>13
<1>14. ASSUME x # <<>>, ~overflowed' PROVE b + l >= 1 /\ Pending'[b + l] = Head(x)
  <2>1. l \in 1 .. l /\ queue'[l] = Head(x)
    BY <1>3, <1>4, <1>8, <1>14
  <2> QED  BY <1>3, <1>10, <2>1
<1>15. b + n \in Nat /\ b + l \in Nat
  BY <1>3
<1> QED
  BY <1>2, <1>4, <1>5, <1>6, <1>9, <1>12, <1>13, <1>14, <1>15
-----------------------------------------------------------------------------
(* What the steps do to Pending.                                           *)

LEMMA DirPendingEvents ==
  ASSUME TypeOK
  PROVE  DirPending <=> DirEvents # {}
<1>1. /\ batch \in Seq(Event) /\ queue \in Seq(Event)
      /\ Len(batch) \in Nat /\ Len(queue) \in Nat
      /\ DOMAIN batch = 1 .. Len(batch) /\ DOMAIN queue = 1 .. Len(queue)
  BY LenProperties DEF TypeOK
<1>2. /\ Len(Pending) = Len(batch) + Len(queue)
      /\ \A i \in 1 .. Len(batch) + Len(queue) :
           Pending[i] = IF i <= Len(batch) THEN batch[i] ELSE queue[i - Len(batch)]
  BY <1>1, ConcatProperties DEF Pending
<1>3. ASSUME DirPending PROVE DirEvents # {}
  <2>1. PICK i \in 1 .. Len(batch) + Len(queue) : Pending[i].wd = DirWatch
    BY <1>2, <1>3 DEF DirPending, DirWithin, IsDir
  <2>2. CASE i <= Len(batch)
    <3>1. Pending[i] = batch[i] /\ i \in DOMAIN batch
      BY <1>1, <1>2, <2>2
    <3> QED  BY <2>1, <3>1 DEF DirEvents, ToSet
  <2>3. CASE ~(i <= Len(batch))
    <3>1. Pending[i] = queue[i - Len(batch)] /\ i - Len(batch) \in DOMAIN queue
      BY <1>1, <1>2, <2>3
    <3> QED  BY <2>1, <3>1 DEF DirEvents, ToSet
  <2> QED  BY <2>2, <2>3
<1>4. ASSUME DirEvents # {} PROVE DirPending
  <2>1. PICK e \in ToSet(queue) \cup ToSet(batch) : e.wd = DirWatch
    BY <1>4 DEF DirEvents
  <2>2. CASE e \in ToSet(batch)
    <3>1. PICK i \in 1 .. Len(batch) : e = batch[i]
      BY <1>1, <2>2 DEF ToSet
    <3>2. i \in 1 .. Len(Pending) /\ Pending[i] = e
      BY <1>1, <1>2, <3>1
    <3> QED  BY <2>1, <3>2 DEF DirPending, DirWithin, IsDir
  <2>3. CASE e \in ToSet(queue)
    <3>1. PICK i \in 1 .. Len(queue) : e = queue[i]
      BY <1>1, <2>3 DEF ToSet
    <3>2. /\ Len(batch) + i \in 1 .. Len(batch) + Len(queue) /\ ~(Len(batch) + i <= Len(batch))
          /\ (Len(batch) + i) - Len(batch) = i
      BY <1>1
    <3>3. Pending[Len(batch) + i] = e
      BY <1>2, <3>1, <3>2
    <3> QED  BY <1>2, <2>1, <3>2, <3>3 DEF DirPending, DirWithin, IsDir
  <2> QED  BY <2>1, <2>2, <2>3
<1> QED  BY <1>3, <1>4

\* Other programs let the kernel post an event d of the directory and an
\* event x of the watched file.
LEMMA Announced ==
  ASSUME Base, Running, ~overflowed => SelfLater,
         NEW d \in Some, NEW x \in Some, PostAll(d, x),
         UNCHANGED <<pc, batch, fp, pos, line, lastWd, file_wd>>,
         watch' \in [File -> Int], \A f \in File : watch'[f] \in {watch[f], NoWatch},
         pc = "init" => d = <<>>,
         d # <<>> => Head(d).wd = DirWatch,
         x # <<>> => file_wd # NoWatch /\ Head(x).wd = file_wd,
         x # <<>> /\ Head(x).mask = "self" => d # <<>> \/ DirPending \/ overflowed
  PROVE  /\ Bounds(queue') /\ overflowed' \in BOOLEAN /\ (overflowed => overflowed')
         /\ Phases' /\ Watches'
         /\ DirPending => DirPending'
         /\ d # <<>> /\ ~overflowed' => DirPending'
         /\ d = <<>> => (DirPending' <=> DirPending)
         /\ ~overflowed' => SelfLater'
         /\ ReadFirst => ReadFirst'
         /\ x # <<>> /\ ~overflowed' /\ ~DirPending' => ReadFirst'
         /\ OneChange /\ (d # <<>> => ~DirPending /\ pc \in {"idle", "event"}) => OneChange'
<1> DEFINE n == Len(Pending)
           m == Len(Pending')
<1>1. /\ Bounds(queue') /\ overflowed' \in BOOLEAN
      /\ overflowed => overflowed'
      /\ n \in Nat /\ m \in Nat /\ m >= n
      /\ \A i \in 1 .. n : Pending'[i] = Pending[i]
      /\ \A i \in n + 1 .. m :
           \/ Pending'[i] = Overflow /\ overflowed'
           \/ d # <<>> /\ i = n + 1 /\ Pending'[i] = Head(d)
           \/ x # <<>> /\ Pending'[i] = Head(x)
              /\ (d # <<>> /\ ~overflowed' => i - 1 \in 1 .. m /\ Pending'[i - 1] = Head(d))
      /\ d # <<>> /\ ~overflowed' => \E i \in 1 .. m : Pending'[i] = Head(d)
      /\ x # <<>> /\ ~overflowed' => m >= 1 /\ Pending'[m] = Head(x)
  BY PostAllEffect DEF Base, TypeOK
<1>2. /\ file_wd = NoWatch \/ file_wd \in 1 .. lastWd
      /\ lastWd \in Nat /\ file_wd \in Int
      /\ file_wd # DirWatch
      /\ Overflow.wd = NoWatch /\ NoWatch = -1 /\ DirWatch = 0
      /\ Phases /\ Watches
  BY DEF Base, Watches, TypeOK, NoWatch, DirWatch, Overflow
<1> HIDE DEF n, m
<1>3. n = Len(Pending) /\ m = Len(Pending')
  BY DEF n, m
<1>4. DirPending => DirPending'
  <2>1. \A i \in 1 .. n : i \in 1 .. m
    BY <1>1
  <2> QED  BY <1>1, <1>3, <2>1 DEF DirPending, DirWithin, IsDir
<1>5. d # <<>> /\ ~overflowed' => DirPending'
  BY <1>1, <1>3 DEF DirPending, DirWithin, IsDir
<1>6. ASSUME NEW i \in n + 1 .. m, IsDir(i)'
      PROVE  d # <<>> /\ i = n + 1
  BY <1>1, <1>2, <1>6 DEF IsDir
<1>7. ASSUME NEW i \in 1 .. m, IsDir(i)'
      PROVE  (i \in 1 .. n /\ IsDir(i)) \/ (d # <<>> /\ i = n + 1)
  <2>1. CASE i <= n
    BY <1>1, <1>7, <2>1 DEF IsDir
  <2>2. CASE ~(i <= n)
    <3>1. i \in n + 1 .. m
      BY <1>1, <2>2
    <3> QED  BY <1>6, <1>7, <3>1
  <2> QED  BY <2>1, <2>2
<1>8. d = <<>> => (DirPending' <=> DirPending)
  BY <1>3, <1>4, <1>7 DEF DirPending, DirWithin
<1>9. \A i \in 1 .. n : DirWithin(i)' <=> DirWithin(i)
  <2>1. \A i \in 1 .. n : \A j \in 1 .. i : j \in 1 .. n
    BY <1>1
  <2> QED  BY <1>1, <2>1 DEF DirWithin, IsDir
<1>10. ASSUME ~overflowed' PROVE SelfLater'
  <2> SUFFICES ASSUME NEW i \in 1 .. m, Pending'[i].wd = file_wd, Pending'[i].mask = "self"
               PROVE  DirWithin(i - 1)'
    BY <1>3 DEF SelfLater
  <2>1. CASE i <= n
    <3>1. i \in 1 .. n /\ Pending[i].wd = file_wd /\ Pending[i].mask = "self"
      BY <1>1, <2>1
    <3>2. DirWithin(i - 1)
      BY <1>1, <1>3, <1>10, <3>1 DEF SelfLater
    <3>3. \A j \in 1 .. i - 1 : j \in 1 .. n
      BY <1>1, <2>1
    <3> QED  BY <1>1, <3>2, <3>3 DEF DirWithin, IsDir
  <2>2. CASE ~(i <= n)
    <3>1. i \in n + 1 .. m
      BY <1>1, <2>2
    <3>2. x # <<>> /\ Pending'[i] = Head(x)
          /\ (d # <<>> => i - 1 \in 1 .. m /\ Pending'[i - 1] = Head(d))
      BY <1>1, <1>2, <1>10, <3>1
    <3>3. CASE d # <<>>
      <4>1. i - 1 \in 1 .. i - 1 /\ IsDir(i - 1)'
        BY <3>2, <3>3 DEF IsDir
      <4> QED  BY <4>1 DEF DirWithin
    <3>4. CASE d = <<>>
      <4>1. PICK j \in 1 .. n : IsDir(j)
        BY <1>1, <1>3, <1>10, <3>2, <3>4 DEF DirPending, DirWithin
      <4>2. j \in 1 .. i - 1 /\ IsDir(j)'
        BY <1>1, <3>1, <4>1 DEF IsDir
      <4> QED  BY <4>2 DEF DirWithin
    <3> QED  BY <3>3, <3>4
  <2> QED  BY <2>1, <2>2
<1>11. ReadFirst => ReadFirst'
  <2>1. \A i \in 1 .. n : i \in 1 .. m
    BY <1>1
  <2> QED  BY <1>1, <1>3, <1>9, <2>1 DEF ReadFirst, BeforeRead
<1>12. x # <<>> /\ ~overflowed' /\ ~DirPending' => ReadFirst'
  <2>1. ASSUME x # <<>>, ~overflowed', ~DirPending' PROVE ReadFirst'
    <3>1. PICK k \in Nat : k = m
      BY <1>1
    <3>2. k \in 1 .. m /\ Pending'[k].wd = file_wd
      BY <1>1, <2>1, <3>1
    <3>3. ~DirWithin(k)'
      BY <1>3, <2>1, <3>1 DEF DirPending, DirWithin, IsDir
    <3> QED  BY <1>3, <3>2, <3>3 DEF ReadFirst
  <2> QED  BY <2>1
<1>13. OneChange /\ (d # <<>> => ~DirPending /\ pc \in {"idle", "event"}) => OneChange'
  <2> SUFFICES ASSUME OneChange, d # <<>> => ~DirPending /\ pc \in {"idle", "event"}
               PROVE  OneChange'
    OBVIOUS
  <2>1. ASSUME NEW i \in 1 .. m, NEW j \in 1 .. m, IsDir(i)', IsDir(j)'
        PROVE  i = j
    <3>1. CASE d = <<>>
      BY <1>3, <1>7, <2>1, <3>1 DEF OneChange
    <3>2. CASE d # <<>>
      <4>1. \A k \in 1 .. n : ~IsDir(k)
        BY <1>3, <3>2 DEF DirPending, DirWithin
      <4> QED  BY <1>7, <2>1, <4>1
    <3> QED  BY <3>1, <3>2
  <2>2. DirPending' => pc' \in {"idle", "event"}
    BY <1>8 DEF OneChange
  <2> QED  BY <1>3, <2>1, <2>2 DEF OneChange
<1>14. Phases'
  BY <1>2, <1>8 DEF Phases, BeforeFOpen, BeforeWatch, BeforeRead
<1>15. Watches'
  <2>1. ASSUME NEW i \in 1 .. m
        PROVE  Pending'[i].wd \in NoWatch .. lastWd /\ (Pending'[i].wd = NoWatch => overflowed')
    <3>1. CASE i \in 1 .. n
      BY <1>1, <1>2, <1>3, <3>1 DEF Watches
    <3>2. CASE i \in n + 1 .. m
      <4>1. \/ Pending'[i].wd = NoWatch /\ overflowed'
            \/ Pending'[i].wd = DirWatch
            \/ Pending'[i].wd = file_wd /\ file_wd # NoWatch
        BY <1>1, <1>2, <3>2
      <4>2. NoWatch \in NoWatch .. lastWd /\ DirWatch \in NoWatch .. lastWd /\ DirWatch # NoWatch
            /\ (file_wd # NoWatch => file_wd \in NoWatch .. lastWd)
        BY <1>2
      <4> QED  BY <4>1, <4>2
    <3> QED  BY <1>1, <3>1, <3>2
  <2>2. \A f \in File : watch'[f] # NoWatch => watch'[f] = file_wd
    BY <1>2 DEF Watches
  <2> QED  BY <1>2, <1>3, <2>1, <2>2 DEF Watches
<1> QED
  BY <1>1, <1>4, <1>5, <1>8, <1>10, <1>11, <1>12, <1>13, <1>14, <1>15

\* work() takes the first event.
LEMMA Taken ==
  ASSUME TypeOK, batch # <<>>, batch' = Tail(batch), queue' = queue
  PROVE  /\ Len(Pending') \in Nat /\ Len(Pending) = Len(Pending') + 1
         /\ Pending[1] = Head(batch)
         /\ \A i \in 1 .. Len(Pending') : Pending'[i] = Pending[i + 1]
<1>1. /\ batch \in Seq(Event) /\ queue \in Seq(Event) /\ Len(queue) \in Nat
      /\ Len(batch) \in Nat \ {0}
      /\ Head(batch) = batch[1]
      /\ Tail(batch) \in Seq(Event) /\ Len(Tail(batch)) = Len(batch) - 1
      /\ \A i \in 1 .. Len(Tail(batch)) : Tail(batch)[i] = batch[i + 1]
  BY EmptySeq, HeadTailProperties DEF TypeOK
<1>2. /\ Len(Pending) = Len(batch) + Len(queue)
      /\ \A i \in 1 .. Len(batch) + Len(queue) :
           Pending[i] = IF i <= Len(batch) THEN batch[i] ELSE queue[i - Len(batch)]
  BY <1>1, ConcatProperties DEF Pending
<1> DEFINE t == Tail(batch)
<1>3. /\ Len(Pending') = Len(t) + Len(queue)
      /\ \A i \in 1 .. Len(t) + Len(queue) :
           Pending'[i] = IF i <= Len(t) THEN t[i] ELSE queue[i - Len(t)]
  <2>1. Pending' = t \o queue
    BY DEF Pending
  <2> QED  BY <1>1, <2>1, ConcatProperties
<1>4. t \in Seq(Event) /\ Len(t) \in Nat /\ Len(batch) = Len(t) + 1
      /\ \A i \in 1 .. Len(t) : t[i] = batch[i + 1]
  BY <1>1
<1> HIDE DEF t
<1>5. ASSUME NEW i \in 1 .. Len(t) + Len(queue)
      PROVE  Pending'[i] = Pending[i + 1]
  <2>1. /\ i + 1 \in 1 .. Len(batch) + Len(queue) /\ (i <= Len(t) <=> i + 1 <= Len(batch))
        /\ (i + 1) - Len(batch) = i - Len(t)
    BY <1>1, <1>4
  <2>2. i <= Len(t) => i \in 1 .. Len(t)
    BY <1>4
  <2> QED  BY <1>2, <1>3, <1>4, <2>1, <2>2
<1>6. Pending[1] = batch[1]
  <2>1. 1 \in 1 .. Len(batch) + Len(queue) /\ 1 <= Len(batch)
    BY <1>1
  <2> QED  BY <1>2, <2>1
<1>7. Len(t) + Len(queue) \in Nat /\ Len(batch) + Len(queue) = (Len(t) + Len(queue)) + 1
  BY <1>1, <1>4
<1> QED  BY <1>1, <1>2, <1>3, <1>5, <1>6, <1>7

\* An event that is not of the directory has been handled.
LEMMA Dropped ==
  ASSUME TypeOK, batch # <<>>, batch' = Tail(batch), queue' = queue,
         Head(batch).wd # DirWatch
  PROVE  /\ DirPending' <=> DirPending
         /\ SelfLater /\ file_wd' = file_wd => SelfLater'
         /\ ReadFirst /\ Head(batch).wd # file_wd /\ file_wd' = file_wd
            /\ (BeforeRead => BeforeRead') => ReadFirst'
         /\ OneChange /\ pc' \in {"idle", "event"} => OneChange'
<1> DEFINE m == Len(Pending')
<1>1. /\ m \in Nat /\ Len(Pending) = m + 1
      /\ Pending[1] = Head(batch)
      /\ \A i \in 1 .. m : Pending'[i] = Pending[i + 1]
  BY Taken
<1> HIDE DEF m
<1>2. m = Len(Pending')
  BY DEF m
<1>3. \A i \in 1 .. m : i + 1 \in 1 .. m + 1 /\ i + 1 # 1 /\ (IsDir(i)' <=> IsDir(i + 1))
  BY <1>1 DEF IsDir
<1>4. ~IsDir(1)
  BY <1>1 DEF IsDir
<1>5. ASSUME NEW k \in 0 .. m PROVE DirWithin(k)' <=> DirWithin(k + 1)
  <2>1. ASSUME NEW j \in 1 .. k, IsDir(j)' PROVE DirWithin(k + 1)
    <3>1. j \in 1 .. m /\ j + 1 \in 1 .. k + 1
      BY <1>1
    <3> QED  BY <1>3, <2>1, <3>1 DEF DirWithin
  <2>2. ASSUME NEW j \in 1 .. k + 1, IsDir(j) PROVE DirWithin(k)'
    <3>1. j # 1
      BY <1>4, <2>2
    <3>2. j - 1 \in 1 .. k /\ j - 1 \in 1 .. m /\ (j - 1) + 1 = j
      BY <1>1, <3>1
    <3>3. IsDir(j - 1)'
      BY <1>3, <2>2, <3>2
    <3> QED  BY <3>2, <3>3 DEF DirWithin
  <2> QED  BY <2>1, <2>2 DEF DirWithin
<1>6. DirPending' <=> DirPending
  <2>1. PICK k \in 0 .. m : k = m
    BY <1>1
  <2>2. (DirPending' <=> DirWithin(k)') /\ (DirPending <=> DirWithin(k + 1))
    BY <1>1, <1>2, <2>1 DEF DirPending, DirWithin, IsDir
  <2> QED  BY <1>5, <2>2
<1>7. ASSUME SelfLater, file_wd' = file_wd PROVE SelfLater'
  <2> SUFFICES ASSUME NEW i \in 1 .. m, Pending'[i].wd = file_wd, Pending'[i].mask = "self"
               PROVE  DirWithin(i - 1)'
    BY <1>2, <1>7 DEF SelfLater
  <2>1. i + 1 \in 1 .. Len(Pending) /\ Pending[i + 1].wd = file_wd /\ Pending[i + 1].mask = "self"
    BY <1>1
  <2>2. DirWithin((i + 1) - 1)
    BY <1>7, <2>1 DEF SelfLater
  <2>3. i - 1 \in 0 .. m /\ (i - 1) + 1 = (i + 1) - 1
    BY <1>1
  <2> QED  BY <1>5, <2>2, <2>3
<1>8. ASSUME ReadFirst, Head(batch).wd # file_wd, file_wd' = file_wd, BeforeRead => BeforeRead'
      PROVE  ReadFirst'
  <2>1. CASE BeforeRead
    BY <1>8, <2>1 DEF ReadFirst
  <2>2. CASE ~BeforeRead
    <3>1. PICK i \in 1 .. m + 1 : Pending[i].wd = file_wd /\ ~DirWithin(i)
      BY <1>1, <1>8, <2>2 DEF ReadFirst
    <3>2. i # 1
      BY <1>1, <1>8, <3>1
    <3>3. i - 1 \in 1 .. m /\ i - 1 \in 0 .. m /\ (i - 1) + 1 = i
      BY <1>1, <3>2
    <3>4. Pending'[i - 1].wd = file_wd' /\ ~DirWithin(i - 1)'
      BY <1>1, <1>5, <1>8, <3>1, <3>3
    <3> QED  BY <1>2, <3>3, <3>4 DEF ReadFirst
  <2> QED  BY <2>1, <2>2
<1>9. ASSUME OneChange, pc' \in {"idle", "event"} PROVE OneChange'
  <2>1. ASSUME NEW i \in 1 .. m, NEW j \in 1 .. m, IsDir(i)', IsDir(j)' PROVE i = j
    <3>1. i + 1 = j + 1
      BY <1>1, <1>3, <1>9, <2>1 DEF OneChange
    <3> QED  BY <3>1
  <2> QED  BY <1>2, <1>9, <2>1 DEF OneChange
<1> QED  BY <1>6, <1>7, <1>8, <1>9

LEMMA DirDropped ==
  ASSUME TypeOK, batch # <<>>, batch' = Tail(batch), queue' = queue,
         Head(batch).wd = DirWatch, OneChange
  PROVE  ~DirPending'
<1>1. /\ Len(Pending') \in Nat /\ Len(Pending) = Len(Pending') + 1
      /\ Pending[1] = Head(batch)
      /\ \A i \in 1 .. Len(Pending') : Pending'[i] = Pending[i + 1]
  BY Taken
<1> SUFFICES ASSUME NEW i \in 1 .. Len(Pending'), IsDir(i)' PROVE FALSE
  BY DEF DirPending, DirWithin
<1>2. i + 1 \in 1 .. Len(Pending) /\ 1 \in 1 .. Len(Pending) /\ i + 1 # 1
  BY <1>1
<1>3. IsDir(1) /\ IsDir(i + 1)
  BY <1>1 DEF IsDir
<1> QED  BY <1>2, <1>3 DEF OneChange

\* The descriptors of the events left are known, after any event is taken.
LEMMA WatchesKept ==
  ASSUME Base, Running, batch # <<>>, batch' = Tail(batch), queue' = queue,
         UNCHANGED <<lastWd, overflowed>>,
         \/ file_wd' = file_wd /\ watch' = watch
         \/ file_wd' = NoWatch /\ watch' = Unwatched
  PROVE  Watches'
<1>1. /\ Len(Pending') \in Nat /\ Len(Pending) = Len(Pending') + 1
      /\ \A i \in 1 .. Len(Pending') : Pending'[i] = Pending[i + 1]
  BY Taken DEF Base
<1>2. \A i \in 1 .. Len(Pending') : /\ Pending'[i].wd \in NoWatch .. lastWd
                                    /\ Pending'[i].wd = NoWatch => overflowed
  <2>1. \A i \in 1 .. Len(Pending') : i + 1 \in 1 .. Len(Pending)
    BY <1>1
  <2> QED  BY <1>1, <2>1 DEF Base, Watches
<1>3. file_wd' = NoWatch \/ file_wd' \in 1 .. lastWd
  BY DEF Base, Watches
<1>4. \A f \in File : watch'[f] # NoWatch => watch'[f] = file_wd'
  BY DEF Base, Watches, Unwatched
<1> QED  BY <1>2, <1>3, <1>4 DEF Watches
-----------------------------------------------------------------------------
(* The other programs.                                                     *)

LEMMA OfDirEvent ==
  ASSUME NEW mask \in {"create", "delete", "moved_from", "moved_to"}
  PROVE  /\ OfDir(mask) \in Some
         /\ OfDir(mask) = <<>> <=> pc = "init"
         /\ OfDir(mask) # <<>> => Head(OfDir(mask)).wd = DirWatch
<1> DEFINE e == [wd |-> DirWatch, mask |-> mask]
<1>1. e \in Event /\ e.wd = DirWatch
  BY DEF Event, DirWatch
<1>2. OfDir(mask) = IF pc = "init" THEN <<>> ELSE <<e>>
  BY DEF OfDir
<1> HIDE DEF e
<1>3. <<e>> # <<>> /\ Head(<<e>>) = e
  OBVIOUS
<1> QED  BY <1>1, <1>2, <1>3 DEF Some

LEMMA OfFileEvent ==
  ASSUME Base, Running, NEW f \in File \cup {None}, NEW mask \in {"modify", "self"}
  PROVE  /\ OfFile(f, mask) \in Some
         /\ OfFile(f, mask) = <<>> <=> f = None \/ watch[f] = NoWatch
         /\ OfFile(f, mask) # <<>> =>
              /\ file_wd # NoWatch /\ fp # None /\ pc # "init"
              /\ Head(OfFile(f, mask)).wd = file_wd
              /\ Head(OfFile(f, mask)).mask = mask
<1> DEFINE e == [wd |-> watch[f], mask |-> mask]
<1>1. OfFile(f, mask) = IF f # None /\ watch[f] # NoWatch THEN <<e>> ELSE <<>>
  BY DEF OfFile
<1>2. e.wd = watch[f] /\ e.mask = mask
  OBVIOUS
<1>3. f # None /\ watch[f] # NoWatch => e \in Event /\ watch[f] = file_wd
  BY DEF Base, TypeOK, Watches, Event
<1>4. file_wd # NoWatch => fp # None /\ pc # "init"
  BY DEF Base, Phases, BeforeFOpen
<1> HIDE DEF e
<1>5. <<e>> # <<>> /\ Head(<<e>>) = e
  OBVIOUS
<1> QED  BY <1>1, <1>2, <1>3, <1>4, <1>5 DEF Some

LEMMA Leaving ==
  ASSUME Base, Leave
  PROVE  /\ owed' \in [File -> Nat] /\ late' \subseteq File /\ late \subseteq late'
         /\ \A f \in File \ late' :
              \/ owed'[f] = owed[f]
              \/ owed'[f] = Len(content[f]) /\ f = at /\ Follows(f) /\ ~DirPending
<1>1. owed \in [File -> Nat] /\ late \subseteq File /\ at \in File \cup {None}
      /\ \A f \in File : Len(content[f]) \in Nat
  BY DEF Base, TypeOK, ReaderTypeOK
<1>2. DirPending <=> DirEvents # {}
  BY DirPendingEvents DEF Base
<1>3. CASE at # None /\ Follows(at)
  <2>1. /\ owed' = [owed EXCEPT ![at] = Len(content[at])]
        /\ late' = IF DirEvents = {} THEN late ELSE late \cup {at}
    BY <1>3 DEF Leave
  <2> QED  BY <1>1, <1>2, <1>3, <2>1
<1>4. CASE ~(at # None /\ Follows(at))
  BY <1>1, <1>4 DEF Leave
<1> QED  BY <1>3, <1>4

\* The entry of path changes, or is about to.
Change ==
  \/ \E f \in File : Create(f) \/ MoveIn(f)
  \/ MoveAway
  \/ Unlink

\* What any change does.
Announces ==
  /\ Running
  /\ UNCHANGED <<content, watch, lastWd, pc, batch, fp, pos, line, passed, torn, file_wd, skipped>>
  /\ at' \in File \cup {None} /\ visits' \in [File -> Nat] /\ moves' \in 0 .. MaxMoves
  /\ unlinked' \subseteq File /\ dying' \in BOOLEAN /\ calm' \in BOOLEAN
  /\ dying' => at' # None
  /\ calm' => calm /\ ~DirPending /\ pc \in {"init", "idle", "event"} /\ ~dying
  /\ \A f \in File : /\ visits'[f] >= visits[f]
                     /\ f = at' /\ ~dying' => visits'[f] = visits[f] + 1
  /\ owed' \in [File -> Nat] /\ late' \subseteq File /\ late \subseteq late'
  /\ \A f \in File \ late' :
       \/ owed'[f] = owed[f]
       \/ owed'[f] = Len(content[f]) /\ f = at /\ Follows(f) /\ ~DirPending
  /\ \E d, x \in Some : /\ PostAll(d, x)
                        /\ d = <<>> <=> pc = "init"
                        /\ d # <<>> => Head(d).wd = DirWatch
                        /\ x # <<>> => d # <<>> /\ file_wd # NoWatch /\ Head(x).wd = file_wd

LEMMA ChangeEffect ==
  ASSUME Base, Change
  PROVE  Announces
<1>0. /\ MaxMoves \in Nat /\ at \in File \cup {None} /\ unlinked \subseteq File /\ dying \in BOOLEAN
      /\ calm \in BOOLEAN /\ moves \in 0 .. MaxMoves /\ (dying => at # None)
      /\ owed \in [File -> Nat] /\ late \subseteq File /\ visits \in [File -> Nat]
  BY SizeAssumption DEF Base, TypeOK, ReaderTypeOK
<1>1. DirPending <=> DirEvents # {}
  BY DirPendingEvents DEF Base
<1>2. ASSUME calm' = (calm /\ Calm)
      PROVE  calm' \in BOOLEAN
             /\ (calm' => calm /\ ~DirPending /\ pc \in {"init", "idle", "event"})
  <2>1. Calm => ~DirPending /\ pc \in {"init", "idle", "event"}
    BY <1>1 DEF Calm
  <2>2. calm' \in BOOLEAN /\ (calm' => calm /\ Calm)
    BY <1>2, Zenon
  <2> QED  BY <2>1, <2>2
<1>3. ASSUME NEW f \in File \cup {None}, Move(f)
      PROVE  /\ Running /\ moves' \in 0 .. MaxMoves
             /\ UNCHANGED <<content, watch, lastWd, pc, batch, fp, pos, line, passed, torn,
                            file_wd, skipped>>
             /\ at' \in File \cup {None} /\ at' = f /\ visits' \in [File -> Nat]
             /\ \A g \in File : /\ visits'[g] >= visits[g]
                                /\ g = at' => visits'[g] = visits[g] + 1
  <2>1. Arrive(f) /\ ReaderTypeOK
    BY <1>3 DEF Move, Base, TypeOK
  <2>2. /\ at' \in File \cup {None} /\ visits' \in [File -> Nat] /\ at' = f
        /\ \A g \in File : visits'[g] = IF g = f THEN visits[g] + 1 ELSE visits[g]
    BY <2>1, ArriveCounts DEF Arrive
  <2>3. \A g \in File : visits[g] \in Nat
    BY <1>0
  <2>4. moves' \in 0 .. MaxMoves
    BY <1>0, <1>3 DEF Move
  <2> QED  BY <1>3, <2>2, <2>3, <2>4 DEF Move, reader
<1>4. <<>> \in Some
  BY DEF Some
<1>5. ASSUME owed' = owed, late' = late
      PROVE  /\ owed' \in [File -> Nat] /\ late' \subseteq File /\ late \subseteq late'
             /\ \A f \in File \ late' : owed'[f] = owed[f]
  BY <1>0, <1>5
<1>6. ASSUME NEW f \in File, Create(f) PROVE Announces
  <2>1. Move(f) /\ dying' = dying /\ at = None /\ calm' = (calm /\ Calm) /\ unlinked' = unlinked
        /\ owed' = owed /\ late' = late
    BY <1>6 DEF Create
  <2>2. ~dying /\ ~dying'
    BY <1>0, <2>1
  <2>3. PostAll(OfDir("create"), <<>>)
    BY <1>6 DEF Create
  <2>4. \E d, x \in Some : /\ PostAll(d, x)
                           /\ d = <<>> <=> pc = "init"
                           /\ d # <<>> => Head(d).wd = DirWatch
                           /\ x # <<>> => d # <<>> /\ file_wd # NoWatch /\ Head(x).wd = file_wd
    BY <1>4, <2>3, OfDirEvent
  <2> QED  BY <1>0, <1>2, <1>3, <1>5, <2>1, <2>2, <2>4 DEF Announces
<1>7. ASSUME NEW f \in File, MoveIn(f) PROVE Announces
  <2>1. Move(f) /\ dying' = dying /\ ~dying /\ calm' = (calm /\ Calm) /\ Leave
        /\ unlinked' = unlinked \cup ({at} \ {None})
        /\ PostAll(OfDir("moved_to"), OfFile(f, "self"))
    BY <1>7 DEF MoveIn
  <2>2. unlinked' \subseteq File /\ ~dying'
    BY <1>0, <2>1
  <2>3. Running
    BY <1>3, <2>1
  <2>4. \E d, x \in Some : /\ PostAll(d, x)
                           /\ d = <<>> <=> pc = "init"
                           /\ d # <<>> => Head(d).wd = DirWatch
                           /\ x # <<>> => d # <<>> /\ file_wd # NoWatch /\ Head(x).wd = file_wd
    BY <2>1, <2>3, OfDirEvent, OfFileEvent
  <2> QED  BY <1>0, <1>2, <1>3, <2>1, <2>2, <2>4, Leaving DEF Announces
<1>8. CASE MoveAway
  <2>1. Move(None) /\ dying' = dying /\ ~dying /\ calm' = (calm /\ Calm) /\ Leave
        /\ unlinked' = unlinked
        /\ PostAll(OfDir("moved_from"), OfFile(at, "self"))
    BY <1>8 DEF MoveAway
  <2>2. unlinked' \subseteq File /\ ~dying'
    BY <1>0, <2>1
  <2>3. Running
    BY <1>3, <2>1
  <2>4. \E d, x \in Some : /\ PostAll(d, x)
                           /\ d = <<>> <=> pc = "init"
                           /\ d # <<>> => Head(d).wd = DirWatch
                           /\ x # <<>> => d # <<>> /\ file_wd # NoWatch /\ Head(x).wd = file_wd
    BY <1>0, <2>1, <2>3, OfDirEvent, OfFileEvent
  <2> QED  BY <1>0, <1>2, <1>3, <2>1, <2>2, <2>4, Leaving DEF Announces
<1>9. CASE Unlink
  <2>1. /\ UNCHANGED <<content, watch, lastWd, pc, batch, fp, pos, line, passed, torn, file_wd,
                       skipped, at, visits, moves, unlinked>>
        /\ Running /\ dying' = TRUE /\ ~dying /\ at # None /\ calm' = (calm /\ Calm) /\ Leave
        /\ PostAll(OfDir("delete"), <<>>)
    BY <1>9 DEF Unlink, reader
  <2>2. \E d, x \in Some : /\ PostAll(d, x)
                           /\ d = <<>> <=> pc = "init"
                           /\ d # <<>> => Head(d).wd = DirWatch
                           /\ x # <<>> => d # <<>> /\ file_wd # NoWatch /\ Head(x).wd = file_wd
    BY <1>4, <2>1, OfDirEvent
  <2>3. \A g \in File : visits[g] \in Nat /\ visits'[g] >= visits[g]
    BY <1>0, <2>1
  <2> QED  BY <1>0, <1>2, <2>1, <2>2, <2>3, Leaving DEF Announces
<1> QED  BY <1>6, <1>7, <1>8, <1>9 DEF Change

\* A change is announced, and the announcement handled after all that is
\* pending; the file that leaves path is read first, if nothing is late.
LEMMA ChangeKeeps ==
  ASSUME Invariant, Change
  PROVE  Invariant'
<1>0. /\ Base /\ Running /\ TypeOK /\ ReaderTypeOK /\ Bounded /\ Reading /\ Phases /\ Watches
      /\ ~overflowed => Noticed /\ SelfLater /\ Tracked /\ Owed
      /\ calm => OneChange
      /\ calm /\ Shown => Counts /\ AtMostOnce
      /\ Announces
  BY ChangeEffect DEF Invariant, Base, Following, Counting, TypeOK, Announces
<1>1. /\ UNCHANGED <<content, watch, lastWd, pc, batch, fp, pos, line, passed, torn, file_wd, skipped>>
      /\ Begun' = Begun
  BY <1>0 DEF Announces, Begun
<1>2. PICK d \in Some, x \in Some :
        /\ PostAll(d, x)
        /\ d = <<>> <=> pc = "init"
        /\ d # <<>> => Head(d).wd = DirWatch
        /\ x # <<>> => d # <<>> /\ file_wd # NoWatch /\ Head(x).wd = file_wd
  BY <1>0 DEF Announces
<1>3. /\ Bounds(queue') /\ overflowed' \in BOOLEAN /\ (overflowed => overflowed')
      /\ Phases' /\ Watches'
      /\ d # <<>> /\ ~overflowed' => DirPending'
      /\ ~overflowed' => SelfLater'
      /\ ReadFirst => ReadFirst'
      /\ OneChange /\ (d # <<>> => ~DirPending /\ pc \in {"idle", "event"}) => OneChange'
  <2>1. watch' \in [File -> Int] /\ \A f \in File : watch'[f] \in {watch[f], NoWatch}
    BY <1>0, <1>1 DEF TypeOK
  <2> QED  BY <1>0, <1>1, <1>2, <2>1, Announced
<1>4. Running'
  BY <1>0, <1>1 DEF Running
<1>5. Bounded' /\ Reading'
  BY <1>0, <1>1, OthersKeep
<1>6. TypeOK'
  <2>1. ReaderTypeOK'
    BY <1>0, <1>1 DEF ReaderTypeOK, Announces
  <2>2. queue' \in Seq(Event) /\ Len(queue') <= MaxQueue + 1
    BY <1>3 DEF Bounds
  <2> QED  BY <1>0, <1>1, <1>3, <2>1, <2>2 DEF TypeOK, Announces
<1>7. Base'
  <2>1. LinesWhole' /\ CrashNeedsOverflow'
    BY <1>0, <1>1, <1>3 DEF Base, LinesWhole, CrashNeedsOverflow
  <2>2. dying' => at' # None
    BY <1>0 DEF Announces
  <2> QED  BY <1>3, <1>5, <1>6, <2>1, <2>2 DEF Base
<1>8. Following'
  <2> SUFFICES ASSUME ~overflowed' PROVE Noticed' /\ SelfLater' /\ Tracked' /\ Owed'
    BY DEF Following
  <2>0. Noticed /\ SelfLater /\ Tracked /\ Owed
    BY <1>0, <1>3
  <2>1. DirPending' \/ pc = "init"
    BY <1>2, <1>3
  <2>2. Noticed'
    <3>1. pc = "init" => \A f \in File : watch'[f] = NoWatch
      BY <1>0, <1>1 DEF Phases, BeforeFOpen, Watches
    <3> QED  BY <1>1, <2>1, <3>1 DEF Noticed, BeforeFOpen
  <2>3. Tracked'
    BY <1>1, <2>1 DEF Tracked, BeforeRead
  <2>4. ASSUME NEW f \in File \ late'
        PROVE  /\ owed'[f] <= Len(content[f])
               /\ \A k \in 1 .. owed'[f] :
                    \/ k <= skipped[f]
                    \/ passed[f][k] > 0
                    \/ f = fp /\ k > Begun /\ (k <= pos \/ ReadFirst')
    <3>1. CASE owed'[f] = owed[f]
      <4>1. f \in File \ late
        BY <1>0 DEF Announces
      <4> QED  BY <1>3, <2>0, <3>1, <4>1 DEF Owed
    <3>2. CASE owed'[f] = Len(content[f]) /\ f = at /\ Follows(f) /\ ~DirPending
      <4>1. fp = f /\ fp # None /\ file_wd # NoWatch /\ Len(content[f]) \in Nat
        BY <1>0, <3>2, FileAssumption DEF Follows, ReaderTypeOK
      <4>2. pc \in {"idle", "event"} \/ BeforeRead
        BY <1>0, <4>1 DEF Phases, BeforeWatch, BeforeFOpen, BeforeRead, Running, TypeOK, Opening
      <4>3. ReadFirst \/ pos = Len(content[f])
        BY <2>0, <3>2, <4>1, <4>2 DEF Tracked
      <4>4. Begun \in Nat /\ \A k \in 1 .. Begun : passed[f][k] > 0 \/ k <= skipped[f]
        BY <1>0, <4>1, RestIsRun DEF Reading
      <4>5. \A k \in 1 .. Len(content[f]) : k \in 1 .. Begun \/ k > Begun
        BY <4>4
      <4> QED  BY <1>3, <3>2, <4>1, <4>3, <4>4, <4>5
    <3> QED  BY <1>0, <3>1, <3>2 DEF Announces
  <2>5. Owed'
    BY <1>1, <2>4 DEF Owed
  <2> QED  BY <1>3, <2>2, <2>3, <2>5
<1>9. Counting'
  <2> SUFFICES ASSUME calm'
               PROVE  OneChange' /\ AtMostOnce' /\ Counts'
    BY DEF Counting
  <2>1. calm /\ ~DirPending /\ pc \in {"init", "idle", "event"} /\ Shown
    BY <1>0 DEF Announces, Shown
  <2>2. OneChange /\ Counts /\ AtMostOnce
    BY <1>0, <2>1
  <2>3. OneChange'
    BY <1>2, <1>3, <2>1, <2>2
  <2>4. ASSUME NEW f \in File, NEW k \in 1 .. MaxLength
        PROVE  /\ passed'[f][k] <= visits'[f]
               /\ f = fp /\ k > Begun => passed'[f][k] < visits'[f]
               /\ f = at' /\ ~dying' =>
                    (passed'[f][k] + IF f = fp /\ k > Begun THEN 1 ELSE 0) < visits'[f]
    <3>1. /\ passed[f][k] \in Nat /\ visits[f] \in Nat /\ passed'[f][k] = passed[f][k]
          /\ passed[f][k] <= visits[f]
          /\ f = fp /\ k > Begun => passed[f][k] < visits[f]
      BY <1>0, <1>1, <2>2, Histories DEF AtMostOnce, Counts
    <3>2. /\ visits'[f] \in Nat /\ visits'[f] >= visits[f]
          /\ f = at' /\ ~dying' => visits'[f] = visits[f] + 1
      BY <1>0 DEF Announces
    <3> QED  BY <3>1, <3>2
  <2>5. AtMostOnce' /\ Counts'
    BY <1>1, <2>4 DEF AtMostOnce, Counts
  <2> QED  BY <2>3, <2>5
<1> QED  BY <1>7, <1>8, <1>9 DEF Invariant

\* The kernel drops the watch of a removed file that the watcher closed.
LEMMA ForgetKeeps ==
  ASSUME Invariant, NEW f \in File, Forget(f)
  PROVE  Invariant'
<1>0. /\ Base /\ Running /\ TypeOK /\ ReaderTypeOK /\ Bounded /\ Reading /\ Phases /\ Watches
      /\ ~overflowed => Noticed /\ SelfLater /\ Tracked /\ Owed
      /\ calm => OneChange
      /\ calm /\ Shown => Counts /\ AtMostOnce
  BY DEF Forget, Invariant, Base, Following, Counting, TypeOK
<1>1. /\ fp # f /\ watch[f] # NoWatch
      /\ watch' = [watch EXCEPT ![f] = NoWatch]
      /\ PostAll(<<>>, OfFile(f, "self"))
      /\ UNCHANGED <<at, content, unlinked, dying, moves, visits, calm, owed, late, lastWd, pc,
                     batch, fp, pos, line, passed, torn, file_wd, skipped>>
      /\ Begun' = Begun
  BY DEF Forget, files, reader, Begun
<1>2. watch' \in [File -> Int] /\ \A g \in File : watch'[g] = IF g = f THEN NoWatch ELSE watch[g]
  BY <1>0, <1>1 DEF TypeOK, NoWatch
<1>3. /\ Bounds(queue') /\ overflowed' \in BOOLEAN /\ (overflowed => overflowed')
      /\ Phases' /\ Watches'
      /\ DirPending' <=> DirPending
      /\ ~overflowed' => SelfLater'
      /\ ReadFirst => ReadFirst'
      /\ OneChange => OneChange'
  <2>1. <<>> \in Some /\ OfFile(f, "self") \in Some
        /\ file_wd # NoWatch /\ Head(OfFile(f, "self")).wd = file_wd
    BY <1>0, <1>1, OfFileEvent, FileAssumption DEF Some
  <2>2. ~overflowed => DirPending
    BY <1>0, <1>1 DEF Noticed
  <2>3. \A g \in File : watch'[g] \in {watch[g], NoWatch}
    BY <1>2
  <2> QED  BY <1>0, <1>1, <1>2, <2>1, <2>2, <2>3, Announced
<1>4. Bounded' /\ Reading'
  BY <1>0, <1>1, OthersKeep
<1>5. TypeOK'
  <2>1. ReaderTypeOK'
    BY <1>0, <1>1 DEF ReaderTypeOK
  <2>2. queue' \in Seq(Event) /\ Len(queue') <= MaxQueue + 1
    BY <1>3 DEF Bounds
  <2> QED  BY <1>0, <1>1, <1>2, <1>3, <2>1, <2>2 DEF TypeOK
<1>6. Base'
  <2>1. LinesWhole' /\ CrashNeedsOverflow' /\ (dying' => at' # None)
    BY <1>0, <1>1, <1>3 DEF Base, LinesWhole, CrashNeedsOverflow
  <2> QED  BY <1>3, <1>4, <1>5, <2>1 DEF Base
<1>7. Following'
  <2> SUFFICES ASSUME ~overflowed' PROVE Noticed' /\ SelfLater' /\ Tracked' /\ Owed'
    BY DEF Following
  <2>0. Noticed /\ SelfLater /\ Tracked /\ Owed
    BY <1>0, <1>3
  <2>1. Noticed'
    BY <1>1, <1>2, <1>3, <2>0 DEF Noticed, BeforeFOpen
  <2>2. Tracked'
    <3> SUFFICES ASSUME pc \in {"idle", "event"} \/ BeforeRead, at # None, ~DirPending
                 PROVE  Follows(at)' /\ (ReadFirst' \/ pos' = Len(content'[at']))
      BY <1>1, <1>3 DEF Tracked, BeforeRead
    <3>1. Follows(at) /\ (ReadFirst \/ pos = Len(content[at]))
      BY <2>0 DEF Tracked
    <3>2. at \in File /\ at # f
      BY <1>0, <1>1, <3>1 DEF Follows, ReaderTypeOK
    <3> QED  BY <1>1, <1>2, <1>3, <3>1, <3>2 DEF Follows
  <2>3. Owed'
    BY <1>1, <1>3, <2>0 DEF Owed
  <2> QED  BY <1>3, <2>1, <2>2, <2>3
<1>8. Counting'
  <2>1. Shown' <=> Shown
    BY <1>1, <1>3 DEF Shown
  <2>2. Counts => Counts'
    BY <1>1, <1>3 DEF Counts, BeforeFOpen
  <2>3. AtMostOnce => AtMostOnce'
    BY <1>1 DEF AtMostOnce
  <2>4. calm' => calm
    BY <1>1
  <2>5. calm /\ Shown => AtMostOnce
    BY DEF Invariant, Counting
  <2> QED  BY <1>0, <1>3, <2>1, <2>2, <2>3, <2>4, <2>5 DEF Counting
<1> QED  BY <1>6, <1>7, <1>8 DEF Invariant

\* What is written to the file that is followed is announced.
LEMMA WriteKeeps ==
  ASSUME Invariant, NEW f \in File, NEW c \in Char, Write(f, c)
  PROVE  Invariant'
<1>0. /\ Base /\ Running /\ TypeOK /\ ReaderTypeOK /\ Bounded /\ Reading /\ Phases /\ Watches
      /\ ~overflowed => Noticed /\ SelfLater /\ Tracked /\ Owed
      /\ calm => OneChange
      /\ calm /\ Shown => Counts /\ AtMostOnce
  BY DEF Write, Invariant, Base, Following, Counting, TypeOK
<1>1. /\ Extend(f, c)
      /\ PostAll(<<>>, OfFile(f, "modify"))
      /\ UNCHANGED <<at, unlinked, dying, moves, visits, calm, owed, late, watch, lastWd, pc,
                     batch, reader, fp, pos, line, passed, torn, file_wd, skipped>>
      /\ Begun' = Begun
  BY DEF Write, reader, Begun
<1>2. /\ ReaderTypeOK' /\ Bounded' /\ Reading'
      /\ \A g \in File : Len(content[g]) \in Nat /\ Len(content'[g]) \in Nat
      /\ \A g \in File : /\ Len(content'[g]) >= Len(content[g])
                         /\ Len(content'[g]) = Len(content[g]) + IF g = f THEN 1 ELSE 0
  BY <1>0, <1>1, ExtendKeeps
<1>3. /\ Bounds(queue') /\ overflowed' \in BOOLEAN /\ (overflowed => overflowed')
      /\ Phases' /\ Watches'
      /\ DirPending' <=> DirPending
      /\ ~overflowed' => SelfLater'
      /\ ReadFirst => ReadFirst'
      /\ OfFile(f, "modify") # <<>> /\ ~overflowed' /\ ~DirPending' => ReadFirst'
      /\ OneChange => OneChange'
  <2>1. /\ <<>> \in Some /\ OfFile(f, "modify") \in Some
        /\ OfFile(f, "modify") # <<>> => /\ file_wd # NoWatch
                                         /\ Head(OfFile(f, "modify")).wd = file_wd
                                         /\ Head(OfFile(f, "modify")).mask # "self"
    BY <1>0, <1>1, OfFileEvent DEF Some
  <2>2. watch' \in [File -> Int] /\ \A g \in File : watch'[g] \in {watch[g], NoWatch}
    BY <1>0, <1>1 DEF TypeOK
  <2> QED  BY <1>0, <1>1, <2>1, <2>2, Announced
<1>4. TypeOK'
  <2>1. queue' \in Seq(Event) /\ Len(queue') <= MaxQueue + 1
    BY <1>3 DEF Bounds
  <2> QED  BY <1>0, <1>1, <1>2, <1>3, <2>1 DEF TypeOK
<1>5. Base'
  <2>1. LinesWhole' /\ CrashNeedsOverflow' /\ (dying' => at' # None)
    BY <1>0, <1>1, <1>3 DEF Base, LinesWhole, CrashNeedsOverflow
  <2> QED  BY <1>2, <1>3, <1>4, <2>1 DEF Base
<1>6. Following'
  <2> SUFFICES ASSUME ~overflowed' PROVE Noticed' /\ SelfLater' /\ Tracked' /\ Owed'
    BY DEF Following
  <2>0. Noticed /\ SelfLater /\ Tracked /\ Owed
    BY <1>0, <1>3
  <2>1. Noticed'
    BY <1>1, <1>3, <2>0 DEF Noticed, BeforeFOpen
  <2>2. Tracked'
    <3> SUFFICES ASSUME pc \in {"idle", "event"} \/ BeforeRead, at # None, ~DirPending
                 PROVE  Follows(at)' /\ (ReadFirst' \/ pos' = Len(content'[at']))
      BY <1>1, <1>3 DEF Tracked, BeforeRead
    <3>1. Follows(at) /\ (ReadFirst \/ pos = Len(content[at]))
      BY <2>0 DEF Tracked
    <3>2. Follows(at)'
      BY <1>1, <3>1 DEF Follows
    <3>3. CASE at = f
      <4>1. OfFile(f, "modify") # <<>>
        BY <1>0, <3>1, <3>3, OfFileEvent, FileAssumption DEF Follows
      <4> QED  BY <1>3, <3>2, <4>1
    <3>4. CASE at # f
      <4>1. at \in File /\ Len(content'[at]) = Len(content[at])
        BY <1>0, <1>2, <3>4 DEF ReaderTypeOK
      <4> QED  BY <1>1, <1>3, <3>1, <3>2, <4>1
    <3> QED  BY <3>3, <3>4
  <2>3. Owed'
    <3>1. \A g \in File \ late : owed[g] <= Len(content'[g])
      <4> SUFFICES ASSUME NEW g \in File \ late PROVE owed[g] <= Len(content'[g])
        OBVIOUS
      <4>1. owed[g] \in Nat /\ owed[g] <= Len(content[g])
        BY <1>0, <2>0 DEF Owed, TypeOK
      <4>2. /\ Len(content[g]) \in Nat /\ Len(content'[g]) \in Nat
            /\ Len(content[g]) <= Len(content'[g])
        BY <1>2
      <4>3. \A a, b, c1 \in Nat : a <= b /\ b <= c1 => a <= c1
        OBVIOUS
      <4> QED  BY <4>1, <4>2, <4>3
    <3> QED  BY <1>1, <1>3, <2>0, <3>1 DEF Owed
  <2> QED  BY <1>3, <2>1, <2>2, <2>3
<1>7. Counting'
  <2>1. Shown' <=> Shown
    BY <1>1, <1>3 DEF Shown
  <2>2. Counts => Counts'
    BY <1>1, <1>3 DEF Counts, BeforeFOpen
  <2>3. AtMostOnce => AtMostOnce'
    BY <1>1 DEF AtMostOnce
  <2>4. calm' => calm
    BY <1>1
  <2>5. calm /\ Shown => AtMostOnce
    BY DEF Invariant, Counting
  <2> QED  BY <1>0, <1>3, <2>1, <2>2, <2>3, <2>4, <2>5 DEF Counting
<1> QED  BY <1>5, <1>6, <1>7 DEF Invariant

\* A removal shows: of the events that announce it at most this one is left.
LEMMA VanishKeeps ==
  ASSUME Invariant, Vanish
  PROVE  Invariant'
<1>0. /\ Base /\ Running /\ TypeOK /\ ReaderTypeOK /\ Bounded /\ Reading /\ Phases /\ Watches
      /\ ~overflowed => Noticed /\ SelfLater /\ Tracked /\ Owed
      /\ calm => OneChange
      /\ calm /\ Shown => Counts /\ AtMostOnce
  BY DEF Vanish, Move, Invariant, Base, Following, Counting, TypeOK
<1>1. /\ dying /\ ~dying' /\ moves' = moves + 1 /\ moves < MaxMoves
      /\ Arrive(None) /\ at' = None
      /\ unlinked' = unlinked \cup {at}
      /\ calm' = (calm /\ DirEvents # {})
      /\ UNCHANGED <<content, queue, overflowed, owed, late, watch, lastWd, pc, batch, fp, pos, line,
                     passed, torn, file_wd, skipped>>
      /\ Begun' = Begun /\ Pending' = Pending
  BY DEF Vanish, Move, Arrive, events, reader, Begun, Pending
<1>2. visits' \in [File -> Nat] /\ \A f \in File : visits'[f] = visits[f]
  BY <1>0, <1>1, ArriveCounts, FileAssumption
<1>3. calm' \in BOOLEAN /\ (calm' => calm /\ DirPending)
  <2>1. calm' \in BOOLEAN /\ (calm' => calm /\ DirEvents # {})
    BY <1>1, Zenon
  <2> QED  BY <1>0, <2>1, DirPendingEvents
<1>4. Bounded' /\ Reading'
  BY <1>0, <1>1, OthersKeep
<1>5. TypeOK'
  <2>1. ReaderTypeOK'
    BY <1>0, <1>1, <1>2 DEF ReaderTypeOK
  <2>2. unlinked' \subseteq File
    BY <1>0, <1>1 DEF TypeOK, Base, ReaderTypeOK
  <2>3. moves' \in 0 .. MaxMoves
    BY <1>0, <1>1, SizeAssumption DEF TypeOK
  <2>4. dying' \in BOOLEAN
    BY DEF Vanish
  <2> QED  BY <1>0, <1>1, <1>3, <2>1, <2>2, <2>3, <2>4 DEF TypeOK
<1>6. DirPending' <=> DirPending
  BY <1>1 DEF DirPending, DirWithin, IsDir
<1>7. Base'
  <2>1. Phases' /\ Watches'
    BY <1>0, <1>1, <1>6 DEF Phases, BeforeFOpen, BeforeWatch, BeforeRead, Watches
  <2>2. LinesWhole' /\ CrashNeedsOverflow' /\ Bounds(queue)'
    BY <1>0, <1>1 DEF Base, LinesWhole, CrashNeedsOverflow, Bounds
  <2> QED  BY <1>1, <1>4, <1>5, <2>1, <2>2 DEF Base
<1>8. Following'
  <2> SUFFICES ASSUME ~overflowed' PROVE Noticed' /\ SelfLater' /\ Tracked' /\ Owed'
    BY DEF Following
  <2>0. Noticed /\ SelfLater /\ Tracked /\ Owed
    BY <1>0, <1>1
  <2>1. Noticed' /\ Tracked'
    BY <1>1, <1>6, <2>0 DEF Noticed, Tracked
  <2>2. SelfLater' /\ (ReadFirst' <=> ReadFirst)
    BY <1>1, <2>0 DEF SelfLater, DirWithin, IsDir, ReadFirst, BeforeRead
  <2>3. Owed'
    BY <1>1, <2>0, <2>2 DEF Owed
  <2> QED  BY <2>1, <2>2, <2>3
<1>9. Counting'
  <2> SUFFICES ASSUME calm' PROVE OneChange' /\ AtMostOnce' /\ Counts'
    BY DEF Counting
  <2>1. OneChange /\ Counts /\ AtMostOnce
    BY <1>0, <1>3 DEF Shown
  <2>2. OneChange'
    BY <1>1, <1>6, <2>1 DEF OneChange, IsDir
  <2>3. AtMostOnce' /\ Counts'
    BY <1>1, <1>2, <2>1, FileAssumption DEF AtMostOnce, Counts
  <2> QED  BY <2>2, <2>3
<1> QED  BY <1>7, <1>8, <1>9 DEF Invariant
-----------------------------------------------------------------------------
(* The watcher.                                                            *)

LEMMA Parts ==
  ASSUME Invariant, Running
  PROVE  /\ Base /\ TypeOK /\ ReaderTypeOK /\ Bounded /\ Reading /\ Phases /\ Watches
         /\ ~overflowed => Noticed /\ SelfLater /\ Tracked /\ Owed
         /\ calm => OneChange
         /\ calm /\ Shown => Counts /\ AtMostOnce
BY DEF Invariant, Base, Following, Counting, TypeOK

\* No event comes or goes.
LEMMA SameEvents ==
  ASSUME Pending' = Pending
  PROVE  /\ DirPending' <=> DirPending
         /\ SelfLater /\ file_wd' = file_wd => SelfLater'
         /\ ReadFirst /\ file_wd' = file_wd /\ (BeforeRead => BeforeRead') => ReadFirst'
         /\ OneChange /\ (DirPending => pc' \in {"idle", "event"}) => OneChange'
<1>1. DirPending' <=> DirPending
  BY DEF DirPending, DirWithin, IsDir
<1>2. SelfLater /\ file_wd' = file_wd => SelfLater'
  BY DEF SelfLater, DirWithin, IsDir
<1>3. ReadFirst /\ file_wd' = file_wd /\ (BeforeRead => BeforeRead') => ReadFirst'
  BY DEF ReadFirst, DirWithin, IsDir
<1>4. OneChange /\ (DirPending => pc' \in {"idle", "event"}) => OneChange'
  BY <1>1 DEF OneChange, IsDir
<1> QED  BY <1>1, <1>2, <1>3, <1>4

\* How often a character is handed over, when it is handed over once more
\* if it is in an open file and was not.
Due(f, k) == passed[f][k] + IF f = fp /\ k > Begun THEN 1 ELSE 0

LEMMA HandedOver ==
  ASSUME ReaderTypeOK, Bounded, Reading, fp # None,
         NEW n \in Nat, Begun <= n, Passes(fp, Begun, n),
         passed' \in [File -> [1 .. MaxLength -> Nat]],
         fp' = None \/ (fp' = fp /\ Begun' = n),
         NEW f \in File, NEW k \in 1 .. MaxLength
  PROVE  /\ Due(f, k)' <= Due(f, k)
         /\ passed'[f][k] \in Nat
         /\ passed[f][k] > 0 => passed'[f][k] > 0
         /\ f = fp /\ k > Begun /\ k <= n => passed'[f][k] > 0
<1>1. passed[f][k] \in Nat /\ fp \in File /\ Begun \in Nat
  BY RestIsRun, Histories
<1>2. passed'[f] \in [1 .. MaxLength -> Nat]
  OBVIOUS
<1>3. passed'[f][k] \in Nat
  BY <1>2
<1>4. passed'[f][k] = passed[f][k] + IF f = fp /\ k \in Begun + 1 .. n THEN 1 ELSE 0
  BY DEF Passes
<1>5. k \in Int /\ (fp' # f \/ (fp' = fp /\ Begun' = n))
  BY FileAssumption
<1>6. Due(f, k)' = passed'[f][k] + IF f = fp' /\ k > Begun' THEN 1 ELSE 0
  BY DEF Due
<1>7. Due(f, k) = passed[f][k] + IF f = fp /\ k > Begun THEN 1 ELSE 0
  BY DEF Due
<1>8. CASE f = fp /\ k > Begun /\ k <= n
  <2>1. passed'[f][k] = passed[f][k] + 1
    BY <1>1, <1>4, <1>8
  <2>2. ~(f = fp' /\ k > Begun')
    BY <1>5, <1>8, FileAssumption
  <2> QED  BY <1>1, <1>3, <1>6, <1>7, <1>8, <2>1, <2>2
<1>9. CASE ~(f = fp /\ k > Begun /\ k <= n)
  <2>1. passed'[f][k] = passed[f][k]
    BY <1>1, <1>4, <1>9
  <2>2. f = fp' /\ k > Begun' => f = fp /\ k > Begun
    BY <1>1, FileAssumption
  <2> QED  BY <1>1, <1>3, <1>6, <1>7, <1>9, <2>1, <2>2
<1> QED  BY <1>8, <1>9

\* No character is handed over too often, as long as the watcher does not
\* plan to read a file that it had no reason to read before.
LEMMA CountsKept ==
  ASSUME ReaderTypeOK, AtMostOnce, Counts, UNCHANGED <<at, visits, dying>>,
         DirPending' \/ BeforeFOpen' => DirPending \/ BeforeFOpen,
         \A f \in File, k \in 1 .. MaxLength :
           passed'[f][k] \in Nat /\ Due(f, k)' <= Due(f, k)
  PROVE  AtMostOnce' /\ Counts'
<1>1. ASSUME NEW f \in File, NEW k \in 1 .. MaxLength
      PROVE  /\ passed'[f][k] <= visits[f]
             /\ f = fp' /\ k > Begun' => passed'[f][k] < visits[f]
             /\ f = at /\ ~dying /\ (DirPending' \/ BeforeFOpen') => Due(f, k)' < visits[f]
  <2>1. passed[f][k] \in Nat /\ visits[f] \in Nat /\ passed'[f][k] \in Nat
    BY Histories
  <2>2. /\ passed[f][k] <= visits[f]
        /\ f = fp /\ k > Begun => passed[f][k] < visits[f]
        /\ f = at /\ ~dying /\ (DirPending \/ BeforeFOpen) => Due(f, k) < visits[f]
    BY DEF AtMostOnce, Counts, Due
  <2>3. /\ Due(f, k) = IF f = fp /\ k > Begun THEN passed[f][k] + 1 ELSE passed[f][k]
        /\ Due(f, k)' = IF f = fp' /\ k > Begun' THEN passed'[f][k] + 1 ELSE passed'[f][k]
    BY <2>1 DEF Due
  <2>4. Due(f, k)' <= Due(f, k)
    OBVIOUS
  <2> QED  BY <2>1, <2>2, <2>3, <2>4
<1> QED  BY <1>1 DEF AtMostOnce, Counts, Due

LEMMA WatchDirKeeps ==
  ASSUME Invariant, WatchDir
  PROVE  Invariant'
<1>1. /\ pc = "init" /\ pc' = "init.fopen"
      /\ UNCHANGED <<at, content, unlinked, dying, moves, visits, calm, owed, late, queue, overflowed,
                     watch, lastWd, batch, fp, pos, line, passed, torn, file_wd, skipped>>
      /\ Begun' = Begun /\ Pending' = Pending
  BY DEF WatchDir, files, events, reader, Begun, Pending
<1>2. Running /\ Running'
  BY <1>1 DEF Running, Stopped
<1>3. /\ Base /\ TypeOK /\ ReaderTypeOK /\ Bounded /\ Reading /\ Phases /\ Watches
      /\ ~overflowed => Noticed /\ SelfLater /\ Tracked /\ Owed
      /\ calm => OneChange
      /\ calm /\ Shown => Counts /\ AtMostOnce
  BY <1>2, Parts
<1>4. /\ DirPending' <=> DirPending
      /\ SelfLater => SelfLater'
      /\ ReadFirst => ReadFirst'
      /\ OneChange /\ ~DirPending => OneChange'
  BY <1>1, SameEvents DEF BeforeRead
<1>5. ~DirPending /\ fp = None /\ batch = <<>> /\ file_wd = NoWatch
  BY <1>1, <1>3 DEF Phases, BeforeFOpen
<1>6. Base'
  <2>1. TypeOK'
    BY <1>1, <1>3 DEF TypeOK, ReaderTypeOK, Opening
  <2>2. Bounded' /\ Reading'
    BY <1>1, <1>3, OthersKeep
  <2>3. Phases' /\ Watches'
    BY <1>1, <1>3, <1>5 DEF Phases, BeforeFOpen, BeforeWatch, BeforeRead, Watches
  <2> QED  BY <1>1, <1>3, <2>1, <2>2, <2>3 DEF Base, Bounds, LinesWhole, CrashNeedsOverflow
<1>7. Following'
  <2> SUFFICES ASSUME ~overflowed PROVE Noticed' /\ SelfLater' /\ Tracked' /\ Owed'
    BY <1>1 DEF Following
  <2>1. Noticed' /\ Tracked'
    BY <1>1, <1>3, <1>4 DEF Noticed, Tracked, BeforeFOpen, BeforeRead
  <2>2. Owed'
    BY <1>1, <1>3, <1>4 DEF Owed
  <2> QED  BY <1>3, <1>4, <2>1, <2>2
<1>8. Counting'
  BY <1>1, <1>3, <1>4, <1>5 DEF Counting, Counts, AtMostOnce, Shown, BeforeFOpen
<1> QED  BY <1>6, <1>7, <1>8 DEF Invariant

\* What is opened is read from its start, and its coming to path was counted.
LEMMA FOpenKeeps ==
  ASSUME Invariant, FOpen
  PROVE  Invariant'
<1>1. /\ pc \in {"init.fopen", "fopen"} /\ fp' = at
      /\ pc' = IF at = None THEN IF pc = "init.fopen" THEN "idle" ELSE "event"
                            ELSE IF pc = "init.fopen" THEN "init.watch" ELSE "watch"
      /\ UNCHANGED <<at, content, unlinked, dying, moves, visits, calm, owed, late, queue, overflowed,
                     watch, lastWd, batch, pos, line, passed, torn, file_wd, skipped>>
      /\ Pending' = Pending
  BY DEF FOpen, Starting, files, events, Pending
<1>2. Running /\ Running'
  BY <1>1 DEF Running, Stopped
<1>3. /\ Base /\ TypeOK /\ ReaderTypeOK /\ Bounded /\ Reading /\ Phases /\ Watches
      /\ ~overflowed => Noticed /\ SelfLater /\ Tracked /\ Owed
      /\ calm => OneChange
      /\ calm /\ Shown => Counts /\ AtMostOnce
      /\ at \in File \cup {None}
  BY <1>2, Parts DEF ReaderTypeOK
<1>4. /\ DirPending' <=> DirPending
      /\ SelfLater => SelfLater'
      /\ OneChange /\ ~DirPending => OneChange'
  BY <1>1, SameEvents
<1>5. /\ fp = None /\ file_wd = NoWatch /\ (pc = "init.fopen" => batch = <<>>)
      /\ \A f \in File : watch[f] = NoWatch
  BY <1>1, <1>3 DEF Phases, BeforeFOpen, Watches
<1>6. Bounded' /\ Reading' /\ pos' = 0 /\ line' = <<>>
  BY <1>1, <1>3, <1>5, OpenKeeps
<1>7. Begun' = 0
  <2>1. Begun' = pos' - Len(line') /\ Len(<<>>) = 0
    BY DEF Begun
  <2>2. Begun' = 0 - 0
    BY <1>6, <2>1
  <2> QED  BY <2>2
<1>8. Base'
  <2>1. TypeOK'
    BY <1>1, <1>3 DEF TypeOK, ReaderTypeOK, Opening
  <2>2. Phases'
    BY <1>1, <1>5, <1>6 DEF Phases, BeforeFOpen, BeforeWatch, BeforeRead
  <2>3. Watches'
    BY <1>1, <1>3 DEF Watches
  <2> QED  BY <1>1, <1>3, <1>6, <2>1, <2>2, <2>3 DEF Base, Bounds, LinesWhole, CrashNeedsOverflow
<1>9. Following'
  <2> SUFFICES ASSUME ~overflowed PROVE Noticed' /\ SelfLater' /\ Tracked' /\ Owed'
    BY <1>1 DEF Following
  <2>1. Noticed' /\ Tracked'
    BY <1>1, <1>5 DEF Noticed, Tracked, BeforeFOpen, BeforeRead
  <2>2. Owed'
    BY <1>1, <1>3, <1>5, FileAssumption DEF Owed
  <2> QED  BY <1>3, <1>4, <2>1, <2>2
<1>10. Counting'
  <2> SUFFICES ASSUME calm PROVE OneChange' /\ (Shown' => Counts' /\ AtMostOnce')
    BY <1>1 DEF Counting
  <2>1. ~DirPending /\ OneChange
    BY <1>1, <1>3 DEF OneChange
  <2>2. ASSUME Shown' PROVE Counts' /\ AtMostOnce'
    <3>1. ~dying /\ Counts /\ AtMostOnce
      BY <1>1, <1>3, <1>4, <2>1, <2>2 DEF Shown
    <3>2. ASSUME NEW f \in File, NEW k \in 1 .. MaxLength, f = at
          PROVE  passed[f][k] < visits[f]
      <4>1. passed[f][k] + 0 < visits[f] /\ passed[f][k] \in Nat
        BY <1>1, <1>3, <1>5, <3>1, <3>2, Histories, FileAssumption DEF Counts, BeforeFOpen
      <4> QED  BY <4>1
    <3>3. ~(DirPending' \/ BeforeFOpen')
      BY <1>1, <1>4, <2>1 DEF BeforeFOpen
    <3> QED  BY <1>1, <3>1, <3>2, <3>3 DEF Counts, AtMostOnce
  <2> QED  BY <1>4, <2>1, <2>2
<1> QED  BY <1>8, <1>9, <1>10 DEF Invariant

\* The watch goes to the open file, or an event of the directory is still
\* to be handled; no event pending has the new descriptor.
LEMMA AddWatchKeeps ==
  ASSUME Invariant, AddWatch
  PROVE  Invariant'
<1>1. /\ pc \in {"init.watch", "watch"}
      /\ UNCHANGED <<at, content, unlinked, dying, moves, visits, calm, owed, late, queue, overflowed,
                     batch, fp, pos, line, passed, torn, skipped>>
      /\ Pending' = Pending /\ Begun' = Begun
  BY DEF AddWatch, files, events, reader, Pending, Begun
<1>2. Running
  BY <1>1 DEF Running, Stopped
<1>3. /\ Base /\ TypeOK /\ ReaderTypeOK /\ Bounded /\ Reading /\ Phases /\ Watches
      /\ ~overflowed => Noticed /\ SelfLater /\ Tracked /\ Owed
      /\ calm => OneChange
      /\ calm /\ Shown => Counts /\ AtMostOnce
      /\ at \in File \cup {None}
  BY <1>2, Parts DEF ReaderTypeOK
<1>4. /\ DirPending' <=> DirPending
      /\ OneChange /\ ~DirPending => OneChange'
  BY <1>1, SameEvents
<1>5. /\ fp # None /\ pos = 0 /\ line = <<>> /\ file_wd = NoWatch
      /\ pc = "init.watch" => batch = <<>>
      /\ \A f \in File : watch[f] = NoWatch
  BY <1>1, <1>3 DEF Phases, BeforeWatch, Watches
<1>6. Bounded' /\ Reading'
  BY <1>1, <1>3, OthersKeep
<1>7. AtMostOnce => AtMostOnce'
  BY <1>1 DEF AtMostOnce
<1>8. CASE at = None
  <2>1. pc' = "gone" /\ UNCHANGED <<watch, lastWd, file_wd>>
    BY <1>8 DEF AddWatch
  <2>2. ~Running' /\ TypeOK'
    BY <1>1, <1>3, <2>1 DEF TypeOK, ReaderTypeOK, Running, Stopped
  <2>3. Base'
    BY <1>1, <1>3, <1>6, <2>1, <2>2 DEF Base, Bounds, LinesWhole, CrashNeedsOverflow
  <2>4. Following' /\ Counting'
    BY <1>1, <1>3, <1>4, <1>7, <2>2 DEF Following, Counting, Shown
  <2> QED  BY <2>3, <2>4 DEF Invariant
<1>9. CASE at # None
  <2>0. at \in File /\ watch[at] = NoWatch /\ lastWd \in Nat
    BY <1>3, <1>5, <1>9 DEF TypeOK
  <2>1. /\ pc' = IF pc = "init.watch" THEN "init.seek" ELSE "read"
        /\ lastWd' = lastWd + 1 /\ file_wd' = watch'[at]
        /\ watch' = [watch EXCEPT ![at] = lastWd + 1]
    BY <1>1, <1>9, <2>0 DEF AddWatch, Starting
  <2>2. /\ lastWd' \in Nat /\ file_wd' = lastWd + 1 /\ file_wd' \in Int /\ file_wd' # NoWatch
        /\ watch' \in [File -> Int]
        /\ \A f \in File : watch'[f] = IF f = at THEN file_wd' ELSE NoWatch
    BY <1>3, <1>5, <2>0, <2>1 DEF TypeOK, NoWatch
  <2>3. Running' /\ BeforeRead' /\ ReadFirst'
    BY <1>1, <2>1 DEF Running, Stopped, BeforeRead, ReadFirst
  <2>4. Base'
    <3>1. TypeOK'
      BY <1>1, <1>3, <2>1, <2>2 DEF TypeOK, ReaderTypeOK, Opening
    <3>2. Phases'
      BY <1>1, <1>5, <2>1 DEF Phases, BeforeFOpen, BeforeWatch, BeforeRead
    <3>3. Watches'
      <4>1. \A i \in NoWatch .. lastWd : i \in NoWatch .. lastWd'
        BY <2>0, <2>1 DEF NoWatch
      <4>2. file_wd' \in 1 .. lastWd'
        BY <2>0, <2>1, <2>2
      <4> QED  BY <1>1, <1>3, <2>2, <4>1, <4>2 DEF Watches
    <3> QED  BY <1>1, <1>3, <1>6, <2>1, <3>1, <3>2, <3>3 DEF Base, Bounds, LinesWhole, CrashNeedsOverflow
  <2>5. Following'
    <3> SUFFICES ASSUME ~overflowed PROVE Noticed' /\ SelfLater' /\ Tracked' /\ Owed'
      BY <1>1 DEF Following
    <3>1. fp # at => DirPending
      BY <1>1, <1>3, <1>9 DEF Noticed, BeforeFOpen
    <3>2. Noticed'
      BY <1>1, <1>4, <2>2, <3>1 DEF Noticed
    <3>3. SelfLater'
      <4>1. \A i \in NoWatch .. lastWd : i # file_wd'
        BY <2>0, <2>2 DEF NoWatch
      <4> QED  BY <1>1, <1>3, <4>1 DEF SelfLater, Watches
    <3>4. Tracked'
      BY <1>1, <1>4, <2>0, <2>2, <2>3, <3>1 DEF Tracked, Follows
    <3>5. Owed'
      BY <1>1, <1>3, <2>3 DEF Owed
    <3> QED  BY <3>2, <3>3, <3>4, <3>5
  <2>6. Counting'
    <3> SUFFICES ASSUME calm PROVE OneChange' /\ (Shown' => Counts' /\ AtMostOnce')
      BY <1>1 DEF Counting
    <3>1. ~DirPending /\ OneChange
      BY <1>1, <1>3 DEF OneChange
    <3>2. Shown' => Shown
      BY <1>1, <1>4 DEF Shown
    <3>3. Counts => Counts'
      BY <1>1, <1>4, <2>1 DEF Counts, BeforeFOpen
    <3> QED  BY <1>3, <1>4, <1>7, <3>1, <3>2, <3>3
  <2> QED  BY <2>4, <2>5, <2>6 DEF Invariant
<1> QED  BY <1>8, <1>9

\* The initial content is passed over, and nothing of it is owed.
LEMMA SeekEndKeeps ==
  ASSUME Invariant, SeekEnd
  PROVE  Invariant'
<1>1. /\ pc = "init.seek" /\ pc' = "idle"
      /\ pos' = Len(content[fp]) /\ skipped' = [skipped EXCEPT ![fp] = Len(content[fp])]
      /\ UNCHANGED <<at, content, unlinked, dying, moves, visits, calm, owed, late, queue, overflowed,
                     watch, lastWd, batch, fp, line, passed, torn, file_wd>>
      /\ Pending' = Pending
  BY DEF SeekEnd, files, events, Pending
<1>2. Running /\ Running'
  BY <1>1 DEF Running, Stopped
<1>3. /\ Base /\ TypeOK /\ ReaderTypeOK /\ Bounded /\ Reading /\ Phases /\ Watches
      /\ ~overflowed => Noticed /\ SelfLater /\ Tracked /\ Owed
      /\ calm => OneChange
      /\ calm /\ Shown => Counts /\ AtMostOnce
  BY <1>2, Parts
<1>4. /\ DirPending' <=> DirPending
      /\ SelfLater => SelfLater'
      /\ OneChange /\ ~DirPending => OneChange'
  BY <1>1, SameEvents
<1>5. fp # None /\ pos = 0 /\ line = <<>> /\ batch = <<>>
  BY <1>1, <1>3 DEF Phases, BeforeRead
<1>6. fp \in File /\ Len(content[fp]) \in 0 .. MaxLength
  BY <1>3, <1>5, RestIsRun
<1>7. Begun' = pos' /\ Begun = 0 /\ Len(line) = 0
  <2>1. Len(line) = 0
    BY <1>5
  <2>2. Begun' = pos' - Len(line) /\ Begun = pos - Len(line)
    BY <1>1 DEF Begun
  <2>3. pos' \in Nat
    BY <1>1, <1>6, LengthAssumption
  <2>4. Begun = 0
    <3>1. Begun = 0 - 0
      BY <1>5, <2>1, <2>2
    <3> QED  BY <3>1
  <2>5. Begun' = pos'
    <3>1. Begun' = pos' - 0
      BY <2>1, <2>2
    <3>2. \A x \in Nat : x - 0 = x
      OBVIOUS
    <3> QED  BY <2>3, <3>1, <3>2
  <2> QED  BY <2>1, <2>4, <2>5
<1>8. /\ skipped' \in [File -> Nat]
      /\ \A f \in File : skipped'[f] = IF f = fp THEN pos' ELSE skipped[f]
  BY <1>1, <1>3, <1>6 DEF ReaderTypeOK
<1>9. Reading' /\ Bounded'
  <2>1. Bounded' /\ fp' # None /\ pos' <= Len(content'[fp']) /\ Len(line') <= pos'
    BY <1>1, <1>3, <1>5, <1>6, <1>7 DEF Bounded
  <2>2. IsRun(line', fp', Begun', Len(line'))
    BY <1>1, <1>5, <1>7 DEF IsRun
  <2>3. LineBegins(fp, Begun)' /\ \A k \in 1 .. Begun' : k <= skipped'[fp']
    BY <1>1, <1>6, <1>7, <1>8 DEF LineBegins
  <2> QED  BY <2>1, <2>2, <2>3 DEF Reading
<1>10. Base'
  <2>1. TypeOK'
    <3>1. ReaderTypeOK'
      BY <1>1, <1>3, <1>6, <1>8 DEF ReaderTypeOK
    <3> QED  BY <1>1, <1>3, <3>1 DEF TypeOK
  <2>2. Phases' /\ Watches'
    BY <1>1, <1>3, <1>5 DEF Phases, BeforeFOpen, BeforeWatch, BeforeRead, Watches
  <2> QED  BY <1>1, <1>3, <1>9, <2>1, <2>2 DEF Base, Bounds, LinesWhole, CrashNeedsOverflow
<1>11. Following'
  <2> SUFFICES ASSUME ~overflowed PROVE Noticed' /\ SelfLater' /\ Tracked' /\ Owed'
    BY <1>1 DEF Following
  <2>1. Noticed'
    BY <1>1, <1>3, <1>4 DEF Noticed, BeforeFOpen
  <2>2. Tracked'
    BY <1>1, <1>3, <1>4 DEF Tracked, BeforeRead, Follows
  <2>3. Owed'
    <3> SUFFICES ASSUME NEW f \in File \ late
                 PROVE  /\ owed[f] <= Len(content[f])
                        /\ \A k \in 1 .. owed[f] : k <= skipped'[f] \/ passed[f][k] > 0
      BY <1>1 DEF Owed
    <3>1. owed[f] \in Nat /\ owed[f] <= Len(content[f])
      BY <1>3 DEF Owed, TypeOK
    <3>2. CASE f = fp
      BY <1>1, <1>6, <1>8, <3>1, <3>2
    <3>3. CASE f # fp
      BY <1>3, <1>8, <3>1, <3>3 DEF Owed
    <3> QED  BY <3>2, <3>3
  <2> QED  BY <1>3, <1>4, <2>1, <2>2, <2>3
<1>12. Counting'
  <2> SUFFICES ASSUME calm PROVE OneChange' /\ (Shown' => Counts' /\ AtMostOnce')
    BY <1>1 DEF Counting
  <2>1. ~DirPending /\ OneChange
    BY <1>1, <1>3 DEF OneChange
  <2>2. ASSUME Shown' PROVE Counts' /\ AtMostOnce'
    <3>1. Counts /\ AtMostOnce
      BY <1>1, <1>3, <1>4, <2>2 DEF Shown
    <3>2. ~(DirPending' \/ BeforeFOpen')
      BY <1>1, <1>4, <2>1 DEF BeforeFOpen
    <3>3. \A k \in 1 .. MaxLength : k > Begun
      BY <1>7
    <3> QED  BY <1>1, <3>1, <3>2, <3>3 DEF Counts, AtMostOnce
  <2> QED  BY <1>4, <2>1, <2>2
<1> QED  BY <1>10, <1>11, <1>12 DEF Invariant

\* readLines(), wherever it is called: what is owed is handed over, or is in
\* the incomplete line.
LEMMA LinesRead ==
  ASSUME TypeOK, Bounded, Reading, fp # None, ReadLines, UNCHANGED <<files, skipped>>
  PROVE  /\ ReaderTypeOK' /\ Bounded' /\ Reading' /\ torn' = torn
         /\ fp' = fp /\ pos' = Len(content[fp])
         /\ Owed => Owed'
         /\ \A f \in File, k \in 1 .. MaxLength :
              passed'[f][k] \in Nat /\ Due(f, k)' <= Due(f, k)
<1>0. ReaderTypeOK /\ UNCHANGED <<at, content, visits, owed, late>>
  BY DEF TypeOK, files
<1>1. ReaderTypeOK' /\ Bounded' /\ Reading'
  BY <1>0, ReadKeeps
<1>2. /\ fp' = fp /\ pos' = Len(content[fp])
      /\ Begun' \in Nat /\ Begun <= Begun'
      /\ Passes(fp, Begun, Begun')
      /\ passed' \in [File -> [1 .. MaxLength -> Nat]]
      /\ torn' = torn
  BY <1>0, ReadEffect
<1>3. fp \in File /\ Begun \in Nat /\ Len(content[fp]) \in Nat
  BY <1>0, RestIsRun, LengthAssumption
<1>4. ASSUME NEW f \in File, NEW k \in 1 .. MaxLength
      PROVE  /\ passed'[f][k] \in Nat /\ Due(f, k)' <= Due(f, k)
             /\ passed[f][k] > 0 => passed'[f][k] > 0
             /\ f = fp /\ k > Begun => passed'[f][k] > 0 \/ k > Begun'
  <2>1. PICK n \in Nat : n = Begun'
    BY <1>2
  <2>2. /\ Due(f, k)' <= Due(f, k)
        /\ passed'[f][k] \in Nat
        /\ passed[f][k] > 0 => passed'[f][k] > 0
        /\ f = fp /\ k > Begun /\ k <= n => passed'[f][k] > 0
    BY <1>0, <1>2, <2>1, HandedOver
  <2> QED  BY <2>1, <2>2
<1>5. ASSUME Owed PROVE Owed'
  <2> SUFFICES ASSUME NEW f \in File \ late, NEW k \in 1 .. owed[f]
               PROVE  \/ k <= skipped[f]
                      \/ passed'[f][k] > 0
                      \/ f = fp /\ k > Begun' /\ k <= pos'
    BY <1>0, <1>2, <1>5 DEF Owed
  <2>1. /\ owed[f] \in Nat /\ owed[f] <= Len(content[f]) /\ Len(content[f]) \in 0 .. MaxLength
    BY <1>0, <1>5, LengthAssumption DEF Owed, TypeOK, ReaderTypeOK, Bounded
  <2>2. k \in 1 .. MaxLength /\ k <= Len(content[f])
    BY <2>1, LengthAssumption
  <2>3. k <= skipped[f] \/ passed[f][k] > 0 \/ (f = fp /\ k > Begun)
    BY <1>5 DEF Owed
  <2> QED  BY <1>2, <1>4, <2>2, <2>3
<1> QED  BY <1>1, <1>2, <1>4, <1>5

LEMMA ReadAfterOpenKeeps ==
  ASSUME Invariant, ReadAfterOpen
  PROVE  Invariant'
<1>1. /\ pc = "read" /\ pc' = "event" /\ ReadLines
      /\ UNCHANGED <<files, at, content, unlinked, dying, moves, visits, calm, owed, late, queue,
                     overflowed, watch, lastWd, batch, file_wd, skipped>>
      /\ Pending' = Pending
  BY DEF ReadAfterOpen, files, events, Pending
<1>2. Running /\ Running'
  BY <1>1 DEF Running, Stopped
<1>3. /\ Base /\ TypeOK /\ ReaderTypeOK /\ Bounded /\ Reading /\ Phases /\ Watches
      /\ ~overflowed => Noticed /\ SelfLater /\ Tracked /\ Owed
      /\ calm => OneChange
      /\ calm /\ Shown => Counts /\ AtMostOnce
  BY <1>2, Parts
<1>4. /\ DirPending' <=> DirPending
      /\ SelfLater => SelfLater'
      /\ OneChange /\ ~DirPending => OneChange'
  BY <1>1, SameEvents
<1>5. fp # None
  BY <1>1, <1>3 DEF Phases, BeforeRead
<1>6. /\ ReaderTypeOK' /\ Bounded' /\ Reading' /\ torn' = torn
      /\ fp' = fp /\ pos' = Len(content[fp])
      /\ Owed => Owed'
      /\ \A f \in File, k \in 1 .. MaxLength :
           passed'[f][k] \in Nat /\ Due(f, k)' <= Due(f, k)
  BY <1>1, <1>3, <1>5, LinesRead
<1>7. Base'
  <2>1. TypeOK'
    BY <1>1, <1>3, <1>6 DEF TypeOK
  <2>2. Phases' /\ Watches'
    BY <1>1, <1>3, <1>5, <1>6 DEF Phases, BeforeFOpen, BeforeWatch, BeforeRead, Watches
  <2> QED  BY <1>1, <1>3, <1>6, <2>1, <2>2 DEF Base, Bounds, LinesWhole, CrashNeedsOverflow
<1>8. Following'
  <2> SUFFICES ASSUME ~overflowed PROVE Noticed' /\ SelfLater' /\ Tracked' /\ Owed'
    BY <1>1 DEF Following
  <2>1. Noticed'
    BY <1>1, <1>3, <1>4, <1>6 DEF Noticed, BeforeFOpen
  <2>2. Tracked'
    BY <1>1, <1>3, <1>4, <1>6 DEF Tracked, BeforeRead, Follows
  <2> QED  BY <1>3, <1>4, <1>6, <2>1, <2>2
<1>9. Counting'
  <2> SUFFICES ASSUME calm PROVE OneChange' /\ (Shown' => Counts' /\ AtMostOnce')
    BY <1>1 DEF Counting
  <2>1. ~DirPending /\ OneChange
    BY <1>1, <1>3 DEF OneChange
  <2>2. ASSUME Shown' PROVE Counts' /\ AtMostOnce'
    <3>1. Counts /\ AtMostOnce
      BY <1>1, <1>3, <1>4, <2>2 DEF Shown
    <3>2. ~(DirPending' \/ BeforeFOpen')
      BY <1>1, <1>4, <2>1 DEF BeforeFOpen
    <3> QED  BY <1>1, <1>3, <1>6, <3>1, <3>2, CountsKept
  <2> QED  BY <1>4, <2>1, <2>2
<1> QED  BY <1>7, <1>8, <1>9 DEF Invariant

\* Events move from the kernel's queue to the batch, in their order.
LEMMA ReadEventsKeeps ==
  ASSUME Invariant, ReadEvents
  PROVE  Invariant'
<1> DEFINE n == Len(queue)
           m == Min({BatchSize, n})
<1>1. /\ pc = "idle" /\ pc' = "event" /\ queue # <<>>
      /\ batch' = SubSeq(queue, 1, m) /\ queue' = SubSeq(queue, m + 1, n)
      /\ UNCHANGED <<at, content, unlinked, dying, moves, visits, calm, owed, late, overflowed,
                     watch, lastWd, fp, pos, line, passed, torn, file_wd, skipped>>
      /\ Begun' = Begun
  BY DEF ReadEvents, files, reader, Begun
<1>2. Running /\ Running'
  BY <1>1 DEF Running, Stopped
<1>3. /\ Base /\ TypeOK /\ ReaderTypeOK /\ Bounded /\ Reading /\ Phases /\ Watches
      /\ ~overflowed => Noticed /\ SelfLater /\ Tracked /\ Owed
      /\ calm => OneChange
      /\ calm /\ Shown => Counts /\ AtMostOnce
  BY <1>2, Parts
<1>4. n \in Nat \ {0} /\ queue \in Seq(Event) /\ n <= MaxQueue + 1
  BY <1>1, <1>3, EmptySeq DEF TypeOK
<1>5. m \in 1 .. n /\ m <= BatchSize
  <2> HIDE DEF n
  <2>1. BatchSize \in Nat \ {0}
    BY SizeAssumption
  <2>2. \E x \in {BatchSize, n} : \A y \in {BatchSize, n} : x <= y
    BY <1>4, <2>1
  <2>3. m \in {BatchSize, n} /\ m <= BatchSize /\ m <= n
    BY <2>2 DEF Min
  <2> QED  BY <1>4, <2>1, <2>3
<1> HIDE DEF m
<1>6. batch' \in Seq(Event) /\ Len(batch') <= BatchSize
  <2>1. \A i \in 1 .. m : queue[i] \in Event
    BY <1>4, <1>5
  <2>2. SubSeq(queue, 1, m) \in Seq(Event) /\ Len(SubSeq(queue, 1, m)) = IF 1 <= m THEN m - 1 + 1 ELSE 0
    BY <1>5, <2>1, SubSeqProperties
  <2> QED  BY <1>1, <1>5, <2>2
<1>7. Bounds(queue')
  <2>1. \A i \in m + 1 .. n : queue[i] \in Event
    BY <1>4, <1>5
  <2>2. /\ SubSeq(queue, m + 1, n) \in Seq(Event)
        /\ Len(SubSeq(queue, m + 1, n)) = IF m + 1 <= n THEN n - (m + 1) + 1 ELSE 0
    BY <1>4, <1>5, <2>1, SubSeqProperties
  <2>3. Len(queue') <= MaxQueue
    <3> HIDE DEF n
    <3>1. Len(queue') = IF m + 1 <= n THEN n - (m + 1) + 1 ELSE 0
      BY <1>1, <2>2
    <3> QED  BY <1>4, <1>5, <3>1, SizeAssumption
  <2> QED  BY <1>1, <2>2, <2>3, SizeAssumption DEF Bounds
<1>8. Pending' = Pending
  <2>1. Pending' = SubSeq(queue, 1, m) \o SubSeq(queue, m + 1, n)
    BY <1>1 DEF Pending
  <2>2. SubSeq(queue, 1, m) \o SubSeq(queue, m + 1, n) = SubSeq(queue, 1, n)
    <3>1. 1 \in 1 .. n + 1 /\ m \in 1 - 1 .. n /\ n \in m .. n
      BY <1>4, <1>5
    <3> QED  BY <1>4, <3>1, ConcatAdjacentSubSeq
  <2>3. SubSeq(queue, 1, n) = queue /\ <<>> \o queue = queue
    BY <1>4, SubSeqFull, ConcatEmptySeq
  <2>4. batch = <<>>
    BY <1>1, <1>3 DEF Phases
  <2> QED  BY <2>1, <2>2, <2>3, <2>4 DEF Pending
<1>9. /\ DirPending' <=> DirPending
      /\ SelfLater => SelfLater'
      /\ ReadFirst => ReadFirst'
      /\ OneChange => OneChange'
  BY <1>1, <1>8, SameEvents DEF BeforeRead
<1>10. Base'
  <2>1. TypeOK'
    <3>1. queue' \in Seq(Event) /\ Len(queue') <= MaxQueue + 1
      BY <1>7 DEF Bounds
    <3> QED  BY <1>1, <1>3, <1>6, <3>1 DEF TypeOK, ReaderTypeOK
  <2>2. Bounded' /\ Reading'
    BY <1>1, <1>3, OthersKeep
  <2>3. Phases' /\ Watches'
    BY <1>1, <1>3, <1>8 DEF Phases, BeforeFOpen, BeforeWatch, BeforeRead, Watches
  <2> QED  BY <1>1, <1>3, <1>7, <2>1, <2>2, <2>3 DEF Base, LinesWhole, CrashNeedsOverflow
<1>11. Following'
  <2> SUFFICES ASSUME ~overflowed PROVE Noticed' /\ SelfLater' /\ Tracked' /\ Owed'
    BY <1>1 DEF Following
  <2>1. Noticed'
    BY <1>1, <1>3, <1>9 DEF Noticed, BeforeFOpen
  <2>2. Tracked'
    BY <1>1, <1>3, <1>9 DEF Tracked, Follows
  <2>3. Owed'
    BY <1>1, <1>3, <1>9 DEF Owed
  <2> QED  BY <1>3, <1>9, <2>1, <2>2, <2>3
<1>12. Counting'
  BY <1>1, <1>3, <1>9 DEF Counting, Counts, AtMostOnce, Shown, BeforeFOpen
<1> QED  BY <1>10, <1>11, <1>12 DEF Invariant

\* Without a file, an event with its descriptor is an overflow.  With one, it
\* is read; it is closed only when an event of the directory has been lost.
LEMMA HandleFileEventKeeps ==
  ASSUME Invariant, HandleFileEvent
  PROVE  Invariant'
<1>1. /\ pc = "event" /\ batch # <<>> /\ Head(batch).wd = file_wd /\ batch' = Tail(batch)
      /\ UNCHANGED <<files, at, content, unlinked, dying, moves, visits, calm, owed, late, queue,
                     overflowed, lastWd, skipped>>
  BY DEF HandleFileEvent, files, events
<1>2. Running
  BY <1>1 DEF Running, Stopped
<1>3. /\ Base /\ TypeOK /\ ReaderTypeOK /\ Bounded /\ Reading /\ Phases /\ Watches
      /\ ~overflowed => Noticed /\ SelfLater /\ Tracked /\ Owed
      /\ calm => OneChange
      /\ calm /\ Shown => Counts /\ AtMostOnce
  BY <1>2, Parts
<1>4. /\ Len(Pending') \in Nat /\ Len(Pending) = Len(Pending') + 1
      /\ Pending[1] = Head(batch) /\ 1 \in 1 .. Len(Pending)
  <2>1. /\ Len(Pending') \in Nat /\ Len(Pending) = Len(Pending') + 1
        /\ Pending[1] = Head(batch)
    BY <1>1, <1>3, Taken
  <2> QED  BY <2>1
<1>5. /\ batch' \in Seq(Event) /\ Len(batch') <= BatchSize
  <2>1. batch \in Seq(Event) /\ Len(batch) <= BatchSize /\ BatchSize \in Nat
    BY <1>3, SizeAssumption DEF TypeOK
  <2>2. batch' \in Seq(Event) /\ Len(batch') = Len(batch) - 1
    BY <1>1, <2>1, HeadTailProperties
  <2> QED  BY <2>1, <2>2
<1>6. file_wd # DirWatch
  BY <1>3 DEF Watches, DirWatch, NoWatch, TypeOK
<1>7. /\ DirPending' <=> DirPending
      /\ SelfLater /\ file_wd' = file_wd => SelfLater'
      /\ OneChange /\ pc' \in {"idle", "event"} => OneChange'
  BY <1>1, <1>3, <1>6, Dropped
<1>8. CASE fp = None
  <2>1. pc' = "crashed" /\ UNCHANGED <<watch, fp, pos, line, passed, torn, file_wd>>
    BY <1>8 DEF HandleFileEvent, reader
  <2>2. overflowed
    BY <1>1, <1>3, <1>4, <1>8 DEF Phases, Watches
  <2>3. ~Running' /\ TypeOK'
    BY <1>1, <1>3, <1>5, <2>1 DEF TypeOK, ReaderTypeOK, Running, Stopped
  <2>4. Bounded' /\ CrashNeedsOverflow' /\ LinesWhole' /\ (dying' => at' # None) /\ Bounds(queue)'
    BY <1>1, <1>3, <2>1, <2>2 DEF Base, Bounded, CrashNeedsOverflow, LinesWhole, Bounds
  <2>5. Following' /\ Counting'
    BY <1>1, <1>3, <1>7, <2>1, <2>3 DEF Following, Counting, Shown, AtMostOnce
  <2> QED  BY <2>3, <2>4, <2>5 DEF Invariant, Base
<1>9. CASE fp # None /\ Head(batch).mask = "self"
  <2>1. pc' = pc /\ ReadAndClose
    BY <1>9 DEF HandleFileEvent
  <2>2. /\ Process(Rest) /\ line' = <<>> /\ fp' = None /\ pos' = 0
        /\ watch' = Unwatched /\ file_wd' = NoWatch
    BY <2>1 DEF ReadAndClose, Rest
  <2>3. overflowed
    <3>1. ASSUME ~overflowed PROVE FALSE
      <4>1. DirWithin(1 - 1)
        BY <1>1, <1>3, <1>4, <1>9, <3>1 DEF SelfLater
      <4> QED  BY <4>1 DEF DirWithin
    <3> QED  BY <3>1
  <2>4. /\ fp \in File /\ Len(content[fp]) \in 0 .. MaxLength
        /\ Begun \in Nat /\ Begun <= Len(content[fp])
        /\ IsRun(Rest, fp, Begun, Len(content[fp]) - Begun)
        /\ LineBegins(fp, Begun)
    <3>1. /\ fp \in File /\ Len(content[fp]) \in 0 .. MaxLength
          /\ Begun \in Nat /\ Begun <= pos /\ pos <= Len(content[fp])
          /\ IsRun(Rest, fp, Begun, Len(content[fp]) - Begun)
      BY <1>3, <1>9, RestIsRun
    <3>2. LineBegins(fp, Begun) /\ pos \in Nat
      BY <1>3, <1>9, LengthAssumption DEF Reading, ReaderTypeOK
    <3> QED  BY <3>1, <3>2, LengthAssumption
  <2>5. PICK n \in Nat : n = Len(content[fp]) /\ Begun <= n /\ n - Begun \in Nat /\ Begun + (n - Begun) = n
    BY <2>4, LengthAssumption
  <2>6. /\ Passes(fp, Begun, n) /\ torn' = torn
        /\ passed' \in [File -> [1 .. MaxLength -> Nat]]
    <3>1. IsRun(Rest, fp, Begun, n - Begun)
      BY <2>4, <2>5
    <3>2. /\ Passes(fp, Begun, Begun + (n - Begun)) /\ torn' = torn
          /\ passed' \in [File -> [1 .. MaxLength -> Nat]]
      BY <1>3, <2>2, <2>4, <2>5, <3>1, RunProcessed
    <3> QED  BY <2>5, <3>2
  <2>7. \A f \in File, k \in 1 .. MaxLength :
          passed'[f][k] \in Nat /\ Due(f, k)' <= Due(f, k)
    BY <1>3, <1>9, <2>2, <2>5, <2>6, HandedOver
  <2>8. Base'
    <3>1. ReaderTypeOK'
      <4>1. pos' \in 0 .. MaxLength /\ line' \in Seq(File \X (1 .. MaxLength))
        BY <2>2, LengthAssumption
      <4> QED  BY <1>1, <1>3, <2>2, <2>6, <4>1 DEF ReaderTypeOK
    <3>2. watch' \in [File -> Int] /\ file_wd' \in Int
      BY <1>3, <2>2 DEF TypeOK, Unwatched, NoWatch
    <3>3. TypeOK'
      BY <1>1, <1>3, <1>5, <2>1, <3>1, <3>2 DEF TypeOK
    <3>4. Bounded' /\ Reading'
      BY <1>1, <1>3, <2>2 DEF Bounded, Reading
    <3>5. Watches'
      BY <1>1, <1>2, <1>3, <2>2, WatchesKept
    <3>6. Phases'
      BY <1>1, <2>1, <2>2 DEF Phases, BeforeFOpen, BeforeWatch, BeforeRead
    <3> QED  BY <1>1, <1>3, <2>1, <2>6, <3>3, <3>4, <3>5, <3>6
             DEF Base, Bounds, LinesWhole, CrashNeedsOverflow
  <2>9. Following'
    BY <1>1, <2>3 DEF Following
  <2>10. Counting'
    <3> SUFFICES ASSUME calm PROVE OneChange' /\ (Shown' => Counts' /\ AtMostOnce')
      BY <1>1 DEF Counting
    <3>1. OneChange'
      BY <1>1, <1>3, <1>7, <2>1
    <3>2. ASSUME Shown' PROVE Counts' /\ AtMostOnce'
      <4>1. Counts /\ AtMostOnce
        BY <1>1, <1>3, <1>7, <3>2 DEF Shown
      <4>2. DirPending' \/ BeforeFOpen' => DirPending \/ BeforeFOpen
        BY <1>7, <2>1 DEF BeforeFOpen
      <4> QED  BY <1>1, <1>3, <2>7, <4>1, <4>2, CountsKept
    <3> QED  BY <3>1, <3>2
  <2> QED  BY <2>8, <2>9, <2>10 DEF Invariant
<1>10. CASE fp # None /\ Head(batch).mask # "self"
  <2>1. pc' = pc /\ ReadLines /\ UNCHANGED <<watch, file_wd>>
    BY <1>10 DEF HandleFileEvent
  <2>2. /\ ReaderTypeOK' /\ Bounded' /\ Reading' /\ torn' = torn
        /\ fp' = fp /\ pos' = Len(content[fp])
        /\ Owed => Owed'
        /\ \A f \in File, k \in 1 .. MaxLength :
             passed'[f][k] \in Nat /\ Due(f, k)' <= Due(f, k)
    BY <1>1, <1>3, <1>10, <2>1, LinesRead
  <2>3. Base'
    <3>1. TypeOK'
      BY <1>1, <1>3, <1>5, <2>1, <2>2 DEF TypeOK
    <3>2. Watches'
      BY <1>1, <1>2, <1>3, <2>1, WatchesKept
    <3>3. Phases'
      BY <1>1, <1>3, <1>10, <2>1, <2>2 DEF Phases, BeforeFOpen, BeforeWatch, BeforeRead
    <3> QED  BY <1>1, <1>3, <2>1, <2>2, <3>1, <3>2, <3>3
             DEF Base, Bounds, LinesWhole, CrashNeedsOverflow
  <2>4. Following'
    <3> SUFFICES ASSUME ~overflowed PROVE Noticed' /\ SelfLater' /\ Tracked' /\ Owed'
      BY <1>1 DEF Following
    <3>1. Noticed'
      BY <1>1, <1>3, <1>7, <2>1, <2>2 DEF Noticed, BeforeFOpen
    <3>2. Tracked'
      BY <1>1, <1>3, <1>7, <2>1, <2>2 DEF Tracked, Follows
    <3> QED  BY <1>3, <1>7, <2>1, <2>2, <3>1, <3>2
  <2>5. Counting'
    <3> SUFFICES ASSUME calm PROVE OneChange' /\ (Shown' => Counts' /\ AtMostOnce')
      BY <1>1 DEF Counting
    <3>1. OneChange'
      BY <1>1, <1>3, <1>7, <2>1
    <3>2. ASSUME Shown' PROVE Counts' /\ AtMostOnce'
      <4>1. Counts /\ AtMostOnce
        BY <1>1, <1>3, <1>7, <3>2 DEF Shown
      <4>2. DirPending' \/ BeforeFOpen' => DirPending \/ BeforeFOpen
        BY <1>7, <2>1 DEF BeforeFOpen
      <4> QED  BY <1>1, <1>3, <2>2, <4>1, <4>2, CountsKept
    <3> QED  BY <3>1, <3>2
  <2> QED  BY <2>3, <2>4, <2>5 DEF Invariant
<1> QED  BY <1>8, <1>9, <1>10

\* The file is closed; what it is owed has been read before.  What is at
\* path is opened next.
LEMMA HandleDirEventKeeps ==
  ASSUME Invariant, HandleDirEvent
  PROVE  Invariant'
<1>1. /\ pc = "event" /\ pc' = "fopen" /\ Close
      /\ batch # <<>> /\ Head(batch).wd = DirWatch /\ batch' = Tail(batch)
      /\ watch' = Unwatched /\ file_wd' = NoWatch
      /\ UNCHANGED <<at, content, unlinked, dying, moves, visits, calm, owed, late, queue,
                     overflowed, lastWd, skipped>>
  BY DEF HandleDirEvent, CloseFile, files, events
<1>2. Running /\ Running'
  BY <1>1 DEF Running, Stopped
<1>3. /\ Base /\ TypeOK /\ ReaderTypeOK /\ Bounded /\ Reading /\ Phases /\ Watches
      /\ ~overflowed => Noticed /\ SelfLater /\ Tracked /\ Owed
      /\ calm => OneChange
      /\ calm /\ Shown => Counts /\ AtMostOnce
  BY <1>2, Parts
<1>4. /\ Len(Pending') \in Nat /\ Len(Pending) = Len(Pending') + 1
      /\ Pending[1] = Head(batch) /\ 1 \in 1 .. Len(Pending)
  <2>1. /\ Len(Pending') \in Nat /\ Len(Pending) = Len(Pending') + 1
        /\ Pending[1] = Head(batch)
    BY <1>1, <1>3, Taken
  <2> QED  BY <2>1
<1>5. batch' \in Seq(Event) /\ Len(batch') <= BatchSize
  <2>1. batch \in Seq(Event) /\ Len(batch) <= BatchSize /\ BatchSize \in Nat
    BY <1>3, SizeAssumption DEF TypeOK
  <2>2. batch' \in Seq(Event) /\ Len(batch') = Len(batch) - 1
    BY <1>1, <2>1, HeadTailProperties
  <2> QED  BY <2>1, <2>2
<1>6. IsDir(1) /\ DirPending
  BY <1>1, <1>4 DEF IsDir, DirPending, DirWithin
<1>7. calm => ~DirPending'
  BY <1>1, <1>3, DirDropped
<1>8. /\ fp' = None /\ line' = <<>> /\ pos' = 0 /\ torn' = torn
      /\ passed' \in [File -> [1 .. MaxLength -> Nat]]
      /\ fp = None => passed' = passed
      /\ fp # None => Passes(fp, Begun, pos)
      /\ Bounded' /\ Reading'
  BY <1>1, <1>3, CloseKeeps
<1>9. ASSUME NEW f \in File, NEW k \in 1 .. MaxLength
      PROVE  /\ passed'[f][k] \in Nat /\ Due(f, k)' <= Due(f, k)
             /\ passed[f][k] > 0 => passed'[f][k] > 0
             /\ f = fp /\ k > Begun /\ k <= pos => passed'[f][k] > 0
  <2>1. CASE fp = None
    <3>1. passed[f][k] \in Nat /\ passed'[f][k] = passed[f][k]
      BY <1>3, <1>8, <2>1, Histories
    <3>2. f # fp /\ f # fp'
      BY <1>8, <2>1, FileAssumption
    <3> QED  BY <3>1, <3>2 DEF Due
  <2>2. CASE fp # None
    <3>1. PICK n \in Nat : n = pos
      BY <1>3, LengthAssumption DEF ReaderTypeOK
    <3>2. Begun <= n
      BY <1>3, <2>2, <3>1, RestIsRun
    <3> QED  BY <1>3, <1>8, <2>2, <3>1, <3>2, HandedOver
  <2> QED  BY <2>1, <2>2
<1>10. \A f \in File : watch'[f] = NoWatch
  BY <1>1, <1>3 DEF Unwatched, Watches
<1>11. Watches'
  BY <1>1, <1>2, <1>3, WatchesKept
<1>12. Base'
  <2>1. ReaderTypeOK'
    <3>1. pos' \in 0 .. MaxLength /\ line' \in Seq(File \X (1 .. MaxLength))
      BY <1>8, LengthAssumption
    <3> QED  BY <1>1, <1>3, <1>8, <3>1 DEF ReaderTypeOK
  <2>2. watch' \in [File -> Int] /\ file_wd' \in Int
    BY <1>1, <1>3 DEF TypeOK, Unwatched, NoWatch
  <2>3. TypeOK'
    BY <1>1, <1>3, <1>5, <2>1, <2>2 DEF TypeOK, Opening
  <2>4. Phases'
    BY <1>1, <1>8 DEF Phases, BeforeFOpen, BeforeWatch, BeforeRead
  <2> QED  BY <1>1, <1>3, <1>8, <1>11, <2>3, <2>4 DEF Base, Bounds, LinesWhole, CrashNeedsOverflow
<1>13. Following'
  <2> SUFFICES ASSUME ~overflowed PROVE Noticed' /\ SelfLater' /\ Tracked' /\ Owed'
    BY <1>1 DEF Following
  <2>1. Noticed' /\ Tracked'
    BY <1>1, <1>10 DEF Noticed, Tracked, BeforeFOpen, BeforeRead
  <2>2. SelfLater'
    BY <1>1, <1>11 DEF SelfLater, Watches
  <2>3. ~ReadFirst
    <3>1. \A i \in 1 .. Len(Pending) : DirWithin(i)
      <4> SUFFICES ASSUME NEW i \in 1 .. Len(Pending) PROVE 1 \in 1 .. i
        BY <1>6 DEF DirWithin
      <4> QED  BY <1>4
    <3> QED  BY <1>1, <3>1 DEF ReadFirst, BeforeRead
  <2>4. ASSUME NEW f \in File \ late, NEW k \in 1 .. owed[f]
        PROVE  k <= skipped[f] \/ passed'[f][k] > 0
    <3>1. /\ owed[f] \in Nat /\ owed[f] <= Len(content[f]) /\ Len(content[f]) \in 0 .. MaxLength
      BY <1>3, LengthAssumption DEF Owed, TypeOK, ReaderTypeOK, Bounded
    <3>2. k \in 1 .. MaxLength
      BY <3>1, LengthAssumption
    <3>3. k <= skipped[f] \/ passed[f][k] > 0 \/ (f = fp /\ k > Begun /\ k <= pos)
      BY <1>3, <2>3 DEF Owed
    <3> QED  BY <1>9, <3>2, <3>3
  <2>5. Owed'
    BY <1>1, <1>3, <2>4 DEF Owed
  <2> QED  BY <2>1, <2>2, <2>5
<1>14. Counting'
  <2> SUFFICES ASSUME calm PROVE OneChange' /\ (Shown' => Counts' /\ AtMostOnce')
    BY <1>1 DEF Counting
  <2>1. OneChange'
    BY <1>7 DEF OneChange, DirPending, DirWithin
  <2>2. ASSUME Shown' PROVE Counts' /\ AtMostOnce'
    <3>1. Counts /\ AtMostOnce
      BY <1>3, <1>6 DEF Shown
    <3> QED  BY <1>1, <1>3, <1>6, <1>9, <3>1, CountsKept
  <2> QED  BY <2>1, <2>2
<1> QED  BY <1>12, <1>13, <1>14 DEF Invariant

\* What is ignored is neither of the directory nor of the file that is read.
LEMMA IgnoreEventKeeps ==
  ASSUME Invariant, IgnoreEvent
  PROVE  Invariant'
<1>1. /\ pc = "event" /\ pc' = pc
      /\ batch # <<>> /\ Head(batch).wd # file_wd /\ Head(batch).wd # DirWatch /\ batch' = Tail(batch)
      /\ UNCHANGED <<at, content, unlinked, dying, moves, visits, calm, owed, late, queue, overflowed,
                     watch, lastWd, fp, pos, line, passed, torn, file_wd, skipped>>
      /\ Begun' = Begun
  BY DEF IgnoreEvent, files, events, reader, Begun
<1>2. Running /\ Running'
  BY <1>1 DEF Running, Stopped
<1>3. /\ Base /\ TypeOK /\ ReaderTypeOK /\ Bounded /\ Reading /\ Phases /\ Watches
      /\ ~overflowed => Noticed /\ SelfLater /\ Tracked /\ Owed
      /\ calm => OneChange
      /\ calm /\ Shown => Counts /\ AtMostOnce
  BY <1>2, Parts
<1>4. /\ DirPending' <=> DirPending
      /\ SelfLater => SelfLater'
      /\ ReadFirst => ReadFirst'
      /\ OneChange => OneChange'
  BY <1>1, <1>3, Dropped DEF BeforeRead
<1>5. batch' \in Seq(Event) /\ Len(batch') <= BatchSize
  <2>1. batch \in Seq(Event) /\ Len(batch) <= BatchSize /\ BatchSize \in Nat
    BY <1>3, SizeAssumption DEF TypeOK
  <2>2. batch' \in Seq(Event) /\ Len(batch') = Len(batch) - 1
    BY <1>1, <2>1, HeadTailProperties
  <2> QED  BY <2>1, <2>2
<1>6. Base'
  <2>1. TypeOK'
    BY <1>1, <1>3, <1>5 DEF TypeOK, ReaderTypeOK
  <2>2. Bounded' /\ Reading'
    BY <1>1, <1>3, OthersKeep
  <2>3. Phases'
    BY <1>1, <1>3 DEF Phases, BeforeFOpen, BeforeWatch, BeforeRead
  <2>4. Watches'
    BY <1>1, <1>2, <1>3, WatchesKept
  <2> QED  BY <1>1, <1>3, <2>1, <2>2, <2>3, <2>4 DEF Base, Bounds, LinesWhole, CrashNeedsOverflow
<1>7. Following'
  <2> SUFFICES ASSUME ~overflowed PROVE Noticed' /\ SelfLater' /\ Tracked' /\ Owed'
    BY <1>1 DEF Following
  <2>1. Noticed' /\ Tracked'
    BY <1>1, <1>3, <1>4 DEF Noticed, Tracked, BeforeFOpen, BeforeRead, Follows
  <2>2. Owed'
    BY <1>1, <1>3, <1>4 DEF Owed
  <2> QED  BY <1>3, <1>4, <2>1, <2>2
<1>8. Counting'
  BY <1>1, <1>3, <1>4 DEF Counting, Counts, AtMostOnce, Shown, BeforeFOpen
<1> QED  BY <1>6, <1>7, <1>8 DEF Invariant

LEMMA EndBatchKeeps ==
  ASSUME Invariant, EndBatch
  PROVE  Invariant'
<1>1. /\ pc = "event" /\ pc' = "idle" /\ batch = <<>>
      /\ UNCHANGED <<at, content, unlinked, dying, moves, visits, calm, owed, late, queue, overflowed,
                     watch, lastWd, batch, fp, pos, line, passed, torn, file_wd, skipped>>
      /\ Begun' = Begun /\ Pending' = Pending
  BY DEF EndBatch, files, events, reader, Begun, Pending
<1>2. Running /\ Running'
  BY <1>1 DEF Running, Stopped
<1>3. /\ Base /\ TypeOK /\ ReaderTypeOK /\ Bounded /\ Reading /\ Phases /\ Watches
      /\ ~overflowed => Noticed /\ SelfLater /\ Tracked /\ Owed
      /\ calm => OneChange
      /\ calm /\ Shown => Counts /\ AtMostOnce
  BY <1>2, Parts
<1>4. /\ DirPending' <=> DirPending
      /\ SelfLater => SelfLater'
      /\ ReadFirst => ReadFirst'
      /\ OneChange => OneChange'
  BY <1>1, SameEvents DEF BeforeRead
<1>5. Base'
  <2>1. TypeOK'
    BY <1>1, <1>3 DEF TypeOK, ReaderTypeOK
  <2>2. Bounded' /\ Reading'
    BY <1>1, <1>3, OthersKeep
  <2>3. Phases' /\ Watches'
    BY <1>1, <1>3 DEF Phases, BeforeFOpen, BeforeWatch, BeforeRead, Watches
  <2> QED  BY <1>1, <1>3, <2>1, <2>2, <2>3 DEF Base, Bounds, LinesWhole, CrashNeedsOverflow
<1>6. Following'
  <2> SUFFICES ASSUME ~overflowed PROVE Noticed' /\ SelfLater' /\ Tracked' /\ Owed'
    BY <1>1 DEF Following
  <2>1. Noticed' /\ Tracked'
    BY <1>1, <1>3, <1>4 DEF Noticed, Tracked, BeforeFOpen, BeforeRead, Follows
  <2>2. Owed'
    BY <1>1, <1>3, <1>4 DEF Owed
  <2> QED  BY <1>3, <1>4, <2>1, <2>2
<1>7. Counting'
  BY <1>1, <1>3, <1>4 DEF Counting, Counts, AtMostOnce, Shown, BeforeFOpen
<1> QED  BY <1>5, <1>6, <1>7 DEF Invariant

\* The daemon ends, or nothing happens.
LEMMA RestKeeps ==
  ASSUME Invariant, Fail \/ UNCHANGED vars
  PROVE  Invariant'
<1>1. /\ pc' \in {pc, "failed"}
      /\ UNCHANGED <<at, content, unlinked, dying, moves, visits, calm, owed, late, queue, overflowed,
                     watch, lastWd, batch, fp, pos, line, passed, torn, file_wd, skipped>>
      /\ Begun' = Begun /\ Pending' = Pending
  BY DEF Fail, vars, files, events, reader, Begun, Pending
<1>2. CASE pc' = pc
  <2>1. Base'
    <3>1. TypeOK' /\ Bounds(queue)' /\ Bounded' /\ LinesWhole' /\ CrashNeedsOverflow'
          /\ (dying' => at' # None)
      BY <1>1, <1>2 DEF Invariant, Base, TypeOK, ReaderTypeOK, Bounds, Bounded, LinesWhole,
                        CrashNeedsOverflow
    <3>2. Running' => Reading' /\ Phases' /\ Watches'
      <4> SUFFICES ASSUME Running' PROVE Reading' /\ Phases' /\ Watches'
        OBVIOUS
      <4>1. Bounded /\ Reading /\ Phases /\ Watches
        BY <1>2 DEF Running, Invariant, Base
      <4>2. DirPending' <=> DirPending
        BY <1>1, SameEvents
      <4> QED  BY <1>1, <1>2, <4>1, <4>2, OthersKeep
               DEF Phases, BeforeFOpen, BeforeWatch, BeforeRead, Watches
    <3> QED  BY <3>1, <3>2 DEF Base
  <2>2. /\ DirPending' <=> DirPending
        /\ SelfLater => SelfLater'
        /\ ReadFirst => ReadFirst'
        /\ Running /\ calm => OneChange'
    BY <1>1, <1>2, SameEvents DEF BeforeRead, Invariant, Counting, OneChange
  <2>3. Following'
    <3> SUFFICES ASSUME Running, ~overflowed PROVE Noticed' /\ SelfLater' /\ Tracked' /\ Owed'
      BY <1>1, <1>2 DEF Following, Running
    <3>0. Noticed /\ SelfLater /\ Tracked /\ Owed
      BY DEF Invariant, Following
    <3>1. Noticed' /\ Tracked'
      BY <1>1, <1>2, <2>2, <3>0 DEF Noticed, Tracked, BeforeFOpen, BeforeRead, Follows
    <3>2. Owed'
      BY <1>1, <2>2, <3>0 DEF Owed
    <3> QED  BY <2>2, <3>0, <3>1, <3>2
  <2>4. Counting'
    BY <1>1, <1>2, <2>2 DEF Invariant, Counting, Counts, AtMostOnce, Shown, BeforeFOpen, Running
  <2> QED  BY <2>1, <2>3, <2>4 DEF Invariant
<1>3. CASE pc' = "failed"
  <2>1. ~Running' /\ TypeOK'
    BY <1>1, <1>3 DEF Invariant, Base, TypeOK, ReaderTypeOK, Running, Stopped
  <2>2. Base'
    BY <1>1, <1>3, <2>1 DEF Invariant, Base, Bounds, Bounded, LinesWhole, CrashNeedsOverflow
  <2>3. Following' /\ Counting'
    BY <1>1, <2>1 DEF Invariant, Following, Counting, Shown, AtMostOnce, DirPending, DirWithin, IsDir
  <2> QED  BY <2>2, <2>3 DEF Invariant
<1> QED  BY <1>1, <1>2, <1>3
-----------------------------------------------------------------------------
LEMMA InitInvariant ==
  ASSUME Init
  PROVE  Invariant
<1>1. /\ pc = "init" /\ batch = <<>> /\ queue = <<>> /\ fp = None /\ pos = 0 /\ line = <<>>
      /\ file_wd = NoWatch /\ dying = FALSE /\ calm = TRUE /\ overflowed = FALSE /\ unlinked = {}
      /\ late = {} /\ moves = 0 /\ lastWd = DirWatch
      /\ watch = [f \in File |-> NoWatch] /\ owed = [f \in File |-> 0]
      /\ passed = [f \in File |-> [k \in 1 .. MaxLength |-> 0]]
      /\ visits = [f \in File |-> IF f = at THEN 1 ELSE 0]
  BY DEF Init, ReaderInit
<1>2. ReaderTypeOK /\ Bounded /\ Reading /\ ~torn
  BY ReaderStarts DEF Init
<1>3. Pending = <<>> /\ Len(Pending) = 0
  BY <1>1 DEF Pending
<1>4. Running /\ pc # "crashed"
  BY <1>1 DEF Running, Stopped
<1>5. <<>> \in Seq(Event) /\ Len(<<>>) = 0
  OBVIOUS
<1>6. TypeOK
  <2>1. watch \in [File -> Int] /\ owed \in [File -> Nat] /\ lastWd \in Nat /\ file_wd \in Int
    BY <1>1 DEF NoWatch, DirWatch
  <2>2. queue \in Seq(Event) /\ Len(queue) <= MaxQueue + 1
    BY <1>1, <1>5, SizeAssumption
  <2>3. batch \in Seq(Event) /\ Len(batch) <= BatchSize /\ moves \in 0 .. MaxMoves
    BY <1>1, <1>5, SizeAssumption
  <2> QED  BY <1>1, <1>2, <2>1, <2>2, <2>3 DEF TypeOK
<1>7. Bounds(queue)
  BY <1>1, <1>5, SizeAssumption DEF Bounds
<1>8. ~DirPending
  BY <1>3 DEF DirPending, DirWithin
<1>9. Base
  <2>1. Phases
    BY <1>1, <1>8 DEF Phases, BeforeFOpen, BeforeWatch, BeforeRead
  <2>2. Watches
    BY <1>1, <1>3 DEF Watches
  <2> QED  BY <1>1, <1>2, <1>4, <1>6, <1>7, <2>1, <2>2 DEF Base, LinesWhole, CrashNeedsOverflow
<1>10. Following
  <2>1. Noticed /\ SelfLater /\ Tracked
    BY <1>1, <1>3 DEF Noticed, SelfLater, Tracked, BeforeFOpen, BeforeRead
  <2>2. Owed
    <3> SUFFICES ASSUME NEW f \in File PROVE owed[f] <= Len(content[f]) /\ 1 .. owed[f] = {}
      BY DEF Owed
    <3>1. owed[f] = 0 /\ Len(content[f]) \in Nat
      BY <1>1, <1>2 DEF ReaderTypeOK
    <3> QED  BY <3>1
  <2> QED  BY <2>1, <2>2 DEF Following
<1>11. Counting
  <2>1. OneChange
    BY <1>3, <1>8 DEF OneChange
  <2>2. ASSUME NEW f \in File, NEW k \in 1 .. MaxLength
        PROVE  passed[f][k] = 0 /\ visits[f] \in {0, 1} /\ (f = at => visits[f] = 1) /\ f # fp
    <3>1. passed[f] = [j \in 1 .. MaxLength |-> 0]
      BY <1>1
    <3> QED  BY <1>1, <3>1, FileAssumption
  <2>3. AtMostOnce /\ Counts
    BY <2>2 DEF AtMostOnce, Counts
  <2> QED  BY <2>1, <2>3 DEF Counting
<1> QED  BY <1>9, <1>10, <1>11 DEF Invariant

LEMMA NextInvariant ==
  ASSUME Invariant, [Next]_vars
  PROVE  Invariant'
<1>1. CASE Watcher
  BY <1>1, WatchDirKeeps, FOpenKeeps, AddWatchKeeps, SeekEndKeeps, ReadAfterOpenKeeps,
     ReadEventsKeeps, HandleFileEventKeeps, HandleDirEventKeeps, IgnoreEventKeeps, EndBatchKeeps
     DEF Watcher
<1>2. CASE Others
  BY <1>2, ChangeKeeps, ForgetKeeps, WriteKeeps, VanishKeeps DEF Others, Change
<1>3. CASE Fail \/ UNCHANGED vars
  BY <1>3, RestKeeps
<1> QED  BY <1>1, <1>2, <1>3 DEF Next

LEMMA InvariantHolds == Spec => []Invariant
BY InitInvariant, NextInvariant, PTL DEF Spec

\* The variables of the watcher, of the kernel and of the files have their
\* types, the queue and the buffer of work() within their sizes.
THEOREM InotifyTypes == Spec => []TypeOK
<1>1. Invariant => TypeOK
  BY DEF Invariant, Base
<1> QED  BY <1>1, InvariantHolds, PTL

\* Wherever the directory changed while the watcher was between two of its
\* system calls, after the last event is handled openFile() has the file at
\* path open and watched, and readLines() has read all of it.
THEOREM InotifySettles == Spec => []Settled
<1>1. Invariant => Settled
  <2> SUFFICES ASSUME Invariant, pc = "idle", queue = <<>>, ~overflowed, at # None
               PROVE  Follows(at) /\ pos = Len(content[at])
    BY DEF Settled
  <2>1. Running
    BY DEF Running, Stopped
  <2>2. Phases /\ Tracked
    BY <2>1 DEF Invariant, Base, Following
  <2>3. Pending = <<>> /\ Len(Pending) = 0
    <3>1. batch = <<>>
      BY <2>2 DEF Phases
    <3> QED  BY <3>1 DEF Pending
  <2>4. ~DirPending /\ ~ReadFirst
    BY <2>3 DEF DirPending, DirWithin, ReadFirst, BeforeRead
  <2> QED  BY <2>2, <2>4 DEF Tracked
<1> QED  BY <1>1, InvariantHolds, PTL

\* When the daemon ends, what was read is left as it is.
LEMMA Ends ==
  ASSUME [Next]_vars, ~Running'
  PROVE  UNCHANGED <<fp, overflowed, owed, late, skipped, passed>>
<1>1. CASE Others
  <2>1. Running /\ pc' = pc
    BY <1>1 DEF Others, Create, MoveIn, MoveAway, Unlink, Vanish, Forget, Write, Move
  <2> QED  BY <2>1 DEF Running
<1>2. CASE Fail \/ UNCHANGED vars
  BY <1>2 DEF Fail, vars, files, events, reader
<1>3. CASE AddWatch
  BY <1>3 DEF AddWatch, files, events, reader
<1>4. CASE HandleFileEvent
  <2>1. fp = None
    BY <1>4 DEF HandleFileEvent, Running, Stopped
  <2> QED  BY <1>4, <2>1 DEF HandleFileEvent, files, events, reader
<1>5. CASE Watcher /\ ~AddWatch /\ ~HandleFileEvent
  BY <1>5 DEF Watcher, WatchDir, FOpen, SeekEnd, ReadAfterOpen, ReadEvents, HandleDirEvent,
              IgnoreEvent, EndBatch, Running, Stopped
<1> QED  BY <1>1, <1>2, <1>3, <1>4, <1>5 DEF Next

\* A file that the watcher followed when it left path is closed only after
\* all it held then went to processLine(), if no event of the directory was
\* late and none was lost.
THEOREM InotifyKeepsUp == Spec => []KeptUpUnlessLate
<1>1. Invariant /\ Running => KeptUpUnlessLate
  BY DEF Invariant, Following, Owed, KeptUpUnlessLate
<1>2. Init => KeptUpUnlessLate
  BY <1>1, InitInvariant DEF Init, Running, Stopped
<1>3. KeptUpUnlessLate /\ Invariant /\ Invariant' /\ [Next]_vars => KeptUpUnlessLate'
  <2> SUFFICES ASSUME KeptUpUnlessLate, Invariant', [Next]_vars PROVE KeptUpUnlessLate'
    OBVIOUS
  <2>1. CASE Running'
    BY <2>1 DEF Invariant, Following, Owed, KeptUpUnlessLate
  <2>2. CASE ~Running'
    BY <2>2, Ends DEF KeptUpUnlessLate
  <2> QED  BY <2>1, <2>2
<1> QED  BY <1>2, <1>3, InvariantHolds, PTL DEF Spec

\* What is handed to processLine() is lines of one file each, whatever is
\* closed in mid-line.
THEOREM InotifyLinesWhole == Spec => []LinesWhole
<1>1. Invariant => LinesWhole
  BY DEF Invariant, Base
<1> QED  BY <1>1, InvariantHolds, PTL

\* A file is handed over at most once for each time it came to path, if each
\* change of the directory found the last one handled.
THEOREM InotifyAtMostOnce == Spec => []AtMostOnceIfCalm
<1>1. Invariant => AtMostOnceIfCalm
  BY DEF Invariant, Counting, Shown, AtMostOnceIfCalm
<1> QED  BY <1>1, InvariantHolds, PTL

\* work() uses the null FILE pointer only if the kernel's queue overflowed.
THEOREM InotifyCrashes == Spec => []CrashNeedsOverflow
<1>1. Invariant => CrashNeedsOverflow
  BY DEF Invariant, Base
<1> QED  BY <1>1, InvariantHolds, PTL
=============================================================================
