--------------------------- MODULE DetectorProofs ---------------------------
(***************************************************************************)
(* Theorems about the detector, for every set of addresses, lines,         *)
(* patterns and configurations and for every bound.                        *)
(*                                                                         *)
(* The properties of Detector are not inductive alone: that the loop over  *)
(* the FRONT of the deque removes every old time needs the times to be in  *)
(* order (Ordered), and that no attempt is missing from the window needs   *)
(* to know what was dropped earlier (DequeIsRecentHistory).                *)
(***************************************************************************)
EXTENDS Detector, SequenceTheorems, FiniteSetTheorems, TLAPS

\* Between two lines the loop index is back at its start.
Idle == line = NoLine => i = 1

\* Until the clock is set back, attempts are recorded in order of time.
Ordered ==
  ~stepped =>
    \A a \in Addr :
      /\ \A j \in 1 .. Len(hist[a]) : hist[a][j] <= now
      /\ \A j, k \in 1 .. Len(hist[a]) : j <= k => hist[a][j] <= hist[a][k]

IInv == TypeOK /\ Idle /\ Ordered /\ DequeIsRecentHistory

\* What the loop and push_back leave in the deque.
LEMMA CountedProperties ==
  ASSUME NEW s \in Seq(Int), NEW k \in 0 .. Len(s), now \in Int
  PROVE  /\ Counted(s, k) \in Seq(Int)
         /\ Len(Counted(s, k)) = Len(s) - k + 1
         /\ \A j \in 1 .. Len(s) - k : Counted(s, k)[j] = s[k + j]
         /\ Counted(s, k)[Len(s) - k + 1] = now
<1> DEFINE kept == SubSeq(s, k + 1, Len(s))
<1>1. \A j \in k + 1 .. Len(s) : s[j] \in Int
  OBVIOUS
<1>2. /\ kept \in Seq(Int)
      /\ Len(kept) = Len(s) - k
      /\ \A j \in 1 .. Len(s) - k : kept[j] = s[k + j]
  <2>1. /\ kept \in Seq(Int)
        /\ Len(kept) = IF k + 1 <= Len(s) THEN Len(s) - (k + 1) + 1 ELSE 0
        /\ \A j \in 1 .. Len(s) - (k + 1) + 1 : kept[j] = s[(k + 1) + j - 1]
    BY <1>1, SubSeqProperties
  <2> QED
    BY <2>1
<1> HIDE DEF kept
<1>3. Counted(s, k) = Append(kept, now)
  BY DEF Counted, kept
<1> QED
  BY <1>2, <1>3

\* A configuration has usable numbers.
LEMMA ConfigType ==
  ASSUME NEW c \in Config
  PROVE  /\ c.rate_interval \in Nat \ {0}
         /\ c.rate_max \in Nat \ {0}
         /\ c.exempted \subseteq Addr
         /\ c.patterns \in Seq(Pattern)
         /\ Len(c.patterns) \in Nat
BY ConfigAssumption DEF ConfigRecord

\* What a process starts with is well typed.
LEMMA FreshType ==
  /\ NoData \in [Addr -> AddressData]
  /\ NoHist \in [Addr -> Seq(Int)]
  /\ Zero \in [Addr -> Nat]
<1>1. <<>> \in Seq(Int)
  BY EmptySeq
<1>2. [times |-> <<>>, blocked |-> FALSE] \in AddressData
  BY <1>1 DEF AddressData
<1>3. NoData \in [Addr -> AddressData]
  BY <1>2 DEF NoData
<1>4. NoHist \in [Addr -> Seq(Int)]
  BY <1>1 DEF NoHist
<1>5. Zero \in [Addr -> Nat]
  BY DEF Zero
<1> QED
  BY <1>3, <1>4, <1>5

\* Every step keeps the variables in their types.
LEMMA TypeStep == TypeOK /\ Idle /\ [Next]_vars => TypeOK' /\ Idle'
<1> SUFFICES ASSUME TypeOK, Idle, [Next]_vars
             PROVE  TypeOK' /\ Idle'
  OBVIOUS
<1> USE LineAssumption, BoundAssumption DEF TypeOK, Idle
<1>0. Len(config.patterns) \in Nat
  BY ConfigType
<1>1. ASSUME NEW l \in Line, BeginLine(l) PROVE TypeOK' /\ Idle'
  BY <1>0, <1>1 DEF BeginLine, ghosts
<1>2. CASE Skip
  BY <1>0, <1>2 DEF Skip, Matching, ghosts
<1>3. ASSUME NEW a \in Addr, Detect(a) PROVE TypeOK' /\ Idle'
  <2>1. PICK k \in 0 .. Len(addressData[a].times) :
          LET times == Counted(addressData[a].times, k) IN
          IF Len(times) > config.rate_max THEN BlockAddress(a, times)
                                          ELSE NoBlock(a, times)
    BY <1>3 DEF Detect, Exceeds
  <2> DEFINE times == Counted(addressData[a].times, k)
  <2>2. times \in Seq(Int)
    BY CountedProperties DEF AddressData
  <2>3. /\ addressData' \in [Addr -> AddressData]
        /\ installed' \in [Addr -> Nat]
        /\ failures' \in [Addr -> Nat]
        /\ status' \in {"running", "exited", "aborted"}
    <3> HIDE DEF times
    <3>1. CASE BlockAddress(a, times)
      <4>1. PICK verdict \in Verdicts(config.block) :
              /\ Install(a, verdict)
              /\ addressData' = [addressData EXCEPT ![a] =
                    [times |-> times, blocked |-> verdict = "blocked"]]
              /\ status' = IF verdict = "threw" THEN "exited" ELSE status
        BY <3>1 DEF BlockAddress
      <4>2. PICK left \in {0, 1} : installed' = [installed EXCEPT ![a] = @ + left]
        BY <4>1 DEF Install
      <4>3. failures' = [failures EXCEPT ![a] = @ + IF verdict = "blocked" THEN 0 ELSE 1]
        BY <4>1 DEF Install
      <4>4. (verdict = "blocked") \in BOOLEAN
        OBVIOUS
      <4>5. [times |-> times, blocked |-> verdict = "blocked"] \in AddressData
        BY <2>2, <4>4 DEF AddressData
      <4> QED
        BY <4>1, <4>2, <4>3, <4>5
    <3>2. CASE NoBlock(a, times)
      <4> QED
        BY <2>2, <3>2 DEF NoBlock, AddressData
    <3> QED
      BY <2>1, <3>1, <3>2 DEF times
  <2>4. hist' \in [Addr -> Seq(Int)]
    BY <1>3 DEF Detect
  <2>5. /\ i \in Nat /\ i <= Len(config.patterns) /\ i' = i + 1
        /\ line # NoLine /\ line' = line /\ now' = now /\ config' = config
        /\ stepped' = stepped /\ widened' = widened
    BY <1>0, <1>3 DEF Detect, Matching
  <2>6. i' \in 1 .. Len(config'.patterns) + 1
    BY <1>0, <2>5
  <2> HIDE DEF times
  <2> QED
    BY <2>3, <2>4, <2>5, <2>6
<1>4. CASE BadCapture
  BY <1>4 DEF BadCapture, ghosts
<1>5. CASE EndLine
  BY <1>0, <1>5 DEF EndLine, ghosts
<1>6. CASE Tick
  BY <1>6 DEF Tick, process, ghosts
<1>7. CASE SetBack
  BY <1>7 DEF SetBack, process, ghosts
<1>8. ASSUME NEW c \in Config, Reload(c) PROVE TypeOK' /\ Idle'
  BY <1>8, ConfigType DEF Reload, process
<1>9. CASE Kill
  BY <1>9 DEF Kill, ghosts
<1>10. ASSUME NEW c \in Config, Restart(c) PROVE TypeOK' /\ Idle'
  <2>1. config' = c /\ Len(c.patterns) \in Nat
    BY <1>10, ConfigType DEF Restart
  <2>2. 1 \in 1 .. Len(config'.patterns) + 1
    BY <2>1
  <2> QED
    BY <1>10, <2>1, <2>2, FreshType DEF Restart
<1>11. CASE UNCHANGED vars
  BY <1>11 DEF vars, process, ghosts
<1> QED
  BY <1>1, <1>2, <1>3, <1>4, <1>5, <1>6, <1>7, <1>8, <1>9, <1>10, <1>11 DEF Next

LEMMA TypeInit == Init => TypeOK /\ Idle
<1> SUFFICES ASSUME Init PROVE TypeOK /\ Idle
  OBVIOUS
<1>1. config \in Config /\ Len(config.patterns) \in Nat
  BY ConfigType DEF Init
<1>2. 1 \in 1 .. Len(config.patterns) + 1
  BY <1>1
<1>3. /\ addressData \in [Addr -> AddressData]
      /\ installed \in [Addr -> Nat]
      /\ hist \in [Addr -> Seq(Int)]
      /\ failures \in [Addr -> Nat]
  BY FreshType DEF Init
<1>4. /\ now \in 0 .. MaxTime
      /\ line = NoLine /\ i = 1 /\ status = "running"
      /\ stepped = FALSE /\ widened = FALSE
  BY BoundAssumption DEF Init
<1> QED
  BY <1>1, <1>2, <1>3, <1>4 DEF TypeOK, Idle

\* The state of BlockingWatcher stays well typed: in particular processLine's
\* index never runs past the patterns of the configuration it started with.
THEOREM TypeCorrect == Spec => []TypeOK
<1>1. Spec => [](TypeOK /\ Idle)
  BY TypeInit, TypeStep, PTL DEF Spec
<1> QED
  BY <1>1, PTL
-----------------------------------------------------------------------------
\* What one counted attempt does to the address's deque and history.
LEMMA DetectEffect ==
  ASSUME TypeOK, NEW a \in Addr, Detect(a)
  PROVE  \E k \in 0 .. Len(addressData[a].times) :
           LET s == addressData[a].times
               t == addressData'[a].times
               h == hist'[a]
           IN  /\ PopsOld(s, now - config.rate_interval, k)
               /\ t = Counted(s, k)
               /\ Len(t) = Len(s) - k + 1
               /\ \A j \in 1 .. Len(s) - k : t[j] = s[k + j]
               /\ t[Len(s) - k + 1] = now
               /\ h = Append(hist[a], now)
               /\ Len(h) = Len(hist[a]) + 1
               /\ \A j \in 1 .. Len(hist[a]) : h[j] = hist[a][j]
               /\ h[Len(hist[a]) + 1] = now
               /\ IF Len(t) > config.rate_max THEN BlockAddress(a, t)
                                              ELSE NoBlock(a, t)
               /\ \A b \in Addr \ {a} : addressData'[b] = addressData[b]
                                        /\ hist'[b] = hist[b]
<1> DEFINE s == addressData[a].times
<1>1. PICK k \in 0 .. Len(s) :
        /\ PopsOld(s, now - config.rate_interval, k)
        /\ IF Len(Counted(s, k)) > config.rate_max THEN BlockAddress(a, Counted(s, k))
                                                   ELSE NoBlock(a, Counted(s, k))
  BY DEF Detect, Exceeds
<1>2. /\ s \in Seq(Int) /\ now \in Int /\ a \in DOMAIN addressData
      /\ hist \in [Addr -> Seq(Int)] /\ addressData \in [Addr -> AddressData]
  BY DEF TypeOK, AddressData
<1>3. hist' = [hist EXCEPT ![a] = Append(@, now)]
  BY DEF Detect
<1>4. /\ addressData'[a].times = Counted(s, k)
      /\ \A b \in Addr \ {a} : addressData'[b] = addressData[b]
  <2> DEFINE times == Counted(s, k)
  <2> HIDE DEF times
  <2>1. /\ addressData'[a].times = times
        /\ \A b \in Addr \ {a} : addressData'[b] = addressData[b]
    <3>1. CASE BlockAddress(a, times)
      <4>1. PICK f : addressData' = [addressData EXCEPT ![a] = [times |-> times, blocked |-> f]]
        BY <3>1 DEF BlockAddress
      <4> QED
        BY <1>2, <4>1
    <3>2. CASE NoBlock(a, times)
      BY <1>2, <3>2 DEF NoBlock, AddressData
    <3> QED
      BY <1>1, <3>1, <3>2 DEF times
  <2> QED
    BY <2>1 DEF times
<1>5. /\ Len(Counted(s, k)) = Len(s) - k + 1
      /\ \A j \in 1 .. Len(s) - k : Counted(s, k)[j] = s[k + j]
      /\ Counted(s, k)[Len(s) - k + 1] = now
  BY <1>2, CountedProperties
<1>6. /\ hist'[a] = Append(hist[a], now)
      /\ Len(hist'[a]) = Len(hist[a]) + 1
      /\ \A j \in 1 .. Len(hist[a]) : hist'[a][j] = hist[a][j]
      /\ hist'[a][Len(hist[a]) + 1] = now
      /\ \A b \in Addr \ {a} : hist'[b] = hist[b]
  BY <1>2, <1>3
<1> HIDE DEF s
<1> QED
  BY <1>1, <1>4, <1>5, <1>6 DEF s

\* An attempt is recorded last and at the latest time.
LEMMA OrderedStep == IInv /\ [Next]_vars => Ordered'
<1> SUFFICES ASSUME IInv, [Next]_vars
             PROVE  Ordered'
  OBVIOUS
<1> USE DEF IInv
<1>1. ASSUME NEW a \in Addr, Detect(a), ~stepped' PROVE Ordered'
  <2>1. ~stepped /\ now' = now /\ now \in Int /\ hist \in [Addr -> Seq(Int)]
    BY <1>1 DEF Detect, TypeOK
  <2>2. /\ Len(hist'[a]) = Len(hist[a]) + 1
        /\ \A j \in 1 .. Len(hist[a]) : hist'[a][j] = hist[a][j]
        /\ hist'[a][Len(hist[a]) + 1] = now
        /\ \A b \in Addr \ {a} : hist'[b] = hist[b]
    BY <1>1, DetectEffect
  <2>3. ASSUME NEW b \in Addr
        PROVE  /\ \A j \in 1 .. Len(hist'[b]) : hist'[b][j] <= now
               /\ \A j, k \in 1 .. Len(hist'[b]) : j <= k => hist'[b][j] <= hist'[b][k]
    <3>1. /\ \A j \in 1 .. Len(hist[b]) : hist[b][j] <= now
          /\ \A j, k \in 1 .. Len(hist[b]) : j <= k => hist[b][j] <= hist[b][k]
      BY <2>1 DEF Ordered
    <3>2. CASE b # a
      BY <2>2, <3>1, <3>2
    <3>3. CASE b = a
      <4> DEFINE n == Len(hist[a])
      <4>1. n \in Nat /\ \A j \in 1 .. n : hist[a][j] \in Int
        BY <2>1
      <4>2. /\ Len(hist'[a]) = n + 1 /\ hist'[a][n + 1] = now
            /\ \A j \in 1 .. n : hist'[a][j] = hist[a][j] /\ hist[a][j] <= now
            /\ \A j, k \in 1 .. n : j <= k => hist[a][j] <= hist[a][k]
        BY <2>2, <3>1, <3>3
      <4> HIDE DEF n
      <4>3. \A j \in 1 .. n + 1 : j \in 1 .. n \/ j = n + 1
        BY <4>1
      <4>4. \A j \in 1 .. n + 1 : hist'[a][j] <= now
        BY <2>1, <4>2, <4>3
      <4>5. ASSUME NEW j \in 1 .. n + 1, NEW k \in 1 .. n + 1, j <= k
            PROVE  hist'[a][j] <= hist'[a][k]
        <5>1. CASE k = n + 1
          BY <4>2, <4>4, <5>1
        <5>2. CASE k \in 1 .. n
          BY <4>1, <4>2, <4>5, <5>2
        <5> QED
          BY <4>3, <5>1, <5>2
      <4> QED
        BY <3>3, <4>2, <4>4, <4>5
    <3> QED
      BY <3>2, <3>3
  <2> QED
    BY <2>1, <2>3 DEF Ordered
<1>2. CASE Tick
  <2>1. now' = now + 1 /\ hist' = hist /\ stepped' = stepped /\ now \in Int
    BY <1>2 DEF Tick, ghosts, TypeOK
  <2>2. hist \in [Addr -> Seq(Int)]
    BY DEF TypeOK
  <2> QED
    BY <2>1, <2>2 DEF Ordered
<1>3. CASE SetBack
  BY <1>3 DEF SetBack, Ordered
<1>4. ASSUME NEW c \in Config, Restart(c) PROVE Ordered'
  BY <1>4 DEF Restart, Ordered, NoHist
<1>5. CASE hist' = hist /\ now' = now /\ stepped' = stepped
  BY <1>5 DEF Ordered
<1> QED
  BY <1>1, <1>2, <1>3, <1>4, <1>5 DEF Next, BeginLine, Skip, Detect, BadCapture,
     EndLine, Reload, Kill, Ordered, vars, process, ghosts

\* An attempt out of the window stays out of any later or shorter one.
LEMMA ForgottenForGood ==
  ASSUME NEW s \in Seq(Int), NEW h \in Seq(Int), NEW c \in Int, NEW d \in Int,
         c <= d, ForgottenBefore(s, h, c)
  PROVE  ForgottenBefore(s, h, d)
BY DEF ForgottenBefore

\* Popping k times older than the cutoff and appending to both sides.
LEMMA PopAndPush ==
  ASSUME NEW s \in Seq(Int), NEW t \in Seq(Int), NEW g \in Seq(Int), NEW h \in Seq(Int),
         NEW k \in 0 .. Len(s), NEW cut \in Int,
         IsTailOf(s, g),
         \A j \in 1 .. k : s[j] < cut,
         Len(t) = Len(s) - k + 1,
         \A j \in 1 .. Len(s) - k : t[j] = s[k + j],
         Len(h) = Len(g) + 1,
         \A j \in 1 .. Len(g) : h[j] = g[j],
         t[Len(s) - k + 1] = h[Len(g) + 1]
  PROVE  /\ IsTailOf(t, h)
         /\ ForgottenBefore(s, g, cut) => ForgottenBefore(t, h, cut)
<1> USE DEF IsTailOf
<1>1. Len(s) \in Nat /\ Len(g) \in Nat /\ Len(s) <= Len(g) /\ k \in Nat /\ k <= Len(s)
  OBVIOUS
<1>2. Len(h) - Len(t) = Len(g) - Len(s) + k
  BY <1>1
<1>3. ASSUME NEW j \in 1 .. Len(t) PROVE t[j] = h[(Len(h) - Len(t)) + j]
  <2>1. CASE j = Len(s) - k + 1
    BY <1>1, <1>2, <2>1
  <2>2. CASE j \in 1 .. Len(s) - k
    <3>1. t[j] = s[k + j] /\ k + j \in 1 .. Len(s)
      BY <1>1, <2>2
    <3>2. s[k + j] = g[(Len(g) - Len(s)) + (k + j)]
      BY <3>1
    <3>3. (Len(g) - Len(s)) + (k + j) \in 1 .. Len(g)
      BY <1>1, <3>1
    <3>4. (Len(h) - Len(t)) + j = (Len(g) - Len(s)) + (k + j)
      BY <1>1, <1>2
    <3> QED
      BY <3>1, <3>2, <3>3, <3>4
  <2> QED
    BY <1>1, <2>1, <2>2
<1>4. ASSUME ForgottenBefore(s, g, cut), NEW j \in 1 .. Len(h) - Len(t)
      PROVE  h[j] < cut
  <2>0. j \in 1 .. Len(g) - Len(s) + k
    BY <1>2
  <2>a. j \in 1 .. Len(g)
    BY <1>1, <2>0
  <2>1. j \in 1 .. Len(g) /\ h[j] = g[j]
    BY <2>a
  <2>2. CASE j <= Len(g) - Len(s)
    <3>1. j \in 1 .. Len(g) - Len(s)
      BY <1>1, <2>1, <2>2
    <3> QED
      BY <1>4, <2>1, <3>1 DEF ForgottenBefore
  <2>3. CASE j > Len(g) - Len(s)
    <3>1. PICK m \in 1 .. k : j = (Len(g) - Len(s)) + m
      <4>1. j - (Len(g) - Len(s)) \in 1 .. k
        BY <1>1, <2>0, <2>1, <2>3
      <4>2. j = (Len(g) - Len(s)) + (j - (Len(g) - Len(s)))
        BY <1>1, <2>1
      <4> QED
        BY <4>1, <4>2
    <3>2. m \in 1 .. Len(s)
      BY <1>1, <3>1
    <3>3. s[m] = g[(Len(g) - Len(s)) + m] /\ s[m] < cut
      BY <3>2
    <3> QED
      BY <2>1, <3>1, <3>3
  <2> QED
    BY <1>1, <2>2, <2>3
<1> QED
  BY <1>1, <1>2, <1>3, <1>4 DEF ForgottenBefore

\* Whatever is popped is out of the window for good, unless the clock is set
\* back or the interval enlarged; what remains is the tail of the history.
LEMMA RecentStep == IInv /\ [Next]_vars => DequeIsRecentHistory'
<1> SUFFICES ASSUME IInv, [Next]_vars
             PROVE  DequeIsRecentHistory'
  OBVIOUS
<1> DEFINE cut == now - config.rate_interval
<1>0. /\ now \in Int /\ hist \in [Addr -> Seq(Int)]
      /\ addressData \in [Addr -> AddressData]
      /\ config.rate_interval \in Nat
      /\ \A a \in Addr : addressData[a].times \in Seq(Int)
      /\ stepped \in BOOLEAN /\ widened \in BOOLEAN
      /\ cut \in Int
  BY ConfigType DEF IInv, TypeOK, AddressData
<1>d. DequeIsRecentHistory
  BY DEF IInv
<1>1. ASSUME NEW a \in Addr, Detect(a) PROVE DequeIsRecentHistory'
  <2>1. PICK k \in 0 .. Len(addressData[a].times) :
          LET s == addressData[a].times
              t == addressData'[a].times
              h == hist'[a]
          IN  /\ PopsOld(s, now - config.rate_interval, k)
              /\ t = Counted(s, k)
              /\ Len(t) = Len(s) - k + 1
              /\ \A j \in 1 .. Len(s) - k : t[j] = s[k + j]
              /\ t[Len(s) - k + 1] = now
              /\ h = Append(hist[a], now)
              /\ Len(h) = Len(hist[a]) + 1
              /\ \A j \in 1 .. Len(hist[a]) : h[j] = hist[a][j]
              /\ h[Len(hist[a]) + 1] = now
              /\ \A b \in Addr \ {a} : addressData'[b] = addressData[b]
                                       /\ hist'[b] = hist[b]
    BY <1>1, DetectEffect DEF IInv
  <2>2. /\ now' = now /\ config' = config
        /\ stepped' = stepped /\ widened' = widened
    BY <1>1 DEF Detect
  <2>3. /\ addressData'[a].times \in Seq(Int)
        /\ hist'[a] \in Seq(Int)
    BY <1>0, <2>1, CountedProperties
  <2>4. \A j \in 1 .. k : addressData[a].times[j] < cut
    BY <2>1 DEF PopsOld
  <2> HIDE DEF cut
  <2>5. /\ IsTailOf(addressData'[a].times, hist'[a])
        /\ ForgottenBefore(addressData[a].times, hist[a], cut)
             => ForgottenBefore(addressData'[a].times, hist'[a], cut)
    <3> DEFINE s == addressData[a].times
               t == addressData'[a].times
               g == hist[a]
               h == hist'[a]
    <3>1. /\ s \in Seq(Int) /\ t \in Seq(Int) /\ g \in Seq(Int) /\ h \in Seq(Int)
          /\ IsTailOf(s, g) /\ cut \in Int
      BY <1>0, <1>d, <2>3 DEF DequeIsRecentHistory
    <3>2. /\ k \in 0 .. Len(s)
          /\ \A j \in 1 .. k : s[j] < cut
          /\ Len(t) = Len(s) - k + 1
          /\ \A j \in 1 .. Len(s) - k : t[j] = s[k + j]
          /\ Len(h) = Len(g) + 1
          /\ \A j \in 1 .. Len(g) : h[j] = g[j]
          /\ t[Len(s) - k + 1] = h[Len(g) + 1]
      BY <2>1, <2>4
    <3> HIDE DEF s, t, g, h
    <3>3. /\ IsTailOf(t, h)
          /\ ForgottenBefore(s, g, cut) => ForgottenBefore(t, h, cut)
      BY <3>1, <3>2, PopAndPush
    <3> QED
      BY <3>3 DEF s, t, g, h
  <2>6. ASSUME NEW b \in Addr
        PROVE  /\ IsTailOf(addressData'[b].times, hist'[b])
               /\ ~stepped /\ ~widened => ForgottenBefore(addressData'[b].times, hist'[b], cut)
    BY <1>d, <2>1, <2>5 DEF DequeIsRecentHistory, cut
  <2> QED
    BY <2>2, <2>6 DEF DequeIsRecentHistory, cut
<1>2. CASE Tick
  <2>1. /\ addressData' = addressData /\ hist' = hist /\ config' = config
        /\ stepped' = stepped /\ widened' = widened /\ now' = now + 1
    BY <1>2 DEF Tick, process, ghosts
  <2>2. cut <= now' - config'.rate_interval /\ now' - config'.rate_interval \in Int
    BY <1>0, <2>1
  <2> HIDE DEF cut
  <2>3. ASSUME NEW a \in Addr, ForgottenBefore(addressData[a].times, hist[a], cut)
        PROVE  ForgottenBefore(addressData[a].times, hist[a], now' - config'.rate_interval)
    BY <1>0, <2>2, <2>3, ForgottenForGood
  <2> QED
    BY <1>d, <2>1, <2>3 DEF DequeIsRecentHistory, cut
<1>3. CASE SetBack
  BY <1>d, <1>3 DEF SetBack, process, DequeIsRecentHistory
<1>4. ASSUME NEW c \in Config, Reload(c) PROVE DequeIsRecentHistory'
  <2>1. /\ addressData' = addressData /\ hist' = hist /\ config' = c
        /\ stepped' = stepped /\ now' = now
        /\ widened' = (widened \/ c.rate_interval > config.rate_interval)
        /\ c.rate_interval \in Nat
    BY <1>4, ConfigType DEF Reload, process
  <2>2. now' - config'.rate_interval \in Int
    BY <1>0, <2>1
  <2>3. ~widened' => ~widened /\ ~(c.rate_interval > config.rate_interval)
    BY <1>0, <2>1
  <2>4. ~(c.rate_interval > config.rate_interval) => cut <= now' - config'.rate_interval
    BY <1>0, <2>1
  <2> HIDE DEF cut
  <2>5. ASSUME NEW a \in Addr, ~widened', ForgottenBefore(addressData[a].times, hist[a], cut)
        PROVE  ForgottenBefore(addressData[a].times, hist[a], now' - config'.rate_interval)
    BY <1>0, <2>2, <2>3, <2>4, <2>5, ForgottenForGood
  <2>6. ASSUME NEW a \in Addr
        PROVE  /\ IsTailOf(addressData[a].times, hist[a])
               /\ ~stepped /\ ~widened => ForgottenBefore(addressData[a].times, hist[a], cut)
    BY <1>d DEF DequeIsRecentHistory, cut
  <2> QED
    BY <2>1, <2>3, <2>5, <2>6 DEF DequeIsRecentHistory
<1>5. ASSUME NEW c \in Config, Restart(c) PROVE DequeIsRecentHistory'
  BY <1>5 DEF Restart, NoData, NoHist, DequeIsRecentHistory, IsTailOf, ForgottenBefore
<1>6. CASE UNCHANGED <<hist, addressData, now, config, stepped, widened>>
  BY <1>d, <1>6 DEF DequeIsRecentHistory
<1> QED
  BY <1>1, <1>2, <1>3, <1>4, <1>5, <1>6 DEF Next, BeginLine, Skip, BadCapture,
     EndLine, Kill, vars, process, ghosts

LEMMA IInvInit == Init => IInv
<1>1. Init => Ordered /\ DequeIsRecentHistory
  BY DEF Init, Ordered, DequeIsRecentHistory, IsTailOf, ForgottenBefore, NoHist, NoData
<1> QED
  BY <1>1, TypeInit DEF IInv

LEMMA IInvStep == IInv /\ [Next]_vars => IInv'
BY TypeStep, OrderedStep, RecentStep DEF IInv

THEOREM InductiveInvariant == Spec => []IInv
BY IInvInit, IInvStep, PTL DEF Spec

\* The deque of detectedAddress() always holds the latest attempts, and with
\* a clock that only advances and an interval no reload enlarged it lacks
\* none that counts.
THEOREM DequeCorrect == Spec => []DequeIsRecentHistory
<1>1. IInv => DequeIsRecentHistory
  BY DEF IInv
<1> QED
  BY <1>1, InductiveInvariant, PTL
-----------------------------------------------------------------------------
\* What a counted attempt does to the entries, the failures and the flag.
LEMMA VerdictEffect ==
  ASSUME TypeOK, NEW a \in Addr, Detect(a)
  PROVE  /\ ~addressData[a].blocked
         /\ \A b \in Addr \ {a} : /\ installed'[b] = installed[b]
                                  /\ failures'[b] = failures[b]
                                  /\ addressData'[b] = addressData[b]
         /\ \/ /\ addressData'[a].blocked
               /\ installed'[a] = installed[a] + 1 /\ failures'[a] = failures[a]
            \/ /\ ~addressData'[a].blocked
               /\ installed'[a] \in installed[a] .. installed[a] + 1
               /\ failures'[a] = failures[a] + 1
            \/ /\ ~addressData'[a].blocked
               /\ installed'[a] = installed[a] /\ failures'[a] = failures[a]
               /\ Len(addressData'[a].times) <= config.rate_max
         /\ Len(addressData'[a].times) <= Len(addressData[a].times) + 1
<1>1. PICK k \in 0 .. Len(addressData[a].times) :
        /\ Len(addressData'[a].times) = Len(addressData[a].times) - k + 1
        /\ \A b \in Addr \ {a} : addressData'[b] = addressData[b]
        /\ LET t == addressData'[a].times IN
           IF Len(t) > config.rate_max THEN BlockAddress(a, t) ELSE NoBlock(a, t)
  BY DetectEffect
<1> DEFINE t == addressData'[a].times
<1> HIDE DEF t
<1>2. /\ installed \in [Addr -> Nat] /\ failures \in [Addr -> Nat]
      /\ addressData \in [Addr -> AddressData]
      /\ config.rate_max \in Nat /\ Len(addressData[a].times) \in Nat
  BY ConfigType DEF TypeOK, AddressData
<1>3. ~addressData[a].blocked
  BY DEF Detect
<1>4. Len(t) \in Nat /\ Len(t) <= Len(addressData[a].times) + 1
  BY <1>1, <1>2 DEF t
<1>5. CASE Len(t) > config.rate_max
  <2>1. PICK verdict \in Verdicts(config.block) :
          /\ Install(a, verdict)
          /\ addressData' = [addressData EXCEPT ![a] = [times |-> t, blocked |-> verdict = "blocked"]]
    BY <1>1, <1>5 DEF BlockAddress, t
  <2>2. PICK left \in {0, 1} :
          /\ verdict = "blocked" => left = 1
          /\ installed' = [installed EXCEPT ![a] = @ + left]
          /\ failures' = [failures EXCEPT ![a] = @ + IF verdict = "blocked" THEN 0 ELSE 1]
    BY <2>1 DEF Install
  <2>3. addressData'[a].blocked <=> verdict = "blocked"
    BY <1>2, <2>1
  <2>4. /\ installed'[a] = installed[a] + left
        /\ failures'[a] = failures[a] + IF verdict = "blocked" THEN 0 ELSE 1
        /\ \A b \in Addr \ {a} : /\ installed'[b] = installed[b]
                                 /\ failures'[b] = failures[b]
        /\ installed[a] \in Nat /\ failures[a] \in Nat
    BY <1>2, <2>2
  <2>5. CASE verdict = "blocked"
    BY <1>1, <1>3, <1>4, <2>2, <2>3, <2>4, <2>5 DEF t
  <2>6. CASE verdict # "blocked"
    BY <1>1, <1>3, <1>4, <2>2, <2>3, <2>4, <2>6 DEF t
  <2> QED
    BY <2>5, <2>6
<1>6. CASE ~(Len(t) > config.rate_max)
  <2>1. /\ addressData' = [addressData EXCEPT ![a].times = t]
        /\ installed' = installed /\ failures' = failures
    BY <1>1, <1>6 DEF NoBlock, t
  <2>2. ~addressData'[a].blocked
    BY <1>2, <1>3, <2>1 DEF AddressData
  <2>3. Len(t) <= config.rate_max
    BY <1>2, <1>4, <1>6
  <2> QED
    BY <1>1, <1>3, <1>4, <2>1, <2>2, <2>3 DEF t
<1> QED
  BY <1>5, <1>6

\* The two facts about entries and memory are inductive beside the types.
LEMMA EntriesStep ==
  TypeOK /\ OneEntryPerAddress /\ DequeBounded /\ [Next]_vars
    => OneEntryPerAddress' /\ DequeBounded'
<1> SUFFICES ASSUME TypeOK, OneEntryPerAddress, DequeBounded, [Next]_vars
             PROVE  OneEntryPerAddress' /\ DequeBounded'
  OBVIOUS
<1>0. /\ installed \in [Addr -> Nat] /\ failures \in [Addr -> Nat]
      /\ config \in Config
      /\ \A c \in Config : c.rate_max \in Nat
      /\ \A a \in Addr : Len(addressData[a].times) \in Nat
  BY ConfigType DEF TypeOK, AddressData
<1>1. ASSUME NEW a \in Addr, Detect(a)
      PROVE  OneEntryPerAddress' /\ DequeBounded'
  <2>1. /\ ~addressData[a].blocked
        /\ \A b \in Addr \ {a} : /\ installed'[b] = installed[b]
                                 /\ failures'[b] = failures[b]
                                 /\ addressData'[b] = addressData[b]
        /\ \/ /\ addressData'[a].blocked
              /\ installed'[a] = installed[a] + 1 /\ failures'[a] = failures[a]
           \/ /\ ~addressData'[a].blocked
              /\ installed'[a] \in installed[a] .. installed[a] + 1
              /\ failures'[a] = failures[a] + 1
           \/ /\ ~addressData'[a].blocked
              /\ installed'[a] = installed[a] /\ failures'[a] = failures[a]
              /\ Len(addressData'[a].times) <= config.rate_max
        /\ Len(addressData'[a].times) <= Len(addressData[a].times) + 1
    BY <1>1, VerdictEffect
  <2>2. installed[a] \in Nat /\ failures[a] \in Nat /\ installed[a] <= failures[a]
    BY <1>0, <2>1 DEF OneEntryPerAddress
  <2>3. Len(addressData'[a].times) \in Nat
    <3>1. PICK k \in 0 .. Len(addressData[a].times) :
            Len(addressData'[a].times) = Len(addressData[a].times) - k + 1
      BY <1>1, DetectEffect
    <3> QED
      BY <1>0, <3>1
  <2>4. OneEntryPerAddress'
    <3>1. /\ installed'[a] <= failures'[a] + IF addressData'[a].blocked THEN 1 ELSE 0
          /\ addressData'[a].blocked => installed'[a] >= 1
      BY <2>1, <2>2
    <3> QED
      BY <2>1, <3>1 DEF OneEntryPerAddress
  <2>5. \E c \in Config :
          Len(addressData'[a].times)
            <= c.rate_max + failures'[a] + IF addressData'[a].blocked THEN 1 ELSE 0
    <3>1. PICK c \in Config : Len(addressData[a].times) <= c.rate_max + failures[a]
      BY <1>0, <2>1, <2>2 DEF DequeBounded
    <3>2. CASE Len(addressData'[a].times) <= config.rate_max
      BY <1>0, <2>1, <2>2, <2>3, <3>2
    <3>3. CASE ~(Len(addressData'[a].times) <= config.rate_max)
      <4>1. failures'[a] + (IF addressData'[a].blocked THEN 1 ELSE 0) = failures[a] + 1
        BY <2>1, <2>2, <3>3
      <4>2. /\ failures'[a] \in Nat /\ c.rate_max \in Nat
            /\ Len(addressData[a].times) \in Nat
        BY <1>0, <2>1, <2>2
      <4>3. c.rate_max + failures'[a] + (IF addressData'[a].blocked THEN 1 ELSE 0)
              = c.rate_max + failures[a] + 1
        BY <4>1, <4>2, <2>2
      <4> QED
        BY <2>1, <2>2, <2>3, <3>1, <4>2, <4>3
    <3> QED
      BY <3>2, <3>3
  <2>6. DequeBounded'
    BY <2>1, <2>5 DEF DequeBounded
  <2> QED
    BY <2>4, <2>6
<1>2. ASSUME NEW c \in Config, Restart(c)
      PROVE  OneEntryPerAddress' /\ DequeBounded'
  <2>1. \A a \in Addr : /\ installed'[a] = 0 /\ failures'[a] = 0
                        /\ addressData'[a].blocked = FALSE
                        /\ Len(addressData'[a].times) = 0
    BY <1>2 DEF Restart, NoData, Zero
  <2> QED
    BY <1>0, <1>2, <2>1 DEF OneEntryPerAddress, DequeBounded
<1>3. CASE UNCHANGED <<addressData, installed, failures>>
  BY <1>3 DEF OneEntryPerAddress, DequeBounded
<1> QED
  BY <1>1, <1>2, <1>3 DEF Next, BeginLine, Skip, BadCapture, EndLine, Tick, SetBack,
     Reload, Kill, vars, process, ghosts

\* However often blocking fails or the configuration is reloaded, an address
\* gets at most one entry per failed attempt and one for the successful one,
\* and its deque outgrows the largest rate only by failed attempts.
THEOREM EntriesCorrect == Spec => [](OneEntryPerAddress /\ DequeBounded)
<1>1. Init => OneEntryPerAddress /\ DequeBounded
  <2> SUFFICES ASSUME Init PROVE OneEntryPerAddress /\ DequeBounded
    OBVIOUS
  <2>1. \A a \in Addr : /\ installed[a] = 0 /\ failures[a] = 0
                        /\ addressData[a].blocked = FALSE
                        /\ Len(addressData[a].times) = 0
    BY DEF Init, NoData, Zero
  <2>2. config \in Config /\ config.rate_max \in Nat
    BY ConfigType DEF Init
  <2> QED
    BY <2>1, <2>2 DEF OneEntryPerAddress, DequeBounded
<1> QED
  BY <1>1, EntriesStep, TypeCorrect, PTL DEF Spec
-----------------------------------------------------------------------------
(* Detector implements RatePolicy.                                         *)

LEMMA SameCardinality ==
  ASSUME NEW S
  PROVE  Policy!Cardinality(S) = Cardinality(S)
BY DEF Cardinality, Policy!Cardinality

\* In a history sorted by time whose tail t starts within the window, all of
\* t counts, and nothing else does if what t lacks is too old.
LEMMA TailInWindow ==
  ASSUME NEW h \in Seq(Int), NEW t \in Seq(Int), NEW time \in Int, NEW c \in Config,
         IsTailOf(t, h), Len(t) > 0, t[1] >= time - c.rate_interval,
         \A j, k \in 1 .. Len(h) : j <= k => h[j] <= h[k]
  PROVE  /\ Len(t) <= Cardinality(Policy!InWindow(h, time, c))
         /\ ForgottenBefore(t, h, time - c.rate_interval)
              => Cardinality(Policy!InWindow(h, time, c)) = Len(t)
<1> DEFINE cut == time - c.rate_interval
           first == Len(h) - Len(t) + 1
           window == Policy!InWindow(h, time, c)
<1>1. /\ cut \in Int /\ Len(h) \in Nat /\ Len(t) \in Nat /\ first \in 1 .. Len(h)
      /\ \A j \in 1 .. Len(h) : h[j] \in Int
  BY ConfigType DEF IsTailOf
<1>2. window = {j \in 1 .. Len(h) : h[j] >= cut}
  BY DEF Policy!InWindow
<1>3. h[first] >= cut
  BY <1>1 DEF IsTailOf
<1> HIDE DEF cut, window
<1>4. first .. Len(h) \subseteq window
  <2>1. ASSUME NEW j \in first .. Len(h) PROVE j \in 1 .. Len(h) /\ h[j] >= cut
    <3>1. j \in 1 .. Len(h) /\ first <= j
      BY <1>1
    <3>2. h[first] <= h[j] /\ h[first] \in Int /\ h[j] \in Int
      BY <1>1, <3>1
    <3> QED  BY <1>1, <1>3, <3>1, <3>2
  <2> QED  BY <1>2, <2>1
<1>5. IsFiniteSet(window)
  <2>1. IsFiniteSet(1 .. Len(h)) /\ window \in SUBSET (1 .. Len(h))
    BY <1>1, <1>2, FS_Interval
  <2> QED  BY <2>1, FS_Subset
<1>6. Cardinality(first .. Len(h)) = Len(t)
  <2>1. Cardinality(first .. Len(h)) = IF first > Len(h) THEN 0 ELSE Len(h) - first + 1
    BY <1>1, FS_Interval
  <2> QED  BY <1>1, <2>1
<1>7. Len(t) <= Cardinality(window)
  <2> DEFINE latest == first .. Len(h)
  <2> HIDE DEF latest
  <2>1. latest \in SUBSET window /\ Cardinality(latest) = Len(t)
    BY <1>4, <1>6 DEF latest
  <2>2. Cardinality(latest) <= Cardinality(window)
    BY <1>5, <2>1, FS_Subset
  <2> QED  BY <2>1, <2>2
<1>8. ASSUME ForgottenBefore(t, h, cut) PROVE window = first .. Len(h)
  <2>1. \A j \in 1 .. Len(h) : j \in first .. Len(h) \/ j \in 1 .. Len(h) - Len(t)
    BY <1>1
  <2>2. \A j \in 1 .. Len(h) - Len(t) : j \in 1 .. Len(h) /\ ~(h[j] >= cut)
    BY <1>1, <1>8 DEF ForgottenBefore
  <2> QED  BY <1>2, <1>4, <2>1, <2>2
<1> QED
  BY <1>6, <1>7, <1>8 DEF window, cut

\* After detectedAddress() has pruned and counted, the deque is no longer than
\* the attempts of the history that count, and as long if no reload had
\* enlarged the interval.
LEMMA DequeCounts ==
  ASSUME IInv, NEW a \in Addr, Detect(a), ~stepped
  PROVE  LET count == Cardinality(Policy!InWindow(hist'[a], now, config))
             length == Len(addressData'[a].times)
         IN  /\ length \in Nat /\ count \in Nat /\ length <= count
             /\ ~widened => count = length
<1>1. IInv' /\ config' = config /\ now' = now /\ stepped' = stepped /\ widened' = widened
  BY IInvStep DEF Next, Detect
<1> DEFINE t == addressData'[a].times
           h == hist'[a]
           s == addressData[a].times
           cut == now - config.rate_interval
<1>2. /\ h \in Seq(Int) /\ t \in Seq(Int) /\ s \in Seq(Int)
      /\ now \in Int /\ config \in Config /\ config.rate_interval \in Nat
  BY <1>1, ConfigType DEF IInv, TypeOK, AddressData
<1>3. /\ IsTailOf(t, h)
      /\ ~widened => ForgottenBefore(t, h, cut)
  BY <1>1 DEF IInv, DequeIsRecentHistory
<1>4. \A j, k \in 1 .. Len(h) : j <= k => h[j] <= h[k]
  BY <1>1 DEF IInv, Ordered
<1>5. Len(t) > 0 /\ t[1] >= cut
  <2>1. PICK k \in 0 .. Len(s) :
          /\ PopsOld(s, cut, k)
          /\ Len(t) = Len(s) - k + 1
          /\ \A j \in 1 .. Len(s) - k : t[j] = s[k + j]
          /\ t[Len(s) - k + 1] = now
    BY DetectEffect DEF IInv
  <2>2. CASE k = Len(s)
    <3>1. Len(s) - k + 1 = 1
      BY <1>2, <2>2
    <3>2. Len(t) = 1 /\ t[1] = now
      BY <2>1, <3>1
    <3> QED  BY <1>2, <3>2
  <2>3. CASE k < Len(s)
    <3>1. 1 \in 1 .. Len(s) - k /\ t[1] = s[k + 1] /\ s[k + 1] >= cut
      BY <1>2, <2>1, <2>3 DEF PopsOld
    <3> QED  BY <1>2, <2>1, <3>1
  <2> QED  BY <1>2, <2>2, <2>3
<1> HIDE DEF t, h, s
<1>6. /\ Len(t) <= Cardinality(Policy!InWindow(h, now, config))
      /\ ~widened => Cardinality(Policy!InWindow(h, now, config)) = Len(t)
  BY <1>2, <1>3, <1>4, <1>5, TailInWindow DEF cut
<1>7. Cardinality(Policy!InWindow(h, now, config)) \in Nat
  <2>1. Len(h) \in Nat /\ DOMAIN h = 1 .. Len(h)
    BY <1>2
  <2>2. IsFiniteSet(1 .. Len(h))
    BY <2>1, FS_Interval
  <2>3. Policy!InWindow(h, now, config) \in SUBSET (1 .. Len(h))
    BY <2>1 DEF Policy!InWindow
  <2> QED  BY <2>2, <2>3, FS_Subset, FS_CardinalityType
<1>8. Len(t) \in Nat
  BY <1>2
<1> QED
  BY <1>6, <1>7, <1>8 DEF t, h

\* A counted attempt is an attempt of the policy, with the outcome the policy
\* allows.
LEMMA DetectRefines ==
  ASSUME IInv, NEW a \in Addr, Detect(a)
  PROVE  Policy!Attempt(a)
<1> DEFINE t == addressData'[a].times
           over == Policy!OverRate(hist'[a], now, config)
<1>1. /\ a \notin Blocked \cup config.exempted
      /\ hist' = [hist EXCEPT ![a] = Append(@, now)]
      /\ UNCHANGED <<now, config, stepped, widened>>
  BY DEF Detect, Blocked
<1>2. /\ addressData \in [Addr -> AddressData] /\ config.rate_max \in Nat
      /\ stepped \in BOOLEAN /\ widened \in BOOLEAN /\ a \notin Blocked
  BY <1>1, ConfigType DEF IInv, TypeOK
<1>3. IF Len(t) > config.rate_max THEN BlockAddress(a, t) ELSE NoBlock(a, t)
  BY DetectEffect DEF IInv
<1>4. /\ Len(t) > config.rate_max => over \/ stepped
      /\ ~(Len(t) > config.rate_max) => ~over \/ stepped \/ widened
  <2>1. CASE stepped
    BY <2>1
  <2>2. CASE ~stepped
    <3>1. over <=> Cardinality(Policy!InWindow(hist'[a], now, config)) > config.rate_max
      BY SameCardinality DEF Policy!OverRate
    <3>2. LET count == Cardinality(Policy!InWindow(hist'[a], now, config))
          IN  Len(t) \in Nat /\ count \in Nat /\ Len(t) <= count /\ (~widened => count = Len(t))
      BY <2>2, DequeCounts
    <3> HIDE DEF t, over
    <3> QED  BY <1>2, <3>1, <3>2
  <2> QED  BY <2>1, <2>2
<1> HIDE DEF t, over
<1>5. CASE Len(t) > config.rate_max
  <2>1. PICK verdict \in Verdicts(config.block) :
          /\ Install(a, verdict)
          /\ addressData' =
               [addressData EXCEPT ![a] = [times |-> t, blocked |-> verdict = "blocked"]]
    BY <1>3, <1>5 DEF BlockAddress
  <2>2. failures' = [failures EXCEPT ![a] = @ + IF verdict = "blocked" THEN 0 ELSE 1]
    BY <2>1 DEF Install
  <2>3. \A b \in Addr :
          addressData'[b].blocked <=>
            IF b = a THEN verdict = "blocked" ELSE addressData[b].blocked
    BY <1>2, <2>1
  <2>4. CASE verdict = "blocked"
    <3>1. Blocked' = Blocked \cup {a}
      BY <2>3, <2>4 DEF Blocked
    <3>2. failures' = failures
      BY <2>2, <2>4 DEF IInv, TypeOK
    <3> QED  BY <1>1, <1>4, <1>5, <3>1, <3>2 DEF Policy!Attempt, over
  <2>5. CASE verdict # "blocked"
    <3>1. Blocked' = Blocked
      BY <1>2, <2>3, <2>5 DEF Blocked
    <3>2. failures' = [failures EXCEPT ![a] = @ + 1]
      BY <2>2, <2>5
    <3> QED  BY <1>1, <1>4, <1>5, <3>1, <3>2 DEF Policy!Attempt, over
  <2> QED  BY <2>4, <2>5
<1>6. CASE ~(Len(t) > config.rate_max)
  <2>1. addressData' = [addressData EXCEPT ![a].times = t] /\ failures' = failures
    BY <1>3, <1>6 DEF NoBlock
  <2>2. \A b \in Addr : addressData'[b].blocked <=> addressData[b].blocked
    BY <1>2, <2>1 DEF AddressData
  <2>3. Blocked' = Blocked
    BY <2>2 DEF Blocked
  <2> QED  BY <1>1, <1>4, <1>6, <2>1, <2>3 DEF Policy!Attempt, over
<1> QED
  BY <1>5, <1>6

LEMMA NextRefines == IInv /\ [Next]_vars => [Policy!Next]_(Policy!policyVars)
<1> SUFFICES ASSUME IInv, [Next]_vars PROVE [Policy!Next]_(Policy!policyVars)
  OBVIOUS
<1> USE DEF process, ghosts
<1>1. ASSUME NEW a \in Addr, Detect(a) PROVE Policy!Next
  BY <1>1, DetectRefines DEF Policy!Next
<1>2. CASE Tick
  BY <1>2 DEF Tick, Policy!Next, Policy!Advance, Blocked
<1>3. CASE SetBack
  BY <1>3 DEF SetBack, Policy!Next, Policy!SetBack, Blocked
<1>4. ASSUME NEW c \in Config, Reload(c) PROVE Policy!Next
  BY <1>4 DEF Reload, Policy!Next, Policy!Reload, Blocked
<1>5. ASSUME NEW c \in Config, Restart(c) PROVE Policy!Next
  <2>1. Blocked' = {}
    BY <1>5 DEF Restart, Blocked, NoData
  <2>2. Policy!Restart(c)
    BY <1>5, <2>1 DEF Restart, Policy!Restart, NoHist, Zero, Policy!NoHist, Policy!Zero
  <2> QED  BY <2>2 DEF Policy!Next
<1>6. CASE Skip \/ BadCapture \/ EndLine \/ Kill \/ (\E l \in Line : BeginLine(l)) \/ UNCHANGED vars
  <2>1. UNCHANGED <<now, config, hist, failures, stepped, widened>> /\ Blocked' = Blocked
    <3>1. CASE Skip \/ EndLine \/ (\E l \in Line : BeginLine(l))
      BY <3>1 DEF Skip, EndLine, BeginLine, Blocked
    <3>2. CASE BadCapture \/ Kill \/ UNCHANGED vars
      BY <3>2 DEF BadCapture, Kill, vars, Blocked
    <3> QED  BY <1>6, <3>1, <3>2
  <2> QED  BY <2>1 DEF Policy!policyVars
<1> QED
  BY <1>1, <1>2, <1>3, <1>4, <1>5, <1>6 DEF Next

\* Detection implements the policy: the pruned deques lead to a call of the
\* block method exactly when the whole history puts the address over the
\* rate, through reloads, restarts and failed calls; what a clock that is set
\* back or a wider interval changes is what the policy allows.
THEOREM PolicyCorrect == Spec => ImplementsPolicy
<1>1. Init => Policy!Init
  BY DEF Init, Policy!Init, NoHist, Zero, Policy!NoHist, Policy!Zero, Blocked, NoData
<1> QED
  BY <1>1, NextRefines, InductiveInvariant, PTL
     DEF Spec, ImplementsPolicy, Policy!Spec
=============================================================================
