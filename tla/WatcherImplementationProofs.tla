--------------------- MODULE WatcherImplementationProofs ---------------------
(***************************************************************************)
(* Lemmas about readLines() and closeFile(), for both kinds of watcher.    *)
(*                                                                         *)
(* What is read of the open file falls into two parts at Begun: lines that *)
(* went to processLine(), and the incomplete one in line.                  *)
(***************************************************************************)
EXTENDS WatcherImplementation, SequenceTheorems, FiniteSetTheorems, TLAPS

\* Where the incomplete line begins.
Begun == pos - Len(line)

\* places are n characters of f, beginning after the first b.
IsRun(places, f, b, n) ==
  /\ DOMAIN places = 1 .. n
  /\ \A k \in 1 .. n : places[k] = <<f, b + k>>

\* A line begins after the first b characters of f.
LineBegins(f, b) == b \in {0, skipped[f]} \/ content[f][b] = "newline"

\* The reader's position and partial line describe the open file.
Reading ==
  /\ fp = None => line = <<>> /\ pos = 0
  /\ fp # None => /\ pos <= Len(content[fp])
                  /\ Len(line) <= pos
                  /\ IsRun(line, fp, Begun, Len(line))
                  /\ LineBegins(fp, Begun)
                  /\ \A k \in 1 .. Begun : passed[fp][k] > 0 \/ k <= skipped[fp]

Bounded == \A f \in File : Len(content[f]) <= MaxLength

\* Characters b + 1 .. n of f have gone to processLine() once more.
Passes(f, b, n) ==
  \A g \in File, k \in 1 .. MaxLength :
    passed'[g][k] = passed[g][k] + IF g = f /\ k \in b + 1 .. n THEN 1 ELSE 0

\* A run that begins where a line does consists of whole lines.
LEMMA RunWhole ==
  ASSUME NEW f \in File, NEW b \in Nat, NEW n \in Nat, NEW places,
         IsRun(places, f, b, n), LineBegins(f, b)
  PROVE  Whole(places)
<1> SUFFICES ASSUME NEW k \in 1 .. n
             PROVE  IF k = 1 \/ CharAt(places[k - 1]) = "newline"
                    THEN StartsLine(places[k])
                    ELSE places[k] = <<places[k - 1][1], places[k - 1][2] + 1>>
  BY DEF Whole, IsRun
<1>1. CASE k = 1
  <2>1. places[k] = <<f, b + 1>> /\ <<f, b + 1>>[1] = f /\ <<f, b + 1>>[2] = b + 1
        /\ <<f, b>>[1] = f /\ <<f, b>>[2] = b /\ b + 1 - 1 = b
    BY <1>1 DEF IsRun
  <2> QED  BY <1>1, <2>1 DEF LineBegins, StartsLine, CharAt
<1>2. CASE k # 1
  <2>1. /\ places[k] = <<f, b + k>> /\ places[k - 1] = <<f, b + k - 1>>
        /\ k - 1 \in 1 .. n
    BY <1>2 DEF IsRun
  <2>2. <<f, b + k>>[1] = f /\ <<f, b + k>>[2] = b + k
        /\ <<f, b + k - 1>>[1] = f /\ <<f, b + k - 1>>[2] = b + k - 1
    OBVIOUS
  <2>3. CASE CharAt(places[k - 1]) = "newline"
    BY <2>1, <2>2, <2>3 DEF StartsLine
  <2>4. <<places[k - 1][1], places[k - 1][2] + 1>> = <<f, b + k>>
    BY <2>1, <2>2
  <2> QED  BY <1>2, <2>1, <2>3, <2>4
<1> QED  BY <1>1, <1>2

\* processLine() of a run counts each of its characters once.
LEMMA RunProcessed ==
  ASSUME ReaderTypeOK,
         NEW f \in File, NEW b \in Nat, NEW n \in Nat, NEW places,
         IsRun(places, f, b, n), LineBegins(f, b), Process(places)
  PROVE  /\ Passes(f, b, b + n)
         /\ passed' \in [File -> [1 .. MaxLength -> Nat]]
         /\ torn' = torn
<1>1. torn' = torn
  <2>1. Whole(places)
    BY RunWhole
  <2>2. torn' = (torn \/ ~Whole(places))
    BY DEF Process
  <2>3. torn \in BOOLEAN
    BY DEF ReaderTypeOK
  <2> QED  BY <2>1, <2>2, <2>3, Zenon
<1>2. ASSUME NEW g \in File, NEW k \in 1 .. MaxLength
      PROVE  Cardinality({m \in DOMAIN places : places[m] = <<g, k>>})
               = IF g = f /\ k \in b + 1 .. b + n THEN 1 ELSE 0
  <2> DEFINE S == {m \in DOMAIN places : places[m] = <<g, k>>}
  <2>0. S = {m \in 1 .. n : f = g /\ b + m = k}
    BY DEF IsRun
  <2>1. CASE g = f /\ k \in b + 1 .. b + n
    <3>1. k - b \in 1 .. n /\ b + (k - b) = k
      BY <2>1
    <3>2. \A m \in 1 .. n : b + m = k => m = k - b
      BY <2>1
    <3>3. S = {k - b}
      BY <2>0, <2>1, <3>1, <3>2
    <3> QED  BY <2>1, <3>3, FS_Singleton
  <2>2. CASE ~(g = f /\ k \in b + 1 .. b + n)
    <3>1. S = {}
      BY <2>0, <2>2
    <3> QED  BY <2>2, <3>1, FS_EmptySet
  <2> QED  BY <2>1, <2>2
<1>3. passed' = [g \in File |-> [k \in 1 .. MaxLength |->
        passed[g][k] + IF g = f /\ k \in b + 1 .. b + n THEN 1 ELSE 0]]
  BY <1>2 DEF Process
<1>4. ASSUME NEW g \in File, NEW k \in 1 .. MaxLength
      PROVE  /\ passed[g][k] \in Nat
             /\ passed'[g][k] = passed[g][k] + IF g = f /\ k \in b + 1 .. b + n THEN 1 ELSE 0
             /\ passed'[g][k] \in Nat
  <2>1. passed[g] \in [1 .. MaxLength -> Nat]
    BY DEF ReaderTypeOK
  <2>2. passed[g][k] \in Nat
    BY <2>1
  <2>3. passed'[g] = [j \in 1 .. MaxLength |->
          passed[g][j] + IF g = f /\ j \in b + 1 .. b + n THEN 1 ELSE 0]
    BY <1>3
  <2>4. passed'[g][k] = passed[g][k] + IF g = f /\ k \in b + 1 .. b + n THEN 1 ELSE 0
    BY <2>3
  <2> HIDE <2>1
  <2> QED  BY <2>2, <2>4
<1>5. \A g \in File : passed'[g] = [k \in 1 .. MaxLength |-> passed'[g][k]]
  BY <1>3
<1>6. passed' \in [File -> [1 .. MaxLength -> Nat]]
  <2>1. \A g \in File : passed'[g] \in [1 .. MaxLength -> Nat]
    BY <1>4, <1>5
  <2> QED  BY <1>3, <2>1
<1> QED  BY <1>1, <1>4, <1>6 DEF Passes

\* Without a line nothing is processed.
LEMMA NoneProcessed ==
  ASSUME ReaderTypeOK, Process(<<>>)
  PROVE  passed' = passed /\ torn' = torn
<1>1. Whole(<<>>)
  BY DEF Whole
<1>2. torn' = (torn \/ ~Whole(<<>>)) /\ torn \in BOOLEAN
  BY DEF Process, ReaderTypeOK
<1>3. torn' = torn
  BY <1>1, <1>2, Zenon
<1>4. \A g \in File, k \in 1 .. MaxLength :
        Cardinality({m \in DOMAIN <<>> : <<>>[m] = <<g, k>>}) = 0
  <2> SUFFICES ASSUME NEW g \in File, NEW k \in 1 .. MaxLength
               PROVE  {m \in DOMAIN <<>> : <<>>[m] = <<g, k>>} = {}
    BY FS_EmptySet
  <2> QED  OBVIOUS
<1>5. passed' = [g \in File |-> [k \in 1 .. MaxLength |-> passed[g][k] + 0]]
  BY <1>4 DEF Process
<1>6. passed = [g \in File |-> passed[g]]
      /\ \A g \in File : passed[g] \in [1 .. MaxLength -> Nat]
  BY DEF ReaderTypeOK
<1>7. ASSUME NEW g \in File
      PROVE  [k \in 1 .. MaxLength |-> passed[g][k] + 0] = passed[g]
  <2>0. passed[g] \in [1 .. MaxLength -> Nat]
    BY <1>6
  <2>1. \A k \in 1 .. MaxLength : passed[g][k] + 0 = passed[g][k]
    <3> SUFFICES ASSUME NEW k \in 1 .. MaxLength PROVE passed[g][k] + 0 = passed[g][k]
      OBVIOUS
    <3>1. passed[g][k] \in Nat
      BY <2>0
    <3> QED  BY <3>1
  <2> QED  BY <1>6, <2>1
<1>8. passed' = passed
  BY <1>5, <1>6, <1>7
<1> QED  BY <1>3, <1>8
-----------------------------------------------------------------------------
\* The partial line and all that follows it in the file.
Rest == line \o [k \in 1 .. Len(content[fp]) - pos |-> <<fp, pos + k>>]

LEMMA RestIsRun ==
  ASSUME ReaderTypeOK, Bounded, Reading, fp # None
  PROVE  /\ fp \in File /\ Len(content[fp]) \in 0 .. MaxLength
         /\ Begun \in Nat /\ Begun <= pos /\ pos <= Len(content[fp])
         /\ Len(line) = pos - Begun
         /\ Rest \in Seq(File \X (1 .. MaxLength))
         /\ Len(Rest) = Len(content[fp]) - Begun
         /\ IsRun(Rest, fp, Begun, Len(content[fp]) - Begun)
<1> DEFINE n == Len(content[fp])
           m == n - pos
           S == File \X (1 .. MaxLength)
           t == [k \in 1 .. m |-> <<fp, pos + k>>]
<1>1. /\ fp \in File /\ n \in 0 .. MaxLength
      /\ pos \in Nat /\ line \in Seq(S) /\ Len(line) \in Nat
  BY LengthAssumption DEF ReaderTypeOK, Bounded
<1>2. pos <= n /\ Len(line) <= pos
  BY DEF Reading
<1>3. m \in Nat /\ \A k \in 1 .. m : pos + k \in 1 .. MaxLength
  <2> HIDE DEF n
  <2> QED  BY <1>1, <1>2, LengthAssumption
<1>4. t \in Seq(S) /\ Len(t) = m /\ \A k \in 1 .. m : t[k] = <<fp, pos + k>>
  <2>1. \A k \in 1 .. m : <<fp, pos + k>> \in S
    BY <1>1, <1>3
  <2> HIDE DEF m, S
  <2>2. t \in [1 .. m -> S]
    BY <2>1
  <2>3. t \in Seq(S)
    BY <1>3, <2>2, SeqDef
  <2>4. Len(t) = m
    BY <1>3, <2>3, LenProperties
  <2> QED  BY <2>3, <2>4
<1>5. /\ Rest \in Seq(S) /\ Len(Rest) = Len(line) + m
      /\ \A k \in 1 .. Len(line) + m :
           Rest[k] = IF k <= Len(line) THEN line[k] ELSE t[k - Len(line)]
  <2>1. Rest = line \o t
    BY DEF Rest
  <2> HIDE DEF m, S, t, n
  <2>2. /\ line \o t \in Seq(S) /\ Len(line \o t) = Len(line) + Len(t)
        /\ \A k \in 1 .. Len(line) + Len(t) :
             (line \o t)[k] = IF k <= Len(line) THEN line[k] ELSE t[k - Len(line)]
    BY <1>1, <1>4, ConcatProperties
  <2> QED  BY <1>4, <2>1, <2>2
<1>6. Begun = pos - Len(line) /\ IsRun(line, fp, Begun, Len(line))
  BY DEF Begun, Reading
<1> HIDE DEF t
<1>7. Begun \in Nat /\ Begun <= pos /\ Len(line) = pos - Begun
  <2> HIDE DEF n
  <2> QED  BY <1>1, <1>2, <1>6
<1>8. Len(Rest) = n - Begun
  <2>1. Len(Rest) = Len(line) + (n - pos)
    BY <1>5
  <2> HIDE DEF n
  <2> QED  BY <1>1, <1>2, <1>7, <2>1
<1>9. ASSUME NEW k \in 1 .. n - Begun PROVE Rest[k] = <<fp, Begun + k>>
  <2>1. k \in Nat /\ k >= 1 /\ k <= Len(line) + m
    <3> HIDE DEF n
    <3> QED  BY <1>1, <1>2, <1>7
  <2>2. Rest[k] = IF k <= Len(line) THEN line[k] ELSE t[k - Len(line)]
    BY <1>1, <1>3, <1>5, <2>1
  <2>3. CASE k <= Len(line)
    BY <1>1, <1>6, <2>1, <2>2, <2>3 DEF IsRun
  <2>4. CASE ~(k <= Len(line))
    <3> HIDE DEF m
    <3>1. k - Len(line) \in 1 .. m /\ pos + (k - Len(line)) = Begun + k
      BY <1>1, <1>3, <1>7, <2>1, <2>4
    <3> QED  BY <1>4, <2>2, <2>4, <3>1
  <2> QED  BY <2>3, <2>4
<1>10. DOMAIN Rest = 1 .. n - Begun
  BY <1>5, <1>8, LenProperties
<1>11. IsRun(Rest, fp, Begun, n - Begun)
  BY <1>9, <1>10 DEF IsRun
<1> QED
  BY <1>1, <1>2, <1>5, <1>7, <1>8, <1>11

\* readLines(): every line up to the last newline is processed, and what
\* follows it is in line.
LEMMA ReadEffect ==
  ASSUME ReaderTypeOK, Bounded, Reading, fp # None, ReadLines
  PROVE  /\ fp' = fp /\ pos' = Len(content[fp])
         /\ line' \in Seq(File \X (1 .. MaxLength))
         /\ Begun' \in Nat /\ Begun <= Begun' /\ Begun' <= pos'
         /\ Len(line') = pos' - Begun'
         /\ IsRun(line', fp, Begun', Len(line'))
         /\ Begun' = Begun \/ content[fp][Begun'] = "newline"
         /\ Passes(fp, Begun, Begun')
         /\ passed' \in [File -> [1 .. MaxLength -> Nat]]
         /\ torn' = torn
<1> DEFINE S == File \X (1 .. MaxLength)
           m == Len(content[fp]) - Begun
<1>1. /\ fp \in File /\ Len(content[fp]) \in 0 .. MaxLength
      /\ Begun \in Nat /\ m \in Nat
      /\ Rest \in Seq(S) /\ Len(Rest) = m /\ IsRun(Rest, fp, Begun, m)
      /\ LineBegins(fp, Begun)
  BY RestIsRun DEF Reading
<1>2. PICK end \in 0 .. Len(Rest) :
        /\ end > 0 => CharAt(Rest[end]) = "newline"
        /\ Process(SubSeq(Rest, 1, end))
        /\ line' = SubSeq(Rest, end + 1, Len(Rest))
        /\ pos' = Len(content[fp])
        /\ fp' = fp
  BY DEF ReadLines, Rest
<1> HIDE DEF m, S
<1>3. end \in Nat /\ end <= m /\ \A k \in 1 .. m : Rest[k] \in S /\ Rest[k] = <<fp, Begun + k>>
  <2>1. \A k \in 1 .. m : Rest[k] = <<fp, Begun + k>>
    BY <1>1 DEF IsRun
  <2>2. \A k \in 1 .. Len(Rest) : Rest[k] \in S
    BY <1>1, ElementOfSeq
  <2>3. Len(Rest) = m /\ m \in Nat
    BY <1>1
  <2>4. end \in Nat /\ end <= m
    BY <1>2, <2>3
  <2> QED  BY <2>1, <2>2, <2>3, <2>4
<1>4. IsRun(SubSeq(Rest, 1, end), fp, Begun, end)
  <2>1. /\ SubSeq(Rest, 1, end) \in Seq(S)
        /\ Len(SubSeq(Rest, 1, end)) = IF 1 <= end THEN end - 1 + 1 ELSE 0
        /\ \A i \in 1 .. end - 1 + 1 : SubSeq(Rest, 1, end)[i] = Rest[1 + i - 1]
    <3>1. \A i \in 1 .. end : Rest[i] \in S
      BY <1>1, <1>3
    <3> QED  BY <1>3, <3>1, SubSeqProperties
  <2>2. Len(SubSeq(Rest, 1, end)) = end /\ DOMAIN SubSeq(Rest, 1, end) = 1 .. end
    BY <1>3, <2>1, LenProperties
  <2>3. \A k \in 1 .. end : SubSeq(Rest, 1, end)[k] = Rest[k]
    BY <1>3, <2>1
  <2> QED  BY <1>1, <1>3, <2>2, <2>3 DEF IsRun
<1>5. /\ Passes(fp, Begun, Begun + end)
      /\ passed' \in [File -> [1 .. MaxLength -> Nat]]
      /\ torn' = torn
  BY <1>1, <1>2, <1>3, <1>4, RunProcessed
<1>6. /\ line' \in Seq(S) /\ Len(line') = m - end
      /\ \A k \in 1 .. m - end : line'[k] = Rest[end + k]
  <2>1. /\ SubSeq(Rest, end + 1, m) \in Seq(S)
        /\ Len(SubSeq(Rest, end + 1, m)) = IF end + 1 <= m THEN m - (end + 1) + 1 ELSE 0
        /\ \A i \in 1 .. m - (end + 1) + 1 : SubSeq(Rest, end + 1, m)[i] = Rest[(end + 1) + i - 1]
    <3>1. \A i \in end + 1 .. m : Rest[i] \in S
      BY <1>1, <1>3
    <3>2. m \in Int /\ end + 1 \in Int
      BY <1>1, <1>3
    <3> QED  BY <3>1, <3>2, SubSeqProperties
  <2>2. line' = SubSeq(Rest, end + 1, m)
    BY <1>1, <1>2
  <2>3. (IF end + 1 <= m THEN m - (end + 1) + 1 ELSE 0) = m - end
    BY <1>1, <1>3
  <2>4. m - (end + 1) + 1 = m - end /\ \A k \in 1 .. m - end : (end + 1) + k - 1 = end + k
    BY <1>1, <1>3
  <2> QED  BY <2>1, <2>2, <2>3, <2>4
<1>7. Begun' = Begun + end
  <2>1. Begun' = pos' - Len(line')
    BY DEF Begun
  <2>2. Begun' = Len(content[fp]) - (m - end)
    BY <1>2, <1>6, <2>1
  <2>3. m = Len(content[fp]) - Begun
    BY DEF m
  <2>4. Len(content[fp]) \in Int /\ Begun \in Int /\ end \in Int
    BY <1>1, <1>3
  <2>5. ASSUME NEW x \in Int, NEW y \in Int, NEW z \in Int
        PROVE  x - ((x - y) - z) = y + z
    OBVIOUS
  <2>6. Begun' = Len(content[fp]) - ((Len(content[fp]) - Begun) - end)
    BY <2>2, <2>3
  <2> QED  BY <2>4, <2>5, <2>6
<1>8. IsRun(line', fp, Begun', Len(line'))
  <2>1. DOMAIN line' = 1 .. Len(line')
    BY <1>6, LenProperties
  <2>2. \A k \in 1 .. m - end : end + k \in 1 .. m /\ Begun + (end + k) = (Begun + end) + k
    BY <1>1, <1>3
  <2> QED  BY <1>3, <1>6, <1>7, <2>1, <2>2 DEF IsRun
<1>9. Begun' = Begun \/ content[fp][Begun'] = "newline"
  <2>1. CASE end = 0
    BY <1>1, <1>7, <2>1
  <2>2. CASE end > 0
    <3>1. end \in 1 .. m /\ Rest[end] = <<fp, Begun + end>>
      BY <1>3, <2>2
    <3> QED  BY <1>2, <1>7, <2>2, <3>1 DEF CharAt
  <2> QED  BY <1>3, <2>1, <2>2
<1>10. Begun <= Begun' /\ Begun' <= pos' /\ Len(line') = pos' - Begun' /\ Begun' \in Nat
  BY <1>1, <1>2, <1>3, <1>6, <1>7 DEF m
<1> QED
  BY <1>2, <1>5, <1>6, <1>7, <1>8, <1>9, <1>10 DEF S
-----------------------------------------------------------------------------
(* What each kind of step does to the part of the state that both watchers *)
(* share.                                                                  *)

\* Another program appends to a file: what was read of it stays as it was.
LEMMA ExtendKeeps ==
  ASSUME ReaderTypeOK, Bounded, Reading,
         NEW f \in File, NEW c \in Char, Extend(f, c), UNCHANGED <<at, visits, reader, skipped>>
  PROVE  /\ ReaderTypeOK' /\ Bounded' /\ Reading'
         /\ \A g \in File : Len(content[g]) \in Nat /\ Len(content'[g]) \in Nat
         /\ \A g \in File : /\ Len(content'[g]) >= Len(content[g])
                            /\ Len(content'[g]) = Len(content[g]) + IF g = f THEN 1 ELSE 0
<1>1. \A g \in File : content[g] \in Seq(Char) /\ Len(content[g]) \in 0 .. MaxLength
  BY LengthAssumption DEF ReaderTypeOK, Bounded
<1>2. content' = [content EXCEPT ![f] = Append(content[f], c)] /\ Len(content[f]) < MaxLength
  BY DEF Extend
<1>3. /\ Append(content[f], c) \in Seq(Char) /\ Len(Append(content[f], c)) = Len(content[f]) + 1
      /\ \A k \in 1 .. Len(content[f]) : Append(content[f], c)[k] = content[f][k]
  BY <1>1, AppendProperties
<1>4. \A g \in File : content'[g] = IF g = f THEN Append(content[f], c) ELSE content[g]
  BY <1>2 DEF ReaderTypeOK
<1>5. ASSUME NEW g \in File
      PROVE  /\ content'[g] \in Seq(Char)
             /\ Len(content'[g]) = Len(content[g]) + IF g = f THEN 1 ELSE 0
             /\ Len(content'[g]) \in 0 .. MaxLength
             /\ \A k \in 1 .. Len(content[g]) : content'[g][k] = content[g][k]
  <2>1. CASE g = f
    <3>1. content'[g] = Append(content[f], c)
      BY <1>4, <2>1
    <3>2. Len(content[f]) + 1 \in 0 .. MaxLength
      BY <1>1, <1>2, LengthAssumption
    <3> QED  BY <1>3, <2>1, <3>1, <3>2
  <2>2. CASE g # f
    <3>1. content'[g] = content[g]
      BY <1>4, <2>2
    <3>2. Len(content[g]) \in Nat
      BY <1>1
    <3> QED  BY <1>1, <2>2, <3>1, <3>2
  <2> QED  BY <2>1, <2>2
<1>6. ReaderTypeOK'
  <2>1. content' \in [File -> Seq(Char)]
    BY <1>2, <1>3 DEF ReaderTypeOK
  <2> QED  BY <2>1 DEF ReaderTypeOK, reader
<1>7. Bounded'
  <2>1. \A g \in File : Len(content'[g]) \in 0 .. MaxLength
    BY <1>5
  <2>2. \A n \in 0 .. MaxLength : n <= MaxLength
    OBVIOUS
  <2> QED  BY <2>1, <2>2 DEF Bounded
<1>8. fp' = fp /\ pos' = pos /\ line' = line /\ passed' = passed /\ skipped' = skipped /\ Begun' = Begun
  BY DEF reader, Begun
<1>9. ASSUME fp # None
      PROVE  pos <= Len(content'[fp]) /\ LineBegins(fp, Begun)'
  <2>1. /\ fp \in File /\ pos <= Len(content[fp]) /\ Len(line) <= pos
        /\ pos \in Nat /\ Len(line) \in Nat
        /\ LineBegins(fp, Begun)
    BY <1>9, LengthAssumption DEF ReaderTypeOK, Reading
  <2>2. \E n \in Nat, m \in Nat : /\ n = Len(content[fp]) /\ m = Len(content'[fp]) /\ m >= n
    <3>1. Len(content'[fp]) = Len(content[fp]) + IF fp = f THEN 1 ELSE 0
      BY <1>5, <2>1
    <3>2. Len(content[fp]) \in Nat
      BY <1>1, <2>1
    <3> HIDE DEF Extend
    <3>3. (IF fp = f THEN 1 ELSE 0) \in {0, 1}
      OBVIOUS
    <3>4. \A n \in Nat, d \in {0, 1} : n + d \in Nat /\ n + d >= n
      OBVIOUS
    <3>5. Len(content'[fp]) \in Nat /\ Len(content'[fp]) >= Len(content[fp])
      BY <3>1, <3>2, <3>3, <3>4
    <3> QED  BY <3>2, <3>5
  <2>3. pos <= Len(content'[fp])
    BY <2>1, <2>2
  <2>4. Begun \in Nat /\ Begun <= Len(content[fp])
    <3>1. Begun = pos - Len(line)
      BY DEF Begun
    <3> QED  BY <2>1, <2>2, <3>1
  <2>5. CASE Begun \in {0, skipped[fp]}
    BY <1>8, <2>3, <2>5 DEF LineBegins
  <2>6. CASE ~(Begun \in {0, skipped[fp]})
    <3>1. content[fp][Begun] = "newline" /\ Begun # 0
      BY <2>1, <2>6 DEF LineBegins
    <3>2. Begun \in 1 .. Len(content[fp])
      BY <2>2, <2>4, <3>1
    <3>3. content'[fp][Begun] = "newline"
      BY <1>5, <2>1, <3>1, <3>2
    <3> QED  BY <1>8, <2>3, <3>3 DEF LineBegins
  <2> QED  BY <2>5, <2>6
<1>10. Reading'
  BY <1>8, <1>9 DEF Reading, IsRun
<1>11. \A g \in File : Len(content[g]) \in Nat /\ Len(content'[g]) \in Nat
  BY <1>1, <1>5
<1>12. ASSUME NEW g \in File PROVE Len(content'[g]) >= Len(content[g])
  <2>1. \A n \in Nat, m \in Nat : m = n + 0 \/ m = n + 1 => m >= n
    OBVIOUS
  <2> QED  BY <1>5, <1>11, <2>1
<1> QED  BY <1>5, <1>6, <1>7, <1>10, <1>11, <1>12

\* readLines() leaves at most an incomplete line.
LEMMA ReadKeeps ==
  ASSUME ReaderTypeOK, Bounded, Reading, fp # None, ReadLines,
         UNCHANGED <<at, content, visits, skipped>>
  PROVE  ReaderTypeOK' /\ Bounded' /\ Reading'
<1>1. /\ fp' = fp /\ pos' = Len(content[fp])
      /\ line' \in Seq(File \X (1 .. MaxLength))
      /\ Begun' \in Nat /\ Begun <= Begun' /\ Begun' <= pos'
      /\ Len(line') = pos' - Begun'
      /\ IsRun(line', fp, Begun', Len(line'))
      /\ Begun' = Begun \/ content[fp][Begun'] = "newline"
      /\ Passes(fp, Begun, Begun')
      /\ passed' \in [File -> [1 .. MaxLength -> Nat]]
      /\ torn' = torn
  BY ReadEffect
<1>2. /\ fp \in File /\ Len(content[fp]) \in 0 .. MaxLength /\ Begun \in Nat
      /\ LineBegins(fp, Begun)
      /\ \A k \in 1 .. Begun : passed[fp][k] > 0 \/ k <= skipped[fp]
  BY RestIsRun DEF Reading
<1>3. ReaderTypeOK'
  BY <1>1, <1>2 DEF ReaderTypeOK
<1>4. LineBegins(fp, Begun)'
  BY <1>1, <1>2 DEF LineBegins
<1>5. ASSUME NEW k \in 1 .. Begun'
      PROVE  passed'[fp][k] > 0 \/ k <= skipped'[fp]
  <2>1. k \in Nat /\ k \in 1 .. MaxLength
    BY <1>1, <1>2, LengthAssumption
  <2>2. passed[fp][k] \in Nat
    BY <1>2, <2>1 DEF ReaderTypeOK
  <2>3. passed'[fp][k] = passed[fp][k] + IF k \in Begun + 1 .. Begun' THEN 1 ELSE 0
    BY <1>1, <1>2, <2>1 DEF Passes
  <2>4. CASE k \in 1 .. Begun
    BY <1>2, <2>2, <2>3, <2>4
  <2>5. CASE k \in Begun + 1 .. Begun'
    BY <2>2, <2>3, <2>5
  <2> QED  BY <1>1, <1>2, <2>4, <2>5
<1>6. Reading'
  <2>1. fp' # None /\ pos' <= Len(content'[fp']) /\ Len(line') <= pos'
    BY <1>1, <1>2
  <2>2. IsRun(line, fp, Begun, Len(line))' /\ LineBegins(fp, Begun)'
    BY <1>1, <1>4 DEF IsRun
  <2>3. \A k \in 1 .. Begun' : passed'[fp'][k] > 0 \/ k <= skipped'[fp']
    BY <1>1, <1>5
  <2> QED  BY <2>1, <2>2, <2>3 DEF Reading
<1> QED  BY <1>3, <1>6 DEF Bounded

\* closeFile() hands over the incomplete line, and no other character.
LEMMA CloseKeeps ==
  ASSUME ReaderTypeOK, Bounded, Reading, Close, UNCHANGED content
  PROVE  /\ fp' = None /\ line' = <<>> /\ pos' = 0 /\ torn' = torn
         /\ passed' \in [File -> [1 .. MaxLength -> Nat]]
         /\ fp = None => passed' = passed
         /\ fp # None => Passes(fp, Begun, pos)
         /\ Bounded' /\ Reading'
<1>1. fp' = None /\ line' = <<>> /\ pos' = 0 /\ Process(line)
  BY DEF Close
<1>4. Bounded' /\ Reading'
  BY <1>1 DEF Bounded, Reading
<1>2. CASE fp = None
  <2>1. passed' = passed /\ torn' = torn
    <3>1. Process(<<>>)
      BY <1>1, <1>2 DEF Reading
    <3> QED  BY <3>1, NoneProcessed
  <2> QED  BY <1>1, <1>2, <1>4, <2>1 DEF ReaderTypeOK
<1>3. CASE fp # None
  <2>1. /\ fp \in File /\ Begun \in Nat /\ pos \in Nat /\ Len(line) = pos - Begun
    BY <1>3, RestIsRun DEF ReaderTypeOK
  <2>2. Len(line) \in Nat /\ Begun + Len(line) = pos
    BY <2>1 DEF ReaderTypeOK
  <2>3. IsRun(line, fp, Begun, Len(line)) /\ LineBegins(fp, Begun)
    BY <1>3 DEF Reading
  <2>4. /\ Passes(fp, Begun, Begun + Len(line))
        /\ passed' \in [File -> [1 .. MaxLength -> Nat]]
        /\ torn' = torn
    BY <1>1, <2>1, <2>2, <2>3, RunProcessed
  <2> QED  BY <1>1, <1>3, <1>4, <2>2, <2>4
<1> QED  BY <1>2, <1>3

\* fopen(): nothing of the file is read yet.
LEMMA OpenKeeps ==
  ASSUME ReaderTypeOK, Bounded, Reading, fp = None, fp' \in File \cup {None},
         UNCHANGED <<content, skipped, pos, line, passed, torn>>
  PROVE  Bounded' /\ Reading' /\ pos' = 0 /\ line' = <<>>
<1>1. pos' = 0 /\ line' = <<>> /\ Len(<<>>) = 0
  BY DEF Reading
<1>5. Begun' = 0
  <2>1. Begun' = pos' - Len(line')
    BY DEF Begun
  <2>2. Begun' = 0 - 0
    BY <1>1, <2>1
  <2> QED  BY <2>2
<1>2. fp' # None => Len(content'[fp']) \in Nat
  BY DEF ReaderTypeOK
<1>3. LineBegins(fp, 0)'
  BY DEF LineBegins
<1>4. IsRun(line, fp, 0, 0)'
  BY <1>1 DEF IsRun
<1> QED  BY <1>1, <1>2, <1>3, <1>4, <1>5 DEF Reading, Bounded

\* The rest of the system leaves what was read alone.
LEMMA OthersKeep ==
  ASSUME Bounded, Reading, UNCHANGED <<content, skipped, fp, pos, line, passed>>
  PROVE  Bounded' /\ Reading'
BY DEF Bounded, Reading, IsRun, LineBegins, Begun

\* In the initial state nothing is read.
LEMMA ReaderStarts ==
  ASSUME ReaderInit
  PROVE  ReaderTypeOK /\ Bounded /\ Reading /\ ~torn
<1>1. content \in [File -> Seq(Char)] /\ \A f \in File : Len(content[f]) <= MaxLength
  <2> DEFINE Start == {<<>>, <<"text">>, <<"newline">>}
  <2>1. \A s \in Start : s \in Seq(Char) /\ Len(s) \in {0, 1}
    <3>1. "text" \in Char /\ "newline" \in Char
      BY DEF Char
    <3>2. \A c \in Char : <<c>> \in Seq(Char) /\ Len(<<c>>) = 1
      OBVIOUS
    <3>3. <<>> \in Seq(Char) /\ Len(<<>>) = 0
      OBVIOUS
    <3> QED  BY <3>1, <3>2, <3>3
  <2>2. \A s \in Start : Len(s) <= MaxLength
    BY <2>1, LengthAssumption
  <2>3. content \in [File -> Start]
    BY DEF ReaderInit
  <2> HIDE DEF Start
  <2> QED  BY <2>1, <2>2, <2>3
<1>2. passed \in [File -> [1 .. MaxLength -> Nat]]
  BY DEF ReaderInit
<1>3. visits \in [File -> Nat] /\ skipped \in [File -> Nat]
  BY DEF ReaderInit
<1>4. line \in Seq(File \X (1 .. MaxLength)) /\ pos \in 0 .. MaxLength
  BY LengthAssumption DEF ReaderInit
<1> QED  BY <1>1, <1>2, <1>3, <1>4 DEF ReaderInit, ReaderTypeOK, Bounded, Reading

LEMMA Histories ==
  ASSUME ReaderTypeOK, NEW f \in File
  PROVE  /\ visits[f] \in Nat
         /\ \A k \in 1 .. MaxLength : passed[f][k] \in Nat
<1>1. passed[f] \in [1 .. MaxLength -> Nat]
  BY DEF ReaderTypeOK
<1> QED  BY <1>1 DEF ReaderTypeOK

LEMMA ArriveCounts ==
  ASSUME ReaderTypeOK, NEW f \in File \cup {None}, Arrive(f)
  PROVE  /\ at' \in File \cup {None} /\ visits' \in [File -> Nat]
         /\ \A g \in File : visits'[g] = IF g = f THEN visits[g] + 1 ELSE visits[g]
BY DEF ReaderTypeOK, Arrive
=============================================================================
