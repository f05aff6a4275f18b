----------------------------- MODULE MCConfFile -----------------------------
(* Three kinds of files: lines written from one or two words in every way   *)
(* blockad.8 allows; files of up to three directives, right and wrong; and  *)
(* every line of up to four characters, with some longer ones.              *)
(* An address has three bytes, an IPv4 address two, its prefix one.         *)
EXTENDS ConfFile

CONSTANTS NotWritten

Newline == 10
Seven == 55
LetterN == 110
Characters == {LetterN, Seven, Blank, Hash, DoubleQuote, SingleQuote, Backslash, Newline}

UpTo(n, S) == UNION {[1 .. m -> S] : m \in 0 .. n}

(* Words in writing: the text, and where in it each character is.           *)
HexNumeral(v) == IF v < 10 THEN 48 + v ELSE 87 + v
InOctal(c) == <<Backslash, 48 + (c \div 64), 48 + ((c \div 8) % 8), 48 + (c % 8)>>
InHex(c) == <<Backslash, LetterX, HexNumeral(c \div 16), HexNumeral(c % 16)>>

Plainly(c) ==
  (IF c \in {DoubleQuote, Backslash, Newline} THEN {} ELSE {<<c>>})
    \cup {<<Backslash, e>> : e \in {x \in DOMAIN Escape : Escape[x] = c}}
    \cup {InOctal(c)}

Quoted(q, characters) ==
  [text |-> <<q>> \o FlattenSeq(characters) \o <<q>>,
   at |-> [i \in 1 .. Len(characters) + 1 |-> 2 + Len(FlattenSeq(SubSeq(characters, 1, i - 1)))]]

Doubly(w) ==
  {Quoted(DoubleQuote, t) : t \in
    CASE Len(w) = 0 -> {<<>>}
      [] Len(w) = 1 -> {<<c>> : c \in Plainly(w[1]) \cup {InHex(w[1])}}
      [] OTHER -> {<<c, d>> : c \in Plainly(w[1]), d \in Plainly(w[2]) \cup {InHex(w[2])}}}

Singly(w) ==
  IF \E k \in DOMAIN w : w[k] \in {SingleQuote, Newline} THEN {}
  ELSE {Quoted(SingleQuote, [k \in DOMAIN w |-> <<w[k]>>])}

Bare(w) == [text |-> w, at |-> [i \in 1 .. Len(w) + 1 |-> i]]

Barely(w) ==
  IF \/ w = <<>> \/ w[1] \in {Hash, DoubleQuote, SingleQuote}
     \/ \E k \in DOMAIN w : w[k] \in {Blank, Newline}
  THEN {} ELSE {Bare(w)}

Writings(w) == Doubly(w) \cup Singly(w) \cup Barely(w)

(* A line: a beginning, words with blanks between them, and an end.         *)
InALine(begin, written, blanks, end) ==
  LET Put(l, t) ==
        LET before == IF l.places = <<>> THEN l.text ELSE l.text \o blanks
        IN  [text |-> before \o t.text,
             places |-> Append(l.places,
                          [open |-> Len(before) + 1,
                           at |-> [i \in DOMAIN t.at |-> Len(before) + t.at[i]],
                           close |-> Len(before) + Len(t.text) + 1])]
      laid == FoldLeft(Put, [text |-> begin, places |-> <<>>], written)
  IN  [laid EXCEPT !.text = @ \o end]

AFile(words, laid) ==
  [words |-> words, lines |-> [k \in DOMAIN words |-> laid[k].text],
   places |-> [k \in DOMAIN words |-> laid[k].places]]

OneWord ==
  {AFile(<<<<d[2]>>>>, <<InALine(<<>>, <<d[1]>>, <<>>, <<>>)>>) :
     d \in UNION {Writings(w) \X {w} : w \in UpTo(2, Characters)}}

TwoWords ==
  {AFile(<<<<d[2], d[4]>>>>,
         <<InALine(<<Blank>>, <<d[1], d[3]>>, <<Blank, Blank>>, <<Blank, Hash, LetterN>>)>>) :
     d \in UNION {Writings(v) \X {v} \X Writings(w) \X {w} :
                  v \in UpTo(1, Characters), w \in UpTo(1, Characters)}}

(* Directives.                                                              *)
Path == <<263>>          OtherPath == <<264>>
OneGroup == <<265>>      TwoGroups == <<266>>      NoGroup == <<267>>
One == <<268>>           Two == <<269>>            Huge == <<270>>
Slow == <<271>>          Fast == <<272>>           Never == <<273>>
Network(k) == <<280 + k>>

MCNumber == [w \in {One, Two, Huge} |-> IF w = One THEN 1 ELSE IF w = Two THEN 2 ELSE 9]
MCGroups == [w \in {NoGroup, OneGroup, TwoGroups} |->
              IF w = NoGroup THEN 0 ELSE IF w = OneGroup THEN 1 ELSE 2]
MCRate == [w \in {Slow, Fast, Never} |->
            IF w = Slow THEN [count |-> 1, interval |-> 86400]
            ELSE [count |-> IF w = Fast THEN 3 ELSE 0, interval |-> 60]]

Arg(v, x, y, z, b) ==
  [version |-> v, bits |-> b,
   address |-> [n \in Position |-> IF n = 0 THEN x ELSE IF n = 1 THEN y ELSE z]]

MCExempt ==
  [w \in {Network(k) : k \in 1 .. 7} |->
    CASE w = Network(1) -> Arg(4, 255, 10, 0, 8)
      [] w = Network(2) -> Arg(4, 255, 10, 64, 10)
      [] w = Network(3) -> Arg(4, 255, 10, 1, NoBits)
      [] w = Network(4) -> Arg(4, 255, 10, 0, 17)
      [] w = Network(5) -> Arg(6, 32, 16, 0, 12)
      [] w = Network(6) -> Arg(6, 0, 0, 0, 0)
      [] w = Network(7) -> Arg(6, 32, 1, 0, 12)]

Directives ==
  {<<>>, <<WatchWord, Path>>, <<WatchWord, OtherPath>>, <<WatchWord>>,
   <<AddressWord, OneGroup>>, <<AddressWord, TwoGroups, Two>>, <<AddressWord, OneGroup, Two>>,
   <<AddressWord, NoGroup>>, <<AddressWord, TwoGroups, Huge>>,
   <<RateWord, Slow>>, <<RateWord, Fast>>, <<RateWord, Never>>,
   <<BlockWord, IptablesWord>>, <<BlockWord, HostsDenyWord>>, <<BlockWord, HostsDenyWord, Path>>,
   <<BlockWord, IptablesWord, Path>>} \cup {<<ExemptWord, Network(k)>> : k \in 1 .. 7}

Repeated ==
  {<<WatchWord, Path>>, <<WatchWord>>, <<AddressWord, TwoGroups, Two>>, <<RateWord, Slow>>,
   <<RateWord, Fast>>, <<BlockWord, IptablesWord>>, <<BlockWord, HostsDenyWord, Path>>,
   <<ExemptWord, Network(2)>>, <<ExemptWord, Network(5)>>}

Files ==
  {AFile(d, [k \in DOMAIN d |->
              InALine(<<>>, [j \in DOMAIN d[k] |-> Bare(d[k][j])], <<Blank>>, <<>>)]) :
     d \in UpTo(2, Directives) \cup [1 .. 3 -> Repeated]}

(* Any lines.                                                               *)
AnyLines ==
  UpTo(4, {Blank, Hash, DoubleQuote, SingleQuote, Backslash, LetterN, LetterX, Seven})
    \cup {<<DoubleQuote, Backslash>> \o l : l \in [1 .. 3 -> {51, Seven, LetterX}]}
    \cup {<<DoubleQuote, Backslash, LetterX>> \o l : l \in [1 .. 3 -> {102, Seven}]}

MCDocument ==
  OneWord \cup TwoWords \cup Files \cup {[lines |-> <<l>>, words |-> NotWritten, places |-> <<>>] : l \in AnyLines}

MCOld ==
  [files |-> <<OtherPath, Path>>, patterns |-> <<[regex |-> TwoGroups, capture |-> 2]>>,
   exempted |-> <<>>, rate |-> [count |-> 1, interval |-> 60], block |-> HostsDenyMethod(NoPath)]
=============================================================================
