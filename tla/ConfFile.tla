------------------------------ MODULE ConfFile ------------------------------
(***************************************************************************)
(* ConfFile of src/ConfFile.cc, and what main() of blockad.cc makes of its *)
(* exceptions when SIGHUP has the file read again: each line is split into *)
(* words, a character or an escape at a time, and then its directive is    *)
(* applied.                                                                *)
(*                                                                         *)
(* A line is a sequence of pieces: characters by their codes 0 .. 255, and *)
(* above 255 runs of letters that only matter as a whole, the keywords     *)
(* among them.  What strtol(), regcomp() and inet_pton() make of a word is *)
(* given by constants.                                                     *)
(***************************************************************************)
EXTENDS Integers, Sequences, FiniteSets, SequencesExt, AddressPattern

CONSTANTS
  Document,       \* files that may be found: their lines, and the words they
                  \* were written from with the places of these, or Unknown
  Unknown,        \* the words of a file that was not written from words
  Old,            \* the configuration in force
  Number,         \* Number[w]: strtol() of a word that is a number
  Groups,         \* Groups[w]: number of groups of a word that is a regex
  Rate,           \* Rate[w]: [count, interval] of a word COUNT/INTERVAL
  Exempt,         \* Exempt[w]: the Argument a word stands for
  IntMax,         \* INT_MAX
  UintMax         \* UINT_MAX

\* Keywords.
WatchWord == <<256>>
AddressWord == <<257>>
RateWord == <<258>>
ExemptWord == <<259>>
BlockWord == <<260>>
IptablesWord == <<261>>
HostsDenyWord == <<262>>

\* Characters.
Blank == 32
DoubleQuote == 34
Hash == 35
SingleQuote == 39
Backslash == 92
LetterX == 120
Octal == 48 .. 55

\* The escapes of one letter: a b t n v f r ' " \ ?
Escape ==
  [c \in {97, 98, 116, 110, 118, 102, 114, 39, 34, 92, 63} |->
    CASE c = 97 -> 7 [] c = 98 -> 8 [] c = 116 -> 9 [] c = 110 -> 10 [] c = 118 -> 11
      [] c = 102 -> 12 [] c = 114 -> 13 [] OTHER -> c]

\* decodeHex() of the characters that are isxdigit()
HexValue ==
  [c \in 48 .. 57 \cup 97 .. 102 \cup 65 .. 70 |->
    IF c <= 57 THEN c - 48 ELSE IF c >= 97 THEN c - 87 ELSE c - 55]

\* l has digits from piece k to piece e.
Digits(l, k, e, Digit) == \A m \in k .. e : m \in DOMAIN l /\ l[m] \in Digit

\* One to three octal digits; every hexadecimal digit there is, if any.
OctalDigits(l, k, e) ==
  /\ e \in k .. k + 2
  /\ Digits(l, k, e, Octal)
  /\ e < k + 2 => ~Digits(l, e + 1, e + 1, Octal)

HexDigits(l, k, e) ==
  /\ e \in k - 1 .. Len(l)
  /\ Digits(l, k, e, DOMAIN HexValue)
  /\ ~Digits(l, e + 1, e + 1, DOMAIN HexValue)

\* The value of the digits, which is that of the last three unless it is too
\* large for a character.
Digit(l, k, m) == IF m < k THEN 0 ELSE HexValue[l[m]]

Value(l, k, e, base) ==
  base * base * Digit(l, k, e - 2) + base * Digit(l, k, e - 1) + Digit(l, k, e)

TooLarge(l, k, e, base) ==
  Value(l, k, e, base) > 255 \/ \E m \in k .. e - 3 : Digit(l, k, m) # 0

Config ==
  [files : Seq(Seq(Nat)),
   patterns : Seq([regex : DOMAIN Groups, capture : 1 .. IntMax]),
   exempted : Seq([network : Address, mask : Address]),
   rate : [count : 1 .. UintMax, interval : Nat \ {0}],
   block : [method : {"iptables", "hosts.deny"}, path : Seq(Nat)]]

\* Block methods; hosts.deny has a path of its own if it is given none.
NoPath == <<>>
IptablesMethod == [method |-> "iptables", path |-> NoPath]
HostsDenyMethod(path) == [method |-> "hosts.deny", path |-> path]

\* rate_max_default, rate_interval_default, block_default
Default ==
  [files |-> <<>>, patterns |-> <<>>, exempted |-> <<>>,
   rate |-> [count |-> 5, interval |-> 3600], block |-> IptablesMethod]

\* What strtol(), regcomp() and inet_pton() can return, and the configuration
\* that an earlier file has left.
ASSUME WordAssumption ==
  /\ \A w \in DOMAIN Number : Number[w] \in Int
  /\ \A w \in DOMAIN Groups : Groups[w] \in Nat
  /\ \A w \in DOMAIN Rate : Rate[w] \in [count : Int, interval : Nat \ {0}]
  /\ \A w \in DOMAIN Exempt : Exempt[w] \in Argument
  /\ IntMax \in Nat \ {0} /\ UintMax \in Nat /\ UintMax >= Default.rate.count
  /\ Old \in Config
-----------------------------------------------------------------------------
(* How a file may be written (blockad.8, CONFIGURATION).                   *)
(*                                                                         *)
(* A word is at [open, at, close]: it begins at open, close is the piece   *)
(* after it, and its character i is from at[i] to before at[i + 1].        *)

\* Between double quotes, the pieces from p to before q stand for c.
WritesCharacter(l, p, q, c) ==
  \/ q = p + 1 /\ l[p] = c /\ c \notin {DoubleQuote, Backslash}
  \/ /\ l[p] = Backslash
     /\ \/ q = p + 2 /\ l[p + 1] \in DOMAIN Escape /\ c = Escape[l[p + 1]]
        \/ /\ OctalDigits(l, p + 1, q - 1) /\ ~TooLarge(l, p + 1, q - 1, 8)
           /\ c = Value(l, p + 1, q - 1, 8)
        \/ /\ l[p + 1] = LetterX
           /\ HexDigits(l, p + 2, q - 1) /\ ~TooLarge(l, p + 2, q - 1, 16)
           /\ c = Value(l, p + 2, q - 1, 16)

WritesBare(l, place, w) ==
  /\ w # <<>> /\ w[1] \notin {Hash, DoubleQuote, SingleQuote}
  /\ place.open = place.at[1]
  /\ place.close = place.at[Len(w) + 1]
  /\ place.close <= Len(l) => l[place.close] = Blank
  /\ \A i \in DOMAIN w :
       place.at[i] = place.open + i - 1 /\ l[place.at[i]] = w[i] /\ w[i] # Blank
  /\ place.at[Len(w) + 1] = place.open + Len(w)

WritesQuoted(l, place, w, q) ==
  /\ l[place.open] = q
  /\ place.at[1] = place.open + 1
  /\ place.close = place.at[Len(w) + 1] + 1
  /\ place.close <= Len(l) + 1 /\ l[place.close - 1] = q
  /\ \A i \in DOMAIN w :
       IF q = DoubleQuote
       THEN WritesCharacter(l, place.at[i], place.at[i + 1], w[i])
       ELSE place.at[i + 1] = place.at[i] + 1 /\ l[place.at[i]] = w[i] /\ w[i] # q

WritesWord(l, place, w) ==
  /\ place.open \in 1 .. Len(l)
  /\ DOMAIN place.at = 1 .. Len(w) + 1
  /\ \A i \in DOMAIN place.at : place.at[i] \in 1 .. Len(l) + 1
  /\ WritesBare(l, place, w) \/ \E q \in {DoubleQuote, SingleQuote} : WritesQuoted(l, place, w, q)

\* Where the word after the first j can begin.
After(places, j) == IF j = 0 THEN 1 ELSE places[j].close

\* From piece b on there are blanks, and perhaps a comment.
EndsFrom(l, b) ==
  \E t \in b .. Len(l) + 1 :
    (\A k \in b .. t - 1 : l[k] = Blank) /\ (t <= Len(l) => l[t] = Hash)

WritesLine(l, places, words) ==
  /\ Len(places) = Len(words)
  /\ \A j \in DOMAIN words :
       /\ WritesWord(l, places[j], words[j])
       /\ After(places, j - 1) <= places[j].open
       /\ \A k \in After(places, j - 1) .. places[j].open - 1 : l[k] = Blank
  /\ EndsFrom(l, After(places, Len(words)))

ASSUME DocumentAssumption ==
  \A d \in Document :
    /\ d.lines \in Seq(Seq(Nat))
    /\ d.words # Unknown =>
         /\ d.words \in Seq(Seq(Seq(Nat)))
         /\ Len(d.words) = Len(d.lines)
         /\ \A n \in DOMAIN d.lines : WritesLine(d.lines[n], d.places[n], d.words[n])
-----------------------------------------------------------------------------

VARIABLES
  document,       \* the file
  config,         \* *config of blockad.cc
  draft,          \* the ConfFile under construction
  lineno,
  pos,            \* splitLine: the next piece of the line, from 1
  bit,            \* splitLine, parseString: the word so far
  bits,           \* splitLine: the words so far
  quote,          \* parseString: q
  pc              \* "line", "split", "string", "parse"; "accepted", "rejected"
                  \* (SyntaxError), "aborted" (an exception nobody catches)

cursor == <<pos, bit, bits, quote>>
vars == <<document, config, draft, lineno, cursor, pc>>

TypeOK ==
  /\ config \in Config
  /\ draft \in Config
  /\ lineno \in 0 .. Len(document.lines)
  /\ pos \in 1 .. (IF lineno = 0 THEN 1 ELSE Len(document.lines[lineno]) + 1)
  /\ bit \in Seq(Nat)
  /\ bits \in Seq(Seq(Nat))
  /\ \A k \in DOMAIN bit : bit[k] \in 0 .. 255 \/ bit[k] \in ToSet(document.lines[lineno])
  /\ quote \in {DoubleQuote, SingleQuote}
  /\ pc \in {"line", "split", "string", "parse", "accepted", "rejected", "aborted"}

Init ==
  /\ document \in Document
  /\ config = Old
  /\ draft = Default
  /\ lineno = 0
  /\ pos = 1
  /\ bit = <<>>
  /\ bits = <<>>
  /\ quote = DoubleQuote
  /\ pc = "line"
-----------------------------------------------------------------------------
(* parse(): line by line.                                                  *)

NextLine ==
  /\ pc = "line"
  /\ lineno < Len(document.lines)
  /\ lineno' = lineno + 1
  /\ pos' = 1
  /\ bits' = <<>>
  /\ bit' = <<>>
  /\ pc' = "split"
  /\ UNCHANGED <<document, config, draft, quote>>

\* The constructor returns, and main() uses the new configuration.
Accept ==
  /\ pc = "line"
  /\ lineno = Len(document.lines)
  /\ config' = draft
  /\ pc' = "accepted"
  /\ UNCHANGED <<document, draft, lineno, cursor>>

\* A SyntaxError, which main() logs and forgets.
Reject ==
  /\ pc' = "rejected"
  /\ UNCHANGED <<document, config, draft, lineno, cursor>>
-----------------------------------------------------------------------------
(* splitLine().                                                            *)

Line == document.lines[lineno]
More == pos <= Len(Line)
Here == Line[pos]

EndOfLine ==
  /\ pc = "split"
  /\ ~More
  /\ pc' = IF bits = <<>> THEN "line" ELSE "parse"
  /\ UNCHANGED <<document, config, draft, lineno, cursor>>

Comment ==
  /\ pc = "split"
  /\ More /\ Here = Hash
  /\ pos' = Len(Line) + 1
  /\ UNCHANGED <<document, config, draft, lineno, bit, bits, quote, pc>>

SkipBlank ==
  /\ pc = "split"
  /\ More /\ Here = Blank
  /\ pos' = pos + 1
  /\ UNCHANGED <<document, config, draft, lineno, bit, bits, quote, pc>>

\* mutant of OpenQuote: the last word is not cleared
OpenQuoteKeepsBit ==
  /\ pc = "split"
  /\ More /\ Here \in {DoubleQuote, SingleQuote}
  /\ quote' = Here
  /\ pos' = pos + 1
  /\ pc' = "string"
  /\ UNCHANGED <<document, config, draft, lineno, bit, bits>>

OpenQuote ==
  /\ pc = "split"
  /\ More /\ Here \in {DoubleQuote, SingleQuote}
  /\ quote' = Here
  /\ bit' = <<>>
  /\ pos' = pos + 1
  /\ pc' = "string"
  /\ UNCHANGED <<document, config, draft, lineno, bits>>

\* A word without quotes: everything up to the next blank.
BareWord ==
  /\ pc = "split"
  /\ More /\ Here \notin {Hash, Blank, DoubleQuote, SingleQuote}
  /\ \E e \in pos .. Len(Line) :
       /\ \A k \in pos .. e : Line[k] # Blank
       /\ e < Len(Line) => Line[e + 1] = Blank
       /\ bit' = SubSeq(Line, pos, e)
       /\ pos' = e + 1
  /\ bits' = Append(bits, bit')
  /\ UNCHANGED <<document, config, draft, lineno, quote, pc>>
-----------------------------------------------------------------------------
(* parseString().                                                          *)

InString == pc = "string" /\ More

Escaping == InString /\ Here = Backslash /\ quote = DoubleQuote

\* The rest of the line from piece k on goes on, c being added to the word.
Add(c, k) ==
  /\ bit' = Append(bit, c)
  /\ pos' = k
  /\ UNCHANGED <<document, config, draft, lineno, bits, quote, pc>>

CloseQuote ==
  /\ InString
  /\ Here = quote
  /\ bits' = Append(bits, bit)
  /\ pos' = pos + 1
  /\ pc' = "split"
  /\ UNCHANGED <<document, config, draft, lineno, bit, quote>>

PlainCharacter ==
  /\ InString
  /\ Here # quote
  /\ ~Escaping
  /\ Add(Here, pos + 1)

\* The test "pos > line.size()" lets pos = line.size() pass: line.at(pos)
\* throws std::out_of_range, which is no runtime_error.
EscapeAtEnd ==
  /\ Escaping
  /\ pos = Len(Line)
  /\ pc' = "aborted"
  /\ UNCHANGED <<document, config, draft, lineno, cursor>>

SimpleEscape ==
  /\ Escaping
  /\ pos < Len(Line)
  /\ Line[pos + 1] \in DOMAIN Escape
  /\ Add(Escape[Line[pos + 1]], pos + 2)

\* \x and every hexadecimal digit after it, unless that makes too much.
HexEscape ==
  /\ Escaping
  /\ pos < Len(Line)
  /\ Line[pos + 1] = LetterX
  /\ \E e \in pos + 1 .. Len(Line) :
       /\ HexDigits(Line, pos + 2, e)
       /\ IF TooLarge(Line, pos + 2, e, 16) THEN Reject ELSE Add(Value(Line, pos + 2, e, 16), e + 1)

\* mutant of OctalEscape: the value is not checked
OctalEscapeUnchecked ==
  /\ Escaping
  /\ \E e \in pos + 1 .. pos + 3 :
       /\ OctalDigits(Line, pos + 1, e)
       /\ Add(Value(Line, pos + 1, e, 8), e + 1)

\* One to three octal digits.
OctalEscape ==
  /\ Escaping
  /\ \E e \in pos + 1 .. pos + 3 :
       /\ OctalDigits(Line, pos + 1, e)
       /\ IF TooLarge(Line, pos + 1, e, 8) THEN Reject ELSE Add(Value(Line, pos + 1, e, 8), e + 1)

UnknownEscape ==
  /\ Escaping
  /\ pos < Len(Line)
  /\ Line[pos + 1] \notin DOMAIN Escape \cup Octal \cup {LetterX}
  /\ Reject

Unterminated ==
  /\ pc = "string"
  /\ ~More
  /\ Reject
-----------------------------------------------------------------------------
(* parseLine().                                                            *)

Directive(word) == pc = "parse" /\ bits[1] = word

Apply(new) ==
  /\ draft' = new
  /\ pc' = "line"
  /\ UNCHANGED <<document, config, lineno, cursor>>

Watch ==
  /\ Directive(WatchWord)
  /\ IF Len(bits) = 2
     THEN Apply([draft EXCEPT !.files = Append(@, bits[2])])
     ELSE Reject

\* The number of the capture, the regex, and whether it has that capture.
CaptureOK == Len(bits) = 3 => bits[3] \in DOMAIN Number /\ Number[bits[3]] \in 1 .. IntMax

CaptureNumber == IF Len(bits) = 3 THEN Number[bits[3]] ELSE 1

Match ==
  /\ Directive(AddressWord)
  /\ IF /\ Len(bits) \in {2, 3}
        /\ CaptureOK
        /\ bits[2] \in DOMAIN Groups
        /\ Groups[bits[2]] # 0 /\ CaptureNumber <= Groups[bits[2]]
     THEN Apply([draft EXCEPT !.patterns =
                   Append(@, [regex |-> bits[2], capture |-> CaptureNumber])])
     ELSE Reject

\* mutant of SetRate: the first one wins
SetRateOnce ==
  /\ Directive(RateWord)
  /\ IF /\ Len(bits) = 2
        /\ bits[2] \in DOMAIN Rate
        /\ Rate[bits[2]].count \in 1 .. UintMax
     THEN Apply(IF draft.rate = Default.rate THEN [draft EXCEPT !.rate = Rate[bits[2]]] ELSE draft)
     ELSE Reject

SetRate ==
  /\ Directive(RateWord)
  /\ IF /\ Len(bits) = 2
        /\ bits[2] \in DOMAIN Rate
        /\ Rate[bits[2]].count \in 1 .. UintMax
     THEN Apply([draft EXCEPT !.rate = Rate[bits[2]]])
     ELSE Reject

\* The address pattern throws an error of its own, and parse() converts it.
AddExempt ==
  /\ Directive(ExemptWord)
  /\ IF Len(bits) = 2 /\ bits[2] \in DOMAIN Exempt /\ BitsOK(Exempt[bits[2]])
     THEN Apply([draft EXCEPT !.exempted = Append(@, Pattern(Exempt[bits[2]]))])
     ELSE Reject

SetBlock ==
  /\ Directive(BlockWord)
  /\ CASE Len(bits) = 2 /\ bits[2] = IptablesWord ->
            Apply([draft EXCEPT !.block = IptablesMethod])
       [] Len(bits) = 2 /\ bits[2] = HostsDenyWord ->
            Apply([draft EXCEPT !.block = HostsDenyMethod(NoPath)])
       [] Len(bits) = 3 /\ bits[2] = HostsDenyWord ->
            Apply([draft EXCEPT !.block = HostsDenyMethod(bits[3])])
       [] OTHER -> Reject

UnknownDirective ==
  /\ pc = "parse"
  /\ bits[1] \notin {WatchWord, AddressWord, RateWord, ExemptWord, BlockWord}
  /\ Reject

Next ==
  \/ NextLine \/ Accept
  \/ EndOfLine \/ Comment \/ SkipBlank \/ OpenQuote \/ BareWord
  \/ CloseQuote \/ PlainCharacter \/ EscapeAtEnd \/ SimpleEscape \/ HexEscape
  \/ OctalEscape \/ UnknownEscape \/ Unterminated
  \/ Watch \/ Match \/ SetRate \/ AddExempt \/ SetBlock \/ UnknownDirective

Spec == Init /\ [][Next]_vars
-----------------------------------------------------------------------------
Written == document.words # Unknown

\* blockad.8: arguments may be bare, in single quotes, or in double quotes
\* with C's escapes.  However a line was written from its words in these
\* ways, splitLine() finds the words again, and does not reject it.
SplitsAsWritten ==
  Written /\ pc \in {"parse", "rejected", "aborted"} => bits = document.words[lineno]

\* The lines of a command among the first n, and the number of line k in them.
Given(command, n) ==
  {k \in 1 .. n : document.words[k] # <<>> /\ document.words[k][1] = command}
Rank(k, S) == Cardinality({m \in S : m <= k})
IsLast(k, S) == k \in S /\ \A m \in S : m <= k

\* What the directives of the first n lines mean (blockad.8: all can be used
\* more than once, the last rate and block win).
FilesMean(c, n) ==
  LET S == Given(WatchWord, n)
  IN  /\ Len(c.files) = Cardinality(S)
      /\ \A k \in S : c.files[Rank(k, S)] = document.words[k][2]

PatternsMean(c, n) ==
  LET S == Given(AddressWord, n)
  IN  /\ Len(c.patterns) = Cardinality(S)
      /\ \A k \in S :
           LET w == document.words[k]    p == c.patterns[Rank(k, S)]
           IN  /\ p.regex = w[2]
               /\ p.capture = IF Len(w) = 2 THEN 1 ELSE Number[w[3]]
               /\ p.capture <= Groups[w[2]]

ExemptionsMean(c, n) ==
  LET S == Given(ExemptWord, n)
  IN  /\ Len(c.exempted) = Cardinality(S)
      /\ \A k \in S : c.exempted[Rank(k, S)].network = Exempt[document.words[k][2]].address

RateMeans(c, n) ==
  LET S == Given(RateWord, n)
  IN  IF S = {} THEN c.rate = Default.rate
      ELSE \A k \in S : IsLast(k, S) => c.rate = Rate[document.words[k][2]]

BlockMeans(c, n) ==
  LET S == Given(BlockWord, n)
  IN  IF S = {} THEN c.block = Default.block
      ELSE \A k \in S : IsLast(k, S) =>
             LET w == document.words[k]
             IN  c.block = IF w[2] = IptablesWord THEN IptablesMethod
                           ELSE HostsDenyMethod(IF Len(w) = 3 THEN w[3] ELSE NoPath)

Means(c, n) ==
  /\ FilesMean(c, n)
  /\ PatternsMean(c, n)
  /\ ExemptionsMean(c, n)
  /\ RateMeans(c, n)
  /\ BlockMeans(c, n)

\* A file takes effect as a whole, as the order and repetition of its
\* directives demand, or, whichever line is wrong, not at all.
AllOrNothing ==
  Written => IF pc = "accepted" THEN Means(config, Len(document.words)) ELSE config = Old

\* The addresses on which the properties judge masks: the ones a file names,
\* with one of their bits inverted or none.
Flip(a, k) ==
  [a EXCEPT ![k \div 8] =
    IF Bit(a, k) = 1 THEN @ - 2 ^ (7 - (k % 8)) ELSE @ + 2 ^ (7 - (k % 8))]

Sample ==
  LET named == {Exempt[w].address : w \in DOMAIN Exempt}
  IN  named \cup {Flip(a, k) : a \in named, k \in 0 .. 8 * Bytes - 1}

ExemptsNetworks(Judged(_)) ==
  Written /\ pc = "accepted" =>
    LET S == Given(ExemptWord, Len(document.words))
    IN  \A k \in S :
          LET arg == Exempt[document.words[k][2]]
          IN  Judged(arg) =>
                \A a \in Sample : Matches(config.exempted[Rank(k, S)], a) <=> InNetwork(a, arg)

\* An exempted network, of either version and with any mask, is exactly the
\* addresses that agree with it in the bits of the mask, if it is named by
\* its lowest address.
ExemptsCanonical == ExemptsNetworks(Canonical)

\* blockad.8: "any address in the network ADDRESS/MASK", whatever ADDRESS.
ExemptsAny == ExemptsNetworks(LAMBDA arg : TRUE)

\* blockad.8, SIGNALS: with a syntax error in the file, the old version will
\* be used.
SyntaxErrorKeepsOld == pc # "aborted"
=============================================================================
