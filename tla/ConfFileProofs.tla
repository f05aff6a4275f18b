--------------------------- MODULE ConfFileProofs ---------------------------
(***************************************************************************)
(* Theorems about ConfFile, for files of any length with lines and words   *)
(* of any length.                                                          *)
(*                                                                         *)
(* The induction follows the parser through a line: how far it is, and     *)
(* which words it has found, among those the line was written from; and    *)
(* then through the lines: what draft holds of the directives so far.      *)
(***************************************************************************)
EXTENDS ConfFile, AddressPatternProofs, SequenceTheorems, FiniteSetTheorems, TLAPS

Types ==
  /\ TypeOK
  /\ document \in Document
  /\ pc \in {"split", "string", "parse"} => lineno # 0
-----------------------------------------------------------------------------
(* Types.                                                                  *)

LEMMA LineType ==
  ASSUME Types, lineno # 0
  PROVE  /\ lineno \in DOMAIN document.lines
         /\ Line \in Seq(Nat) /\ Len(Line) \in Nat /\ DOMAIN Line = 1 .. Len(Line)
         /\ pos \in 1 .. Len(Line) + 1
         /\ \A k \in DOMAIN Line : Line[k] \in Nat /\ Line[k] \in ToSet(Line)
<1>1. document.lines \in Seq(Seq(Nat))
  BY DocumentAssumption DEF Types
<1>2. lineno \in 1 .. Len(document.lines)
  BY <1>1 DEF Types, TypeOK
<1>3. lineno \in DOMAIN document.lines /\ Line \in Seq(Nat)
  BY <1>1, <1>2 DEF Line
<1>4. pos \in 1 .. Len(Line) + 1
  BY <1>2 DEF Types, TypeOK, Line
<1> QED  BY <1>3, <1>4 DEF ToSet

LEMMA HexValues ==
  /\ \A c \in DOMAIN HexValue : HexValue[c] \in 0 .. 15
  /\ Octal \subseteq DOMAIN HexValue
  /\ \A c \in DOMAIN Escape : Escape[c] \in 0 .. 255
<1>1. \A c \in DOMAIN HexValue : HexValue[c] \in 0 .. 15
  BY DEF HexValue
<1>2. Octal \subseteq DOMAIN HexValue
  BY DEF Octal, HexValue
<1>3. \A c \in DOMAIN Escape : Escape[c] \in 0 .. 255
  BY DEF Escape
<1> QED  BY <1>1, <1>2, <1>3

LEMMA ValueType ==
  ASSUME NEW l, NEW k \in Int, NEW e \in Int, NEW base \in {8, 16},
         Digits(l, k, e, DOMAIN HexValue), ~TooLarge(l, k, e, base)
  PROVE  Value(l, k, e, base) \in 0 .. 255
<1>1. \A m \in Int : m <= e => Digit(l, k, m) \in 0 .. 15
  BY HexValues DEF Digits, Digit
<1>2. Digit(l, k, e) \in Nat /\ Digit(l, k, e - 1) \in Nat /\ Digit(l, k, e - 2) \in Nat
  BY <1>1
<1>3. Value(l, k, e, base) \in Nat
  BY <1>2 DEF Value
<1> QED  BY <1>3 DEF TooLarge

\* A step within a line.
LEMMA WithinLine ==
  ASSUME Types, lineno # 0,
         UNCHANGED <<document, config, draft, lineno>>,
         pos' \in 1 .. Len(Line) + 1,
         bit' \in Seq(Nat),
         \A k \in DOMAIN bit' : bit'[k] \in 0 .. 255 \/ bit'[k] \in ToSet(Line),
         bits' \in Seq(Seq(Nat)),
         quote' \in {DoubleQuote, SingleQuote},
         pc' \in {"line", "split", "string", "parse", "rejected", "aborted"}
  PROVE  Types'
BY DEF Types, TypeOK, Line

LEMMA AddKeeps ==
  ASSUME Types, lineno # 0, NEW c \in Nat, c \in 0 .. 255 \/ c \in ToSet(Line),
         NEW k \in 1 .. Len(Line) + 1, Add(c, k)
  PROVE  Types'
<1>1. /\ bit \in Seq(Nat) /\ bits \in Seq(Seq(Nat)) /\ quote \in {DoubleQuote, SingleQuote}
      /\ \A j \in DOMAIN bit : bit[j] \in 0 .. 255 \/ bit[j] \in ToSet(Line)
  BY DEF Types, TypeOK, Line
<1>2. /\ UNCHANGED <<document, config, draft, lineno, bits, quote, pc>>
      /\ pos' = k /\ bit' = Append(bit, c)
  BY DEF Add
<1>3. bit' \in Seq(Nat)
  BY <1>1, <1>2
<1>4. \A j \in DOMAIN bit' : bit'[j] \in 0 .. 255 \/ bit'[j] \in ToSet(Line)
  <2> TAKE j \in DOMAIN bit'
  <2>1. j \in 1 .. Len(bit) + 1
    BY <1>1, <1>2
  <2>2. bit'[j] = IF j \in DOMAIN bit THEN bit[j] ELSE c
    BY <1>1, <1>2, <2>1
  <2> QED  BY <1>1, <2>2
<1>5. CASE pc \in {"line", "split", "string", "parse", "rejected", "aborted"}
  BY <1>1, <1>2, <1>3, <1>4, <1>5, WithinLine
<1>6. CASE pc = "accepted"
  <2> QED  BY <1>1, <1>2, <1>3, <1>4, <1>6 DEF Types, TypeOK, Line
<1> QED  BY <1>5, <1>6 DEF Types, TypeOK

LEMMA RejectKeeps ==
  ASSUME Types, Reject
  PROVE  Types'
BY DEF Types, TypeOK, Reject, cursor

LEMMA ApplyKeeps ==
  ASSUME Types, NEW new \in Config, Apply(new)
  PROVE  Types'
BY DEF Types, TypeOK, Apply, cursor

\* The steps of splitLine().
LEMMA SplitTypes ==
  ASSUME Types, EndOfLine \/ Comment \/ SkipBlank \/ OpenQuote \/ BareWord
  PROVE  Types'
<1>1. pc = "split" /\ lineno # 0
  BY DEF Types, EndOfLine, Comment, SkipBlank, OpenQuote, BareWord
<1>2. /\ bit \in Seq(Nat) /\ bits \in Seq(Seq(Nat)) /\ quote \in {DoubleQuote, SingleQuote}
      /\ \A j \in DOMAIN bit : bit[j] \in 0 .. 255 \/ bit[j] \in ToSet(Line)
  BY DEF Types, TypeOK, Line
<1>3. /\ Line \in Seq(Nat) /\ Len(Line) \in Nat /\ DOMAIN Line = 1 .. Len(Line)
      /\ pos \in 1 .. Len(Line) + 1
      /\ \A k \in DOMAIN Line : Line[k] \in Nat /\ Line[k] \in ToSet(Line)
  BY <1>1, LineType
<1>4. CASE EndOfLine
  <2>1. UNCHANGED <<document, config, draft, lineno, pos, bit, bits, quote>> /\ pc' \in {"line", "parse"}
    BY <1>4 DEF EndOfLine, cursor
  <2>2. /\ pos' \in 1 .. Len(Line) + 1 /\ bit' \in Seq(Nat) /\ bits' \in Seq(Seq(Nat))
        /\ \A j \in DOMAIN bit' : bit'[j] \in 0 .. 255 \/ bit'[j] \in ToSet(Line)
    BY <1>2, <1>3, <2>1
  <2> QED  BY <1>1, <1>2, <2>1, <2>2, WithinLine
<1>5. CASE Comment
  <2>1. /\ UNCHANGED <<document, config, draft, lineno, bit, bits, quote, pc>>
        /\ pos' = Len(Line) + 1
    BY <1>5 DEF Comment
  <2>2. /\ pos' \in 1 .. Len(Line) + 1 /\ bit' \in Seq(Nat) /\ bits' \in Seq(Seq(Nat))
        /\ \A j \in DOMAIN bit' : bit'[j] \in 0 .. 255 \/ bit'[j] \in ToSet(Line)
    BY <1>2, <1>3, <2>1
  <2> QED  BY <1>1, <1>2, <2>1, <2>2, WithinLine
<1>6. CASE SkipBlank
  <2>1. /\ UNCHANGED <<document, config, draft, lineno, bit, bits, quote, pc>>
        /\ pos' = pos + 1 /\ pos <= Len(Line)
    BY <1>6 DEF SkipBlank, More
  <2> QED  BY <1>1, <1>2, <1>3, <2>1, WithinLine
<1>7. CASE OpenQuote
  <2>1. /\ UNCHANGED <<document, config, draft, lineno, bits>>
        /\ pos' = pos + 1 /\ pos <= Len(Line) /\ bit' = <<>> /\ pc' = "string"
        /\ quote' \in {DoubleQuote, SingleQuote}
    BY <1>7 DEF OpenQuote, More
  <2>2. bit' \in Seq(Nat) /\ DOMAIN bit' = {}
    BY <2>1
  <2> QED  BY <1>1, <1>2, <1>3, <2>1, <2>2, WithinLine
<1>8. CASE BareWord
  <2>1. PICK e \in pos .. Len(Line) : bit' = SubSeq(Line, pos, e) /\ pos' = e + 1
    BY <1>8 DEF BareWord
  <2>2. /\ UNCHANGED <<document, config, draft, lineno, quote, pc>>
        /\ bits' = Append(bits, bit')
    BY <1>8 DEF BareWord
  <2>3. /\ bit' \in Seq(Nat) /\ Len(bit') = e - pos + 1
        /\ \A k \in DOMAIN bit' : bit'[k] = Line[pos + k - 1] /\ pos + k - 1 \in DOMAIN Line
    <3>1. \A k \in pos .. e : Line[k] \in Nat
      BY <1>3
    <3>2. SubSeq(Line, pos, e) \in Seq(Nat) /\ Len(SubSeq(Line, pos, e)) = e - pos + 1
      BY <1>3, <2>1, SubSeqProperties
    <3>3. \A k \in 1 .. e - pos + 1 : SubSeq(Line, pos, e)[k] = Line[pos + k - 1]
      BY <1>3, <2>1, SubSeqProperties
    <3>4. DOMAIN SubSeq(Line, pos, e) = 1 .. e - pos + 1
      BY <1>3, <3>2
    <3>5. \A k \in 1 .. e - pos + 1 : pos + k - 1 \in DOMAIN Line
      BY <1>3, <2>1
    <3> QED  BY <2>1, <3>2, <3>3, <3>4, <3>5
  <2>4. bits' \in Seq(Seq(Nat))
    BY <1>2, <2>2, <2>3
  <2>5. \A k \in DOMAIN bit' : bit'[k] \in 0 .. 255 \/ bit'[k] \in ToSet(Line)
    BY <1>3, <2>3
  <2>6. pos' \in 1 .. Len(Line) + 1
    BY <1>3, <2>1
  <2> QED  BY <1>1, <1>2, <2>2, <2>3, <2>4, <2>5, <2>6, WithinLine
<1> QED  BY <1>4, <1>5, <1>6, <1>7, <1>8

\* The steps of parseString().
LEMMA StringTypes ==
  ASSUME Types,
         \/ CloseQuote \/ PlainCharacter \/ EscapeAtEnd \/ SimpleEscape \/ HexEscape
         \/ OctalEscape \/ UnknownEscape \/ Unterminated
  PROVE  Types'
<1>1. pc = "string" /\ lineno # 0
  BY DEF Types, CloseQuote, PlainCharacter, EscapeAtEnd, SimpleEscape, HexEscape, OctalEscape,
         UnknownEscape, Unterminated, Escaping, InString
<1>2. /\ bit \in Seq(Nat) /\ bits \in Seq(Seq(Nat)) /\ quote \in {DoubleQuote, SingleQuote}
      /\ \A j \in DOMAIN bit : bit[j] \in 0 .. 255 \/ bit[j] \in ToSet(Line)
  BY DEF Types, TypeOK, Line
<1>3. /\ Line \in Seq(Nat) /\ Len(Line) \in Nat /\ DOMAIN Line = 1 .. Len(Line)
      /\ pos \in 1 .. Len(Line) + 1
      /\ \A k \in DOMAIN Line : Line[k] \in Nat /\ Line[k] \in ToSet(Line)
  BY <1>1, LineType
<1>4. CASE CloseQuote
  <2>1. /\ UNCHANGED <<document, config, draft, lineno, bit, quote>>
        /\ pos' = pos + 1 /\ pos <= Len(Line) /\ bits' = Append(bits, bit) /\ pc' = "split"
    BY <1>4 DEF CloseQuote, InString, More
  <2>2. bits' \in Seq(Seq(Nat))
    BY <1>2, <2>1
  <2> QED  BY <1>1, <1>2, <1>3, <2>1, <2>2, WithinLine
<1>5. CASE PlainCharacter
  <2>1. pos <= Len(Line) /\ Add(Line[pos], pos + 1)
    BY <1>5 DEF PlainCharacter, InString, More, Here
  <2>2. pos \in DOMAIN Line /\ pos + 1 \in 1 .. Len(Line) + 1
    BY <1>3, <2>1
  <2> QED  BY <1>1, <1>3, <2>1, <2>2, AddKeeps
<1>6. CASE EscapeAtEnd
  <2>1. /\ UNCHANGED <<document, config, draft, lineno, pos, bit, bits, quote>>
        /\ pc' = "aborted"
    BY <1>6 DEF EscapeAtEnd, cursor
  <2> QED  BY <1>1, <1>2, <1>3, <2>1, WithinLine
<1>7. CASE SimpleEscape
  <2>1. /\ pos < Len(Line) /\ Line[pos + 1] \in DOMAIN Escape
        /\ Add(Escape[Line[pos + 1]], pos + 2)
    BY <1>7 DEF SimpleEscape
  <2>2. Escape[Line[pos + 1]] \in 0 .. 255 /\ Escape[Line[pos + 1]] \in Nat /\ pos + 2 \in 1 .. Len(Line) + 1
    <3>1. Escape[Line[pos + 1]] \in 0 .. 255
      BY <2>1, HexValues
    <3>2. pos + 2 \in 1 .. Len(Line) + 1
      BY <1>3, <2>1
    <3>3. 0 .. 255 \subseteq Nat
      OBVIOUS
    <3> QED  BY <3>1, <3>2, <3>3, Zenon
  <2> QED  BY <1>1, <2>1, <2>2, AddKeeps
<1>8. CASE HexEscape
  <2>1. PICK e \in pos + 1 .. Len(Line) :
          /\ HexDigits(Line, pos + 2, e)
          /\ IF TooLarge(Line, pos + 2, e, 16) THEN Reject ELSE Add(Value(Line, pos + 2, e, 16), e + 1)
    BY <1>8 DEF HexEscape
  <2>2. CASE TooLarge(Line, pos + 2, e, 16)
    BY <2>1, <2>2, RejectKeeps
  <2>3. CASE ~TooLarge(Line, pos + 2, e, 16)
    <3>1. Value(Line, pos + 2, e, 16) \in 0 .. 255 /\ Value(Line, pos + 2, e, 16) \in Nat
      <4>1. pos + 2 \in Int /\ e \in Int
        BY <1>3
      <4>2. Digits(Line, pos + 2, e, DOMAIN HexValue)
        BY <2>1 DEF HexDigits
      <4>3. Value(Line, pos + 2, e, 16) \in 0 .. 255
        BY <2>3, <4>1, <4>2, ValueType
      <4>4. 0 .. 255 \subseteq Nat
        OBVIOUS
      <4> QED  BY <4>3, <4>4, Zenon
    <3>2. e + 1 \in 1 .. Len(Line) + 1
      BY <1>3
    <3> QED  BY <1>1, <2>1, <2>3, <3>1, <3>2, AddKeeps
  <2> QED  BY <2>2, <2>3
<1>9. CASE OctalEscape
  <2>1. PICK e \in pos + 1 .. pos + 3 :
          /\ OctalDigits(Line, pos + 1, e)
          /\ IF TooLarge(Line, pos + 1, e, 8) THEN Reject ELSE Add(Value(Line, pos + 1, e, 8), e + 1)
    BY <1>9 DEF OctalEscape
  <2>2. CASE TooLarge(Line, pos + 1, e, 8)
    BY <2>1, <2>2, RejectKeeps
  <2>3. CASE ~TooLarge(Line, pos + 1, e, 8)
    <3>1. Digits(Line, pos + 1, e, DOMAIN HexValue) /\ e \in DOMAIN Line
      BY <1>3, <2>1, HexValues DEF OctalDigits, Digits
    <3>2. Value(Line, pos + 1, e, 8) \in 0 .. 255 /\ Value(Line, pos + 1, e, 8) \in Nat
      <4>1. pos + 1 \in Int /\ e \in Int
        BY <1>3
      <4> QED  BY <2>3, <3>1, <4>1, ValueType
    <3>3. e + 1 \in 1 .. Len(Line) + 1
      BY <1>3, <3>1
    <3> QED  BY <1>1, <2>1, <2>3, <3>2, <3>3, AddKeeps
  <2> QED  BY <2>2, <2>3
<1>10. CASE UnknownEscape \/ Unterminated
  BY <1>10, RejectKeeps DEF UnknownEscape, Unterminated
<1> QED  BY <1>4, <1>5, <1>6, <1>7, <1>8, <1>9, <1>10

\* Defaults and arguments of directives.
LEMMA DefaultType == Default \in Config
<1>1. Default.rate \in [count : 1 .. UintMax, interval : Nat \ {0}]
  BY WordAssumption DEF Default
<1>2. Default.block \in [method : {"iptables", "hosts.deny"}, path : Seq(Nat)]
  BY DEF Default, IptablesMethod, NoPath
<1> QED  BY <1>1, <1>2 DEF Default, Config

LEMMA MaskByteType ==
  ASSUME NEW m \in Nat, NEW n \in Nat
  PROVE  MaskByte(m, n) \in Byte
<1>1. m \div 8 \in Nat /\ m % 8 \in 0 .. 7
  OBVIOUS
<1>2. 2 ^ (8 - (m % 8)) \in Int
  BY <1>1
<1>3. (255 * 2 ^ (8 - (m % 8))) % 256 \in 0 .. 255
  <2>1. \A z \in Int : (255 * z) % 256 \in 0 .. 255
    OBVIOUS
  <2> QED  BY <1>2, <2>1
<1> QED  BY <1>1, <1>3 DEF MaskByte, Byte

LEMMA PatternType ==
  ASSUME NEW arg \in Argument, BitsOK(arg)
  PROVE  Pattern(arg) \in [network : Address, mask : Address]
<1>1. MaskBits(arg) \in Nat
  BY MaskBitsType, BytesAssumption
<1>2. \A n \in Position : MaskByte(MaskBits(arg), n) \in Byte
  BY <1>1, MaskByteType DEF Position
<1> QED  BY <1>2 DEF Pattern, Address, Argument

\* The steps of parseLine().
LEMMA DirectiveTypes ==
  ASSUME Types, Watch \/ Match \/ SetRate \/ AddExempt \/ SetBlock \/ UnknownDirective
  PROVE  Types'
<1>1. /\ draft \in Config /\ bits \in Seq(Seq(Nat))
      /\ draft.files \in Seq(Seq(Nat))
      /\ draft.patterns \in Seq([regex : DOMAIN Groups, capture : 1 .. IntMax])
      /\ draft.exempted \in Seq([network : Address, mask : Address])
      /\ draft.rate \in [count : 1 .. UintMax, interval : Nat \ {0}]
      /\ draft.block \in [method : {"iptables", "hosts.deny"}, path : Seq(Nat)]
  BY DEF Types, TypeOK, Config
<1>2. CASE Reject
  BY <1>2, RejectKeeps
<1>3. CASE Watch /\ ~Reject
  <2>1. Len(bits) = 2 /\ Apply([draft EXCEPT !.files = Append(@, bits[2])])
    BY <1>3 DEF Watch
  <2>2. Append(draft.files, bits[2]) \in Seq(Seq(Nat))
    <3>1. bits[2] \in Seq(Nat)
      <4>1. 2 \in 1 .. Len(bits)
        BY <2>1
      <4> QED  BY <1>1, <4>1, ElementOfSeq, Zenon
    <3> QED  BY <1>1, <3>1
  <2>3. [draft EXCEPT !.files = Append(@, bits[2])] \in Config
    BY <1>1, <2>2 DEF Config
  <2> QED  BY <2>1, <2>3, ApplyKeeps
<1>4. CASE Match /\ ~Reject
  <2> DEFINE p == [regex |-> bits[2], capture |-> CaptureNumber]
  <2>1. /\ Len(bits) \in {2, 3} /\ CaptureOK /\ bits[2] \in DOMAIN Groups
        /\ Apply([draft EXCEPT !.patterns = Append(@, p)])
    BY <1>4 DEF Match
  <2>2. CaptureNumber \in 1 .. IntMax
    BY <2>1, WordAssumption DEF CaptureOK, CaptureNumber
  <2>3. p \in [regex : DOMAIN Groups, capture : 1 .. IntMax]
    BY <2>1, <2>2
  <2> HIDE DEF p
  <2>4. Append(draft.patterns, p) \in Seq([regex : DOMAIN Groups, capture : 1 .. IntMax])
    BY <1>1, <2>3
  <2>5. [draft EXCEPT !.patterns = Append(@, p)] \in Config
    BY <1>1, <2>4 DEF Config
  <2> QED  BY <2>1, <2>5, ApplyKeeps
<1>5. CASE SetRate /\ ~Reject
  <2>1. /\ bits[2] \in DOMAIN Rate /\ Rate[bits[2]].count \in 1 .. UintMax
        /\ Apply([draft EXCEPT !.rate = Rate[bits[2]]])
    BY <1>5 DEF SetRate
  <2>2. Rate[bits[2]] \in [count : 1 .. UintMax, interval : Nat \ {0}]
    BY <2>1, WordAssumption
  <2>3. [draft EXCEPT !.rate = Rate[bits[2]]] \in Config
    BY <1>1, <2>2 DEF Config
  <2> QED  BY <2>1, <2>3, ApplyKeeps
<1>6. CASE AddExempt /\ ~Reject
  <2>1. /\ bits[2] \in DOMAIN Exempt /\ BitsOK(Exempt[bits[2]])
        /\ Apply([draft EXCEPT !.exempted = Append(@, Pattern(Exempt[bits[2]]))])
    BY <1>6 DEF AddExempt
  <2>2. Pattern(Exempt[bits[2]]) \in [network : Address, mask : Address]
    BY <2>1, PatternType, WordAssumption
  <2>3. Append(draft.exempted, Pattern(Exempt[bits[2]])) \in Seq([network : Address, mask : Address])
    BY <1>1, <2>2
  <2>4. [draft EXCEPT !.exempted = Append(@, Pattern(Exempt[bits[2]]))] \in Config
    BY <1>1, <2>3 DEF Config
  <2> QED  BY <2>1, <2>4, ApplyKeeps
<1>7. CASE SetBlock /\ ~Reject
  <2>1. PICK b : /\ Apply([draft EXCEPT !.block = b])
                 /\ \/ b = IptablesMethod \/ b = HostsDenyMethod(NoPath)
                    \/ Len(bits) = 3 /\ b = HostsDenyMethod(bits[3])
    BY <1>7 DEF SetBlock
  <2>2. b \in [method : {"iptables", "hosts.deny"}, path : Seq(Nat)]
    <3>1. /\ Len(bits) = 3 => bits[3] \in Seq(Nat)
          /\ NoPath \in Seq(Nat)
      BY <1>1 DEF NoPath
    <3> QED  BY <2>1, <3>1 DEF IptablesMethod, HostsDenyMethod
  <2>3. [draft EXCEPT !.block = b] \in Config
    BY <1>1, <2>2 DEF Config
  <2> QED  BY <2>1, <2>3, ApplyKeeps
<1> QED  BY <1>2, <1>3, <1>4, <1>5, <1>6, <1>7 DEF UnknownDirective

LEMMA TypesKept ==
  ASSUME Types, [Next]_vars
  PROVE  Types'
<1>1. CASE NextLine
  <2>1. document.lines \in Seq(Seq(Nat)) /\ lineno \in 0 .. Len(document.lines)
    BY DocumentAssumption DEF Types, TypeOK
  <2>2. /\ UNCHANGED <<document, config, draft, quote>>
        /\ lineno' = lineno + 1 /\ lineno < Len(document.lines)
        /\ pos' = 1 /\ bits' = <<>> /\ bit' = <<>> /\ pc' = "split"
    BY <1>1 DEF NextLine
  <2>3. lineno' \in 1 .. Len(document.lines) /\ Len(document.lines[lineno']) \in Nat
    BY <2>1, <2>2
  <2>4. bits' \in Seq(Seq(Nat)) /\ bit' \in Seq(Nat) /\ DOMAIN bit' = {}
    BY <2>2
  <2> QED  BY <2>2, <2>3, <2>4 DEF Types, TypeOK
<1>2. CASE Accept
  BY <1>2 DEF Accept, Types, TypeOK, cursor
<1>3. CASE UNCHANGED vars
  BY <1>3 DEF vars, cursor, Types, TypeOK
<1> QED  BY <1>1, <1>2, <1>3, SplitTypes, StringTypes, DirectiveTypes DEF Next

LEMMA TypesInit == Init => Types
<1> SUFFICES ASSUME Init PROVE Types
  OBVIOUS
<1>1. document \in Document /\ document.lines \in Seq(Seq(Nat))
  BY DocumentAssumption DEF Init
<1>2. config \in Config /\ draft \in Config
  BY DefaultType, WordAssumption DEF Init
<1>3. bit \in Seq(Nat) /\ DOMAIN bit = {} /\ bits \in Seq(Seq(Nat))
  BY DEF Init
<1> QED  BY <1>1, <1>2, <1>3 DEF Init, Types, TypeOK

\* Variables and constants have their types: what is found in a file is fit to
\* be the configuration, and the parser stays within the line.
THEOREM ConfFileTypes == Spec => []TypeOK
<1>1. Types => TypeOK
  BY DEF Types
<1> QED  BY <1>1, TypesInit, TypesKept, PTL DEF Spec
-----------------------------------------------------------------------------
(* Words are found again.                                                  *)

Words == document.words[lineno]
Places == document.places[lineno]

\* The word that comes next, and where it is.
NextWord == Words[Len(bits) + 1]
NextPlace == Places[Len(bits) + 1]

Found ==
  /\ Len(bits) <= Len(Words)
  /\ \A j \in 1 .. Len(bits) : bits[j] = Words[j]

\* Between words.
Between ==
  /\ Found
  /\ After(Places, Len(bits)) <= pos
  /\ Len(bits) < Len(Words) => pos <= NextPlace.open
  /\ Len(bits) = Len(Words) => EndsFrom(Line, pos)

\* Between quotes.
Within ==
  /\ Found
  /\ Len(bits) < Len(Words)
  /\ WritesQuoted(Line, NextPlace, NextWord, quote)
  /\ Len(bit) <= Len(NextWord)
  /\ \A i \in 1 .. Len(bit) : bit[i] = NextWord[i]
  /\ pos = NextPlace.at[Len(bit) + 1]

Tracks ==
  /\ pc = "split" => Between
  /\ pc = "string" => Within
  /\ pc \in {"parse", "rejected", "aborted"} => bits = Words

LEMMA AsWritten ==
  ASSUME Types, Written, lineno # 0
  PROVE  /\ Words \in Seq(Seq(Nat)) /\ Len(Words) \in Nat
         /\ WritesLine(Line, Places, Words)
         /\ lineno \in DOMAIN document.words
<1>1. /\ lineno \in DOMAIN document.lines
      /\ document.lines \in Seq(Seq(Nat))
      /\ document.words \in Seq(Seq(Seq(Nat)))
      /\ Len(document.words) = Len(document.lines)
      /\ \A n \in DOMAIN document.lines :
           WritesLine(document.lines[n], document.places[n], document.words[n])
  BY LineType, DocumentAssumption DEF Types, Written
<1>2. lineno \in 1 .. Len(document.words) /\ DOMAIN document.words = 1 .. Len(document.words)
  BY <1>1
<1>3. Words \in Seq(Seq(Nat))
  BY <1>1, <1>2, ElementOfSeq, Zenon DEF Words
<1> QED  BY <1>1, <1>2, <1>3 DEF Line, Places, Words

\* The place of the next word.
LEMMA NextPlaced ==
  ASSUME Types, Written, lineno # 0, Found, Len(bits) < Len(Words)
  PROVE  /\ Len(bits) + 1 \in 1 .. Len(Words)
         /\ NextWord \in Seq(Nat) /\ Len(NextWord) \in Nat /\ DOMAIN NextWord = 1 .. Len(NextWord)
         /\ WritesWord(Line, NextPlace, NextWord)
         /\ NextPlace.open \in 1 .. Len(Line)
         /\ \A i \in 1 .. Len(NextWord) + 1 : NextPlace.at[i] \in 1 .. Len(Line) + 1
         /\ \A k \in After(Places, Len(bits)) .. NextPlace.open - 1 : Line[k] = Blank
<1>1. /\ Words \in Seq(Seq(Nat)) /\ Len(Words) \in Nat /\ WritesLine(Line, Places, Words)
      /\ Len(bits) \in Nat
  BY AsWritten DEF Types, TypeOK
<1>2. Len(bits) + 1 \in 1 .. Len(Words) /\ DOMAIN Words = 1 .. Len(Words)
      /\ (Len(bits) + 1) - 1 = Len(bits)
  BY <1>1
<1>3. NextWord \in Seq(Nat)
  BY <1>1, <1>2, ElementOfSeq, Zenon DEF NextWord
<1>4. Len(NextWord) \in Nat /\ DOMAIN NextWord = 1 .. Len(NextWord)
  BY <1>3
<1>5. /\ WritesWord(Line, NextPlace, NextWord)
      /\ \A k \in After(Places, Len(bits)) .. NextPlace.open - 1 : Line[k] = Blank
  BY <1>1, <1>2 DEF WritesLine, NextPlace, NextWord
<1>6. /\ NextPlace.open \in 1 .. Len(Line)
      /\ \A i \in 1 .. Len(NextWord) + 1 : NextPlace.at[i] \in 1 .. Len(Line) + 1
  BY <1>5 DEF WritesWord
<1> QED  BY <1>2, <1>3, <1>4, <1>5, <1>6

LEMMA ClosesInLine ==
  ASSUME Types, Written, lineno # 0, NEW j \in 1 .. Len(Words)
  PROVE  Places[j].close \in Nat
<1>1. /\ Words \in Seq(Seq(Nat)) /\ DOMAIN Words = 1 .. Len(Words)
      /\ WritesLine(Line, Places, Words)
  BY AsWritten
<1>2. Words[j] \in Seq(Nat)
  BY <1>1, ElementOfSeq, Zenon
<1>3. Len(Words[j]) \in Nat /\ Len(Words[j]) + 1 \in 1 .. Len(Words[j]) + 1
  BY <1>2
<1>4. WritesWord(Line, Places[j], Words[j])
  BY <1>1 DEF WritesLine
<1>5. Places[j].at[Len(Words[j]) + 1] \in 1 .. Len(Line) + 1
  BY <1>3, <1>4 DEF WritesWord
<1>6. \/ Places[j].close = Places[j].at[Len(Words[j]) + 1]
      \/ Places[j].close = Places[j].at[Len(Words[j]) + 1] + 1
  BY <1>4 DEF WritesWord, WritesBare, WritesQuoted
<1>7. Len(Line) \in Nat
  BY LineType
<1> QED  BY <1>5, <1>6, <1>7

\* What can come next between words.
LEMMA Upcoming ==
  ASSUME Types, Written, lineno # 0, Between, More
  PROVE  \/ /\ Here = Blank
            /\ Len(bits) < Len(Words) => pos + 1 <= NextPlace.open
            /\ Len(bits) = Len(Words) => EndsFrom(Line, pos + 1)
         \/ Here = Hash /\ Len(bits) = Len(Words)
         \/ /\ Len(bits) < Len(Words) /\ pos = NextPlace.open
            /\ WritesBare(Line, NextPlace, NextWord)
            /\ Here \notin {Blank, Hash, DoubleQuote, SingleQuote}
         \/ /\ Len(bits) < Len(Words) /\ pos = NextPlace.open
            /\ WritesQuoted(Line, NextPlace, NextWord, Here)
            /\ Here \in {DoubleQuote, SingleQuote}
<1>1. /\ pos \in 1 .. Len(Line) /\ Len(Line) \in Nat
      /\ Len(bits) \in Nat /\ Len(Words) \in Nat /\ Len(bits) <= Len(Words)
      /\ After(Places, Len(bits)) <= pos
  BY LineType, AsWritten DEF More, Between, Found, Types, TypeOK
<1>2. CASE Len(bits) = Len(Words)
  <2>1. PICK t \in pos .. Len(Line) + 1 :
          (\A k \in pos .. t - 1 : Line[k] = Blank) /\ (t <= Len(Line) => Line[t] = Hash)
    BY <1>2 DEF Between, EndsFrom
  <2>2. CASE t = pos
    BY <1>1, <1>2, <2>1, <2>2 DEF Here
  <2>3. CASE t # pos
    <3>1. t \in pos + 1 .. Len(Line) + 1 /\ pos \in pos .. t - 1
      BY <1>1, <2>1, <2>3
    <3>2. \A k \in pos + 1 .. t - 1 : Line[k] = Blank
      BY <1>1, <2>1
    <3>3. EndsFrom(Line, pos + 1)
      BY <2>1, <3>1, <3>2 DEF EndsFrom
    <3>4. Here = Blank
      BY <2>1, <3>1 DEF Here
    <3> QED  BY <1>2, <1>1, <3>3, <3>4
  <2> QED  BY <2>2, <2>3
<1>3. CASE Len(bits) < Len(Words) /\ pos # NextPlace.open
  <2>1. /\ NextPlace.open \in 1 .. Len(Line) /\ pos <= NextPlace.open
        /\ \A k \in After(Places, Len(bits)) .. NextPlace.open - 1 : Line[k] = Blank
    BY <1>3, NextPlaced DEF Between
  <2>2. pos + 1 <= NextPlace.open
    BY <1>1, <1>3, <2>1
  <2>3. Here = Blank
    <3>1. CASE Len(bits) = 0
      <4>1. pos \in After(Places, Len(bits)) .. NextPlace.open - 1
        BY <1>1, <2>1, <2>2, <3>1 DEF After
      <4> QED  BY <2>1, <4>1 DEF Here
    <3>2. CASE Len(bits) # 0
      <4>1. After(Places, Len(bits)) \in Int
        BY <1>1, <3>2, ClosesInLine DEF After
      <4>2. pos \in After(Places, Len(bits)) .. NextPlace.open - 1
        BY <1>1, <2>1, <2>2, <4>1
      <4> QED  BY <2>1, <4>2 DEF Here
    <3> QED  BY <3>1, <3>2
  <2> QED  BY <1>1, <1>3, <2>2, <2>3
<1>4. CASE Len(bits) < Len(Words) /\ pos = NextPlace.open
  <2>1. WritesWord(Line, NextPlace, NextWord) /\ NextWord \in Seq(Nat)
    BY <1>4, NextPlaced DEF Between
  <2>2. CASE WritesBare(Line, NextPlace, NextWord)
    <3>1. /\ NextWord # <<>> /\ NextWord[1] \notin {Hash, DoubleQuote, SingleQuote}
          /\ NextPlace.at[1] = pos
      BY <1>4, <2>2 DEF WritesBare
    <3>2. 1 \in DOMAIN NextWord
      BY <2>1, <3>1, EmptySeq
    <3>3. Here = NextWord[1] /\ NextWord[1] # Blank
      BY <2>2, <3>1, <3>2 DEF WritesBare, Here
    <3> QED  BY <1>4, <2>2, <3>1, <3>3
  <2>3. CASE ~WritesBare(Line, NextPlace, NextWord)
    <3>1. PICK q \in {DoubleQuote, SingleQuote} : WritesQuoted(Line, NextPlace, NextWord, q)
      BY <2>1, <2>3 DEF WritesWord
    <3>2. Here = q
      BY <1>4, <3>1 DEF WritesQuoted, Here
    <3> QED  BY <1>4, <3>1, <3>2
  <2> QED  BY <2>2, <2>3
<1> QED  BY <1>1, <1>2, <1>3, <1>4

\* A bare word ends where the parser ends it.
LEMMA BareText ==
  ASSUME NEW l \in Seq(Nat), NEW p, NEW w \in Seq(Nat), WritesBare(l, p, w),
         p.open \in 1 .. Len(l), p.at[Len(w) + 1] \in 1 .. Len(l) + 1,
         NEW e \in p.open .. Len(l),
         \A k \in p.open .. e : l[k] # Blank,
         e < Len(l) => l[e + 1] = Blank
  PROVE  e + 1 = p.close /\ SubSeq(l, p.open, e) = w
<1>1. PICK o \in 1 .. Len(l), c \in 1 .. Len(l) + 1 : o = p.open /\ c = p.close
  BY DEF WritesBare
<1>2. /\ Len(l) \in Nat /\ Len(w) \in Nat /\ DOMAIN w = 1 .. Len(w)
      /\ e \in o .. Len(l)
      /\ \A k \in o .. e : l[k] # Blank
  BY <1>1
<1>3. /\ c = o + Len(w)
      /\ c <= Len(l) => l[c] = Blank
      /\ \A i \in 1 .. Len(w) : l[o + i - 1] = w[i] /\ w[i] # Blank
  BY <1>1, <1>2 DEF WritesBare
<1>4. ~(e + 1 < c)
  <2> SUFFICES ASSUME e + 1 < c PROVE FALSE
    OBVIOUS
  <2>1. e - o + 2 \in 1 .. Len(w) /\ o + (e - o + 2) - 1 = e + 1 /\ e < Len(l)
    BY <1>2, <1>3
  <2>2. l[e + 1] # Blank
    BY <1>3, <2>1
  <2> QED  BY <2>1, <2>2
<1>5. ~(c < e + 1)
  <2> SUFFICES ASSUME c < e + 1 PROVE FALSE
    OBVIOUS
  <2>1. c \in o .. e /\ c <= Len(l)
    BY <1>2, <1>3
  <2> QED  BY <1>2, <1>3, <2>1
<1>6. e + 1 = c /\ e - o + 1 = Len(w)
  <2>1. e \in Int /\ o \in Int /\ c \in Int /\ Len(w) \in Int
    BY <1>2
  <2>2. \A x, y \in Int : ~(x < y) /\ ~(y < x) => x = y
    OBVIOUS
  <2>3. e + 1 = c
    BY <1>4, <1>5, <2>1, <2>2
  <2> QED  BY <1>3, <2>1, <2>3
<1>7. /\ SubSeq(l, o, e) \in Seq(Nat)
      /\ Len(SubSeq(l, o, e)) = Len(w)
      /\ \A i \in 1 .. Len(w) : SubSeq(l, o, e)[i] = l[o + i - 1]
  <2>1. o \in Int /\ e \in Int /\ o <= e /\ \A i \in o .. e : l[i] \in Nat
    <3>1. o \in Int /\ e \in Int /\ o <= e /\ \A i \in o .. e : i \in 1 .. Len(l)
      BY <1>2
    <3>2. \A i \in 1 .. Len(l) : l[i] \in Nat
      OBVIOUS
    <3> QED  BY <3>1, <3>2, Zenon
  <2>2. /\ SubSeq(l, o, e) \in Seq(Nat)
        /\ Len(SubSeq(l, o, e)) = e - o + 1
        /\ \A i \in 1 .. e - o + 1 : SubSeq(l, o, e)[i] = l[o + i - 1]
    BY <2>1, SubSeqProperties
  <2> QED  BY <1>6, <2>2
<1>8. SubSeq(l, o, e) = w
  <2>1. \A i \in 1 .. Len(w) : SubSeq(l, o, e)[i] = w[i]
    BY <1>3, <1>7
  <2> QED  BY <1>7, <2>1, SeqEqual
<1> QED  BY <1>1, <1>6, <1>8

\* One more word is found.
LEMMA FoundNext ==
  ASSUME Types, Found, Len(bits) < Len(Words), Len(Words) \in Nat,
         UNCHANGED <<document, lineno>>, bits' = Append(bits, NextWord)
  PROVE  Found' /\ Len(bits') = Len(bits) + 1
<1>1. bits \in Seq(Seq(Nat)) /\ Len(bits) \in Nat /\ Words' = Words
  BY DEF Types, TypeOK, Words
<1>2. /\ Len(bits') = Len(bits) + 1
      /\ \A j \in 1 .. Len(bits) : bits'[j] = bits[j]
      /\ bits'[Len(bits) + 1] = NextWord
  BY <1>1
<1>3. \A j \in 1 .. Len(bits) + 1 : bits'[j] = Words[j]
  BY <1>1, <1>2 DEF Found, NextWord
<1> QED  BY <1>1, <1>2, <1>3 DEF Found

\* The parser is behind a word that it has found.
LEMMA BehindWord ==
  ASSUME Types, Written, lineno # 0, Found, Len(bits) < Len(Words),
         UNCHANGED <<document, lineno>>, bits' = Append(bits, NextWord),
         pos' = NextPlace.close
  PROVE  Between'
<1>1. /\ Len(Words) \in Nat /\ Len(bits) \in Nat /\ WritesLine(Line, Places, Words)
      /\ DOMAIN Words = 1 .. Len(Words)
  BY AsWritten DEF Types, TypeOK
<1>2. Found' /\ Len(bits') = Len(bits) + 1
  BY <1>1, FoundNext
<1>3. Words' = Words /\ Places' = Places /\ Line' = Line
  BY DEF Words, Places, Line
<1>4. After(Places, Len(bits) + 1) = NextPlace.close
  BY <1>1 DEF After, NextPlace
<1>5. NextPlace.close \in Nat
  BY <1>1, ClosesInLine DEF NextPlace
<1>6. Len(bits) + 1 < Len(Words) => NextPlace.close <= Places[Len(bits) + 2].open
  <2> SUFFICES ASSUME Len(bits) + 1 < Len(Words)
               PROVE  NextPlace.close <= Places[Len(bits) + 2].open
    OBVIOUS
  <2>1. Len(bits) + 2 \in DOMAIN Words /\ (Len(bits) + 2) - 1 = Len(bits) + 1
    BY <1>1
  <2> QED  BY <1>1, <1>4, <2>1 DEF WritesLine
<1>7. Len(bits) + 1 = Len(Words) => EndsFrom(Line, NextPlace.close)
  BY <1>1, <1>4 DEF WritesLine
<1>8. (Len(bits) + 1) + 1 = Len(bits) + 2
  BY <1>1
<1> QED  BY <1>2, <1>3, <1>4, <1>5, <1>6, <1>7, <1>8 DEF Between, NextPlace

\* All words are found at the end of the line.
LEMMA AllFound ==
  ASSUME Types, Found, Len(bits) = Len(Words), Words \in Seq(Seq(Nat))
  PROVE  bits = Words
<1>1. bits \in Seq(Seq(Nat)) /\ \A j \in 1 .. Len(bits) : bits[j] = Words[j]
  BY DEF Types, TypeOK, Found
<1> QED  BY <1>1, SeqEqual

LEMMA AllFoundAtEnd ==
  ASSUME Types, Written, lineno # 0, Between, ~More
  PROVE  bits = Words
<1>1. /\ Words \in Seq(Seq(Nat)) /\ Len(Words) \in Nat /\ Len(bits) \in Nat
      /\ Len(Line) \in Nat /\ pos \in 1 .. Len(Line) + 1 /\ Found
  BY AsWritten, LineType DEF Between, Types, TypeOK
<1>2. ~(Len(bits) < Len(Words))
  BY <1>1, NextPlaced DEF More, Between
<1> QED  BY <1>1, <1>2, AllFound DEF Found

LEMMA SplitTracks ==
  ASSUME Types, Written, Tracks, EndOfLine \/ Comment \/ SkipBlank \/ OpenQuote \/ BareWord
  PROVE  Tracks'
<1>1. pc = "split" /\ lineno # 0 /\ Between
  BY DEF Types, Tracks, EndOfLine, Comment, SkipBlank, OpenQuote, BareWord
<1>2. /\ Words \in Seq(Seq(Nat)) /\ Len(Words) \in Nat
      /\ bits \in Seq(Seq(Nat)) /\ Len(bits) \in Nat /\ Found
      /\ Line \in Seq(Nat) /\ Len(Line) \in Nat /\ pos \in 1 .. Len(Line) + 1
      /\ UNCHANGED <<document, lineno>>
  BY <1>1, AsWritten, LineType
     DEF Between, Types, TypeOK, EndOfLine, Comment, SkipBlank, OpenQuote, BareWord, cursor
<1>3. Words' = Words /\ Places' = Places /\ Line' = Line
  BY <1>2 DEF Words, Places, Line
<1>4. CASE EndOfLine
  <2>1. bits = Words
    BY <1>1, <1>4, AllFoundAtEnd DEF EndOfLine
  <2>2. pc' \in {"line", "parse"} /\ bits' = bits
    BY <1>4 DEF EndOfLine, cursor
  <2> QED  BY <1>3, <2>1, <2>2 DEF Tracks
<1>5. CASE Comment
  <2>1. More /\ Here = Hash /\ pos' = Len(Line) + 1 /\ UNCHANGED <<bits, pc>>
    BY <1>5 DEF Comment
  <2>2. Len(bits) = Len(Words)
    BY <1>1, <2>1, Upcoming DEF Hash, Blank, DoubleQuote, SingleQuote
  <2>3. EndsFrom(Line, Len(Line) + 1)
    BY <1>2 DEF EndsFrom
  <2>4. After(Places, Len(bits)) <= Len(Line) + 1
    <3>1. CASE Len(bits) = 0
      BY <1>2, <3>1 DEF After
    <3>2. CASE Len(bits) # 0
      <4>1. After(Places, Len(bits)) \in Nat
        BY <1>1, <1>2, <2>2, <3>2, ClosesInLine DEF After
      <4> QED  BY <1>1, <1>2, <4>1 DEF Between
    <3> QED  BY <3>1, <3>2
  <2> QED  BY <1>1, <1>2, <1>3, <2>1, <2>2, <2>3, <2>4 DEF Tracks, Between, Found
<1>6. CASE SkipBlank
  <2>1. More /\ Here = Blank /\ pos' = pos + 1 /\ UNCHANGED <<bits, pc>>
    BY <1>6 DEF SkipBlank
  <2>2. /\ Len(bits) < Len(Words) => pos + 1 <= NextPlace.open
        /\ Len(bits) = Len(Words) => EndsFrom(Line, pos + 1)
    BY <1>1, <2>1, Upcoming DEF Hash, Blank, DoubleQuote, SingleQuote
  <2>3. After(Places, Len(bits)) <= pos + 1
    <3>1. CASE Len(bits) = 0
      BY <1>2, <3>1 DEF After
    <3>2. CASE Len(bits) # 0
      <4>1. After(Places, Len(bits)) \in Nat
        BY <1>1, <1>2, <3>2, ClosesInLine DEF After, Found
      <4> QED  BY <1>1, <1>2, <4>1 DEF Between
    <3> QED  BY <3>1, <3>2
  <2> QED  BY <1>1, <1>2, <1>3, <2>1, <2>2, <2>3 DEF Tracks, Between, Found, NextPlace
<1>7. CASE OpenQuote
  <2>1. /\ More /\ Here \in {DoubleQuote, SingleQuote}
        /\ quote' = Here /\ bit' = <<>> /\ pos' = pos + 1 /\ pc' = "string" /\ bits' = bits
    BY <1>7 DEF OpenQuote
  <2>2. /\ Len(bits) < Len(Words) /\ pos = NextPlace.open
        /\ WritesQuoted(Line, NextPlace, NextWord, Here)
    BY <1>1, <2>1, Upcoming DEF Hash, Blank, DoubleQuote, SingleQuote
  <2>3. NextPlace.at[1] = pos + 1
    BY <2>2 DEF WritesQuoted
  <2>4. Len(NextWord) \in Nat
    BY <1>1, <1>2, <2>2, NextPlaced
  <2>5. NextWord' = NextWord /\ NextPlace' = NextPlace
    BY <1>3, <2>1 DEF NextWord, NextPlace
  <2>6. Len(bit') = 0
    BY <2>1
  <2> QED  BY <1>2, <1>3, <2>1, <2>2, <2>3, <2>4, <2>5, <2>6 DEF Tracks, Within, Found
<1>8. CASE BareWord
  <2>1. PICK e \in pos .. Len(Line) :
          /\ \A k \in pos .. e : Line[k] # Blank
          /\ e < Len(Line) => Line[e + 1] = Blank
          /\ bit' = SubSeq(Line, pos, e)
          /\ pos' = e + 1
    BY <1>8 DEF BareWord
  <2>2. /\ More /\ Here \notin {Hash, Blank, DoubleQuote, SingleQuote}
        /\ bits' = Append(bits, bit') /\ pc' = pc
    BY <1>8 DEF BareWord
  <2>3. /\ Len(bits) < Len(Words) /\ pos = NextPlace.open
        /\ WritesBare(Line, NextPlace, NextWord)
    BY <1>1, <2>2, Upcoming
  <2>4. /\ NextWord \in Seq(Nat) /\ NextPlace.open \in 1 .. Len(Line)
        /\ NextPlace.at[Len(NextWord) + 1] \in 1 .. Len(Line) + 1
    <3>1. /\ NextWord \in Seq(Nat) /\ Len(NextWord) \in Nat /\ NextPlace.open \in 1 .. Len(Line)
          /\ \A i \in 1 .. Len(NextWord) + 1 : NextPlace.at[i] \in 1 .. Len(Line) + 1
      BY <1>1, <1>2, <2>3, NextPlaced, Zenon
    <3>2. Len(NextWord) + 1 \in 1 .. Len(NextWord) + 1
      BY <3>1
    <3> QED  BY <3>1, <3>2, Zenon
  <2>5. e + 1 = NextPlace.close /\ SubSeq(Line, NextPlace.open, e) = NextWord
    <3>1. PICK p, w, l : p = NextPlace /\ w = NextWord /\ l = Line
      OBVIOUS
    <3>2. /\ l \in Seq(Nat) /\ w \in Seq(Nat) /\ WritesBare(l, p, w)
          /\ p.open \in 1 .. Len(l) /\ p.at[Len(w) + 1] \in 1 .. Len(l) + 1
      BY <1>2, <2>3, <2>4, <3>1
    <3>3. /\ e \in p.open .. Len(l) /\ \A k \in p.open .. e : l[k] # Blank
          /\ e < Len(l) => l[e + 1] = Blank
      BY <2>1, <2>3, <3>1
    <3>4. e + 1 = p.close /\ SubSeq(l, p.open, e) = w
      BY <3>2, <3>3, BareText
    <3> QED  BY <3>1, <3>4
  <2>6. bits' = Append(bits, NextWord) /\ pos' = NextPlace.close
    <3>1. bit' = NextWord
      BY <2>1, <2>3, <2>5, Zenon
    <3> QED  BY <2>1, <2>2, <2>5, <3>1, Zenon
  <2>7. Between'
    BY <1>1, <1>2, <2>3, <2>6, BehindWord
  <2> QED  BY <1>1, <2>2, <2>7 DEF Tracks
<1> QED  BY <1>4, <1>5, <1>6, <1>7, <1>8

\* The digits of an escape end where the parser ends them.
LEMMA OneEnd ==
  ASSUME NEW l, NEW k \in Nat, NEW e \in Int, NEW f \in Int
  PROVE  /\ OctalDigits(l, k, e) /\ OctalDigits(l, k, f) => e = f
         /\ HexDigits(l, k, e) /\ HexDigits(l, k, f) => e = f
<1>1. ASSUME NEW x \in Int, NEW y \in Int, NEW D, x >= k - 1, x < y,
             Digits(l, k, y, D), ~Digits(l, x + 1, x + 1, D)
      PROVE  FALSE
  <2>1. x + 1 \in k .. y
    BY <1>1
  <2> QED  BY <1>1, <2>1 DEF Digits
<1>2. ASSUME OctalDigits(l, k, e), OctalDigits(l, k, f)
      PROVE  e = f
  <2>1. /\ e \in k .. k + 2 /\ f \in k .. k + 2
        /\ Digits(l, k, e, Octal) /\ Digits(l, k, f, Octal)
        /\ e < k + 2 => ~Digits(l, e + 1, e + 1, Octal)
        /\ f < k + 2 => ~Digits(l, f + 1, f + 1, Octal)
    BY <1>2 DEF OctalDigits
  <2>2. ~(e < f)
    <3> SUFFICES ASSUME e < f PROVE FALSE
      OBVIOUS
    <3>1. e >= k - 1 /\ e < k + 2
      BY <2>1
    <3> QED  BY <1>1, <2>1, <3>1
  <2>3. ~(f < e)
    <3> SUFFICES ASSUME f < e PROVE FALSE
      OBVIOUS
    <3>1. f >= k - 1 /\ f < k + 2
      BY <2>1
    <3> QED  BY <1>1, <2>1, <3>1
  <2> QED  BY <2>2, <2>3
<1>3. ASSUME HexDigits(l, k, e), HexDigits(l, k, f)
      PROVE  e = f
  <2>1. /\ e >= k - 1 /\ f >= k - 1
        /\ Digits(l, k, e, DOMAIN HexValue) /\ Digits(l, k, f, DOMAIN HexValue)
        /\ ~Digits(l, e + 1, e + 1, DOMAIN HexValue)
        /\ ~Digits(l, f + 1, f + 1, DOMAIN HexValue)
    BY <1>3 DEF HexDigits
  <2>2. ~(e < f)
    BY <1>1, <2>1
  <2>3. ~(f < e)
    BY <1>1, <2>1
  <2> QED  BY <2>2, <2>3
<1> QED  BY <1>2, <1>3

LEMMA CharacterLength ==
  ASSUME NEW l, NEW p \in Nat, NEW q \in Int, NEW c, WritesCharacter(l, p, q, c)
  PROVE  p < q
<1>1. CASE OctalDigits(l, p + 1, q - 1)
  BY <1>1 DEF OctalDigits
<1>2. CASE HexDigits(l, p + 2, q - 1)
  <2>1. q - 1 \in (p + 2) - 1 .. Len(l)
    BY <1>2 DEF HexDigits
  <2> QED  BY <2>1
<1> QED  BY <1>1, <1>2 DEF WritesCharacter

\* What can come next between quotes.
LEMMA UpcomingCharacter ==
  ASSUME Types, Written, lineno # 0, Within
  PROVE  /\ pos \in 1 .. Len(Line)
         /\ \/ /\ Len(bit) = Len(NextWord)
               /\ Here = quote /\ pos + 1 = NextPlace.close
            \/ /\ Len(bit) < Len(NextWord) /\ quote = SingleQuote
               /\ Here # quote /\ Here = NextWord[Len(bit) + 1]
               /\ pos + 1 = NextPlace.at[Len(bit) + 2]
            \/ /\ Len(bit) < Len(NextWord) /\ quote = DoubleQuote
               /\ WritesCharacter(Line, pos, NextPlace.at[Len(bit) + 2], NextWord[Len(bit) + 1])
               /\ NextPlace.at[Len(bit) + 2] \in 1 .. Len(Line) + 1
<1>1. /\ Len(bits) < Len(Words) /\ Found
      /\ WritesQuoted(Line, NextPlace, NextWord, quote)
      /\ Len(bit) <= Len(NextWord) /\ pos = NextPlace.at[Len(bit) + 1]
  BY DEF Within
<1>2. /\ NextWord \in Seq(Nat) /\ Len(NextWord) \in Nat /\ DOMAIN NextWord = 1 .. Len(NextWord)
      /\ \A i \in 1 .. Len(NextWord) + 1 : NextPlace.at[i] \in 1 .. Len(Line) + 1
  BY <1>1, NextPlaced
<1>3. /\ Len(bit) \in Nat /\ Len(Line) \in Nat /\ pos \in 1 .. Len(Line) + 1
      /\ quote \in {DoubleQuote, SingleQuote}
  BY LineType DEF Types, TypeOK
<1>4. CASE Len(bit) = Len(NextWord)
  <2>1. NextPlace.close = pos + 1 /\ NextPlace.close <= Len(Line) + 1 /\ Line[NextPlace.close - 1] = quote
    BY <1>1, <1>4 DEF WritesQuoted
  <2>2. (pos + 1) - 1 = pos /\ pos \in 1 .. Len(Line)
    BY <1>3, <2>1
  <2> QED  BY <1>4, <2>1, <2>2 DEF Here
<1>5. CASE Len(bit) < Len(NextWord)
  <2> DEFINE i == Len(bit) + 1
             q == NextPlace.at[i + 1]
  <2>1. i \in 1 .. Len(NextWord) /\ i + 1 = Len(bit) + 2 /\ i + 1 \in 1 .. Len(NextWord) + 1
    BY <1>2, <1>3, <1>5
  <2>2. q \in 1 .. Len(Line) + 1
    BY <1>2, <2>1
  <2>3. pos = NextPlace.at[i]
    BY <1>1
  <2> HIDE DEF i
  <2>4. IF quote = DoubleQuote
        THEN WritesCharacter(Line, pos, q, NextWord[i])
        ELSE q = pos + 1 /\ Line[pos] = NextWord[i] /\ NextWord[i] # quote
    BY <1>1, <1>2, <2>1, <2>3 DEF WritesQuoted
  <2> HIDE DEF q
  <2>5. pos < q
    <3>1. CASE quote = DoubleQuote
      BY <1>3, <2>2, <2>4, <3>1, CharacterLength
    <3>2. CASE quote # DoubleQuote
      BY <1>3, <2>4, <3>2
    <3> QED  BY <3>1, <3>2
  <2>6. pos \in 1 .. Len(Line)
    BY <1>3, <2>2, <2>5
  <2>7. NextPlace.at[Len(bit) + 2] = q /\ NextWord[Len(bit) + 1] = NextWord[i]
    BY <2>1 DEF q, i
  <2> QED  BY <1>3, <1>5, <2>2, <2>4, <2>6, <2>7 DEF Here
<1> QED  BY <1>1, <1>2, <1>3, <1>4, <1>5

\* The next character of the word is found.
LEMMA AddTracks ==
  ASSUME Types, Written, Tracks, pc = "string", Within, Len(bit) < Len(NextWord),
         NEW c, c = NextWord[Len(bit) + 1], NEW k, k = NextPlace.at[Len(bit) + 2],
         Add(c, k)
  PROVE  Tracks'
<1>1. /\ bit' = Append(bit, c) /\ pos' = k
      /\ UNCHANGED <<document, lineno, bits, quote, pc>>
  BY DEF Add
<1>2. /\ Words' = Words /\ Places' = Places /\ Line' = Line
      /\ NextWord' = NextWord /\ NextPlace' = NextPlace
  BY <1>1 DEF Words, Places, Line, NextWord, NextPlace
<1>3. bit \in Seq(Nat) /\ Len(bit) \in Nat /\ lineno # 0
  BY DEF Types, TypeOK
<1>4. Len(NextWord) \in Nat
  BY <1>3, NextPlaced DEF Within
<1>5. /\ Len(bit') = Len(bit) + 1
      /\ \A i \in 1 .. Len(bit) : bit'[i] = bit[i]
      /\ bit'[Len(bit) + 1] = c
  BY <1>1, <1>3
<1>6. \A i \in 1 .. Len(bit) + 1 : bit'[i] = NextWord[i]
  BY <1>3, <1>5 DEF Within
<1>7. Len(bit') <= Len(NextWord) /\ Len(bit') + 1 = Len(bit) + 2
  BY <1>3, <1>4, <1>5
<1> QED  BY <1>1, <1>2, <1>5, <1>6, <1>7 DEF Tracks, Within, Found

LEMMA StringTracks ==
  ASSUME Types, Written, Tracks,
         \/ CloseQuote \/ PlainCharacter \/ EscapeAtEnd \/ SimpleEscape \/ HexEscape
         \/ OctalEscape \/ UnknownEscape \/ Unterminated
  PROVE  Tracks'
<1>1. pc = "string" /\ lineno # 0 /\ Within
  BY DEF Types, Tracks, CloseQuote, PlainCharacter, EscapeAtEnd, SimpleEscape, HexEscape, OctalEscape,
         UnknownEscape, Unterminated, Escaping, InString
<1>2. /\ bit \in Seq(Nat) /\ Len(bit) \in Nat /\ NextWord \in Seq(Nat) /\ Len(NextWord) \in Nat
      /\ Found /\ Len(bits) < Len(Words)
      /\ Line \in Seq(Nat) /\ Len(Line) \in Nat /\ DOMAIN Line = 1 .. Len(Line)
      /\ pos \in 1 .. Len(Line)
  BY <1>1, LineType, NextPlaced, UpcomingCharacter DEF Within, Types, TypeOK
<1> DEFINE q == NextPlace.at[Len(bit) + 2]
           c == NextWord[Len(bit) + 1]
<1>3. CASE CloseQuote
  <2>1. /\ Here = quote
        /\ bits' = Append(bits, bit) /\ pos' = pos + 1 /\ pc' = "split"
        /\ UNCHANGED <<document, lineno>>
    BY <1>3 DEF CloseQuote
  <2>2. ~(quote = DoubleQuote /\ WritesCharacter(Line, pos, q, c))
    BY <2>1 DEF WritesCharacter, Here, DoubleQuote, Backslash
  <2>3. Len(bit) = Len(NextWord) /\ pos + 1 = NextPlace.close
    BY <1>1, <2>1, <2>2, UpcomingCharacter
  <2>4. bit = NextWord
    BY <1>1, <1>2, <2>3, SeqEqual DEF Within
  <2>5. Between'
    BY <1>1, <1>2, <2>1, <2>3, <2>4, BehindWord
  <2> QED  BY <2>1, <2>5 DEF Tracks
<1>4. CASE PlainCharacter
  <2>1. Here # quote /\ ~Escaping /\ Add(Here, pos + 1)
    BY <1>4 DEF PlainCharacter
  <2>2. quote = DoubleQuote => Here # Backslash
    BY <1>4, <2>1 DEF Escaping, PlainCharacter
  <2>3. Len(bit) < Len(NextWord) /\ Here = c /\ pos + 1 = q
    BY <1>1, <2>1, <2>2, UpcomingCharacter DEF WritesCharacter, Here
  <2> QED  BY <1>1, <2>1, <2>3, AddTracks
<1>5. CASE Escaping
  <2>1. Here = Backslash /\ quote = DoubleQuote
    BY <1>5 DEF Escaping
  <2>2. /\ Len(bit) < Len(NextWord) /\ q \in 1 .. Len(Line) + 1
        /\ \/ q = pos + 2 /\ Line[pos + 1] \in DOMAIN Escape /\ c = Escape[Line[pos + 1]]
           \/ /\ OctalDigits(Line, pos + 1, q - 1) /\ ~TooLarge(Line, pos + 1, q - 1, 8)
              /\ c = Value(Line, pos + 1, q - 1, 8)
           \/ /\ Line[pos + 1] = LetterX
              /\ HexDigits(Line, pos + 2, q - 1) /\ ~TooLarge(Line, pos + 2, q - 1, 16)
              /\ c = Value(Line, pos + 2, q - 1, 16)
    <3>1. Len(bit) < Len(NextWord) /\ q \in 1 .. Len(Line) + 1 /\ WritesCharacter(Line, pos, q, c)
      BY <1>1, <2>1, UpcomingCharacter DEF Backslash, DoubleQuote, SingleQuote
    <3>2. Line[pos] = Backslash
      BY <2>1 DEF Here
    <3> QED  BY <3>1, <3>2 DEF WritesCharacter
  <2> HIDE DEF q, c
  <2>3. OctalDigits(Line, pos + 1, q - 1) => Line[pos + 1] \in Octal /\ q - 1 \in pos + 1 .. pos + 3
    BY <1>2, <2>2 DEF OctalDigits, Digits
  <2>4. HexDigits(Line, pos + 2, q - 1) => q - 1 \in pos + 1 .. Len(Line)
    BY <1>2, <2>2 DEF HexDigits
  <2>5. pos < Len(Line) /\ Line[pos + 1] \in DOMAIN Escape \cup Octal \cup {LetterX}
    <3>1. pos \in Int /\ q \in Int /\ Len(Line) \in Int /\ q <= Len(Line) + 1
      BY <1>2, <2>2
    <3>2. CASE q = pos + 2 /\ Line[pos + 1] \in DOMAIN Escape
      BY <3>1, <3>2
    <3>3. CASE OctalDigits(Line, pos + 1, q - 1)
      BY <2>3, <3>1, <3>3
    <3>4. CASE Line[pos + 1] = LetterX /\ HexDigits(Line, pos + 2, q - 1)
      BY <2>4, <3>1, <3>4
    <3> QED  BY <2>2, <3>2, <3>3, <3>4
  <2>6. DOMAIN Escape \cap Octal = {} /\ LetterX \notin DOMAIN Escape \cup Octal
    BY DEF Escape, Octal, LetterX
  <2>7. pos + 1 \in Nat /\ pos + 2 \in Nat /\ q - 1 \in Int /\ (q - 1) + 1 = q
    BY <1>2, <2>2
  <2>8. ASSUME NEW e \in Int, Add(c, e + 1), e + 1 = q
        PROVE  Tracks'
    BY <1>1, <2>2, <2>8, AddTracks DEF q, c
  <2>9. CASE EscapeAtEnd
    BY <1>2, <2>5, <2>9 DEF EscapeAtEnd
  <2>10. CASE SimpleEscape
    <3>1. Line[pos + 1] \in DOMAIN Escape /\ Add(Escape[Line[pos + 1]], pos + 2)
      BY <2>10 DEF SimpleEscape
    <3>2. q = pos + 2 /\ c = Escape[Line[pos + 1]]
      BY <2>2, <2>3, <2>6, <3>1
    <3> QED  BY <1>2, <2>8, <3>1, <3>2
  <2>11. CASE HexEscape
    <3>1. Line[pos + 1] = LetterX
      BY <2>11 DEF HexEscape
    <3>2. PICK e \in pos + 1 .. Len(Line) :
            /\ HexDigits(Line, pos + 2, e)
            /\ IF TooLarge(Line, pos + 2, e, 16) THEN Reject
               ELSE Add(Value(Line, pos + 2, e, 16), e + 1)
      BY <2>11 DEF HexEscape
    <3>3. /\ HexDigits(Line, pos + 2, q - 1) /\ ~TooLarge(Line, pos + 2, q - 1, 16)
          /\ c = Value(Line, pos + 2, q - 1, 16)
      BY <2>2, <2>3, <2>6, <3>1
    <3>4. e = q - 1 /\ e \in Int
      BY <1>2, <2>7, <3>2, <3>3, OneEnd
    <3> QED  BY <2>7, <2>8, <3>2, <3>3, <3>4
  <2>12. CASE OctalEscape
    <3>1. PICK e \in pos + 1 .. pos + 3 :
            /\ OctalDigits(Line, pos + 1, e)
            /\ IF TooLarge(Line, pos + 1, e, 8) THEN Reject
               ELSE Add(Value(Line, pos + 1, e, 8), e + 1)
      BY <2>12 DEF OctalEscape
    <3>2. Line[pos + 1] \in Octal
      BY <1>2, <3>1 DEF OctalDigits, Digits
    <3>3. /\ OctalDigits(Line, pos + 1, q - 1) /\ ~TooLarge(Line, pos + 1, q - 1, 8)
          /\ c = Value(Line, pos + 1, q - 1, 8)
      BY <2>2, <2>6, <3>2
    <3>4. e \in Int
      BY <1>2
    <3>5. e = q - 1
      BY <2>7, <3>1, <3>3, <3>4, OneEnd
    <3> QED  BY <2>7, <2>8, <3>1, <3>3, <3>4, <3>5
  <2>13. ~UnknownEscape
    BY <2>5 DEF UnknownEscape
  <2> QED  BY <1>1, <1>2, <2>9, <2>10, <2>11, <2>12, <2>13, <1>3, <1>4, <1>5
        DEF CloseQuote, PlainCharacter, Unterminated, More, Escaping, Here, Backslash, DoubleQuote
<1>6. ~Unterminated
  BY <1>2 DEF Unterminated, More
<1> QED  BY <1>3, <1>4, <1>5, <1>6
      DEF EscapeAtEnd, SimpleEscape, HexEscape, OctalEscape, UnknownEscape

-----------------------------------------------------------------------------
(* Directives take effect.                                                 *)

\* How many lines draft stands for.
Done == IF pc \in {"line", "accepted"} THEN lineno ELSE lineno - 1

\* The exemptions of the first n lines, with their masks.
Exempts(c, n) ==
  LET S == Given(ExemptWord, n)
  IN  \A k \in S :
        /\ document.words[k][2] \in DOMAIN Exempt
        /\ BitsOK(Exempt[document.words[k][2]])
        /\ c.exempted[Rank(k, S)] = Pattern(Exempt[document.words[k][2]])

Stands(c, n) == Means(c, n) /\ Exempts(c, n)

Drafted ==
  /\ pc = "parse" => bits # <<>>
  /\ pc \in {"line", "split", "string", "parse"} => Stands(draft, Done)
  /\ IF pc = "accepted"
     THEN lineno = Len(document.words) /\ Stands(config, lineno)
     ELSE config = Old

Invariant == Types /\ (Written => Tracks /\ Drafted)

LEMMA CommandsDiffer ==
  /\ WatchWord # AddressWord /\ WatchWord # RateWord /\ WatchWord # ExemptWord /\ WatchWord # BlockWord
  /\ AddressWord # RateWord /\ AddressWord # ExemptWord /\ AddressWord # BlockWord
  /\ RateWord # ExemptWord /\ RateWord # BlockWord /\ ExemptWord # BlockWord
  /\ IptablesWord # HostsDenyWord
<1>1. /\ WatchWord[1] = 256 /\ AddressWord[1] = 257 /\ RateWord[1] = 258 /\ ExemptWord[1] = 259
      /\ BlockWord[1] = 260 /\ IptablesWord[1] = 261 /\ HostsDenyWord[1] = 262
  BY DEF WatchWord, AddressWord, RateWord, ExemptWord, BlockWord, IptablesWord, HostsDenyWord
<1> QED  BY <1>1

\* One line more, of the command or not.
LEMMA GivenNext ==
  ASSUME NEW command, NEW n \in Nat
  PROVE  /\ Given(command, n) \subseteq 1 .. n
         /\ IsFiniteSet(Given(command, n))
         /\ document.words[n + 1] # <<>> /\ document.words[n + 1][1] = command =>
              Given(command, n + 1) = Given(command, n) \cup {n + 1}
         /\ ~(document.words[n + 1] # <<>> /\ document.words[n + 1][1] = command) =>
              Given(command, n + 1) = Given(command, n)
<1>1. Given(command, n) \subseteq 1 .. n
  BY DEF Given
<1>2. IsFiniteSet(Given(command, n))
  <2>1. IsFiniteSet(1 .. n)
    BY FS_Interval
  <2> QED  BY <1>1, <2>1, FS_Subset
<1>3. 1 .. n + 1 = (1 .. n) \cup {n + 1}
  OBVIOUS
<1>4. /\ document.words[n + 1] # <<>> /\ document.words[n + 1][1] = command =>
           Given(command, n + 1) = Given(command, n) \cup {n + 1}
      /\ ~(document.words[n + 1] # <<>> /\ document.words[n + 1][1] = command) =>
           Given(command, n + 1) = Given(command, n)
  BY <1>3, Zenon DEF Given
<1> QED  BY <1>1, <1>2, <1>4

LEMMA RankNext ==
  ASSUME NEW n \in Nat, NEW S, S \subseteq 1 .. n, IsFiniteSet(S)
  PROVE  /\ Cardinality(S) \in Nat
         /\ Cardinality(S \cup {n + 1}) = Cardinality(S) + 1
         /\ Rank(n + 1, S \cup {n + 1}) = Cardinality(S) + 1
<1>1. Cardinality(S) \in Nat
  BY FS_CardinalityType
<1>2. Cardinality(S \cup {n + 1}) = Cardinality(S) + 1
  <2>1. n + 1 \notin S
    OBVIOUS
  <2> QED  BY <2>1, FS_AddElement
<1>3. Rank(n + 1, S \cup {n + 1}) = Cardinality(S) + 1
  <2>1. \A m \in S \cup {n + 1} : m <= n + 1
    OBVIOUS
  <2>2. {m \in S \cup {n + 1} : m <= n + 1} = S \cup {n + 1}
    BY <2>1, Zenon
  <2> QED  BY <1>2, <2>2, Zenon DEF Rank
<1> QED  BY <1>1, <1>2, <1>3

LEMMA RankKept ==
  ASSUME NEW n \in Nat, NEW S, S \subseteq 1 .. n, IsFiniteSet(S), NEW k \in S
  PROVE  /\ Rank(k, S \cup {n + 1}) = Rank(k, S)
         /\ Rank(k, S) \in 1 .. Cardinality(S)
<1> DEFINE R == {m \in S : m <= k}
<1>1. {m \in S \cup {n + 1} : m <= k} = R
  OBVIOUS
<1>2. R \subseteq S /\ k \in R
  OBVIOUS
<1> HIDE DEF R
<1>3. /\ IsFiniteSet(R) /\ Cardinality(R) <= Cardinality(S) /\ Cardinality(R) \in Nat
      /\ Cardinality(S) \in Nat
  BY <1>2, FS_Subset, FS_CardinalityType
<1>4. Cardinality(R) # 0
  BY <1>2, <1>3, FS_EmptySet
<1>5. Rank(k, S) = Cardinality(R) /\ Rank(k, S \cup {n + 1}) = Cardinality(R)
  BY <1>1 DEF Rank, R
<1> QED  BY <1>3, <1>4, <1>5

\* A line that is not of a command leaves alone what that means.
LEMMA OtherLine ==
  ASSUME NEW c, NEW d, NEW n \in Nat, NEW command,
         document.words[n + 1] # <<>> => document.words[n + 1][1] = command
  PROVE  /\ FilesMean(c, n) /\ command # WatchWord /\ d.files = c.files => FilesMean(d, n + 1)
         /\ PatternsMean(c, n) /\ command # AddressWord /\ d.patterns = c.patterns => PatternsMean(d, n + 1)
         /\ RateMeans(c, n) /\ command # RateWord /\ d.rate = c.rate => RateMeans(d, n + 1)
         /\ BlockMeans(c, n) /\ command # BlockWord /\ d.block = c.block => BlockMeans(d, n + 1)
         /\ ExemptionsMean(c, n) /\ Exempts(c, n) /\ command # ExemptWord /\ d.exempted = c.exempted =>
              ExemptionsMean(d, n + 1) /\ Exempts(d, n + 1)
<1>1. \A x : command # x => Given(x, n + 1) = Given(x, n)
  <2> SUFFICES ASSUME NEW x, command # x PROVE Given(x, n + 1) = Given(x, n)
    OBVIOUS
  <2> QED  BY GivenNext
<1>2. FilesMean(c, n) /\ command # WatchWord /\ d.files = c.files => FilesMean(d, n + 1)
  BY <1>1, Zenon DEF FilesMean
<1>3. PatternsMean(c, n) /\ command # AddressWord /\ d.patterns = c.patterns => PatternsMean(d, n + 1)
  BY <1>1 DEF PatternsMean
<1>4. RateMeans(c, n) /\ command # RateWord /\ d.rate = c.rate => RateMeans(d, n + 1)
  BY <1>1, Zenon DEF RateMeans
<1>5. BlockMeans(c, n) /\ command # BlockWord /\ d.block = c.block => BlockMeans(d, n + 1)
  BY <1>1, Zenon DEF BlockMeans
<1>6. ExemptionsMean(c, n) /\ command # ExemptWord /\ d.exempted = c.exempted => ExemptionsMean(d, n + 1)
  BY <1>1, Zenon DEF ExemptionsMean
<1>7. Exempts(c, n) /\ command # ExemptWord /\ d.exempted = c.exempted => Exempts(d, n + 1)
  BY <1>1, Zenon DEF Exempts
<1> QED  BY <1>2, <1>3, <1>4, <1>5, <1>6, <1>7

LEMMA WatchLine ==
  ASSUME NEW c \in Config, NEW d, NEW n \in Nat, FilesMean(c, n),
         document.words[n + 1] # <<>>, document.words[n + 1][1] = WatchWord,
         d.files = Append(c.files, document.words[n + 1][2])
  PROVE  FilesMean(d, n + 1)
<1>0. PICK S, T : S = Given(WatchWord, n) /\ T = Given(WatchWord, n + 1)
  OBVIOUS
<1>1. S \subseteq 1 .. n /\ IsFiniteSet(S) /\ T = S \cup {n + 1}
  BY <1>0, GivenNext
<1>2. c.files \in Seq(Seq(Nat)) /\ Len(c.files) = Cardinality(S)
      /\ \A k \in S : c.files[Rank(k, S)] = document.words[k][2]
  BY <1>0 DEF Config, FilesMean
<1>3. /\ Cardinality(S) \in Nat /\ Cardinality(T) = Cardinality(S) + 1
      /\ Rank(n + 1, T) = Cardinality(S) + 1
  BY <1>1, RankNext
<1>ranks. \A k \in S : Rank(k, T) = Rank(k, S) /\ Rank(k, S) \in 1 .. Cardinality(S)
  BY <1>1, RankKept
<1>4. /\ Len(d.files) = Cardinality(S) + 1
      /\ d.files[Cardinality(S) + 1] = document.words[n + 1][2]
      /\ \A i \in 1 .. Cardinality(S) : d.files[i] = c.files[i]
  BY <1>2
<1>5. \A k \in T : d.files[Rank(k, T)] = document.words[k][2]
  BY <1>1, <1>2, <1>3, <1>ranks, <1>4
<1> QED  BY <1>3, <1>4, <1>5, <1>0 DEF FilesMean

LEMMA AddressLine ==
  ASSUME NEW c \in Config, NEW d, NEW n \in Nat, PatternsMean(c, n),
         document.words[n + 1] # <<>>, document.words[n + 1][1] = AddressWord,
         NEW p, d.patterns = Append(c.patterns, p),
         p.regex = document.words[n + 1][2],
         p.capture = IF Len(document.words[n + 1]) = 2 THEN 1 ELSE Number[document.words[n + 1][3]],
         p.capture <= Groups[document.words[n + 1][2]]
  PROVE  PatternsMean(d, n + 1)
<1>0. PICK S, T : S = Given(AddressWord, n) /\ T = Given(AddressWord, n + 1)
  OBVIOUS
<1> DEFINE Mean(k, q) == LET w == document.words[k]
                         IN  /\ q.regex = w[2]
                             /\ q.capture = IF Len(w) = 2 THEN 1 ELSE Number[w[3]]
                             /\ q.capture <= Groups[w[2]]
<1>1. S \subseteq 1 .. n /\ IsFiniteSet(S) /\ T = S \cup {n + 1}
  BY <1>0, GivenNext
<1>2. c.patterns \in Seq([regex : DOMAIN Groups, capture : 1 .. IntMax])
      /\ Len(c.patterns) = Cardinality(S)
      /\ \A k \in S : Mean(k, c.patterns[Rank(k, S)])
  BY <1>0 DEF Config, PatternsMean
<1>3. Mean(n + 1, p)
  OBVIOUS
<1>4. Len(d.patterns) = Cardinality(T) /\ (\A k \in T : Mean(k, d.patterns[Rank(k, T)])) =>
        PatternsMean(d, n + 1)
  BY <1>0 DEF PatternsMean
<1> HIDE DEF Mean
<1>5. /\ Cardinality(S) \in Nat /\ Cardinality(T) = Cardinality(S) + 1
      /\ Rank(n + 1, T) = Cardinality(S) + 1
  BY <1>1, RankNext
<1>ranks. \A k \in S : Rank(k, T) = Rank(k, S) /\ Rank(k, S) \in 1 .. Cardinality(S)
  BY <1>1, RankKept
<1>6. /\ Len(d.patterns) = Cardinality(S) + 1
      /\ d.patterns[Cardinality(S) + 1] = p
      /\ \A i \in 1 .. Cardinality(S) : d.patterns[i] = c.patterns[i]
  BY <1>2
<1>7. \A k \in T : Mean(k, d.patterns[Rank(k, T)])
  BY <1>1, <1>2, <1>3, <1>5, <1>ranks, <1>6
<1> QED  BY <1>4, <1>5, <1>6, <1>7

LEMMA ExemptLine ==
  ASSUME NEW c \in Config, NEW d, NEW n \in Nat, ExemptionsMean(c, n), Exempts(c, n),
         document.words[n + 1] # <<>>, document.words[n + 1][1] = ExemptWord,
         NEW w, w = document.words[n + 1][2], w \in DOMAIN Exempt, BitsOK(Exempt[w]),
         d.exempted = Append(c.exempted, Pattern(Exempt[w]))
  PROVE  ExemptionsMean(d, n + 1) /\ Exempts(d, n + 1)
<1>0. PICK S, T : S = Given(ExemptWord, n) /\ T = Given(ExemptWord, n + 1)
  OBVIOUS
<1> DEFINE Mean(k, q) == /\ document.words[k][2] \in DOMAIN Exempt
                         /\ BitsOK(Exempt[document.words[k][2]])
                         /\ q = Pattern(Exempt[document.words[k][2]])
<1>1. S \subseteq 1 .. n /\ IsFiniteSet(S) /\ T = S \cup {n + 1}
  BY <1>0, GivenNext
<1>2. c.exempted \in Seq([network : Address, mask : Address])
      /\ Len(c.exempted) = Cardinality(S)
      /\ \A k \in S : Mean(k, c.exempted[Rank(k, S)])
  BY <1>0 DEF Config, ExemptionsMean, Exempts
<1>3. Mean(n + 1, Pattern(Exempt[w]))
  OBVIOUS
<1>4. Len(d.exempted) = Cardinality(T) /\ (\A k \in T : Mean(k, d.exempted[Rank(k, T)])) =>
        ExemptionsMean(d, n + 1) /\ Exempts(d, n + 1)
  <2>1. \A k, q : Mean(k, q) => q.network = Exempt[document.words[k][2]].address
    BY DEF Pattern
  <2> QED  BY <1>0, <2>1, Zenon DEF ExemptionsMean, Exempts
<1> HIDE DEF Mean
<1>5. /\ Cardinality(S) \in Nat /\ Cardinality(T) = Cardinality(S) + 1
      /\ Rank(n + 1, T) = Cardinality(S) + 1
  BY <1>1, RankNext
<1>ranks. \A k \in S : Rank(k, T) = Rank(k, S) /\ Rank(k, S) \in 1 .. Cardinality(S)
  BY <1>1, RankKept
<1>6. Pattern(Exempt[w]) \in [network : Address, mask : Address]
  BY PatternType, WordAssumption
<1>7. /\ Len(d.exempted) = Cardinality(S) + 1
      /\ d.exempted[Cardinality(S) + 1] = Pattern(Exempt[w])
      /\ \A i \in 1 .. Cardinality(S) : d.exempted[i] = c.exempted[i]
  BY <1>2, <1>6
<1>8. \A k \in T : Mean(k, d.exempted[Rank(k, T)])
  BY <1>1, <1>2, <1>3, <1>5, <1>ranks, <1>7
<1> QED  BY <1>4, <1>5, <1>7, <1>8

\* The last line of a command.
LEMMA LastLine ==
  ASSUME NEW n \in Nat, NEW command,
         document.words[n + 1] # <<>>, document.words[n + 1][1] = command
  PROVE  /\ Given(command, n + 1) # {}
         /\ \A k \in Given(command, n + 1) : IsLast(k, Given(command, n + 1)) => k = n + 1
<1>1. Given(command, n) \subseteq 1 .. n /\ Given(command, n + 1) = Given(command, n) \cup {n + 1}
  BY GivenNext
<1> QED  BY <1>1 DEF IsLast

LEMMA RateLine ==
  ASSUME NEW d, NEW n \in Nat,
         document.words[n + 1] # <<>>, document.words[n + 1][1] = RateWord,
         d.rate = Rate[document.words[n + 1][2]]
  PROVE  RateMeans(d, n + 1)
BY LastLine DEF RateMeans

LEMMA BlockLine ==
  ASSUME NEW d, NEW n \in Nat,
         document.words[n + 1] # <<>>, document.words[n + 1][1] = BlockWord,
         NEW w, w = document.words[n + 1],
         d.block = IF w[2] = IptablesWord THEN IptablesMethod
                   ELSE HostsDenyMethod(IF Len(w) = 3 THEN w[3] ELSE NoPath)
  PROVE  BlockMeans(d, n + 1)
BY LastLine DEF BlockMeans

LEMMA EveryCommand ==
  ASSUME NEW c, NEW n, FilesMean(c, n), PatternsMean(c, n), RateMeans(c, n), BlockMeans(c, n),
         ExemptionsMean(c, n), Exempts(c, n)
  PROVE  Stands(c, n)
BY DEF Stands, Means

LEMMA BlankLine ==
  ASSUME NEW c, NEW n \in Nat, Stands(c, n), document.words[n + 1] = <<>>
  PROVE  Stands(c, n + 1)
<1>1. /\ <<>> # WatchWord /\ <<>> # AddressWord /\ <<>> # RateWord /\ <<>> # ExemptWord
      /\ <<>> # BlockWord
  BY DEF WatchWord, AddressWord, RateWord, ExemptWord, BlockWord
<1>2. PICK none : none = <<>>
  OBVIOUS
<1>3. /\ FilesMean(c, n) /\ PatternsMean(c, n) /\ RateMeans(c, n) /\ BlockMeans(c, n)
      /\ ExemptionsMean(c, n) /\ Exempts(c, n)
  BY DEF Stands, Means
<1>4. /\ FilesMean(c, n + 1) /\ PatternsMean(c, n + 1) /\ RateMeans(c, n + 1) /\ BlockMeans(c, n + 1)
      /\ ExemptionsMean(c, n + 1) /\ Exempts(c, n + 1)
  BY <1>1, <1>2, <1>3, OtherLine
<1> QED  BY <1>4, EveryCommand

\* A line of each command, and what it makes of a configuration.
LEMMA WatchStands ==
  ASSUME NEW c \in Config, NEW n \in Nat, Stands(c, n),
         document.words[n + 1] # <<>>, document.words[n + 1][1] = WatchWord,
         NEW d, d = [c EXCEPT !.files = Append(@, document.words[n + 1][2])]
  PROVE  Stands(d, n + 1)
<1>1. /\ d.files = Append(c.files, document.words[n + 1][2])
      /\ d.patterns = c.patterns /\ d.exempted = c.exempted /\ d.rate = c.rate /\ d.block = c.block
  BY DEF Config
<1>2. /\ FilesMean(c, n) /\ PatternsMean(c, n) /\ RateMeans(c, n) /\ BlockMeans(c, n)
      /\ ExemptionsMean(c, n) /\ Exempts(c, n)
  BY DEF Stands, Means
<1>3. /\ PatternsMean(d, n + 1) /\ RateMeans(d, n + 1) /\ BlockMeans(d, n + 1)
      /\ ExemptionsMean(d, n + 1) /\ Exempts(d, n + 1)
  BY <1>1, <1>2, CommandsDiffer, OtherLine
<1>4. FilesMean(d, n + 1)
  BY <1>1, <1>2, WatchLine
<1> QED  BY <1>3, <1>4, EveryCommand

LEMMA AddressStands ==
  ASSUME NEW c \in Config, NEW n \in Nat, Stands(c, n),
         document.words[n + 1] # <<>>, document.words[n + 1][1] = AddressWord,
         NEW p, p.regex = document.words[n + 1][2],
         p.capture = IF Len(document.words[n + 1]) = 2 THEN 1 ELSE Number[document.words[n + 1][3]],
         p.capture <= Groups[document.words[n + 1][2]],
         NEW d, d = [c EXCEPT !.patterns = Append(@, p)]
  PROVE  Stands(d, n + 1)
<1>1. /\ d.patterns = Append(c.patterns, p)
      /\ d.files = c.files /\ d.exempted = c.exempted /\ d.rate = c.rate /\ d.block = c.block
  BY DEF Config
<1>2. /\ FilesMean(c, n) /\ PatternsMean(c, n) /\ RateMeans(c, n) /\ BlockMeans(c, n)
      /\ ExemptionsMean(c, n) /\ Exempts(c, n)
  BY DEF Stands, Means
<1>3. /\ FilesMean(d, n + 1) /\ RateMeans(d, n + 1) /\ BlockMeans(d, n + 1)
      /\ ExemptionsMean(d, n + 1) /\ Exempts(d, n + 1)
  BY <1>1, <1>2, CommandsDiffer, OtherLine
<1>4. PatternsMean(d, n + 1)
  BY <1>1, <1>2, AddressLine
<1> QED  BY <1>3, <1>4, EveryCommand

LEMMA RateStands ==
  ASSUME NEW c \in Config, NEW n \in Nat, Stands(c, n),
         document.words[n + 1] # <<>>, document.words[n + 1][1] = RateWord,
         NEW d, d = [c EXCEPT !.rate = Rate[document.words[n + 1][2]]]
  PROVE  Stands(d, n + 1)
<1>1. /\ d.rate = Rate[document.words[n + 1][2]]
      /\ d.files = c.files /\ d.patterns = c.patterns /\ d.exempted = c.exempted /\ d.block = c.block
  BY DEF Config
<1>2. /\ FilesMean(c, n) /\ PatternsMean(c, n) /\ RateMeans(c, n) /\ BlockMeans(c, n)
      /\ ExemptionsMean(c, n) /\ Exempts(c, n)
  BY DEF Stands, Means
<1>3. /\ FilesMean(d, n + 1) /\ PatternsMean(d, n + 1) /\ BlockMeans(d, n + 1)
      /\ ExemptionsMean(d, n + 1) /\ Exempts(d, n + 1)
  BY <1>1, <1>2, CommandsDiffer, OtherLine
<1>4. RateMeans(d, n + 1)
  BY <1>1, RateLine
<1> QED  BY <1>3, <1>4, EveryCommand

LEMMA ExemptStands ==
  ASSUME NEW c \in Config, NEW n \in Nat, Stands(c, n),
         document.words[n + 1] # <<>>, document.words[n + 1][1] = ExemptWord,
         NEW w, w = document.words[n + 1][2], w \in DOMAIN Exempt, BitsOK(Exempt[w]),
         NEW d, d = [c EXCEPT !.exempted = Append(@, Pattern(Exempt[w]))]
  PROVE  Stands(d, n + 1)
<1>1. /\ d.exempted = Append(c.exempted, Pattern(Exempt[w]))
      /\ d.files = c.files /\ d.patterns = c.patterns /\ d.rate = c.rate /\ d.block = c.block
  BY DEF Config
<1>2. /\ FilesMean(c, n) /\ PatternsMean(c, n) /\ RateMeans(c, n) /\ BlockMeans(c, n)
      /\ ExemptionsMean(c, n) /\ Exempts(c, n)
  BY DEF Stands, Means
<1>3. /\ FilesMean(d, n + 1) /\ PatternsMean(d, n + 1) /\ RateMeans(d, n + 1) /\ BlockMeans(d, n + 1)
  BY <1>1, <1>2, CommandsDiffer, OtherLine
<1>4. ExemptionsMean(d, n + 1) /\ Exempts(d, n + 1)
  BY <1>1, <1>2, ExemptLine
<1> QED  BY <1>3, <1>4, EveryCommand

LEMMA BlockStands ==
  ASSUME NEW c \in Config, NEW n \in Nat, Stands(c, n),
         document.words[n + 1] # <<>>, document.words[n + 1][1] = BlockWord,
         NEW w, w = document.words[n + 1],
         NEW m, m = IF w[2] = IptablesWord THEN IptablesMethod
                    ELSE HostsDenyMethod(IF Len(w) = 3 THEN w[3] ELSE NoPath),
         NEW d, d = [c EXCEPT !.block = m]
  PROVE  Stands(d, n + 1)
<1>1. /\ d.block = m
      /\ d.files = c.files /\ d.patterns = c.patterns /\ d.exempted = c.exempted /\ d.rate = c.rate
  BY DEF Config
<1>2. /\ FilesMean(c, n) /\ PatternsMean(c, n) /\ RateMeans(c, n) /\ BlockMeans(c, n)
      /\ ExemptionsMean(c, n) /\ Exempts(c, n)
  BY DEF Stands, Means
<1>3. /\ FilesMean(d, n + 1) /\ PatternsMean(d, n + 1) /\ RateMeans(d, n + 1)
      /\ ExemptionsMean(d, n + 1) /\ Exempts(d, n + 1)
  BY <1>1, <1>2, CommandsDiffer, OtherLine
<1>4. BlockMeans(d, n + 1)
  BY <1>1, BlockLine
<1> QED  BY <1>3, <1>4, EveryCommand

-----------------------------------------------------------------------------
(* The steps.                                                              *)

LEMMA StandsStable ==
  ASSUME document' = document, NEW c, NEW n
  PROVE  Stands(c, n)' <=> Stands(c, n)
<1>1. \A x : Given(x, n)' = Given(x, n)
  BY DEF Given
<1>2. /\ FilesMean(c, n)' <=> FilesMean(c, n)
      /\ PatternsMean(c, n)' <=> PatternsMean(c, n)
      /\ ExemptionsMean(c, n)' <=> ExemptionsMean(c, n)
  BY <1>1 DEF FilesMean, PatternsMean, ExemptionsMean
<1>3. /\ RateMeans(c, n)' <=> RateMeans(c, n)
      /\ BlockMeans(c, n)' <=> BlockMeans(c, n)
  BY <1>1 DEF RateMeans, BlockMeans
<1>4. Exempts(c, n)' <=> Exempts(c, n)
  BY <1>1 DEF Exempts
<1> QED  BY <1>2, <1>3, <1>4 DEF Stands, Means

LEMMA LinesWritten ==
  ASSUME Types, Written
  PROVE  /\ lineno \in Nat /\ Len(document.words) = Len(document.lines)
         /\ lineno <= Len(document.words)
         /\ \A n \in 1 .. Len(document.words) :
              WritesLine(document.lines[n], document.places[n], document.words[n])
<1>1. /\ document.lines \in Seq(Seq(Nat)) /\ Len(document.words) = Len(document.lines)
      /\ \A n \in DOMAIN document.lines :
           WritesLine(document.lines[n], document.places[n], document.words[n])
  BY DocumentAssumption DEF Types, Written
<1>2. lineno \in 0 .. Len(document.lines)
  BY DEF Types, TypeOK
<1> QED  BY <1>1, <1>2

\* Nothing has taken effect yet.
LEMMA LineGoesOn ==
  ASSUME Drafted, pc \in {"split", "string", "parse"},
         pc' \in {"split", "string", "parse", "rejected", "aborted"},
         pc' = "parse" => bits' # <<>>,
         UNCHANGED <<document, config, draft, lineno>>
  PROVE  Drafted'
<1>1. Stands(draft, lineno - 1) /\ config = Old
  BY DEF Drafted, Done
<1>2. Stands(draft, lineno - 1)'
  BY <1>1, StandsStable
<1>3. Done' = (lineno - 1)'
  BY DEF Done
<1>4. Stands(draft, Done)'
  BY <1>2, <1>3
<1> QED  BY <1>1, <1>4 DEF Drafted

LEMMA RejectDrafted ==
  ASSUME Tracks, Drafted, pc = "parse", Reject
  PROVE  Tracks' /\ Drafted'
<1>1. /\ pc' = "rejected" /\ bits = Words
      /\ UNCHANGED <<document, config, draft, lineno, bits>>
  BY DEF Reject, cursor, Tracks
<1>2. Tracks'
  BY <1>1 DEF Tracks, Words
<1> QED  BY <1>1, <1>2, LineGoesOn

LEMMA ApplyDrafted ==
  ASSUME Drafted, pc = "parse", NEW new, Apply(new), Stands(new, lineno)
  PROVE  Tracks' /\ Drafted'
<1>1. /\ pc' = "line" /\ draft' = new /\ config = Old
      /\ UNCHANGED <<document, config, lineno>>
  BY DEF Apply, Drafted
<1>2. Stands(draft, lineno)'
  BY <1>1, StandsStable
<1>3. Done' = lineno'
  BY <1>1 DEF Done
<1>4. Stands(draft, Done)'
  BY <1>2, <1>3
<1>5. Tracks'
  BY <1>1 DEF Tracks
<1> QED  BY <1>1, <1>4, <1>5 DEF Drafted

LEMMA DirectiveDrafted ==
  ASSUME Types, Written, Tracks, Drafted,
         Watch \/ Match \/ SetRate \/ AddExempt \/ SetBlock \/ UnknownDirective
  PROVE  Tracks' /\ Drafted'
<1>1. pc = "parse" /\ lineno \in Nat \ {0}
  BY LinesWritten DEF Types, Watch, Match, SetRate, AddExempt, SetBlock, UnknownDirective, Directive
<1> DEFINE n == lineno - 1
<1>2. /\ n \in Nat /\ n + 1 = lineno
      /\ draft \in Config
      /\ bits = document.words[n + 1] /\ document.words[n + 1] # <<>>
      /\ Stands(draft, n)
  BY <1>1 DEF Tracks, Drafted, Done, Words, Types, TypeOK
<1> HIDE DEF n
<1>3. CASE Reject
  BY <1>1, <1>3, RejectDrafted
<1>4. CASE Watch /\ ~Reject
  <2>1. PICK new : /\ new = [draft EXCEPT !.files = Append(@, bits[2])]
                   /\ Apply(new) /\ bits[1] = WatchWord
    BY <1>4 DEF Watch, Directive
  <2>2. Stands(new, n + 1)
    BY <1>2, <2>1, WatchStands
  <2> QED  BY <1>1, <1>2, <2>1, <2>2, ApplyDrafted
<1>5. CASE Match /\ ~Reject
  <2>1. PICK p, new :
          /\ p = [regex |-> bits[2], capture |-> CaptureNumber]
          /\ new = [draft EXCEPT !.patterns = Append(@, p)]
          /\ Apply(new) /\ bits[1] = AddressWord
          /\ Len(bits) \in {2, 3} /\ CaptureNumber <= Groups[bits[2]]
    BY <1>5 DEF Match, Directive
  <2>2. /\ p.regex = bits[2] /\ p.capture <= Groups[bits[2]]
        /\ p.capture = IF Len(bits) = 2 THEN 1 ELSE Number[bits[3]]
    BY <2>1 DEF CaptureNumber
  <2>3. Stands(new, n + 1)
    BY <1>2, <2>1, <2>2, AddressStands
  <2> QED  BY <1>1, <1>2, <2>1, <2>3, ApplyDrafted
<1>6. CASE SetRate /\ ~Reject
  <2>1. PICK new : /\ new = [draft EXCEPT !.rate = Rate[bits[2]]]
                   /\ Apply(new) /\ bits[1] = RateWord
    BY <1>6 DEF SetRate, Directive
  <2>2. Stands(new, n + 1)
    BY <1>2, <2>1, RateStands
  <2> QED  BY <1>1, <1>2, <2>1, <2>2, ApplyDrafted
<1>7. CASE AddExempt /\ ~Reject
  <2>1. PICK w, new : /\ w = bits[2]
                      /\ new = [draft EXCEPT !.exempted = Append(@, Pattern(Exempt[w]))]
                      /\ Apply(new) /\ bits[1] = ExemptWord
                      /\ w \in DOMAIN Exempt /\ BitsOK(Exempt[w])
    BY <1>7 DEF AddExempt, Directive
  <2>2. Stands(new, n + 1)
    BY <1>2, <2>1, ExemptStands
  <2> QED  BY <1>1, <1>2, <2>1, <2>2, ApplyDrafted
<1>8. CASE SetBlock /\ ~Reject
  <2>1. PICK m, new :
          /\ m = IF bits[2] = IptablesWord THEN IptablesMethod
                 ELSE HostsDenyMethod(IF Len(bits) = 3 THEN bits[3] ELSE NoPath)
          /\ new = [draft EXCEPT !.block = m]
          /\ Apply(new) /\ bits[1] = BlockWord
    <3>1. \/ Len(bits) = 2 /\ bits[2] = IptablesWord /\ Apply([draft EXCEPT !.block = IptablesMethod])
          \/ /\ Len(bits) = 2 /\ bits[2] = HostsDenyWord
             /\ Apply([draft EXCEPT !.block = HostsDenyMethod(NoPath)])
          \/ /\ Len(bits) = 3 /\ bits[2] = HostsDenyWord
             /\ Apply([draft EXCEPT !.block = HostsDenyMethod(bits[3])])
      BY <1>8 DEF SetBlock
    <3>2. bits[1] = BlockWord
      BY <1>8 DEF SetBlock, Directive
    <3> QED  BY <3>1, <3>2, CommandsDiffer
  <2>2. PICK w : w = bits
    OBVIOUS
  <2>3. Stands(new, n + 1)
    BY <1>2, <2>1, <2>2, BlockStands
  <2> QED  BY <1>1, <1>2, <2>1, <2>3, ApplyDrafted
<1>9. CASE UnknownDirective
  BY <1>3, <1>9 DEF UnknownDirective
<1> QED  BY <1>3, <1>4, <1>5, <1>6, <1>7, <1>8, <1>9

LEMMA NextLineDrafted ==
  ASSUME Types, Written, Drafted, NextLine
  PROVE  Tracks' /\ Drafted'
<1> DEFINE n == lineno + 1
<1>1. /\ n \in 1 .. Len(document.words) /\ n - 1 = lineno
      /\ WritesLine(document.lines[n], document.places[n], document.words[n])
  BY LinesWritten DEF NextLine
<1>2. /\ pc = "line" /\ pc' = "split" /\ pos' = 1 /\ bits' = <<>> /\ lineno' = n
      /\ UNCHANGED <<document, config, draft>>
  BY DEF NextLine
<1>3. Stands(draft, lineno) /\ config = Old
  BY <1>2 DEF Drafted, Done
<1>4. Drafted'
  <2>1. Done' = lineno
    BY <1>1, <1>2 DEF Done
  <2>2. Stands(draft, Done)'
    BY <1>2, <1>3, <2>1, StandsStable
  <2> QED  BY <1>2, <1>3, <2>2 DEF Drafted
<1>5. Between'
  <2>1. PICK l, p, w : /\ l = document.lines[n] /\ p = document.places[n] /\ w = document.words[n]
                       /\ w \in Seq(Seq(Nat)) /\ WritesLine(l, p, w)
    <3>1. document.words \in Seq(Seq(Seq(Nat)))
      BY DocumentAssumption DEF Types, Written
    <3>2. document.words[n] \in Seq(Seq(Nat))
      BY <1>1, <3>1, ElementOfSeq, Zenon
    <3> QED  BY <1>1, <3>2
  <2>2. Line' = l /\ Places' = p /\ Words' = w
    BY <1>2, <2>1 DEF Line, Places, Words
  <2>3. Len(bits') = 0 /\ Len(w) \in Nat /\ DOMAIN w = 1 .. Len(w)
    BY <1>2, <2>1
  <2>4. After(p, 0) = 1
    BY DEF After
  <2>5. 0 < Len(w) => 1 <= p[1].open
    <3>1. \A j \in DOMAIN w : WritesWord(l, p[j], w[j])
      BY <2>1, Zenon DEF WritesLine
    <3>2. 0 < Len(w) => 1 \in DOMAIN w
      BY <2>3
    <3>3. 0 < Len(w) => p[1].open \in 1 .. Len(l)
      BY <3>1, <3>2, Zenon DEF WritesWord
    <3> QED  BY <2>1, <3>3
  <2>6. 0 = Len(w) => EndsFrom(l, 1)
    BY <2>1, <2>4 DEF WritesLine
  <2>7. Found'
    BY <2>2, <2>3 DEF Found
  <2>8. NextPlace' = p[1]
    BY <2>2, <2>3 DEF NextPlace
  <2> QED  BY <1>2, <2>2, <2>3, <2>4, <2>5, <2>6, <2>7, <2>8 DEF Between
<1> QED  BY <1>2, <1>4, <1>5 DEF Tracks

LEMMA AcceptDrafted ==
  ASSUME Types, Written, Drafted, Accept
  PROVE  Tracks' /\ Drafted'
<1>1. /\ pc = "line" /\ pc' = "accepted" /\ config' = draft
      /\ lineno = Len(document.lines) /\ UNCHANGED <<document, draft, lineno>>
  BY DEF Accept
<1>2. Stands(draft, lineno) /\ lineno = Len(document.words)
  BY <1>1, LinesWritten DEF Drafted, Done
<1>3. Stands(config, lineno)'
  BY <1>1, <1>2, StandsStable
<1>4. Tracks'
  BY <1>1 DEF Tracks
<1> QED  BY <1>1, <1>2, <1>3, <1>4 DEF Drafted

\* A line without words stands for nothing.
LEMMA EndOfLineDrafted ==
  ASSUME Types, Written, Tracks, Drafted, EndOfLine
  PROVE  Drafted'
<1>1. /\ pc = "split" /\ pc' = IF bits = <<>> THEN "line" ELSE "parse"
      /\ UNCHANGED <<document, config, draft, lineno, bits>>
  BY DEF EndOfLine, cursor
<1>2. CASE bits # <<>>
  BY <1>1, <1>2, LineGoesOn
<1>3. CASE bits = <<>>
  <2>1. lineno \in Nat \ {0}
    BY <1>1, LinesWritten DEF Types
  <2>2. bits = Words
    BY <1>1, <2>1, AllFoundAtEnd DEF Tracks, EndOfLine
  <2>3. PICK n \in Nat : n = lineno - 1 /\ n + 1 = lineno
    BY <2>1
  <2>4. Stands(draft, n) /\ config = Old
    BY <1>1, <2>3 DEF Drafted, Done
  <2>5. Stands(draft, lineno)
    BY <1>3, <2>2, <2>3, <2>4, BlankLine DEF Words
  <2>6. Stands(draft, lineno)' /\ Done' = lineno'
    BY <1>1, <1>3, <2>5, StandsStable DEF Done
  <2>7. Stands(draft, Done)'
    BY <2>6
  <2> QED  BY <1>1, <1>3, <2>4, <2>7 DEF Drafted
<1> QED  BY <1>2, <1>3

LEMMA SplitDrafted ==
  ASSUME Types, Drafted, Comment \/ SkipBlank \/ OpenQuote \/ BareWord
  PROVE  Drafted'
<1>1. /\ pc = "split" /\ pc' \in {"split", "string"}
      /\ UNCHANGED <<document, config, draft, lineno>>
  BY DEF Comment, SkipBlank, OpenQuote, BareWord
<1> QED  BY <1>1, LineGoesOn

LEMMA StringDrafted ==
  ASSUME Types, Drafted,
         \/ CloseQuote \/ PlainCharacter \/ EscapeAtEnd \/ SimpleEscape \/ HexEscape
         \/ OctalEscape \/ UnknownEscape \/ Unterminated
  PROVE  Drafted'
<1>1. pc = "string"
  BY DEF CloseQuote, PlainCharacter, EscapeAtEnd, SimpleEscape, HexEscape, OctalEscape,
         UnknownEscape, Unterminated, Escaping, InString
<1>2. /\ pc' \in {"split", "string", "rejected", "aborted"}
      /\ UNCHANGED <<document, config, draft, lineno>>
  BY <1>1 DEF CloseQuote, PlainCharacter, EscapeAtEnd, SimpleEscape, HexEscape, OctalEscape,
         UnknownEscape, Unterminated, Add, Reject
<1> QED  BY <1>1, <1>2, LineGoesOn

LEMMA StutterKeeps ==
  ASSUME Tracks, Drafted, UNCHANGED vars
  PROVE  Tracks' /\ Drafted'
<1>1. UNCHANGED <<document, config, draft, lineno, pos, bit, bits, quote, pc>>
  BY DEF vars, cursor
<1>2. /\ Line' = Line /\ Words' = Words /\ Places' = Places
      /\ NextWord' = NextWord /\ NextPlace' = NextPlace
  BY <1>1 DEF Line, Words, Places, NextWord, NextPlace
<1>3. Tracks'
  BY <1>1, <1>2 DEF Tracks, Between, Within, Found
<1>4. Done' = Done
  BY <1>1 DEF Done
<1>5. /\ Stands(draft, Done) => Stands(draft, Done)'
      /\ Stands(config, lineno) => Stands(config, lineno)'
  BY <1>1, <1>4, StandsStable
<1> QED  BY <1>1, <1>3, <1>5 DEF Drafted

LEMMA InvariantKept ==
  ASSUME Invariant, [Next]_vars
  PROVE  Invariant'
<1>1. Types' /\ Types
  BY TypesKept DEF Invariant
<1>2. ASSUME Written'
      PROVE  Tracks' /\ Drafted'
  <2>1. document' = document
    BY DEF Next, vars, cursor, NextLine, Accept, EndOfLine, Comment, SkipBlank, OpenQuote, BareWord,
           CloseQuote, PlainCharacter, EscapeAtEnd, SimpleEscape, HexEscape, OctalEscape, UnknownEscape,
           Unterminated, Watch, Match, SetRate, AddExempt, SetBlock, UnknownDirective, Apply, Reject, Add
  <2>2. Written /\ Tracks /\ Drafted
    BY <1>2, <2>1 DEF Written, Invariant
  <2>3. CASE NextLine \/ Accept
    BY <1>1, <2>2, <2>3, NextLineDrafted, AcceptDrafted
  <2>4. CASE EndOfLine \/ Comment \/ SkipBlank \/ OpenQuote \/ BareWord
    BY <1>1, <2>2, <2>4, SplitTracks, SplitDrafted, EndOfLineDrafted
  <2>5. CASE \/ CloseQuote \/ PlainCharacter \/ EscapeAtEnd \/ SimpleEscape \/ HexEscape
             \/ OctalEscape \/ UnknownEscape \/ Unterminated
    BY <1>1, <2>2, <2>5, StringTracks, StringDrafted
  <2>6. CASE Watch \/ Match \/ SetRate \/ AddExempt \/ SetBlock \/ UnknownDirective
    BY <1>1, <2>2, <2>6, DirectiveDrafted
  <2>7. CASE UNCHANGED vars
    BY <2>2, <2>7, StutterKeeps
  <2> QED  BY <2>3, <2>4, <2>5, <2>6, <2>7 DEF Next
<1> QED  BY <1>1, <1>2 DEF Invariant

LEMMA InvariantInit == Init => Invariant
<1> SUFFICES ASSUME Init PROVE Invariant
  OBVIOUS
<1>1. Types
  BY TypesInit
<1>2. lineno = 0 /\ draft = Default /\ config = Old /\ pc = "line"
  BY DEF Init
<1>3. Tracks
  BY <1>2 DEF Tracks
<1>4. \A x : Given(x, 0) = {}
  BY DEF Given
<1>5. Cardinality({}) = 0
  BY FS_EmptySet
<1>6. Len(Default.files) = 0 /\ Len(Default.patterns) = 0 /\ Len(Default.exempted) = 0
  BY DEF Default
<1>7. /\ FilesMean(Default, 0) /\ PatternsMean(Default, 0) /\ ExemptionsMean(Default, 0)
      /\ RateMeans(Default, 0) /\ BlockMeans(Default, 0) /\ Exempts(Default, 0)
  <2>1. FilesMean(Default, 0)
    BY <1>4, <1>5, <1>6 DEF FilesMean
  <2>2. PatternsMean(Default, 0)
    BY <1>4, <1>5, <1>6 DEF PatternsMean
  <2>3. ExemptionsMean(Default, 0) /\ Exempts(Default, 0)
    BY <1>4, <1>5, <1>6 DEF ExemptionsMean, Exempts
  <2>4. RateMeans(Default, 0) /\ BlockMeans(Default, 0)
    BY <1>4 DEF RateMeans, BlockMeans
  <2> QED  BY <2>1, <2>2, <2>3, <2>4
<1>8. Stands(draft, Done)
  BY <1>2, <1>7 DEF Stands, Means, Done
<1>9. Drafted
  BY <1>2, <1>8 DEF Drafted
<1> QED  BY <1>1, <1>3, <1>9 DEF Invariant

LEMMA ConfFileInvariant == Spec => []Invariant
BY InvariantInit, InvariantKept, PTL DEF Spec

\* However a line was written from its words, bare, in quotes or with escapes,
\* splitLine() finds these words and does not reject it.
THEOREM ConfFileSplits == Spec => []SplitsAsWritten
<1>1. Invariant => SplitsAsWritten
  BY DEF Invariant, Tracks, SplitsAsWritten, Words
<1> QED  BY <1>1, ConfFileInvariant, PTL

\* A file takes effect as a whole, as the order and repetition of its
\* directives demand, or, whichever line is wrong, not at all.
THEOREM ConfFileAllOrNothing == Spec => []AllOrNothing
<1>1. Invariant => AllOrNothing
  BY DEF Invariant, Drafted, Stands, AllOrNothing
<1> QED  BY <1>1, ConfFileInvariant, PTL
-----------------------------------------------------------------------------
(* Exempted networks.                                                      *)

LEMMA FlipByte ==
  ASSUME NEW x \in Byte, NEW j \in 0 .. 7
  PROVE  IF BitOfByte(x, j) = 1 THEN x - 2 ^ (7 - j) \in Byte ELSE x + 2 ^ (7 - j) \in Byte
<1>1. x \in 0 .. 255
  BY DEF Byte
<1>2. /\ 2 ^ 0 = 1 /\ 2 ^ 1 = 2 /\ 2 ^ 2 = 4 /\ 2 ^ 3 = 8 /\ 2 ^ 4 = 16
      /\ 2 ^ 5 = 32 /\ 2 ^ 6 = 64 /\ 2 ^ 7 = 128
  OBVIOUS
<1> DEFINE b(i) == BitOfByte(x, i)
<1>3. \A i \in 0 .. 7 : b(i) \in 0 .. 1
  BY BitsOfByte
<1>4. x = 128 * b(0) + 64 * b(1) + 32 * b(2) + 16 * b(3) + 8 * b(4) + 4 * b(5) + 2 * b(6) + b(7)
  BY BitsOfByte
<1> HIDE DEF b
<1>5. /\ b(0) \in 0 .. 1 /\ b(1) \in 0 .. 1 /\ b(2) \in 0 .. 1 /\ b(3) \in 0 .. 1
      /\ b(4) \in 0 .. 1 /\ b(5) \in 0 .. 1 /\ b(6) \in 0 .. 1 /\ b(7) \in 0 .. 1
  BY <1>3
<1>6. IF b(j) = 1 THEN x - 2 ^ (7 - j) \in 0 .. 255 ELSE x + 2 ^ (7 - j) \in 0 .. 255
  <2>1. CASE j = 0
    BY <1>2, <1>4, <1>5, <2>1
  <2>2. CASE j = 1
    BY <1>2, <1>4, <1>5, <2>2
  <2>3. CASE j = 2
    BY <1>2, <1>4, <1>5, <2>3
  <2>4. CASE j = 3
    BY <1>2, <1>4, <1>5, <2>4
  <2>5. CASE j = 4
    BY <1>2, <1>4, <1>5, <2>5
  <2>6. CASE j = 5
    BY <1>2, <1>4, <1>5, <2>6
  <2>7. CASE j = 6
    BY <1>2, <1>4, <1>5, <2>7
  <2>8. CASE j = 7
    BY <1>2, <1>4, <1>5, <2>8
  <2> QED  BY <2>1, <2>2, <2>3, <2>4, <2>5, <2>6, <2>7, <2>8
<1> QED  BY <1>6 DEF b, Byte

LEMMA FlipType ==
  ASSUME NEW a \in Address, NEW k \in 0 .. 8 * Bytes - 1
  PROVE  Flip(a, k) \in Address
<1>1. PICK n \in Position, j \in 0 .. 7 : k = 8 * n + j
  BY BitSplits
<1>2. k \div 8 = n /\ k % 8 = j
  BY <1>1, BytesAssumption DEF Position
<1>3. Bit(a, k) = BitOfByte(a[n], j) /\ a[n] \in Byte
  BY <1>1, BitOfPlace DEF Address
<1>4. PICK y \in Byte : Flip(a, k) = [a EXCEPT ![n] = y]
  BY <1>2, <1>3, FlipByte DEF Flip
<1> QED  BY <1>4 DEF Address

LEMMA SampleType == Sample \subseteq Address
<1>1. \A w \in DOMAIN Exempt : Exempt[w].address \in Address
  BY WordAssumption DEF Argument
<1> QED  BY <1>1, FlipType DEF Sample

\* An exempted network, of either version and with any mask, is exactly the
\* addresses that agree with it in the bits of the mask, if it is named by its
\* lowest address.
THEOREM ConfFileExempts == Spec => []ExemptsCanonical
<1>1. Invariant => ExemptsCanonical
  <2> SUFFICES ASSUME Invariant, Written, pc = "accepted",
                      NEW k \in Given(ExemptWord, Len(document.words)),
                      Canonical(Exempt[document.words[k][2]]), NEW a \in Sample
               PROVE  Matches(config.exempted[Rank(k, Given(ExemptWord, Len(document.words)))], a)
                        <=> InNetwork(a, Exempt[document.words[k][2]])
    BY DEF ExemptsCanonical, ExemptsNetworks
  <2>1. Exempts(config, Len(document.words))
    BY DEF Invariant, Drafted, Stands
  <2>2. PICK arg : arg = Exempt[document.words[k][2]]
    OBVIOUS
  <2>3. /\ arg \in Argument /\ BitsOK(arg)
        /\ config.exempted[Rank(k, Given(ExemptWord, Len(document.words)))] = Pattern(arg)
    BY <2>1, <2>2, WordAssumption DEF Exempts
  <2>4. a \in Address
    BY SampleType
  <2> QED  BY <2>2, <2>3, <2>4, MasksCorrect
<1> QED  BY <1>1, ConfFileInvariant, PTL
=============================================================================
