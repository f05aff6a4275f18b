------------------------ MODULE WatcherImplementation ------------------------
(***************************************************************************)
(* What the two kinds of watcher share: readLines() and processLine() of   *)
(* the class WatcherImplementation, and the files it reads.                *)
(*                                                                         *)
(* A file is a sequence of characters, of which only "\n" matters.  A line *)
(* handed to processLine() is the sequence of the places <<f, k>> (k-th    *)
(* character of f) its characters come from, so that a line made of two    *)
(* files, or handed over twice, can be told.  Files are never truncated.   *)
(***************************************************************************)
EXTENDS Integers, Sequences, SequencesExt

CONSTANTS
  File,           \* inodes
  None,           \* no file, a null FILE pointer
  MaxLength       \* bound: characters per file

ASSUME FileAssumption == None \notin File
ASSUME LengthAssumption == MaxLength \in Nat \ {0}

VARIABLES
  at,             \* the file at path
  content,        \* content[f]: its characters
  visits,         \* history: visits[f]: how often f came to path
  fp,             \* the open file
  pos,            \* its file position
  line,           \* WatcherImplementation::line
  passed,         \* history: passed[f][k]: times <<f, k>> went to processLine
  torn,           \* history: a line was not a part of one file, from a line's start
  skipped         \* history: skipped[f]: characters passed over when f was opened

reader == <<fp, pos, line, passed, torn>>

Char == {"text", "newline"}

ReaderTypeOK ==
  /\ at \in File \cup {None}
  /\ content \in [File -> Seq(Char)]
  /\ visits \in [File -> Nat]
  /\ fp \in File \cup {None}
  /\ pos \in 0 .. MaxLength
  /\ line \in Seq(File \X (1 .. MaxLength))
  /\ passed \in [File -> [1 .. MaxLength -> Nat]]
  /\ torn \in BOOLEAN
  /\ skipped \in [File -> Nat]

\* Some program may have begun to write.
ReaderInit ==
  /\ at \in File \cup {None}
  /\ content \in [File -> {<<>>, <<"text">>, <<"newline">>}]
  /\ visits = [f \in File |-> IF f = at THEN 1 ELSE 0]
  /\ fp = None
  /\ pos = 0
  /\ line = <<>>
  /\ passed = [f \in File |-> [k \in 1 .. MaxLength |-> 0]]
  /\ torn = FALSE
  /\ skipped = [f \in File |-> 0]

\* A program appends to a file.
Extend(f, c) ==
  /\ Len(content[f]) < MaxLength
  /\ content' = [content EXCEPT ![f] = Append(@, c)]

\* The file at path changes to f.
Arrive(f) ==
  /\ at' = f
  /\ visits' = [g \in File |-> IF g = f THEN visits[g] + 1 ELSE visits[g]]
-----------------------------------------------------------------------------
CharAt(p) == content[p[1]][p[2]]

\* A line of the file starts at p, as far as the watcher can see.
StartsLine(p) == p[2] \in {1, skipped[p[1]] + 1} \/ CharAt(<<p[1], p[2] - 1>>) = "newline"

\* The lines in places are each a run of one file from the start of a line.
Whole(places) ==
  \A k \in DOMAIN places :
    IF k = 1 \/ CharAt(places[k - 1]) = "newline"
    THEN StartsLine(places[k])
    ELSE places[k] = <<places[k - 1][1], places[k - 1][2] + 1>>

\* processLine() of every line in places.
Process(places) ==
  /\ passed' = [f \in File |-> [k \in 1 .. MaxLength |->
                 passed[f][k] + Cardinality({m \in DOMAIN places : places[m] = <<f, k>>})]]
  /\ torn' = (torn \/ ~Whole(places))

\* mutant of ReadLines: rewind() instead of clearerr()
ReadLinesRewinding ==
  /\ Process([k \in DOMAIN content[fp] |-> <<fp, k>>])
  /\ line' = <<>>
  /\ pos' = Len(content[fp])
  /\ UNCHANGED fp

\* Up to the end of the file; what follows the last newline stays in line.
ReadLines ==
  LET text == line \o [k \in 1 .. Len(content[fp]) - pos |-> <<fp, pos + k>>]
  IN  \E end \in 0 .. Len(text) :
        /\ end > 0 => CharAt(text[end]) = "newline"
        /\ \A k \in end + 1 .. Len(text) : CharAt(text[k]) # "newline"
        /\ Process(SubSeq(text, 1, end))
        /\ line' = SubSeq(text, end + 1, Len(text))
        /\ pos' = Len(content[fp])
        /\ UNCHANGED fp

\* mutant of Close: the partial line is not cleared
CloseKeepsLine ==
  /\ Process(line)
  /\ UNCHANGED line
  /\ fp' = None
  /\ pos' = 0

\* closeFile(), what the two kinds of it share: a partial line is processed
\* as it is.
Close ==
  /\ Process(line)
  /\ line' = <<>>
  /\ fp' = None
  /\ pos' = 0
=============================================================================
