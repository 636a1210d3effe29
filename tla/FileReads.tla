------------------------------ MODULE FileReads ------------------------------
(***************************************************************************)
(* What fs/read, fs/write and fs/seek do with the text and the position of *)
(* the open file they found.  fs/read collects lines in a buffer that      *)
(* grows: fgets hands out pieces of at most BufferSize - 1 characters, and *)
(* each piece is copied behind those before it.  A step of this module is  *)
(* one call of a builtin or one turn of a loop in fs/read.                 *)
(*                                                                         *)
(* A file holds characters and newlines, no NUL, and may be read and       *)
(* written; positions stay within the text.                                *)
(***************************************************************************)
EXTENDS Integers, Sequences, FiniteSets

CONSTANTS
  Letters,     \* the characters that are not a newline
  Newline,     \* the newline
  BufferSize,  \* READ_BUFFER_SIZE
  MaxText,     \* bound on the length of a file
  MaxLine      \* bound on the numbers of lines a program asks for

ASSUME ReadConstants ==
  /\ Newline \notin Letters
  /\ BufferSize \in Nat /\ BufferSize > 1
  /\ MaxText \in Nat /\ MaxLine \in Nat

VARIABLES
  text,        \* the characters in the file
  pos,         \* the position of the FILE: so many characters are behind it
  read,        \* the last or present fs/read that collects lines
  got,         \* result_str
  capacity     \* the size of the buffer result_str is in

vars == <<text, pos, read, got, capacity>>

Characters == Letters \cup {Newline}

(* The value of a keyword that was not given.                              *)
Missing == -1

(* An fs/read by lines: what it asks for, where it began, current_line or  *)
(* lines_read, and whether it still is at work.                            *)
NoRead == [kind |-> "none", first |-> 0, last |-> 0, from |-> 0, line |-> 0, busy |-> FALSE]

Numbers == 0..MaxLine

Lesser(a, b) == IF a < b THEN a ELSE b

(* An optional :offset; without one most reads begin at the start.         *)
Offsets == {Missing} \cup 0..Len(text)

Start(offset, otherwise) == IF offset >= 0 THEN offset ELSE otherwise

Init ==
  /\ text \in UNION {[1..n -> Characters] : n \in 0..MaxText}
  /\ pos = 0
  /\ read = NoRead
  /\ got = <<>>
  /\ capacity = BufferSize

-----------------------------------------------------------------------------
(***************************************************************************)
(* Reading lines.                                                          *)
(***************************************************************************)

(* Mutant of Begins: the position is left where it was.                    *)
BeginsThere(kind, first, last, offset) ==
  /\ pos' = Start(offset, pos)
  /\ read' = [kind |-> kind, first |-> first, last |-> last,
              from |-> Start(offset, 0), line |-> 0, busy |-> TRUE]
  /\ got' = <<>>
  /\ capacity' = BufferSize

(* The loop begins at the offset, or the file is rewound.                  *)
Begins(kind, first, last, offset) ==
  /\ pos' = Start(offset, 0)
  /\ read' = [kind |-> kind, first |-> first, last |-> last,
              from |-> Start(offset, 0), line |-> 0, busy |-> TRUE]
  /\ got' = <<>>
  /\ capacity' = BufferSize

(* fs/read :lines n.                                                       *)
ReadLines(n, offset) ==
  /\ ~read.busy
  /\ n > 0
  /\ Begins("lines", 0, n - 1, offset)
  /\ UNCHANGED text

(* fs/read :line-start a :line-end b, either of which may be missing.      *)
ReadRange(a, b, offset) ==
  /\ ~read.busy
  /\ a >= 0 \/ b >= 0
  /\ LET first == Start(a, 0) IN Begins("range", first, Start(b, first), offset)
  /\ UNCHANGED text

(* The end of the piece fgets hands out: behind a newline, at the end of   *)
(* its buffer or at the end of the file.                                   *)
PieceEnd ==
  CHOOSE e \in (pos + 1)..Len(text) :
    LET ends(i) == text[i] = Newline \/ i = pos + BufferSize - 1 \/ i = Len(text)
    IN ends(e) /\ \A i \in (pos + 1)..(e - 1) : ~ends(i)

Piece == SubSeq(text, pos + 1, PieceEnd)

(* Mutants of Grown: room for the zero that ends the string is forgotten;  *)
(* the buffer is doubled for every piece.                                  *)
GrownTight(added) ==
  IF Len(got) + added > capacity THEN 2 * capacity ELSE capacity

GrownAlways(added) == 2 * capacity

(* The buffer is doubled once if the piece and the zero do not fit.        *)
Grown(added) ==
  IF Len(got) + added + 1 > capacity THEN 2 * capacity ELSE capacity

Takes ==
  /\ got' = got \o Piece
  /\ capacity' = Grown(Len(Piece))

AtEnd == pos >= Len(text)

Stops ==
  /\ read' = [read EXCEPT !.busy = FALSE]
  /\ UNCHANGED <<text, pos, got, capacity>>

(* while (lines_read < lines && fgets(...))                                *)
LinesTurn ==
  /\ read.busy /\ read.kind = "lines"
  /\ IF read.line > read.last \/ AtEnd
       THEN Stops
       ELSE /\ pos' = PieceEnd
            /\ Takes
            /\ read' = [read EXCEPT !.line = @ + 1]
            /\ UNCHANGED text

(* Mutant of InRange: the last line is left out.                           *)
InRangeButLast == read.first <= read.line /\ read.line < read.last

InRange == read.first <= read.line /\ read.line <= read.last

(* while (fgets(...)), left behind the last line; lines before the first   *)
(* are read and dropped.                                                   *)
RangeTurn ==
  /\ read.busy /\ read.kind = "range"
  /\ IF AtEnd
       THEN Stops
       ELSE /\ pos' = PieceEnd
            /\ IF InRange THEN Takes ELSE UNCHANGED <<got, capacity>>
            /\ read' = [read EXCEPT !.line = @ + 1, !.busy = read.line + 1 <= read.last]
            /\ UNCHANGED text

-----------------------------------------------------------------------------
(***************************************************************************)
(* The other operations: each is one library call or two.                  *)
(***************************************************************************)

(* Mutant of ReadBytes: the position goes on by what was asked for.        *)
ReadBytesAsked(n, offset) ==
  /\ ~read.busy
  /\ n > 0
  /\ pos' = Start(offset, pos) + n
  /\ UNCHANGED <<text, read, got, capacity>>

(* fs/read :bytes n, the only read that goes on where the last one ended.  *)
ReadBytes(n, offset) ==
  /\ ~read.busy
  /\ n > 0
  /\ pos' = Lesser(Start(offset, pos) + n, Len(text))
  /\ UNCHANGED <<text, read, got, capacity>>

(* fs/read without a mode: the rest of the file.                           *)
ReadAll(offset) ==
  /\ ~read.busy
  /\ pos' = Len(text)
  /\ UNCHANGED <<text, read, got, capacity>>

(* Words written into the text at position p, over what is there.          *)
Overwritten(p, words) ==
  SubSeq(text, 1, p) \o words \o SubSeq(text, p + Len(words) + 1, Len(text))

(* fs/write: at :offset, else at the end with :append, else where it is.   *)
Write(c, offset, append) ==
  /\ ~read.busy
  /\ LET p == IF offset < 0 /\ append THEN Len(text) ELSE Start(offset, pos) IN
     /\ p < MaxText
     /\ text' = Overwritten(p, <<c>>)
     /\ pos' = p + 1
  /\ read' = NoRead
  /\ got' = <<>>
  /\ capacity' = BufferSize

(* fs/seek, by whence: from the start, from here or from the end.          *)
Seek(offset, base) ==
  /\ ~read.busy
  /\ base \in {0, pos, Len(text)}
  /\ base + offset \in 0..Len(text)
  /\ pos' = base + offset
  /\ UNCHANGED <<text, read, got, capacity>>

Turn == LinesTurn \/ RangeTurn

Next ==
  \/ \E n \in Numbers, offset \in Offsets : ReadLines(n, offset) \/ ReadBytes(n, offset)
  \/ \E a, b \in Numbers \cup {Missing}, offset \in Offsets : ReadRange(a, b, offset)
  \/ Turn
  \/ \E offset \in Offsets : ReadAll(offset)
  \/ \E c \in Characters, offset \in Offsets, append \in BOOLEAN : Write(c, offset, append)
  \/ \E offset \in -MaxText..MaxText, base \in 0..MaxText : Seek(offset, base)

Spec == Init /\ [][Next]_vars

-----------------------------------------------------------------------------
(***************************************************************************)
(* Properties.                                                             *)
(***************************************************************************)

(* Every variable has its type.                                            *)
TypeOK ==
  /\ text \in Seq(Characters) /\ got \in Seq(Characters)
  /\ pos \in 0..Len(text)
  /\ read \in [kind : {"none", "lines", "range"}, first : Nat, last : Int, from : Nat,
               line : Nat, busy : BOOLEAN]
  /\ capacity \in Nat

(* What was collected and its final zero fit the buffer at every turn:     *)
(* doubling once is enough whatever the lengths of the lines, and memory   *)
(* is never more than twice what was needed.                               *)
ResultFits ==
  /\ Len(got) + 1 <= capacity
  /\ capacity = BufferSize \/ capacity <= 2 * Len(got)

(* The number of the line the character at p is in, from where the read    *)
(* began.                                                                  *)
LineOf(p) == Cardinality({i \in (read.from + 1)..(p - 1) : text[i] = Newline})

(* No line is longer than what fgets hands out at once.                    *)
LinesAreShort ==
  \A p \in (read.from + 1)..Len(text) :
    p + BufferSize - 2 < Len(text) =>
      \E i \in p..(p + BufferSize - 2) : text[i] = Newline

(* When lines fit the buffer of fgets, a finished fs/read has returned the *)
(* lines asked for, whole and no others, though it only counts what fgets  *)
(* hands out: by number from the offset, or from the start of the file,    *)
(* wherever earlier operations had left the position.                      *)
ReadsAskedLines ==
  read.kind # "none" /\ ~read.busy /\ LinesAreShort =>
    LET asked == {p \in (read.from + 1)..Len(text) : LineOf(p) \in read.first..read.last}
    IN /\ Len(got) = Cardinality(asked)
       /\ \A p \in asked :
            got[1 + Cardinality({q \in asked : q < p})] = text[p]

=============================================================================
