--------------------------- MODULE FileReadsProofs ---------------------------
(***************************************************************************)
(* The buffer of fs/read is large enough whatever its first size, however  *)
(* long the file and its lines: what is added at once is shorter than the  *)
(* first size, and the size never falls, so that twice the size takes it.  *)
(* And fs/read returns the lines it was asked for: a loop always stands at *)
(* the beginning of the line it has counted to, with what was asked for of *)
(* the text before it in its buffer.                                       *)
(***************************************************************************)
EXTENDS FileReads, StackFacts, FiniteSetTheorems

(* The invariant, with what the buffer never falls below.                  *)
IInv == TypeOK /\ ResultFits /\ capacity >= BufferSize

(* fgets hands out at least one character, leaves room for the zero, and   *)
(* goes to the first newline when that comes in time.                      *)
LEMMA PieceEndFacts ==
  ASSUME TypeOK, ~AtEnd
  PROVE  /\ PieceEnd \in Nat /\ PieceEnd > pos /\ PieceEnd <= Len(text)
         /\ PieceEnd <= pos + BufferSize - 1
         /\ \/ text[PieceEnd] = Newline
            \/ PieceEnd = pos + BufferSize - 1
            \/ PieceEnd = Len(text)
         /\ \A i \in (pos + 1)..(PieceEnd - 1) : text[i] # Newline
<1> DEFINE ends(i) == text[i] = Newline \/ i = pos + BufferSize - 1 \/ i = Len(text)
           E == {e \in (pos + 1)..Len(text) : ends(e)}
           p == PieceEnd
<1>1. /\ pos \in Nat /\ Len(text) \in Nat /\ pos < Len(text)
      /\ BufferSize \in Nat /\ BufferSize > 1
  BY ReadConstants DEF TypeOK, AtEnd
<1>2. Len(text) \in E /\ E \subseteq Nat
  BY <1>1
<1>3. PICK e \in E : \A k \in E : e <= k
  <2> HIDE DEF E
  <2> QED BY <1>2, Least
<1>4. e \in (pos + 1)..Len(text) /\ ends(e) /\ \A i \in (pos + 1)..(e - 1) : ~ends(i)
  <2>1. e \in (pos + 1)..Len(text) /\ ends(e)
    BY <1>3
  <2>2. ASSUME NEW i \in (pos + 1)..(e - 1) PROVE ~ends(i)
    <3>1. i \in (pos + 1)..Len(text) /\ ~(e <= i)
      BY <1>1, <2>1
    <3> QED BY <1>3, <3>1
  <2> QED BY <2>1, <2>2
<1>5. p \in (pos + 1)..Len(text) /\ ends(p) /\ \A i \in (pos + 1)..(p - 1) : ~ends(i)
  BY <1>4 DEF PieceEnd
<1> HIDE DEF p
<1>6. p <= pos + BufferSize - 1
  <2> SUFFICES ASSUME p > pos + BufferSize - 1 PROVE FALSE
    BY <1>1, <1>5
  <2>1. pos + BufferSize - 1 \in (pos + 1)..(p - 1)
    BY <1>1, <1>5
  <2> QED BY <1>5, <2>1
<1> QED BY <1>1, <1>5, <1>6 DEF p

LEMMA PieceFacts ==
  ASSUME TypeOK, ~AtEnd
  PROVE  Piece \in Seq(Characters) /\ Len(Piece) \in Nat /\ Len(Piece) < BufferSize
<1> DEFINE e == PieceEnd
<1>1. /\ e \in Nat /\ e > pos /\ e <= Len(text) /\ e <= pos + BufferSize - 1
      /\ pos \in Nat /\ BufferSize \in Nat /\ text \in Seq(Characters)
  BY PieceEndFacts, ReadConstants DEF TypeOK
<1> HIDE DEF e
<1>2. \A i \in (pos + 1)..e : text[i] \in Characters
  BY <1>1
<1>3. /\ SubSeq(text, pos + 1, e) \in Seq(Characters)
      /\ Len(SubSeq(text, pos + 1, e)) = IF pos + 1 <= e THEN e - (pos + 1) + 1 ELSE 0
  BY <1>1, <1>2, SubSeqProperties
<1> QED BY <1>1, <1>3 DEF Piece, e

(* A piece is taken into the buffer.                                       *)
LEMMA TakesKeeps ==
  ASSUME IInv, ~AtEnd, Takes
  PROVE  /\ got' \in Seq(Characters) /\ capacity' \in Nat /\ capacity' >= BufferSize
         /\ ResultFits'
<1> DEFINE n == Len(Piece)
           g == Len(got)
<1>1. /\ n \in Nat /\ n < BufferSize /\ g \in Nat /\ capacity \in Nat /\ BufferSize \in Nat
      /\ g + 1 <= capacity /\ capacity >= BufferSize
      /\ Piece \in Seq(Characters) /\ got \in Seq(Characters)
  BY PieceFacts, ReadConstants DEF IInv, TypeOK, ResultFits
<1>2. got' \in Seq(Characters) /\ Len(got') = g + n
  BY <1>1, ConcatProperties DEF Takes
<1>3. capacity' = IF g + n + 1 > capacity THEN 2 * capacity ELSE capacity
  BY DEF Takes, Grown
<1>4. capacity = BufferSize \/ capacity <= 2 * g
  BY DEF IInv, ResultFits
<1> HIDE DEF n, g
<1>5. CASE g + n + 1 > capacity
  BY <1>1, <1>2, <1>3, <1>5 DEF ResultFits
<1>6. CASE ~(g + n + 1 > capacity)
  BY <1>1, <1>2, <1>3, <1>4, <1>6 DEF ResultFits
<1> QED BY <1>5, <1>6

-----------------------------------------------------------------------------
(***************************************************************************)
(* The steps.                                                              *)
(***************************************************************************)
LEMMA InitEstablishes ==
  ASSUME Init
  PROVE  IInv
<1>1. text \in Seq(Characters)
  BY DEF Init
<1>2. Len(text) \in Nat
  BY <1>1
<1> QED BY <1>1, <1>2, ReadConstants DEF Init, IInv, TypeOK, ResultFits, NoRead

(* A loop begins with an empty string in a buffer of the first size.       *)
LEMMA BeginsKeeps ==
  ASSUME IInv, NEW kind \in {"lines", "range"}, NEW first \in Nat, NEW last \in Int,
         NEW offset \in Offsets, Begins(kind, first, last, offset), UNCHANGED text
  PROVE  IInv'
<1>1. Start(offset, 0) \in 0..Len(text) /\ Len(text) \in Nat /\ text \in Seq(Characters)
  BY DEF Offsets, Start, Missing, IInv, TypeOK
<1>2. Start(offset, 0) \in Nat
  BY <1>1
<1>3. got' = <<>> /\ capacity' = BufferSize /\ pos' = Start(offset, 0)
      /\ read' \in [kind : {"none", "lines", "range"}, first : Nat, last : Int, from : Nat,
                    line : Nat, busy : BOOLEAN]
  BY <1>2 DEF Begins
<1>4. ResultFits'
  BY <1>3, ReadConstants DEF ResultFits
<1> QED BY <1>1, <1>3, <1>4, ReadConstants DEF IInv, TypeOK

(* The loops of fs/read.                                                   *)
LEMMA TurnKeeps ==
  ASSUME IInv, Turn
  PROVE  IInv'
<1>1. /\ TypeOK /\ ResultFits /\ capacity >= BufferSize
      /\ text \in Seq(Characters) /\ got \in Seq(Characters)
      /\ read.line \in Nat /\ read.last \in Int
  BY DEF IInv, TypeOK
<1>2. CASE Stops
  BY <1>1, <1>2 DEF Stops, IInv, TypeOK, ResultFits
<1>3. ASSUME ~AtEnd, pos' = PieceEnd, text' = text,
             NEW b \in BOOLEAN, read' = [read EXCEPT !.line = @ + 1, !.busy = b],
             Takes \/ UNCHANGED <<got, capacity>>
      PROVE  IInv'
  <2>1. pos' \in 0..Len(text')
    BY <1>1, <1>3, PieceEndFacts
  <2>2. read.line + 1 \in Nat
    BY <1>1
  <2>3. read' \in [kind : {"none", "lines", "range"}, first : Nat, last : Int, from : Nat,
                   line : Nat, busy : BOOLEAN]
    BY <1>1, <1>3, <2>2 DEF TypeOK
  <2>4. got' \in Seq(Characters) /\ capacity' \in Nat /\ capacity' >= BufferSize /\ ResultFits'
    BY <1>1, <1>3, TakesKeeps DEF TypeOK, ResultFits
  <2> QED BY <1>1, <1>3, <2>1, <2>3, <2>4 DEF IInv, TypeOK
<1>4. CASE LinesTurn
  <2>1. CASE read.line > read.last \/ AtEnd
    BY <1>2, <1>4, <2>1 DEF LinesTurn
  <2>2. CASE ~(read.line > read.last \/ AtEnd)
    <3>1. /\ ~AtEnd /\ pos' = PieceEnd /\ Takes /\ text' = text
          /\ read' = [read EXCEPT !.line = @ + 1]
      BY <1>4, <2>2 DEF LinesTurn
    <3>2. read.busy \in BOOLEAN /\ read' = [read EXCEPT !.line = @ + 1, !.busy = read.busy]
      BY <1>1, <3>1 DEF TypeOK
    <3> QED BY <1>3, <3>1, <3>2
  <2> QED BY <2>1, <2>2
<1>5. CASE RangeTurn
  <2>1. CASE AtEnd
    BY <1>2, <1>5, <2>1 DEF RangeTurn
  <2>2. CASE ~AtEnd
    <3>1. /\ pos' = PieceEnd /\ (Takes \/ UNCHANGED <<got, capacity>>) /\ text' = text
          /\ read' = [read EXCEPT !.line = @ + 1, !.busy = read.line + 1 <= read.last]
      BY <1>5, <2>2 DEF RangeTurn
    <3>2. (read.line + 1 <= read.last) \in BOOLEAN
      BY <1>1
    <3> QED BY <1>3, <2>2, <3>1, <3>2
  <2> QED BY <2>1, <2>2
<1> QED BY <1>4, <1>5 DEF Turn

LEMMA WriteKeeps ==
  ASSUME IInv, NEW c \in Characters, NEW offset \in Offsets, NEW append \in BOOLEAN,
         Write(c, offset, append)
  PROVE  IInv'
<1> DEFINE p == IF offset < 0 /\ append THEN Len(text) ELSE Start(offset, pos)
           n == Len(text)
<1>1. /\ text \in Seq(Characters) /\ n \in Nat /\ p \in Nat /\ p <= n
  BY DEF IInv, TypeOK, Offsets, Start, Missing
<1>2. /\ text' = Overwritten(p, <<c>>) /\ pos' = p + 1
      /\ read' = NoRead /\ got' = <<>> /\ capacity' = BufferSize
  BY DEF Write
<1> HIDE DEF p
<1>3. /\ SubSeq(text, 1, p) \in Seq(Characters) /\ Len(SubSeq(text, 1, p)) = p
  <2>1. \A i \in 1..p : text[i] \in Characters
    BY <1>1
  <2>2. /\ SubSeq(text, 1, p) \in Seq(Characters)
        /\ Len(SubSeq(text, 1, p)) = IF 1 <= p THEN p - 1 + 1 ELSE 0
    BY <1>1, <2>1, SubSeqProperties
  <2> QED BY <1>1, <2>2
<1>4. <<c>> \in Seq(Characters) /\ Len(<<c>>) = 1
  OBVIOUS
<1>5. SubSeq(text, p + Len(<<c>>) + 1, n) \in Seq(Characters)
  <2>1. \A i \in (p + Len(<<c>>) + 1)..n : text[i] \in Characters
    BY <1>1, <1>4
  <2>2. p + Len(<<c>>) + 1 \in Int /\ n \in Int
    BY <1>1, <1>4
  <2> QED BY <2>1, <2>2, SubSeqProperties
<1>6. text' \in Seq(Characters) /\ Len(text') >= p + 1 /\ Len(text') \in Nat
  <2> DEFINE a == SubSeq(text, 1, p) \o <<c>>
             z == SubSeq(text, p + Len(<<c>>) + 1, n)
  <2>1. a \in Seq(Characters) /\ Len(a) = p + 1
    BY <1>3, <1>4, ConcatProperties
  <2>2. z \in Seq(Characters) /\ Len(z) \in Nat
    BY <1>5
  <2>3. text' = a \o z
    BY <1>2 DEF Overwritten
  <2> HIDE DEF a, z
  <2>4. a \o z \in Seq(Characters) /\ Len(a \o z) = Len(a) + Len(z)
    BY <2>1, <2>2, ConcatProperties
  <2> QED BY <1>1, <2>1, <2>2, <2>3, <2>4
<1>7. ResultFits'
  BY <1>2, ReadConstants DEF ResultFits
<1> QED BY <1>1, <1>2, <1>6, <1>7, ReadConstants DEF IInv, TypeOK, NoRead

LEMMA StepKeeps ==
  ASSUME IInv, [Next]_vars
  PROVE  IInv'
<1>1. /\ pos \in 0..Len(text) /\ Len(text) \in Nat
      /\ \A offset \in Offsets : Start(offset, pos) \in 0..Len(text)
  BY DEF IInv, TypeOK, Offsets, Start, Missing
<1>2. ASSUME pos' \in 0..Len(text), UNCHANGED <<text, read, got, capacity>> PROVE IInv'
  BY <1>2 DEF IInv, TypeOK, ResultFits
<1>3. \A i \in Numbers : i \in Nat /\ i - 1 \in Int
  BY ReadConstants DEF Numbers
<1>4. ASSUME NEW n \in Numbers, NEW offset \in Offsets, ReadLines(n, offset) PROVE IInv'
  <2>1. Begins("lines", 0, n - 1, offset) /\ UNCHANGED text
    BY <1>4 DEF ReadLines
  <2> QED BY <1>3, <2>1, BeginsKeeps
<1>5. ASSUME NEW n \in Numbers, NEW offset \in Offsets, ReadBytes(n, offset) PROVE IInv'
  <2>1. UNCHANGED <<text, read, got, capacity>>
        /\ pos' = Lesser(Start(offset, pos) + n, Len(text)) /\ Start(offset, pos) \in 0..Len(text)
    BY <1>1, <1>5 DEF ReadBytes
  <2>2. pos' \in 0..Len(text)
    BY <1>1, <1>3, <2>1 DEF Lesser
  <2> QED BY <1>2, <2>1, <2>2
<1>6. ASSUME NEW a \in Numbers \cup {Missing}, NEW b \in Numbers \cup {Missing},
             NEW offset \in Offsets, ReadRange(a, b, offset)
      PROVE  IInv'
  <2> DEFINE first == Start(a, 0)
             last == Start(b, first)
  <2>1. first \in Nat /\ last \in Int
    BY <1>3 DEF Start, Missing
  <2>2. Begins("range", first, last, offset) /\ UNCHANGED text
    BY <1>6 DEF ReadRange
  <2> HIDE DEF first, last
  <2> QED BY <2>1, <2>2, BeginsKeeps
<1>7. ASSUME NEW offset \in Offsets, ReadAll(offset) PROVE IInv'
  BY <1>1, <1>2, <1>7 DEF ReadAll
<1>8. ASSUME NEW offset, NEW base, Seek(offset, base) PROVE IInv'
  BY <1>2, <1>8 DEF Seek
<1>9. CASE UNCHANGED vars
  BY <1>9 DEF vars, IInv, TypeOK, ResultFits
<1> QED BY <1>4, <1>5, <1>6, <1>7, <1>8, <1>9, TurnKeeps, WriteKeeps DEF Next

(* The inductive invariant.                                                *)
THEOREM Invariant == Spec => []IInv
<1>1. Init => IInv
  BY InitEstablishes
<1>2. IInv /\ [Next]_vars => IInv'
  BY StepKeeps
<1> QED BY <1>1, <1>2, PTL DEF Spec

(* Positions stay in the text, and what is read is text.                   *)
THEOREM TypeCorrect == Spec => []TypeOK
<1>1. IInv => TypeOK
  BY DEF IInv
<1> QED BY <1>1, Invariant, PTL

(* The lines fs/read collects, and the zero behind them, always fit the    *)
(* buffer: one doubling is enough whatever READ_BUFFER_SIZE and the file,  *)
(* and the buffer is never more than twice what was collected.             *)
THEOREM BufferSuffices == Spec => []ResultFits
<1>1. IInv => ResultFits
  BY DEF IInv
<1> QED BY <1>1, Invariant, PTL

-----------------------------------------------------------------------------
(***************************************************************************)
(* What a finished fs/read returns.  The operators below say of any text t *)
(* what LineOf and ReadsAskedLines say of the one in the file.             *)
(***************************************************************************)
LineIn(t, from, p) == Cardinality({i \in (from + 1)..(p - 1) : t[i] = Newline})

(* The characters up to n that are in lines first to last.                 *)
AskedIn(t, from, first, last, n) ==
  {p \in (from + 1)..n : LineIn(t, from, p) \in first..last}

(* g holds these characters, in their order.                               *)
Holds(t, from, first, last, n, g) ==
  LET asked == AskedIn(t, from, first, last, n) IN
  /\ Len(g) = Cardinality(asked)
  /\ \A p \in asked : g[1 + Cardinality({q \in asked : q < p})] = t[p]

(* What a loop has behind it: the lines asked for of the text before the   *)
(* position, which is where a line begins.                                 *)
Progress ==
  read.kind # "none" /\ LinesAreShort =>
    IF read.busy
      THEN /\ read.from <= pos
           /\ pos < Len(text) => LineIn(text, read.from, pos + 1) = read.line
           /\ read.kind = "lines" => read.first = 0
           /\ Holds(text, read.from, read.first, read.last, pos, got)
      ELSE Holds(text, read.from, read.first, read.last, Len(text), got)

LEMMA SubsetOfInterval ==
  ASSUME NEW a \in Int, NEW b \in Int, NEW S \in SUBSET (a..b)
  PROVE  IsFiniteSet(S) /\ Cardinality(S) \in Nat
<1>1. IsFiniteSet(a..b)
  BY FS_Interval
<1>2. IsFiniteSet(S)
  BY <1>1, FS_Subset
<1> QED BY <1>2, FS_CardinalityType

(* Lines are numbered from 0, in the order of the text.                    *)
LEMMA LineOrder ==
  ASSUME NEW t, NEW from \in Nat, NEW p \in Int, NEW q \in Int, p <= q
  PROVE  /\ LineIn(t, from, p) \in Nat /\ LineIn(t, from, q) \in Nat
         /\ LineIn(t, from, p) <= LineIn(t, from, q)
<1> DEFINE S == {i \in (from + 1)..(p - 1) : t[i] = Newline}
           T == {i \in (from + 1)..(q - 1) : t[i] = Newline}
<1>1. S \in SUBSET ((from + 1)..(p - 1)) /\ T \in SUBSET ((from + 1)..(q - 1))
  OBVIOUS
<1>2. S \in SUBSET T
  OBVIOUS
<1>3. LineIn(t, from, p) = Cardinality(S) /\ LineIn(t, from, q) = Cardinality(T)
  BY DEF LineIn
<1> HIDE DEF S, T
<1>4. from + 1 \in Int /\ p - 1 \in Int /\ q - 1 \in Int
  OBVIOUS
<1>5. IsFiniteSet(T) /\ Cardinality(S) \in Nat /\ Cardinality(T) \in Nat
  BY <1>1, <1>4, SubsetOfInterval
<1>6. Cardinality(S) <= Cardinality(T)
  BY <1>2, <1>5, FS_Subset
<1> QED BY <1>3, <1>5, <1>6

(* Between two newlines the number is the same; behind one it is one more. *)
LEMMA LineSame ==
  ASSUME NEW t, NEW from \in Nat, NEW p \in Int, NEW q \in Int, p <= q,
         \A i \in p..(q - 1) : t[i] # Newline
  PROVE  LineIn(t, from, q) = LineIn(t, from, p)
<1>1. {i \in (from + 1)..(p - 1) : t[i] = Newline}
        = {i \in (from + 1)..(q - 1) : t[i] = Newline}
  OBVIOUS
<1> QED BY <1>1 DEF LineIn

LEMMA LineNext ==
  ASSUME NEW t, NEW from \in Nat, NEW p \in Int, from < p, t[p] = Newline
  PROVE  LineIn(t, from, p + 1) = LineIn(t, from, p) + 1
<1> DEFINE S == {i \in (from + 1)..(p - 1) : t[i] = Newline}
<1>1. {i \in (from + 1)..(p + 1 - 1) : t[i] = Newline} = S \cup {p}
  OBVIOUS
<1>2. S \in SUBSET ((from + 1)..(p - 1)) /\ p \notin S /\ from + 1 \in Int /\ p - 1 \in Int
  OBVIOUS
<1>3. LineIn(t, from, p + 1) = Cardinality(S \cup {p}) /\ LineIn(t, from, p) = Cardinality(S)
  <2> DEFINE T == {i \in (from + 1)..(p + 1 - 1) : t[i] = Newline}
  <2>1. LineIn(t, from, p + 1) = Cardinality(T) /\ LineIn(t, from, p) = Cardinality(S)
    BY DEF LineIn
  <2>2. T = S \cup {p}
    BY <1>1
  <2> HIDE DEF S, T
  <2> QED BY <2>1, <2>2
<1> HIDE DEF S
<1>4. IsFiniteSet(S)
  BY <1>2, SubsetOfInterval
<1> QED BY <1>2, <1>3, <1>4, FS_AddElement

(* Characters that are not asked for change nothing; a piece that is asked *)
(* for goes behind what was collected.                                     *)
LEMMA HoldsSkipped ==
  ASSUME NEW t, NEW from \in Nat, NEW first \in Nat, NEW last \in Int, NEW g,
         NEW n \in Nat, NEW e \in Nat, n <= e,
         Holds(t, from, first, last, n, g),
         \A p \in (n + 1)..e : LineIn(t, from, p) \notin first..last
  PROVE  Holds(t, from, first, last, e, g)
<1>1. AskedIn(t, from, first, last, e) = AskedIn(t, from, first, last, n)
  BY DEF AskedIn
<1> QED BY <1>1 DEF Holds

LEMMA HoldsTaken ==
  ASSUME NEW t, NEW from \in Nat, NEW first \in Nat, NEW last \in Int,
         NEW g \in Seq(Characters), NEW n \in Nat, NEW e \in Nat, from <= n, n <= e,
         \A p \in (n + 1)..e : t[p] \in Characters,
         Holds(t, from, first, last, n, g),
         \A p \in (n + 1)..e : LineIn(t, from, p) \in first..last
  PROVE  Holds(t, from, first, last, e, g \o SubSeq(t, n + 1, e))
<1> DEFINE A == AskedIn(t, from, first, last, n)
           B == AskedIn(t, from, first, last, e)
           piece == SubSeq(t, n + 1, e)
           h == g \o piece
<1>1. A \in SUBSET ((from + 1)..n) /\ B = A \cup ((n + 1)..e) /\ A \cap ((n + 1)..e) = {}
  BY DEF AskedIn
<1>2. Len(g) = Cardinality(A) /\ \A p \in A : g[1 + Cardinality({q \in A : q < p})] = t[p]
  BY DEF Holds
<1>3. /\ piece \in Seq(Characters) /\ Len(piece) = e - n
      /\ \A i \in 1..(e - n) : piece[i] = t[n + i]
  <2>1. n + 1 \in Int /\ e \in Int /\ (IF n + 1 <= e THEN e - (n + 1) + 1 ELSE 0) = e - n
    OBVIOUS
  <2>2. /\ piece \in Seq(Characters) /\ Len(piece) = IF n + 1 <= e THEN e - (n + 1) + 1 ELSE 0
        /\ \A i \in 1..(e - (n + 1) + 1) : piece[i] = t[n + 1 + i - 1]
    BY <2>1, SubSeqProperties
  <2>3. e - (n + 1) + 1 = e - n /\ \A i \in 1..(e - n) : n + 1 + i - 1 = n + i
    OBVIOUS
  <2> HIDE DEF piece
  <2> QED BY <2>1, <2>2, <2>3
<1>4. SUFFICES /\ Len(h) = Cardinality(B)
               /\ \A p \in B : h[1 + Cardinality({q \in B : q < p})] = t[p]
  BY DEF Holds
<1> HIDE DEF A, B, piece
<1>5. IsFiniteSet(A) /\ Cardinality(A) \in Nat
  <2>1. from + 1 \in Int /\ n \in Int
    OBVIOUS
  <2> QED BY <1>1, <2>1, SubsetOfInterval
<1>6. /\ h \in Seq(Characters) /\ Len(h) = Len(g) + (e - n)
      /\ \A i \in 1..(Len(g) + (e - n)) : h[i] = IF i <= Len(g) THEN g[i] ELSE piece[i - Len(g)]
  <2>1. /\ h \in Seq(Characters) /\ Len(h) = Len(g) + Len(piece)
        /\ \A i \in 1..(Len(g) + Len(piece)) :
             h[i] = IF i <= Len(g) THEN g[i] ELSE piece[i - Len(g)]
    BY <1>3, ConcatProperties
  <2> HIDE DEF h
  <2> QED BY <1>3, <2>1
<1> HIDE DEF h
(* A set of the first positions and an interval behind them.               *)
<1>7. ASSUME NEW m \in Nat, n <= m
      PROVE  Cardinality(A \cup ((n + 1)..m)) = Cardinality(A) + (m - n)
  <2>1. IsFiniteSet((n + 1)..m) /\ Cardinality((n + 1)..m) = m - n
    <3>1. n + 1 \in Int /\ m \in Int
      OBVIOUS
    <3>2. IsFiniteSet((n + 1)..m)
          /\ Cardinality((n + 1)..m) = IF n + 1 > m THEN 0 ELSE m - (n + 1) + 1
      BY <3>1, FS_Interval
    <3> QED BY <1>7, <3>2
  <2>2. A \cap ((n + 1)..m) = {}
    BY <1>1
  <2>3. Cardinality(A \cup ((n + 1)..m))
          = Cardinality(A) + Cardinality((n + 1)..m) - Cardinality(A \cap ((n + 1)..m))
    BY <1>5, <2>1, FS_Union
  <2>4. Cardinality(A \cap ((n + 1)..m)) = 0
    BY <2>2, FS_EmptySet
  <2> QED BY <1>5, <1>7, <2>1, <2>3, <2>4
<1>8. Len(h) = Cardinality(B)
  BY <1>1, <1>2, <1>5, <1>6, <1>7
<1>9. ASSUME NEW p \in A
      PROVE  h[1 + Cardinality({q \in B : q < p})] = t[p]
  <2> DEFINE R == {q \in A : q < p}
  <2>1. {q \in B : q < p} = R
    BY <1>1
  <2>2. R \in SUBSET A /\ p \notin R
    BY <1>1
  <2>3. IsFiniteSet(R) /\ Cardinality(R) \in Nat /\ Cardinality(R) <= Cardinality(A)
        /\ Cardinality(R) # Cardinality(A)
    <3> HIDE DEF R
    <3>1. IsFiniteSet(R) /\ Cardinality(R) <= Cardinality(A)
          /\ (Cardinality(R) = Cardinality(A) => A = R)
      BY <1>5, <2>2, FS_Subset
    <3> QED BY <2>2, <3>1, FS_CardinalityType
  <2>4. g[1 + Cardinality(R)] = t[p]
    BY <1>2
  <2> HIDE DEF R
  <2>5. 1 + Cardinality(R) \in 1..(Len(g) + (e - n)) /\ 1 + Cardinality(R) <= Len(g)
    BY <1>2, <1>5, <2>3
  <2> QED BY <1>6, <2>1, <2>4, <2>5
<1>10. ASSUME NEW p \in (n + 1)..e
       PROVE  h[1 + Cardinality({q \in B : q < p})] = t[p]
  <2>1. {q \in B : q < p} = A \cup ((n + 1)..(p - 1))
    <3>1. \A q \in A : q \in Int /\ q <= n
      BY <1>1
    <3>2. \A q : q \in B <=> q \in A \/ q \in (n + 1)..e
      BY <1>1
    <3>3. \A q : q \in B /\ q < p <=> q \in A \/ q \in (n + 1)..(p - 1)
      BY <3>1, <3>2
    <3> QED BY <3>3
  <2>2. p - 1 \in Nat /\ n <= p - 1
    OBVIOUS
  <2>3. Cardinality({q \in B : q < p}) = Len(g) + (p - 1 - n)
    BY <1>2, <1>7, <2>1, <2>2
  <2> DEFINE i == Len(g) + (p - n)
  <2>4. i = 1 + Cardinality({q \in B : q < p})
    BY <1>2, <1>5, <2>3
  <2>5. i \in 1..(Len(g) + (e - n)) /\ ~(i <= Len(g)) /\ i - Len(g) = p - n
    BY <1>2, <1>5
  <2>6. piece[p - n] = t[p]
    <3>1. p - n \in 1..(e - n) /\ n + (p - n) = p
      OBVIOUS
    <3> QED BY <1>3, <3>1
  <2> HIDE DEF i
  <2> QED BY <1>6, <2>4, <2>5, <2>6
<1> QED BY <1>1, <1>8, <1>9, <1>10

(* Where lines are short a piece is the rest of one line.                  *)
LEMMA PieceIsLine ==
  ASSUME IInv, ~AtEnd, LinesAreShort, read.from <= pos,
         LineIn(text, read.from, pos + 1) = read.line
  PROVE  /\ \A p \in (pos + 1)..PieceEnd : LineIn(text, read.from, p) = read.line
         /\ PieceEnd < Len(text) => LineIn(text, read.from, PieceEnd + 1) = read.line + 1
<1> DEFINE e == PieceEnd
           from == read.from
<1>1. /\ e \in Nat /\ e > pos /\ e <= Len(text)
      /\ text[e] = Newline \/ e = pos + BufferSize - 1 \/ e = Len(text)
      /\ \A i \in (pos + 1)..(e - 1) : text[i] # Newline
  BY PieceEndFacts DEF IInv
<1>2. /\ pos \in Nat /\ from \in Nat /\ BufferSize \in Nat /\ BufferSize > 1
      /\ Len(text) \in Nat /\ from <= pos /\ pos + 1 \in Int
  BY ReadConstants DEF IInv, TypeOK
<1>3. e < Len(text) => text[e] = Newline
  <2> SUFFICES ASSUME e < Len(text), e = pos + BufferSize - 1 PROVE text[e] = Newline
    BY <1>1
  <2>1. pos + 1 \in (from + 1)..Len(text) /\ pos + 1 + BufferSize - 2 = e
    BY <1>1, <1>2
  <2>2. \E i \in (pos + 1)..e : text[i] = Newline
    BY <2>1 DEF LinesAreShort
  <2> HIDE DEF e
  <2> QED BY <1>1, <1>2, <2>2
<1> HIDE DEF e, from
<1>4. ASSUME NEW p \in (pos + 1)..e PROVE LineIn(text, from, p) = read.line
  <2>1. p \in Int /\ pos + 1 <= p /\ \A i \in (pos + 1)..(p - 1) : text[i] # Newline
    BY <1>1, <1>2
  <2>2. LineIn(text, from, p) = LineIn(text, from, pos + 1)
    BY <1>2, <2>1, LineSame
  <2> QED BY <2>2 DEF from
<1>5. ASSUME e < Len(text) PROVE LineIn(text, from, e + 1) = read.line + 1
  <2>1. e \in Int /\ from < e /\ e \in (pos + 1)..e /\ text[e] = Newline
    BY <1>1, <1>2, <1>3, <1>5
  <2> QED BY <1>2, <1>4, <2>1, LineNext
<1> QED BY <1>4, <1>5 DEF e, from

(* Behind the last line asked for, or at the end, nothing is missing.      *)
LEMMA NothingMissing ==
  ASSUME IInv, NEW n \in Nat, n <= Len(text), NEW g,
         Holds(text, read.from, read.first, read.last, n, g),
         n < Len(text) => LineIn(text, read.from, n + 1) > read.last
  PROVE  Holds(text, read.from, read.first, read.last, Len(text), g)
<1>1. /\ read.from \in Nat /\ read.first \in Nat /\ read.last \in Int
      /\ Len(text) \in Nat /\ n + 1 \in Int
  BY DEF IInv, TypeOK
<1>2. ASSUME NEW p \in (n + 1)..Len(text)
      PROVE  LineIn(text, read.from, p) \notin read.first..read.last
  <2>1. p \in Int /\ n + 1 <= p /\ n < Len(text)
    BY <1>1, <1>2
  <2>2. /\ LineIn(text, read.from, n + 1) \in Nat /\ LineIn(text, read.from, p) \in Nat
        /\ LineIn(text, read.from, n + 1) <= LineIn(text, read.from, p)
    BY <1>1, <2>1, LineOrder
  <2> QED BY <1>1, <2>1, <2>2
<1> QED BY <1>1, <1>2, HoldsSkipped

(* A loop takes the line it is at if that was asked for, and stops when    *)
(* nothing more was.                                                       *)
LEMMA TurnProgresses ==
  ASSUME IInv, Progress, Turn
  PROVE  Progress'
<1> DEFINE e == PieceEnd
<1>1. /\ text \in Seq(Characters) /\ Len(text) \in Nat /\ pos \in Nat /\ pos <= Len(text)
      /\ read.from \in Nat /\ read.first \in Nat /\ read.last \in Int /\ read.line \in Nat
      /\ read \in [kind : {"none", "lines", "range"}, first : Nat, last : Int, from : Nat,
                   line : Nat, busy : BOOLEAN]
      /\ got \in Seq(Characters) /\ read.busy /\ read.kind \in {"lines", "range"}
  BY DEF IInv, TypeOK, Turn, LinesTurn, RangeTurn
<1>2. /\ text' = text /\ read'.from = read.from /\ read'.first = read.first
      /\ read'.last = read.last /\ read'.kind = read.kind
  BY <1>1 DEF Turn, LinesTurn, RangeTurn, Stops
<1>3. LinesAreShort' => LinesAreShort
  BY <1>2 DEF LinesAreShort
<1> SUFFICES ASSUME LinesAreShort
             PROVE  IF read'.busy
                      THEN /\ read.from <= pos'
                           /\ pos' < Len(text) =>
                                LineIn(text, read.from, pos' + 1) = read'.line
                           /\ read.kind = "lines" => read.first = 0
                           /\ Holds(text, read.from, read.first, read.last, pos', got')
                      ELSE Holds(text, read.from, read.first, read.last, Len(text), got')
  BY <1>2, <1>3 DEF Progress
<1>4. /\ read.from <= pos
      /\ pos < Len(text) => LineIn(text, read.from, pos + 1) = read.line
      /\ read.kind = "lines" => read.first = 0
      /\ Holds(text, read.from, read.first, read.last, pos, got)
  BY <1>1 DEF Progress
<1>5. ASSUME Stops, AtEnd \/ read.line > read.last
      PROVE  ~read'.busy /\ Holds(text, read.from, read.first, read.last, Len(text), got')
  <2>1. ~read'.busy /\ got' = got
    BY <1>1, <1>5 DEF Stops
  <2>2. pos < Len(text) => LineIn(text, read.from, pos + 1) > read.last
    BY <1>1, <1>4, <1>5 DEF AtEnd
  <2> QED BY <1>1, <1>4, <2>1, <2>2, NothingMissing
<1>6. ASSUME ~AtEnd, pos' = e, NEW b \in BOOLEAN,
             read' = [read EXCEPT !.line = @ + 1, !.busy = b],
             IF read.line \in read.first..read.last THEN got' = got \o Piece ELSE got' = got,
             ~b => read.line + 1 > read.last
      PROVE  IF read'.busy
               THEN /\ read.from <= pos'
                    /\ pos' < Len(text) => LineIn(text, read.from, pos' + 1) = read'.line
                    /\ Holds(text, read.from, read.first, read.last, pos', got')
               ELSE Holds(text, read.from, read.first, read.last, Len(text), got')
  <2>1. e \in Nat /\ e > pos /\ e <= Len(text)
    BY <1>6, PieceEndFacts DEF IInv
  <2>2. pos < Len(text) /\ LineIn(text, read.from, pos + 1) = read.line
    BY <1>1, <1>4, <1>6 DEF AtEnd
  <2>3. /\ \A p \in (pos + 1)..e : LineIn(text, read.from, p) = read.line
        /\ e < Len(text) => LineIn(text, read.from, e + 1) = read.line + 1
    BY <1>4, <1>6, <2>2, PieceIsLine
  <2>4. read'.busy = b /\ read'.line = read.line + 1
    BY <1>1, <1>6
  <2> HIDE DEF e
  <2>5. Holds(text, read.from, read.first, read.last, e, got')
    <3>1. CASE read.line \in read.first..read.last
      <4>1. got' = got \o SubSeq(text, pos + 1, e)
        BY <1>6, <3>1 DEF Piece, e
      <4>2. pos <= e /\ \A p \in (pos + 1)..e : text[p] \in Characters
        BY <1>1, <2>1
      <4> QED BY <1>1, <1>4, <2>1, <2>3, <3>1, <4>1, <4>2, HoldsTaken
    <3>2. CASE read.line \notin read.first..read.last
      <4>1. got' = got /\ pos <= e
        BY <1>1, <1>6, <2>1, <3>2
      <4> QED BY <1>1, <1>4, <2>1, <2>3, <3>2, <4>1, HoldsSkipped
    <3> QED BY <3>1, <3>2
  <2>6. CASE b
    BY <1>1, <1>4, <1>6, <2>1, <2>3, <2>4, <2>5, <2>6
  <2>7. CASE ~b
    <3>1. e < Len(text) => LineIn(text, read.from, e + 1) > read.last
      BY <1>6, <2>3, <2>7
    <3> QED BY <2>1, <2>4, <2>5, <2>7, <3>1, NothingMissing
  <2> QED BY <2>6, <2>7
<1>7. CASE LinesTurn
  <2>1. CASE read.line > read.last \/ AtEnd
    BY <1>5, <1>7, <2>1 DEF LinesTurn
  <2>2. CASE ~(read.line > read.last \/ AtEnd)
    <3>1. /\ ~AtEnd /\ pos' = e /\ got' = got \o Piece
          /\ read' = [read EXCEPT !.line = @ + 1] /\ read.kind = "lines"
      BY <1>7, <2>2 DEF LinesTurn, Takes
    <3>2. read' = [read EXCEPT !.line = @ + 1, !.busy = TRUE]
      BY <1>1, <3>1
    <3>3. read.line \in read.first..read.last
      BY <1>1, <1>4, <2>2, <3>1
    <3> QED BY <1>4, <1>6, <3>1, <3>2, <3>3
  <2> QED BY <2>1, <2>2
<1>8. CASE RangeTurn
  <2>1. CASE AtEnd
    BY <1>5, <1>8, <2>1 DEF RangeTurn
  <2>2. CASE ~AtEnd
    <3> DEFINE b == read.line + 1 <= read.last
    <3>1. /\ pos' = e /\ read' = [read EXCEPT !.line = @ + 1, !.busy = b]
          /\ IF InRange THEN Takes ELSE UNCHANGED <<got, capacity>>
      BY <1>8, <2>2 DEF RangeTurn
    <3>2. b \in BOOLEAN /\ (~b => read.line + 1 > read.last)
      BY <1>1
    <3>3. InRange <=> read.line \in read.first..read.last
      BY <1>1 DEF InRange
    <3>4. IF read.line \in read.first..read.last THEN got' = got \o Piece ELSE got' = got
      BY <3>1, <3>3 DEF Takes
    <3> HIDE DEF b
    <3> QED BY <1>4, <1>6, <2>2, <3>1, <3>2, <3>4
  <2> QED BY <2>1, <2>2
<1> QED BY <1>7, <1>8 DEF Turn

(* A loop begins with nothing behind it, at the beginning of a line.       *)
LEMMA BeginsProgress ==
  ASSUME IInv, NEW kind \in {"lines", "range"}, NEW first \in Nat, NEW last \in Int,
         NEW offset \in Offsets, Begins(kind, first, last, offset), UNCHANGED text,
         kind = "lines" => first = 0
  PROVE  Progress'
<1> DEFINE from == Start(offset, 0)
<1>1. from \in Nat /\ from + 1 \in Int /\ from \in Int
  BY DEF Offsets, Start, Missing, IInv, TypeOK
<1>2. /\ pos' = from /\ got' = <<>> /\ text' = text
      /\ read' = [kind |-> kind, first |-> first, last |-> last,
                  from |-> from, line |-> 0, busy |-> TRUE]
  BY DEF Begins
<1> HIDE DEF from
<1>3. ASSUME NEW b \in Nat PROVE LineIn(text, b, b + 1) = 0
  <2> DEFINE none == {i \in (b + 1)..(b + 1 - 1) : text[i] = Newline}
  <2>1. LineIn(text, b, b + 1) = Cardinality(none)
    BY DEF LineIn
  <2>2. none = {}
    OBVIOUS
  <2> HIDE DEF none
  <2> QED BY <2>1, <2>2, FS_EmptySet
<1>4. Holds(text, from, first, last, from, <<>>)
  <2>1. AskedIn(text, from, first, last, from) = {}
    BY <1>1 DEF AskedIn
  <2>2. Len(<<>>) = 0
    OBVIOUS
  <2> QED BY <2>1, <2>2, FS_EmptySet DEF Holds
<1>5. /\ read'.busy /\ read'.from = from /\ read'.first = first /\ read'.last = last
      /\ read'.line = 0 /\ read'.kind = kind
  BY <1>2
<1>6. /\ from <= from
      /\ kind = "lines" => first = 0
  BY <1>1
<1> QED BY <1>1, <1>2, <1>3, <1>4, <1>5, <1>6 DEF Progress

LEMMA StepProgresses ==
  ASSUME IInv, Progress, [Next]_vars
  PROVE  Progress'
<1>1. ASSUME UNCHANGED <<text, read, got>>, ~read.busy \/ UNCHANGED pos PROVE Progress'
  BY <1>1 DEF Progress, LinesAreShort
<1>2. \A i \in Numbers : i \in Nat /\ i - 1 \in Int
  BY ReadConstants DEF Numbers
<1>3. ASSUME NEW n \in Numbers, NEW offset \in Offsets, ReadLines(n, offset) PROVE Progress'
  <2>1. Begins("lines", 0, n - 1, offset) /\ UNCHANGED text
    BY <1>3 DEF ReadLines
  <2> QED BY <1>2, <2>1, BeginsProgress
<1>4. ASSUME NEW n, NEW offset, ReadBytes(n, offset) PROVE Progress'
  BY <1>1, <1>4 DEF ReadBytes
<1>5. ASSUME NEW a \in Numbers \cup {Missing}, NEW b \in Numbers \cup {Missing},
             NEW offset \in Offsets, ReadRange(a, b, offset)
      PROVE  Progress'
  <2> DEFINE first == Start(a, 0)
             last == Start(b, first)
  <2>1. first \in Nat /\ last \in Int
    BY <1>2 DEF Start, Missing
  <2>2. Begins("range", first, last, offset) /\ UNCHANGED text
    BY <1>5 DEF ReadRange
  <2> HIDE DEF first, last
  <2> QED BY <2>1, <2>2, BeginsProgress
<1>6. ASSUME NEW offset, ReadAll(offset) PROVE Progress'
  BY <1>1, <1>6 DEF ReadAll
<1>7. ASSUME NEW c, NEW offset, NEW append, Write(c, offset, append) PROVE Progress'
  BY <1>7 DEF Write, Progress, NoRead
<1>8. ASSUME NEW offset, NEW base, Seek(offset, base) PROVE Progress'
  BY <1>1, <1>8 DEF Seek
<1>9. CASE UNCHANGED vars
  BY <1>1, <1>9 DEF vars
<1> QED BY <1>3, <1>4, <1>5, <1>6, <1>7, <1>8, <1>9, TurnProgresses DEF Next

(* When lines fit the buffer of fgets, a finished fs/read has returned the *)
(* lines asked for and no others, for every size of the buffer, every text *)
(* and wherever reads, writes and seeks had left the position.             *)
THEOREM AskedLinesAreRead == Spec => []ReadsAskedLines
<1>1. Init => Progress
  BY DEF Init, Progress, NoRead
<1>2. IInv /\ Progress /\ [Next]_vars => Progress'
  BY StepProgresses
<1>3. Progress => ReadsAskedLines
  <2>1. \A p : LineOf(p) = LineIn(text, read.from, p)
    BY DEF LineOf, LineIn
  <2>2. {p \in (read.from + 1)..Len(text) : LineOf(p) \in read.first..read.last}
          = AskedIn(text, read.from, read.first, read.last, Len(text))
    BY <2>1 DEF AskedIn
  <2> QED BY <2>2 DEF Progress, Holds, ReadsAskedLines
<1> QED BY <1>1, <1>2, <1>3, Invariant, PTL DEF Spec

=============================================================================
