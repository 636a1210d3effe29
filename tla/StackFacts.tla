------------------------------ MODULE StackFacts ------------------------------
(***************************************************************************)
(* What pushing, popping and replacing the last element of a sequence      *)
(* gives, first for sequences over a set, then for any sequence: cells     *)
(* hold sequences of cells, so that no set of cells is at hand.  The       *)
(* proofs about the C stack, the scope chain and the reader cite these,    *)
(* and the existence of least numbers, which stands in for induction.      *)
(***************************************************************************)
EXTENDS Integers, Sequences, SequenceTheorems, WellFoundedInduction, TLAPS

(* A nonempty set of natural numbers has a least element.                  *)
LEMMA Least ==
  ASSUME NEW S \in SUBSET Nat, S # {}
  PROVE  \E m \in S : \A k \in S : m <= k
<1>1. PICK m \in S : \A k \in S : ~(<<k, m>> \in OpToRel(<, Nat))
  BY NatLessThanWellFounded, WFMin
<1>2. \A k \in S : ~(k < m)
  BY <1>1 DEF OpToRel
<1> QED BY <1>2

(* What holds at one end of an interval and passes from each number to the *)
(* next holds on all of it: upward, and downward from all numbers behind.  *)
LEMMA Upward ==
  ASSUME NEW a \in Int, NEW b \in Int, NEW S, a \in S,
         \A k \in a..(b - 1) : k \in S => k + 1 \in S
  PROVE  \A k \in a..b : k \in S
<1> DEFINE Bad == {n \in Nat : a + n <= b /\ a + n \notin S}
<1>1. ASSUME Bad # {} PROVE FALSE
  <2>1. PICK n \in Bad : \A m \in Bad : n <= m
    <3>1. Bad \in SUBSET Nat
      OBVIOUS
    <3> HIDE DEF Bad
    <3> QED BY <1>1, <3>1, Least
  <2>2. n \in Nat /\ a + n <= b /\ a + n \notin S /\ n # 0
    OBVIOUS
  <2>3. n - 1 \in Nat /\ a + (n - 1) \in a..(b - 1) /\ a + (n - 1) + 1 = a + n /\ ~(n <= n - 1)
    BY <2>2
  <2>4. n - 1 \notin Bad
    BY <2>1, <2>3
  <2>5. a + (n - 1) \in S
    BY <2>3, <2>4
  <2> QED BY <2>2, <2>3, <2>5
<1>2. ASSUME NEW k \in a..b PROVE k \in S
  <2>1. k - a \in Nat /\ a + (k - a) = k /\ k <= b
    OBVIOUS
  <2> QED BY <1>1, <2>1
<1> QED BY <1>2

LEMMA Downward ==
  ASSUME NEW a \in Int, NEW b \in Int, NEW S,
         \A k \in a..b : (\A j \in (k + 1)..b : j \in S) => k \in S
  PROVE  \A k \in a..b : k \in S
<1> DEFINE T == {k \in Int : \A j \in (-k)..b : j \in S}
<1>1. -(b + 1) \in T
  <2>1. -(b + 1) \in Int /\ \A j \in (-(-(b + 1)))..b : FALSE
    OBVIOUS
  <2> QED BY <2>1
<1>2. ASSUME NEW k \in (-(b + 1))..(-a - 1), k \in T PROVE k + 1 \in T
  <2>1. k + 1 \in Int /\ -(k + 1) \in a..b /\ -(k + 1) + 1 = -k
    OBVIOUS
  <2>2. -(k + 1) \in S
    BY <1>2, <2>1
  <2>3. ASSUME NEW j \in (-(k + 1))..b PROVE j \in S
    <3>1. j = -(k + 1) \/ j \in (-k)..b
      OBVIOUS
    <3> QED BY <1>2, <2>2, <3>1
  <2> QED BY <2>1, <2>3
<1>3. \A k \in (-(b + 1))..(-a) : k \in T
  <2>1. -(b + 1) \in Int /\ -a \in Int
    OBVIOUS
  <2> HIDE DEF T
  <2> QED BY <1>1, <1>2, <2>1, Upward
<1>4. ASSUME NEW k \in a..b PROVE k \in S
  <2>1. -k \in (-(b + 1))..(-a) /\ -(-k) = k /\ k \in k..b
    OBVIOUS
  <2>2. -k \in T
    BY <1>3, <2>1
  <2> QED BY <2>1, <2>2
<1> QED BY <1>4

(* A nonempty sequence has a last element.                                 *)
LEMMA LastFacts ==
  ASSUME NEW S, NEW s \in Seq(S), s # <<>>
  PROVE  Len(s) \in Nat /\ Len(s) >= 1 /\ s[Len(s)] \in S
BY SMT

(* Dropping the last k elements keeps the others where they are.           *)
LEMMA DropFacts ==
  ASSUME NEW S, NEW s \in Seq(S), NEW k \in Nat, k <= Len(s)
  PROVE  /\ SubSeq(s, 1, Len(s) - k) \in Seq(S)
         /\ Len(SubSeq(s, 1, Len(s) - k)) = Len(s) - k
         /\ \A i \in 1..(Len(s) - k) : SubSeq(s, 1, Len(s) - k)[i] = s[i]
<1> DEFINE n == Len(s) - k
<1>1. n \in Nat /\ 1 \in Int /\ n \in Int
  BY SMT
<1>2. \A i \in 1..n : s[i] \in S
  BY SMT
<1>3. /\ SubSeq(s, 1, n) \in Seq(S)
      /\ Len(SubSeq(s, 1, n)) = IF 1 <= n THEN n - 1 + 1 ELSE 0
      /\ \A i \in 1..(n - 1 + 1) : SubSeq(s, 1, n)[i] = s[1 + i - 1]
  <2> HIDE DEF n
  <2> QED BY <1>1, <1>2, SubSeqProperties
<1> QED
  <2> HIDE DEF n
  <2>1. Len(SubSeq(s, 1, n)) = n /\ n - 1 + 1 = n
    BY <1>1, <1>3, SMT
  <2>2. \A i \in 1..n : 1 + i - 1 = i
    BY <1>1, SMT
  <2>3. \A i \in 1..n : SubSeq(s, 1, n)[i] = s[i]
    BY <1>3, <2>1, <2>2
  <2> QED BY <1>3, <2>1, <2>3 DEF n

(* Appending keeps the elements and puts the new one last.                 *)
LEMMA PushFacts ==
  ASSUME NEW S, NEW s \in Seq(S), NEW e \in S
  PROVE  /\ Append(s, e) \in Seq(S)
         /\ Len(Append(s, e)) = Len(s) + 1
         /\ \A i \in 1..Len(s) : Append(s, e)[i] = s[i]
         /\ Append(s, e)[Len(s) + 1] = e
BY SMT

(* Replacing one element keeps the others.                                 *)
LEMMA ReplaceFacts ==
  ASSUME NEW S, NEW s \in Seq(S), NEW e \in S, NEW k \in 1..Len(s)
  PROVE  /\ [s EXCEPT ![k] = e] \in Seq(S)
         /\ Len([s EXCEPT ![k] = e]) = Len(s)
         /\ \A i \in 1..Len(s) : [s EXCEPT ![k] = e][i] = IF i = k THEN e ELSE s[i]
BY SMT

-----------------------------------------------------------------------------
(***************************************************************************)
(* Sequences of anything.                                                  *)
(***************************************************************************)
Elements(s) == {s[k] : k \in DOMAIN s}

IsSeq(s) == s \in Seq(Elements(s))

LEMMA SeqIsSeq ==
  ASSUME NEW S, NEW s \in Seq(S)
  PROVE  IsSeq(s)
<1> DEFINE n == Len(s)
<1>1. n \in Nat /\ DOMAIN s = 1..n /\ s \in [1..n -> S]
  BY LenProperties
<1> HIDE DEF n
<1>2. s \in [1..n -> Elements(s)]
  BY <1>1 DEF Elements
<1>3. Seq(Elements(s)) = UNION {[1..k -> Elements(s)] : k \in Nat}
  BY SeqDef
<1> QED BY <1>1, <1>2, <1>3 DEF IsSeq

LEMMA IsSeqFacts ==
  ASSUME NEW s, IsSeq(s)
  PROVE  /\ Len(s) \in Nat /\ DOMAIN s = 1..Len(s)
         /\ \A S : Elements(s) \subseteq S => s \in Seq(S)
<1>1. Len(s) \in Nat /\ DOMAIN s = 1..Len(s)
  BY LenProperties DEF IsSeq
<1>2. ASSUME NEW S, Elements(s) \subseteq S PROVE s \in Seq(S)
  BY <1>2, SeqMonotonic DEF IsSeq
<1> QED BY <1>1, <1>2

LEMMA EmptyIsSeq == IsSeq(<<>>) /\ Len(<<>>) = 0
<1>1. <<>> \in Seq({}) /\ Len(<<>>) = 0
  BY EmptySeq
<1> QED BY <1>1, SeqIsSeq

LEMMA SameSeq ==
  ASSUME NEW s, IsSeq(s), NEW t, IsSeq(t), Len(s) = Len(t),
         \A k \in 1..Len(s) : s[k] = t[k]
  PROVE  s = t
<1> DEFINE S == Elements(s) \cup Elements(t)
<1>1. s \in Seq(S) /\ t \in Seq(S)
  BY IsSeqFacts
<1> HIDE DEF S
<1> QED BY <1>1, SeqEqual

LEMMA AppendedSeq ==
  ASSUME NEW s, IsSeq(s), NEW e
  PROVE  /\ IsSeq(Append(s, e)) /\ Len(Append(s, e)) = Len(s) + 1
         /\ Append(s, e) # <<>>
         /\ \A k \in 1..Len(s) : Append(s, e)[k] = s[k]
         /\ Append(s, e)[Len(s) + 1] = e
<1> DEFINE S == Elements(s) \cup {e}
<1>1. s \in Seq(S) /\ e \in S
  BY IsSeqFacts
<1> HIDE DEF S
<1>2. /\ Append(s, e) \in Seq(S) /\ Append(s, e) # <<>> /\ Len(Append(s, e)) = Len(s) + 1
      /\ \A k \in 1..Len(s) : Append(s, e)[k] = s[k]
      /\ Append(s, e)[Len(s) + 1] = e
  BY <1>1, AppendProperties
<1>3. IsSeq(Append(s, e))
  BY <1>2, SeqIsSeq
<1> QED BY <1>2, <1>3

(* What is true of a sequence s with its place i replaced by e, and of s   *)
(* and t with e between them.  They have names because a step that cites   *)
(* the lemma under a name finds its instance at once.                      *)
PlaceReplaced(s, i, e) ==
  /\ IsSeq([s EXCEPT ![i] = e]) /\ Len([s EXCEPT ![i] = e]) = Len(s)
  /\ \A k \in 1..Len(s) : [s EXCEPT ![i] = e][k] = IF k = i THEN e ELSE s[k]

Regrouped(s, e, t) ==
  /\ Append(s, e) \o t = s \o (<<e>> \o t)
  /\ IsSeq(<<e>> \o t) /\ (<<e>> \o t)[1] = e

LEMMA ReplacedSeq ==
  ASSUME NEW s, IsSeq(s), NEW e, NEW i \in 1..Len(s)
  PROVE  PlaceReplaced(s, i, e)
<1> DEFINE S == Elements(s) \cup {e}
<1>1. s \in Seq(S) /\ e \in S
  BY IsSeqFacts
<1> HIDE DEF S
<1> DEFINE t == [s EXCEPT ![i] = e]
<1>2. /\ t \in Seq(S) /\ Len(t) = Len(s)
      /\ \A k \in 1..Len(s) : t[k] = IF k = i THEN e ELSE s[k]
  BY <1>1, ExceptSeq
<1> HIDE DEF t
<1>3. IsSeq(t)
  BY <1>2, SeqIsSeq
<1> QED BY <1>2, <1>3 DEF t, PlaceReplaced

LEMMA PartOfSeq ==
  ASSUME NEW s, IsSeq(s), NEW i \in 1..(Len(s) + 1), NEW j \in (i - 1)..Len(s)
  PROVE  /\ IsSeq(SubSeq(s, i, j)) /\ Len(SubSeq(s, i, j)) = j - i + 1
         /\ \A k \in 1..(j - i + 1) : SubSeq(s, i, j)[k] = s[i + k - 1]
<1> DEFINE S == Elements(s)
<1>1. Len(s) \in Nat /\ DOMAIN s = 1..Len(s)
  BY IsSeqFacts
<1>2. i \in Int /\ j \in Int /\ i \in Nat /\ 1 <= i /\ j <= Len(s) /\ i - 1 <= j
  BY <1>1
<1>3. \A k \in i..j : s[k] \in S
  BY <1>1, <1>2 DEF Elements
<1> HIDE DEF S
<1>4. /\ SubSeq(s, i, j) \in Seq(S)
      /\ Len(SubSeq(s, i, j)) = IF i <= j THEN j - i + 1 ELSE 0
      /\ \A k \in 1..(j - i + 1) : SubSeq(s, i, j)[k] = s[i + k - 1]
  BY <1>2, <1>3, SubSeqProperties
<1>5. (IF i <= j THEN j - i + 1 ELSE 0) = j - i + 1
  BY <1>2
<1> QED BY <1>4, <1>5, SeqIsSeq

LEMMA JoinedSeq ==
  ASSUME NEW s, IsSeq(s), NEW t, IsSeq(t)
  PROVE  /\ IsSeq(s \o t) /\ Len(s \o t) = Len(s) + Len(t)
         /\ \A k \in 1..(Len(s) + Len(t)) :
              (s \o t)[k] = IF k <= Len(s) THEN s[k] ELSE t[k - Len(s)]
         /\ s \o <<>> = s /\ <<>> \o s = s
<1> DEFINE S == Elements(s) \cup Elements(t)
<1>1. s \in Seq(S) /\ t \in Seq(S)
  BY IsSeqFacts
<1> HIDE DEF S
<1>2. s \o t \in Seq(S) /\ Len(s \o t) = Len(s) + Len(t)
      /\ \A k \in 1..(Len(s) + Len(t)) :
           (s \o t)[k] = IF k <= Len(s) THEN s[k] ELSE t[k - Len(s)]
  BY <1>1, ConcatProperties
<1> QED BY <1>1, <1>2, ConcatEmptySeq, SeqIsSeq

LEMMA RegroupedSeq ==
  ASSUME NEW s, IsSeq(s), NEW e, NEW t, IsSeq(t)
  PROVE  Regrouped(s, e, t)
<1> DEFINE S == Elements(s) \cup Elements(t) \cup {e}
<1>1. s \in Seq(S) /\ t \in Seq(S) /\ e \in S
  BY IsSeqFacts
<1> HIDE DEF S
<1>2. <<e>> \in Seq(S) /\ Len(<<e>>) = 1 /\ <<e>>[1] = e
  BY <1>1
<1>3. Append(s, e) \o t = s \o (<<e>> \o t)
  <2>1. Append(s, e) = s \o <<e>>
    BY <1>1, AppendIsConcat
  <2>2. (s \o <<e>>) \o t = s \o (<<e>> \o t)
    BY <1>1, <1>2, ConcatAssociative
  <2> QED BY <2>1, <2>2
<1>4. Len(t) \in Nat /\ IsSeq(<<e>>)
  BY <1>2, IsSeqFacts, SeqIsSeq
<1>5. 1 \in 1..(Len(<<e>>) + Len(t)) /\ 1 <= Len(<<e>>)
  BY <1>2, <1>4
<1>6. (<<e>> \o t)[1] = <<e>>[1]
  BY <1>4, <1>5, JoinedSeq
<1>7. IsSeq(<<e>> \o t)
  BY <1>4, JoinedSeq
<1>8. (<<e>> \o t)[1] = e
  BY <1>2, <1>6
<1> QED BY <1>3, <1>7, <1>8 DEF Regrouped

=============================================================================
