-------------------------- MODULE CellChainsProofs --------------------------
(***************************************************************************)
(* The chains that follow a value are never seen: CellChains implements    *)
(* ListValues.  The invariant is the type invariant: what iter_list has    *)
(* linked up to result_tail is part of what the list will hold.            *)
(***************************************************************************)
EXTENDS CellChains, StackFacts

ValueEntries == [kind : {"value"}, chain : Chains]

IterEntries == [kind : {"iter"}, left : Seq(Items), made : Seq(Items), tail : Nat]

(* An entry of the stack, with result_tail among the cells linked.         *)
EntryOK(e) ==
  /\ e \in Entries
  /\ e.kind = "iter" => e.tail <= Len(e.made)

SoundEntries == {e \in Entries : EntryOK(e)}

LEMMA ConstantFacts ==
  /\ Nil \in Items /\ Nil \in Cells /\ Items \subseteq Cells /\ Lists \subseteq Cells
  /\ Literals \subseteq Items
BY ChainConstants DEF Literals, Cells

(* The type invariant, said of each entry.                                 *)
LEMMA TypeSplit ==
  TypeOK <=> /\ bound \in [Names -> Chains \cup {<<>>}]
             /\ stack \in Seq(SoundEntries)
<1>1. ASSUME stack \in Seq(SoundEntries)
      PROVE  /\ stack \in Seq(Entries)
             /\ \A i \in 1..Len(stack) : stack[i].kind = "iter" => stack[i].tail <= Len(stack[i].made)
  <2>1. \A i \in 1..Len(stack) : stack[i] \in SoundEntries
    BY <1>1
  <2> QED BY <1>1, <2>1 DEF SoundEntries, EntryOK
<1>2. ASSUME stack \in Seq(Entries),
             \A i \in 1..Len(stack) : stack[i].kind = "iter" => stack[i].tail <= Len(stack[i].made)
      PROVE  stack \in Seq(SoundEntries)
  <2>1. \A i \in 1..Len(stack) : stack[i] \in SoundEntries
    BY <1>2 DEF SoundEntries, EntryOK
  <2> QED BY <1>2, <2>1
<1> QED BY <1>1, <1>2 DEF TypeOK

(* The chain of a value has a first cell.                                  *)
LEMMA ValueFacts ==
  ASSUME NEW e \in SoundEntries, e.kind = "value"
  PROVE  /\ e.chain \in Seq(Cells) /\ e.chain # <<>>
         /\ Len(e.chain) >= 1 /\ First(e.chain) \in Cells
         /\ e = Value(e.chain)
BY DEF SoundEntries, Entries, Chains, First, Value

LEMMA IterFacts ==
  ASSUME NEW e \in SoundEntries, e.kind = "iter"
  PROVE  /\ e.left \in Seq(Items) /\ e.made \in Seq(Items) /\ e.tail \in Nat
         /\ e.tail <= Len(e.made)
         /\ e = Iter(e.left, e.made, e.tail)
BY DEF SoundEntries, EntryOK, Entries, Iter

(* A chain of cells makes an entry.                                        *)
LEMMA ChainEntry ==
  ASSUME NEW c \in Seq(Cells), c # <<>>
  PROVE  Value(c) \in SoundEntries
BY DEF SoundEntries, EntryOK, Entries, Chains, Value

LEMMA OneCell ==
  ASSUME NEW c \in Cells
  PROVE  <<c>> \in Seq(Cells) /\ <<c>> # <<>> /\ First(<<c>>) = c /\ Value(<<c>>) \in SoundEntries
<1>1. <<c>> \in Seq(Cells) /\ <<c>> # <<>> /\ <<c>>[1] = c
  OBVIOUS
<1> QED BY <1>1, ChainEntry DEF First

LEMMA IterEntry ==
  ASSUME NEW left \in Seq(Items), NEW made \in Seq(Items), NEW tail \in Nat, tail <= Len(made)
  PROVE  Iter(left, made, tail) \in SoundEntries
BY DEF SoundEntries, EntryOK, Entries, Iter

-----------------------------------------------------------------------------
(***************************************************************************)
(* The type invariant.                                                     *)
(***************************************************************************)

Stacked ==
  /\ bound \in [Names -> Chains \cup {<<>>}]
  /\ stack \in Seq(SoundEntries)

LEMMA BelowFacts ==
  ASSUME Stacked, NEW k \in Nat, k <= Len(stack)
  PROVE  /\ Below(k) \in Seq(SoundEntries)
         /\ Len(Below(k)) = Len(stack) - k
         /\ \A i \in 1..(Len(stack) - k) : Below(k)[i] = stack[i]
BY DropFacts DEF Below, Stacked

LEMMA PushStacked ==
  ASSUME Stacked, NEW k \in Nat, k <= Len(stack), NEW e \in SoundEntries,
         stack' = Append(Below(k), e), UNCHANGED bound
  PROVE  Stacked'
<1>1. Below(k) \in Seq(SoundEntries)
  BY BelowFacts
<1> QED BY <1>1, PushFacts DEF Stacked

LEMMA PushChain ==
  ASSUME Stacked, NEW k \in Nat, k <= Len(stack), NEW c \in Seq(Cells), c # <<>>,
         Replace(k, c)
  PROVE  Stacked'
BY ChainEntry, PushStacked DEF Replace, Push

(* What lies on top, when it is a value.                                   *)
LEMMA TopFacts ==
  ASSUME Stacked, NEW k \in {1, 2}, HasValues(k)
  PROVE  /\ Len(stack) \in Nat /\ k <= Len(stack)
         /\ Top \in SoundEntries /\ Top.kind = "value"
         /\ Top.chain \in Seq(Cells) /\ Top.chain # <<>> /\ First(Top.chain) \in Cells
         /\ Top = Value(Top.chain)
<1>1. Len(stack) \in Nat /\ k <= Len(stack) /\ Len(stack) \in 1..Len(stack)
  BY DEF Stacked, HasValues
<1>2. Top \in SoundEntries
  BY <1>1 DEF Top, Stacked
<1>3. Top.kind = "value"
  BY <1>1 DEF Top, HasValues
<1> QED BY <1>1, <1>2, <1>3, ValueFacts

(* And what lies under it.                                                 *)
LEMMA UnderFacts ==
  ASSUME Stacked, HasValues(2)
  PROVE  /\ Len(stack) - 1 \in 1..Len(stack)
         /\ stack[Len(stack) - 1] = Value(stack[Len(stack) - 1].chain)
         /\ stack[Len(stack) - 1].chain \in Seq(Cells)
         /\ stack[Len(stack) - 1].chain # <<>>
         /\ First(stack[Len(stack) - 1].chain) \in Cells
<1>1. Len(stack) - 1 \in 1..Len(stack) /\ Len(stack) - 1 >= Len(stack) - 2 + 1
  BY DEF Stacked, HasValues
<1>2. stack[Len(stack) - 1] \in SoundEntries
  BY <1>1 DEF Stacked
<1>3. stack[Len(stack) - 1].kind = "value"
  BY <1>1 DEF HasValues
<1> QED BY <1>1, <1>2, <1>3, ValueFacts

LEMMA ListFacts ==
  ASSUME NEW list \in Lists
  PROVE  list.items \in Seq(Items) /\ list = [items |-> list.items]
BY DEF Lists

LEMMA ListCell ==
  ASSUME NEW s \in Seq(Items)
  PROVE  [items |-> s] \in Lists /\ [items |-> s] \in Cells
BY DEF Lists, Cells

LEMMA SeqOfItems ==
  ASSUME NEW S, NEW T, NEW s \in Seq(S), \A i \in 1..Len(s) : s[i] \in T
  PROVE  s \in Seq(T)
BY SMT

(* The first k elements of a sequence.                                     *)
LEMMA PrefixFacts ==
  ASSUME NEW S, NEW s \in Seq(S), NEW k \in Nat, k <= Len(s)
  PROVE  /\ SubSeq(s, 1, k) \in Seq(S) /\ Len(SubSeq(s, 1, k)) = k
         /\ \A i \in 1..k : SubSeq(s, 1, k)[i] = s[i]
<1>1. Len(s) - k \in Nat /\ Len(s) - k <= Len(s) /\ Len(s) - (Len(s) - k) = k
  BY SMT
<1> QED BY <1>1, DropFacts

(* The cell linked last is the first of the chain the lambda returned.     *)
LEMMA LinkFacts ==
  ASSUME NEW made \in Seq(Items), NEW tail \in Nat, tail <= Len(made),
         NEW chain \in Seq(Cells), chain # <<>>,
         \A i \in 1..Len(Link(made, tail, chain)) : Link(made, tail, chain)[i] \in Items
  PROVE  /\ Link(made, tail, chain) \in Seq(Items)
         /\ tail + 1 <= Len(Link(made, tail, chain))
         /\ SubSeq(Link(made, tail, chain), 1, tail + 1)
              = Append(SubSeq(made, 1, tail), First(chain))
<1> DEFINE new == Link(made, tail, chain)
<1>1. /\ SubSeq(made, 1, tail) \in Seq(Items) /\ Len(SubSeq(made, 1, tail)) = tail
      /\ \A i \in 1..tail : SubSeq(made, 1, tail)[i] = made[i]
  BY PrefixFacts
<1>2. SubSeq(made, 1, tail) \in Seq(Cells)
  BY <1>1, ConstantFacts, SMT
<1>3. /\ new \in Seq(Cells) /\ Len(new) = tail + Len(chain)
      /\ \A i \in 1..Len(new) :
           new[i] = IF i <= tail THEN SubSeq(made, 1, tail)[i] ELSE chain[i - tail]
  BY <1>1, <1>2, ConcatProperties DEF Link
<1> HIDE DEF new
<1>4. Len(chain) >= 1 /\ Len(chain) \in Nat
  BY SMT
<1>5. new \in Seq(Items)
  BY <1>3, SeqOfItems DEF new
<1>6. /\ tail + 1 \in 1..Len(new) /\ ~(tail + 1 <= tail) /\ tail + 1 - tail = 1
      /\ \A i \in 1..tail : i \in 1..Len(new) /\ i <= tail
  BY <1>3, <1>4, SMT
<1>7. /\ new \in Seq(Items) /\ Len(new) = tail + Len(chain) /\ tail + 1 <= Len(new)
      /\ \A i \in 1..tail : new[i] = made[i]
      /\ new[tail + 1] = chain[1]
  BY <1>1, <1>3, <1>4, <1>5, <1>6
<1> DEFINE old == SubSeq(made, 1, tail)
           got == SubSeq(new, 1, tail + 1)
<1>8. /\ old \in Seq(Items) /\ Len(old) = tail /\ \A i \in 1..tail : old[i] = made[i]
  BY PrefixFacts
<1>9. /\ got \in Seq(Items) /\ Len(got) = tail + 1
      /\ \A i \in 1..(tail + 1) : got[i] = new[i]
  <2>1. tail + 1 \in Nat
    BY SMT
  <2> QED BY <1>7, <2>1, PrefixFacts
<1>10. First(chain) \in Items
  <2>1. tail + 1 \in 1..Len(new)
    BY <1>7, SMT
  <2> QED BY <1>7, <2>1 DEF First
<1>11. /\ Append(old, First(chain)) \in Seq(Items) /\ Len(Append(old, First(chain))) = tail + 1
      /\ \A i \in 1..tail : Append(old, First(chain))[i] = old[i]
      /\ Append(old, First(chain))[tail + 1] = First(chain)
  <2> HIDE DEF old
  <2> QED BY <1>8, <1>10, PushFacts
<1>12. \A i \in 1..(tail + 1) : i \in 1..tail \/ i = tail + 1
  BY SMT
<1>13. \A i \in 1..(tail + 1) : got[i] = Append(old, First(chain))[i]
  <2> HIDE DEF old, got
  <2>1. \A i \in 1..tail : got[i] = Append(old, First(chain))[i]
    <3>1. \A i \in 1..tail : i \in 1..(tail + 1)
      BY SMT
    <3> QED BY <1>7, <1>8, <1>9, <1>11, <3>1
  <2>2. tail + 1 \in 1..(tail + 1)
    BY SMT
  <2>3. got[tail + 1] = Append(old, First(chain))[tail + 1]
    BY <1>7, <1>9, <1>11, <2>2 DEF First
  <2> QED BY <1>12, <2>1, <2>3
<1>14. got = Append(old, First(chain))
  <2> HIDE DEF old, got
  <2> QED BY <1>9, <1>11, <1>13, SeqEqual
<1> QED BY <1>7, <1>14 DEF new

LEMMA InitStacked == Init => Stacked
BY DEF Init, Stacked

(* An expression leaves a chain of cells on the stack.                     *)
LEMMA ExpressionChain ==
  ASSUME Stacked, EvalLiteral \/ EvalQuoted \/ EvalNil \/ EvalPieces
  PROVE  form' = "text" /\ \E c \in Seq(Cells) : c # <<>> /\ Replace(0, c)
<1> USE ConstantFacts
<1>1. CASE EvalLiteral
  <2>1. PICK c \in Literals, rest \in Arguments : Replace(0, <<c>> \o rest)
    BY <1>1 DEF EvalLiteral
  <2>2. <<c>> \in Seq(Cells) /\ rest \in Seq(Cells) /\ Len(<<c>>) = 1
    BY <2>1, ChainConstants
  <2>3. <<c>> \o rest \in Seq(Cells) /\ <<c>> \o rest # <<>>
    BY <2>2, SMT
  <2> QED BY <1>1, <2>1, <2>3 DEF EvalLiteral
<1>2. CASE EvalQuoted
  <2>1. PICK n \in 0..MaxItems : \E s \in [1..n -> Items] : Replace(0, <<[items |-> s]>>)
    BY <1>2 DEF EvalQuoted
  <2>2. PICK s \in [1..n -> Items] : Replace(0, <<[items |-> s]>>)
    BY <2>1
  <2>3. s \in Seq(Items)
    BY <2>1, <2>2, ChainConstants, SMT
  <2> QED BY <1>2, <2>2, <2>3, ListCell, OneCell DEF EvalQuoted
<1>3. CASE EvalNil
  BY <1>3, OneCell DEF EvalNil
<1>4. CASE EvalPieces
  <2>0. (1..2) \subseteq (Nat \ {0}) /\ (1..MaxItems) \subseteq (Nat \ {0})
    BY ChainConstants
  <2>1. PICK n \in Nat \ {0} : \E s \in [1..n -> Literals] : Replace(0, s)
    <3>1. \E n \in Nat \ {0} : Row(n)
      BY <1>4, <2>0, Zenon DEF EvalPieces, SplitParts, ScriptArguments, DirectoryEntries
    <3> QED BY <3>1 DEF Row
  <2>2. PICK s \in [1..n -> Literals] : Replace(0, s)
    BY <2>1
  <2>3. s \in Seq(Cells) /\ s # <<>>
    BY <2>1, <2>2, ChainConstants, SMT
  <2> QED BY <1>4, <2>2, <2>3 DEF EvalPieces
<1> QED BY <1>1, <1>2, <1>3, <1>4

LEMMA NamedChain ==
  ASSUME Stacked, NEW n \in Names, EvalSymbol(n)
  PROVE  /\ bound[n] \in Seq(Cells) /\ bound[n] # <<>>
         /\ form' = n /\ Replace(0, bound[n])
BY DEF EvalSymbol, Stacked, Chains

LEMMA EvalStacked ==
  ASSUME Stacked,
         \/ EvalLiteral \/ EvalQuoted \/ EvalNil \/ EvalPieces
         \/ \E n \in Names : EvalSymbol(n)
  PROVE  Stacked'
<1>1. 0 \in Nat /\ 0 <= Len(stack)
  BY DEF Stacked
<1> QED BY <1>1, ExpressionChain, NamedChain, PushChain

LEMMA BindStacked ==
  ASSUME Stacked, NEW n \in Names, Let(n) \/ Set(n)
  PROVE  Stacked'
<1>1. Top.chain \in Chains
  BY TopFacts DEF Let, Set, Chains
<1> QED BY <1>1 DEF Let, Set, Stacked

LEMMA ListStacked ==
  ASSUME Stacked, Cons \/ Car \/ Cdr \/ IterNothing
  PROVE  Stacked'
<1> USE ConstantFacts
<1>1. CASE Cons
  <2> DEFINE element == First(stack[Len(stack) - 1].chain)
             list == First(Top.chain)
  <2>1. list \in Lists /\ element \in Items /\ Replace(2, <<[items |-> <<element>> \o list.items]>>)
        /\ HasValues(2)
    BY <1>1 DEF Cons
  <2>2. <<element>> \o list.items \in Seq(Items)
    <3>1. list.items \in Seq(Items) /\ <<element>> \in Seq(Items)
      <4> HIDE DEF list, element
      <4> QED BY <2>1, ListFacts
    <3> HIDE DEF list, element
    <3> QED BY <3>1, SMT
  <2>3. 2 \in Nat /\ 2 <= Len(stack)
    BY <2>1, TopFacts
  <2> QED
    <3> HIDE DEF list, element
    <3> QED BY <2>1, <2>2, <2>3, ListCell, OneCell, PushChain
<1>2. CASE Car
  <2>1. HasValues(1) /\ First(Top.chain) \in Lists /\ First(Top.chain).items # <<>>
        /\ Replace(1, <<First(Top.chain).items[1]>>)
    BY <1>2 DEF Car
  <2>2. First(Top.chain).items[1] \in Cells
    BY <2>1, ListFacts, SMT
  <2> QED BY <2>1, <2>2, TopFacts, OneCell, PushChain
<1>3. CASE Cdr
  <2> DEFINE list == First(Top.chain)
             rest == IF Len(list.items) > 1 THEN <<[items |-> Tail(list.items)]>> ELSE <<Nil>>
  <2>1. HasValues(1) /\ list \in Lists /\ Replace(1, rest)
    BY <1>3 DEF Cdr
  <2>2. rest \in Seq(Cells) /\ rest # <<>>
    <3>1. CASE Len(list.items) > 1
      <4>1. Tail(list.items) \in Seq(Items)
        <5> HIDE DEF list, rest
        <5> QED BY <2>1, <3>1, ListFacts, SMT
      <4> QED BY <3>1, <4>1, ListCell, OneCell
    <3>2. CASE ~(Len(list.items) > 1)
      BY <3>2, OneCell
    <3> QED BY <3>1, <3>2
  <2> QED
    <3> HIDE DEF rest
    <3> QED BY <2>1, <2>2, TopFacts, PushChain
<1>4. CASE IterNothing
  BY <1>4, TopFacts, OneCell, PushChain DEF IterNothing
<1> QED BY <1>1, <1>2, <1>3, <1>4

LEMMA IterStacked ==
  ASSUME Stacked, IterBegins \/ IterTakes \/ IterEnds
  PROVE  Stacked'
<1> USE ConstantFacts
<1>1. CASE IterBegins
  <2>1. HasValues(1) /\ First(Top.chain) \in Lists /\ UNCHANGED bound
        /\ stack' = Append(Below(1), Iter(First(Top.chain).items, <<>>, 0))
    BY <1>1 DEF IterBegins, Push
  <2>2. Iter(First(Top.chain).items, <<>>, 0) \in SoundEntries
    <3>1. <<>> \in Seq(Items) /\ 0 \in Nat /\ 0 <= Len(<<>>)
      BY SMT
    <3> QED BY <2>1, <3>1, ListFacts, IterEntry
  <2> QED BY <2>1, <2>2, TopFacts, PushStacked
<1>2. CASE IterTakes
  <2> DEFINE frame == stack[Len(stack) - 1]
             made == Link(frame.made, frame.tail, Top.chain)
  <2>1. /\ Len(stack) >= 2 /\ HasValues(1) /\ UNCHANGED bound
        /\ frame.kind = "iter" /\ frame.left # <<>>
        /\ \A i \in 1..Len(made) : made[i] \in Items
        /\ stack' = Append(Below(2), Iter(Tail(frame.left), made, frame.tail + 1))
    BY <1>2 DEF IterTakes, Push
  <2>2. Len(stack) \in Nat /\ Len(stack) - 1 \in 1..Len(stack)
    BY <2>1 DEF Stacked
  <2>3. frame \in SoundEntries
    BY <2>2 DEF Stacked
  <2>4. /\ frame.left \in Seq(Items) /\ frame.made \in Seq(Items) /\ frame.tail \in Nat
        /\ frame.tail <= Len(frame.made)
    <3> HIDE DEF frame
    <3> QED BY <2>1, <2>3, IterFacts
  <2>5. made \in Seq(Items) /\ frame.tail + 1 <= Len(made)
    <3> HIDE DEF frame
    <3> QED BY <2>1, <2>4, TopFacts, LinkFacts
  <2>6. Iter(Tail(frame.left), made, frame.tail + 1) \in SoundEntries
    <3>1. Tail(frame.left) \in Seq(Items) /\ frame.tail + 1 \in Nat
      <4> HIDE DEF frame, made
      <4> QED BY <2>1, <2>4, SMT
    <3> HIDE DEF frame, made
    <3> QED BY <2>5, <3>1, IterEntry
  <2> HIDE DEF frame, made
  <2> QED BY <2>1, <2>2, <2>6, PushStacked
<1>3. CASE IterEnds
  <2>1. stack # <<>> /\ Top.kind = "iter" /\ Replace(1, <<[items |-> Top.made]>>)
    BY <1>3 DEF IterEnds
  <2>2. Top \in SoundEntries /\ Len(stack) \in Nat /\ 1 <= Len(stack)
    BY <2>1, LastFacts DEF Top, Stacked
  <2> QED BY <2>1, <2>2, IterFacts, ListCell, OneCell, PushChain
<1> QED BY <1>1, <1>2, <1>3

LEMMA DropStacked ==
  ASSUME Stacked, Discard \/ Fail
  PROVE  Stacked'
<1> USE ConstantFacts
<1>1. CASE Discard
  BY <1>1, TopFacts, BelowFacts DEF Discard, Stacked
<1>2. CASE Fail
  <2>1. CASE stack' = <<>>
    BY <1>2, <2>1 DEF Fail, Stacked
  <2>2. CASE \E k \in 1..Len(stack) : stack' = Append(Below(k), Value(<<Nil>>))
    <3>1. PICK k \in 1..Len(stack) : stack' = Append(Below(k), Value(<<Nil>>))
      BY <2>2
    <3>2. k \in Nat /\ k <= Len(stack)
      BY <3>1 DEF Stacked
    <3> QED BY <1>2, <3>1, <3>2, OneCell, PushStacked DEF Fail
  <2> QED BY <1>2, <2>1, <2>2 DEF Fail
<1> QED BY <1>1, <1>2

LEMMA StackedStep == Stacked /\ [Next]_vars => Stacked'
<1> SUFFICES ASSUME Stacked, [Next]_vars PROVE Stacked'
  OBVIOUS
<1>1. CASE EvalLiteral \/ EvalQuoted \/ EvalNil \/ EvalPieces
  BY <1>1, EvalStacked
<1>2. CASE \E n \in Names : EvalSymbol(n) \/ Let(n) \/ Set(n)
  BY <1>2, EvalStacked, BindStacked
<1>3. CASE Discard \/ Fail
  BY <1>3, DropStacked
<1>4. CASE Cons \/ Car \/ Cdr \/ IterNothing
  BY <1>4, ListStacked
<1>5. CASE IterBegins \/ IterTakes \/ IterEnds
  BY <1>5, IterStacked
<1>6. CASE UNCHANGED vars
  BY <1>6 DEF vars, Stacked
<1> QED BY <1>1, <1>2, <1>3, <1>4, <1>5, <1>6 DEF Next

LEMMA AlwaysStacked == Spec => []Stacked
BY InitStacked, StackedStep, PTL DEF Spec

(* Names and the stack hold chains of cells, and what iter_list counts as  *)
(* its result is part of what it has linked.                               *)
THEOREM TypeInvariant == Spec => []TypeOK
<1>1. Stacked <=> TypeOK
  BY TypeSplit DEF Stacked
<1> QED BY <1>1, AlwaysStacked, PTL

-----------------------------------------------------------------------------
(***************************************************************************)
(* The refinement.                                                         *)
(***************************************************************************)

ShownEntries == {Shown(e) : e \in SoundEntries}

LEMMA ShownFacts ==
  ASSUME NEW s \in Seq(SoundEntries)
  PROVE  /\ ShownStack(s) \in Seq(ShownEntries)
         /\ Len(ShownStack(s)) = Len(s)
         /\ \A i \in 1..Len(s) : ShownStack(s)[i] = Shown(s[i])
<1>1. Len(s) \in Nat /\ \A i \in 1..Len(s) : s[i] \in SoundEntries
  BY SMT
<1>2. \A i \in 1..Len(s) : Shown(s[i]) \in ShownEntries
  BY <1>1 DEF ShownEntries
<1>3. ShownStack(s) \in [1..Len(s) -> ShownEntries]
  BY <1>1, <1>2 DEF ShownStack
<1>4. ShownStack(s) \in Seq(ShownEntries) /\ Len(ShownStack(s)) = Len(s)
  BY <1>1, <1>3, SMT
<1> QED BY <1>4 DEF ShownStack

(* Sequences with the same elements are the same.                          *)
LEMMA ShownBelow ==
  ASSUME Stacked, NEW k \in Nat, k <= Len(stack)
  PROVE  ShownStack(Below(k)) = Abstract!Below(k)
<1> DEFINE s == Below(k)
           t == SubSeq(ShownStack(stack), 1, Len(ShownStack(stack)) - k)
<1>1. stack \in Seq(SoundEntries)
  BY DEF Stacked
<1>2. s \in Seq(SoundEntries) /\ Len(s) = Len(stack) - k
      /\ \A i \in 1..(Len(stack) - k) : s[i] = stack[i]
  BY BelowFacts
<1>3. /\ ShownStack(stack) \in Seq(ShownEntries) /\ Len(ShownStack(stack)) = Len(stack)
      /\ \A i \in 1..Len(stack) : ShownStack(stack)[i] = Shown(stack[i])
  BY <1>1, ShownFacts
<1>4. /\ t \in Seq(ShownEntries) /\ Len(t) = Len(stack) - k
      /\ \A i \in 1..(Len(stack) - k) : t[i] = ShownStack(stack)[i]
  BY <1>3, DropFacts
<1>5. /\ ShownStack(s) \in Seq(ShownEntries) /\ Len(ShownStack(s)) = Len(s)
      /\ \A i \in 1..Len(s) : ShownStack(s)[i] = Shown(s[i])
  BY <1>2, ShownFacts
<1>6. Len(stack) \in Nat /\ \A i \in 1..(Len(stack) - k) : i \in 1..Len(stack)
  BY <1>1, SMT
<1>7. \A i \in 1..(Len(stack) - k) : ShownStack(s)[i] = t[i]
  <2> HIDE DEF s, t
  <2> QED BY <1>2, <1>3, <1>4, <1>5, <1>6
<1>8. ShownStack(s) = t
  <2> HIDE DEF s, t
  <2> QED BY <1>2, <1>4, <1>5, <1>7, SeqEqual
<1> QED BY <1>8 DEF Abstract!Below

LEMMA ShownPush ==
  ASSUME NEW s \in Seq(SoundEntries), NEW e \in SoundEntries
  PROVE  ShownStack(Append(s, e)) = Append(ShownStack(s), Shown(e))
<1> DEFINE t == Append(s, e)
           u == Append(ShownStack(s), Shown(e))
<1>1. /\ ShownStack(s) \in Seq(ShownEntries) /\ Len(ShownStack(s)) = Len(s)
      /\ \A i \in 1..Len(s) : ShownStack(s)[i] = Shown(s[i])
  BY ShownFacts
<1>2. t \in Seq(SoundEntries) /\ Len(t) = Len(s) + 1 /\ t[Len(s) + 1] = e
      /\ \A i \in 1..Len(s) : t[i] = s[i]
  BY PushFacts
<1>3. Shown(e) \in ShownEntries
  BY DEF ShownEntries
<1>4. u \in Seq(ShownEntries) /\ Len(u) = Len(s) + 1 /\ u[Len(s) + 1] = Shown(e)
      /\ \A i \in 1..Len(s) : u[i] = ShownStack(s)[i]
  <2>1. /\ u \in Seq(ShownEntries)
        /\ Len(u) = Len(ShownStack(s)) + 1
        /\ \A i \in 1..Len(ShownStack(s)) : u[i] = ShownStack(s)[i]
        /\ u[Len(ShownStack(s)) + 1] = Shown(e)
    BY <1>1, <1>3, PushFacts
  <2> HIDE DEF u
  <2> QED BY <1>1, <2>1
<1>5. /\ ShownStack(t) \in Seq(ShownEntries) /\ Len(ShownStack(t)) = Len(t)
      /\ \A i \in 1..Len(t) : ShownStack(t)[i] = Shown(t[i])
  BY <1>2, ShownFacts
<1>6. Len(s) \in Nat /\ \A i \in 1..(Len(s) + 1) : i \in 1..Len(s) \/ i = Len(s) + 1
  BY SMT
<1>7. \A i \in 1..(Len(s) + 1) : ShownStack(t)[i] = u[i]
  <2> HIDE DEF t, u
  <2> QED BY <1>1, <1>2, <1>4, <1>5, <1>6
<1> HIDE DEF t, u
<1>8. ShownStack(t) = u
  BY <1>2, <1>4, <1>5, <1>7, SeqEqual
<1> QED BY <1>8 DEF t, u

(* An entry pushed on the stack is pushed on what is shown of it.          *)
LEMMA AbstractPush ==
  ASSUME Stacked, NEW k \in Nat, k <= Len(stack), NEW e \in SoundEntries,
         stack' = Append(Below(k), e)
  PROVE  ShownStack(stack') = Append(Abstract!Below(k), Shown(e))
<1>1. Below(k) \in Seq(SoundEntries)
  BY BelowFacts
<1>2. ShownStack(stack') = Append(ShownStack(Below(k)), Shown(e))
  BY <1>1, ShownPush
<1> QED BY <1>2, ShownBelow

LEMMA ShownValue ==
  ASSUME NEW c
  PROVE  Shown(Value(c)) = Abstract!Value(First(c))
BY DEF Shown, Value, Abstract!Value

LEMMA AbstractReplace ==
  ASSUME Stacked, NEW k \in Nat, k <= Len(stack), NEW c \in Seq(Cells), c # <<>>,
         Replace(k, c)
  PROVE  Abstract!Replace(k, First(c))
<1>1. ShownStack(stack') = Append(Abstract!Below(k), Abstract!Value(First(c)))
  BY ChainEntry, AbstractPush, ShownValue DEF Replace, Push
<1>2. UNCHANGED bound
  BY DEF Replace, Push
<1> QED BY <1>1, <1>2 DEF Abstract!Replace, Abstract!Push

(* What is shown has its values where the stack has them.                  *)
LEMMA AbstractHas ==
  ASSUME Stacked, NEW k \in {1, 2}, HasValues(k)
  PROVE  /\ Abstract!HasValues(k)
         /\ Abstract!Top.value = First(Top.chain) /\ Abstract!Top = Shown(Top)
         /\ k = 2 => /\ ShownStack(stack)[Len(ShownStack(stack)) - 1].value
                          = First(stack[Len(stack) - 1].chain)
                     /\ Abstract!Value(First(stack[Len(stack) - 1].chain))
                          = Shown(stack[Len(stack) - 1])
<1>1. /\ Len(ShownStack(stack)) = Len(stack) /\ Len(stack) \in Nat
      /\ \A i \in 1..Len(stack) : ShownStack(stack)[i] = Shown(stack[i])
      /\ \A i \in 1..Len(stack) : stack[i] \in SoundEntries
  BY ShownFacts DEF Stacked
<1>2. k <= Len(stack) /\ \A i \in (Len(stack) - k + 1)..Len(stack) : stack[i].kind = "value"
  BY DEF HasValues
<1>3. ASSUME NEW i \in (Len(stack) - k + 1)..Len(stack)
      PROVE  /\ i \in 1..Len(stack)
             /\ ShownStack(stack)[i].kind = "value"
             /\ ShownStack(stack)[i].value = First(stack[i].chain)
             /\ Shown(stack[i]) = Abstract!Value(First(stack[i].chain))
  <2>1. i \in 1..Len(stack) /\ stack[i].kind = "value"
    BY <1>1, <1>2
  <2>2. Shown(stack[i]) = Abstract!Value(First(stack[i].chain))
    BY <2>1 DEF Shown, Abstract!Value
  <2> QED BY <1>1, <2>1, <2>2 DEF Abstract!Value
<1>4. Abstract!HasValues(k)
  BY <1>1, <1>2, <1>3 DEF Abstract!HasValues
<1>5. Len(stack) \in (Len(stack) - k + 1)..Len(stack)
  BY <1>1, <1>2
<1>6. Abstract!Top.value = First(Top.chain) /\ Abstract!Top = Shown(Top)
  BY <1>1, <1>3, <1>5 DEF Abstract!Top, Top
<1>7. k = 2 => Len(stack) - 1 \in (Len(stack) - k + 1)..Len(stack)
  BY <1>1, <1>2
<1> QED BY <1>1, <1>3, <1>4, <1>6, <1>7

(* An expression whose value is a chain of cells, the first of them a      *)
(* value, writes that value.                                               *)
LEMMA AbstractWrite ==
  ASSUME Stacked, NEW c \in Seq(Cells), c # <<>>, Replace(0, c), form' = "text"
  PROVE  Abstract!Write
<1>1. 0 \in Nat /\ 0 <= Len(stack) /\ Len(stack) \in Nat /\ Len(stack) - 0 = Len(stack)
  BY DEF Stacked
<1>2. Abstract!Replace(0, First(c))
  BY <1>1, AbstractReplace
<1>3. /\ Below(0) \in Seq(SoundEntries) /\ Len(Below(0)) = Len(stack)
      /\ Value(c) \in SoundEntries
  BY <1>1, BelowFacts, ChainEntry
<1>4. /\ stack' \in Seq(SoundEntries) /\ Len(stack') = Len(stack) + 1
      /\ stack'[Len(stack) + 1] = Value(c)
  <2>1. stack' = Append(Below(0), Value(c))
    BY DEF Replace, Push
  <2> QED BY <1>3, <2>1, PushFacts
<1>5. /\ Len(ShownStack(stack)) = Len(stack) /\ Len(ShownStack(stack')) = Len(stack')
      /\ ShownStack(stack')[Len(stack) + 1] = Abstract!Value(First(c))
  <2>1. Len(stack) + 1 \in 1..Len(stack')
    BY <1>1, <1>4
  <2> QED BY <1>4, <2>1, ShownFacts, ShownValue DEF Stacked
<1>6. First(c) \in Abstract!Values
  <2>1. First(c) \in Cells
    BY DEF First
  <2> QED BY <2>1 DEF Cells, Lists, Abstract!Values, Abstract!Lists
<1>7. Abstract!Value(First(c)).value = First(c)
  BY DEF Abstract!Value
<1> QED BY <1>2, <1>4, <1>5, <1>6, <1>7 DEF Abstract!Write

LEMMA AbstractNames ==
  ASSUME Stacked, NEW n \in Names
  PROVE  /\ EvalSymbol(n) => Abstract!Read(n)
         /\ Let(n) \/ Set(n) => Abstract!Bind(n)
<1>1. 0 \in Nat /\ 0 <= Len(stack)
  BY DEF Stacked
<1>2. ASSUME EvalSymbol(n) PROVE Abstract!Read(n)
  <2>1. Abstract!Replace(0, First(bound[n])) /\ form' = n /\ bound[n] # <<>>
    BY <1>1, <1>2, NamedChain, AbstractReplace
  <2>2. ShownBound(bound)[n] = Abstract!Value(First(bound[n]))
    BY <2>1, ShownValue DEF ShownBound
  <2>3. ShownBound(bound)[n].kind # Abstract!Unbound.kind
        /\ ShownBound(bound)[n].value = First(bound[n])
    BY <2>2 DEF Abstract!Value, Abstract!Unbound
  <2> QED BY <2>1, <2>3 DEF Abstract!Read
<1>3. ASSUME Let(n) \/ Set(n) PROVE Abstract!Bind(n)
  <2>1. /\ HasValues(1) /\ bound' = [bound EXCEPT ![n] = Top.chain] /\ UNCHANGED stack
        /\ form' = "bind"
    BY <1>3 DEF Let, Set
  <2>2. /\ Abstract!HasValues(1) /\ Abstract!Top = Shown(Value(Top.chain))
        /\ Top.chain # <<>>
    BY <2>1, TopFacts, AbstractHas
  <2>3. ShownBound(bound') = [ShownBound(bound) EXCEPT ![n] = Shown(Value(Top.chain))]
    BY <2>1, <2>2 DEF ShownBound, Stacked
  <2> QED BY <2>1, <2>2, <2>3 DEF Abstract!Bind
<1> QED BY <1>2, <1>3

LEMMA AbstractLists ==
  ASSUME Stacked
  PROVE  /\ Cons => Abstract!Cons
         /\ Car => Abstract!Car
         /\ Cdr => Abstract!Cdr
         /\ IterNothing => Abstract!IterNothing
         /\ Discard => Abstract!Discard
<1> USE ConstantFacts
<1>0. Abstract!Lists = Lists
  BY DEF Lists, Abstract!Lists
<1>1. ASSUME Cons PROVE Abstract!Cons
  <2> DEFINE element == First(stack[Len(stack) - 1].chain)
             list == First(Top.chain)
             made == [items |-> <<element>> \o list.items]
  <2>1. /\ list \in Lists /\ element \in Items /\ Replace(2, <<made>>)
        /\ HasValues(2) /\ form' = "cons"
    BY <1>1 DEF Cons
  <2>2. /\ Abstract!HasValues(2) /\ Abstract!Top.value = list
        /\ ShownStack(stack)[Len(ShownStack(stack)) - 1].value = element
    BY <2>1, AbstractHas
  <2>3. made \in Cells
    <3>1. list.items \in Seq(Items) /\ <<element>> \in Seq(Items)
      <4> HIDE DEF list, element
      <4> QED BY <2>1, ListFacts
    <3>2. <<element>> \o list.items \in Seq(Items)
      <4> HIDE DEF list, element
      <4> QED BY <3>1, SMT
    <3> HIDE DEF list, element
    <3> QED BY <3>2, ListCell
  <2>4. Abstract!Replace(2, made)
    <3> HIDE DEF made
    <3>1. <<made>> \in Seq(Cells) /\ <<made>> # <<>> /\ First(<<made>>) = made
      BY <2>3, OneCell
    <3> QED BY <2>1, <3>1, TopFacts, AbstractReplace
  <2> HIDE DEF list, element
  <2> QED BY <1>0, <2>1, <2>2, <2>4 DEF Abstract!Cons
<1>2. ASSUME Car PROVE Abstract!Car
  <2> DEFINE list == First(Top.chain)
             item == list.items[1]
  <2>1. HasValues(1) /\ list \in Lists /\ list.items # <<>>
        /\ Replace(1, <<item>>) /\ form' = "car"
    BY <1>2 DEF Car
  <2>2. item \in Cells
    <3> HIDE DEF list
    <3> QED BY <2>1, ListFacts, SMT
  <2>3. Abstract!Replace(1, item)
    <3> HIDE DEF list, item
    <3>1. <<item>> \in Seq(Cells) /\ <<item>> # <<>> /\ First(<<item>>) = item
      BY <2>2, OneCell
    <3> QED BY <2>1, <3>1, TopFacts, AbstractReplace
  <2>4. Abstract!HasValues(1) /\ Abstract!Top.value = list
    BY <2>1, AbstractHas
  <2> HIDE DEF list
  <2> QED BY <1>0, <2>1, <2>3, <2>4 DEF Abstract!Car
<1>3. ASSUME Cdr PROVE Abstract!Cdr
  <2> DEFINE list == First(Top.chain)
             rest == IF Len(list.items) > 1 THEN [items |-> Tail(list.items)] ELSE Nil
  <2>1. HasValues(1) /\ list \in Lists /\ form' = "cdr" /\ Replace(1, <<rest>>)
    <3>1. CASE Len(list.items) > 1
      BY <1>3, <3>1 DEF Cdr
    <3>2. CASE ~(Len(list.items) > 1)
      BY <1>3, <3>2 DEF Cdr
    <3> QED BY <3>1, <3>2
  <2>2. rest \in Cells
    <3>1. CASE Len(list.items) > 1
      <4>1. Tail(list.items) \in Seq(Items)
        <5> HIDE DEF list
        <5> QED BY <2>1, <3>1, ListFacts, SMT
      <4> QED BY <3>1, <4>1, ListCell
    <3>2. CASE ~(Len(list.items) > 1)
      BY <3>2
    <3> QED BY <3>1, <3>2
  <2>3. Abstract!Replace(1, rest)
    <3> HIDE DEF list, rest
    <3>1. <<rest>> \in Seq(Cells) /\ <<rest>> # <<>> /\ First(<<rest>>) = rest
      BY <2>2, OneCell
    <3> QED BY <2>1, <3>1, TopFacts, AbstractReplace
  <2>4. Abstract!HasValues(1) /\ Abstract!Top.value = list
    BY <2>1, AbstractHas
  <2> HIDE DEF list
  <2> QED BY <1>0, <2>1, <2>3, <2>4 DEF Abstract!Cdr
<1>4. ASSUME IterNothing PROVE Abstract!IterNothing
  <2> DEFINE value == First(Top.chain)
  <2>1. HasValues(1) /\ form' = "iter" /\ Replace(1, <<Nil>>)
        /\ (value = Nil \/ (value \in Lists /\ value.items = <<>>))
    BY <1>4 DEF IterNothing
  <2>2. Abstract!HasValues(1) /\ Abstract!Top.value = value
    BY <2>1, AbstractHas
  <2>3. Abstract!Replace(1, Nil)
    <3>1. <<Nil>> \in Seq(Cells) /\ <<Nil>> # <<>> /\ First(<<Nil>>) = Nil
      BY OneCell
    <3> QED BY <2>1, <3>1, TopFacts, AbstractReplace
  <2> HIDE DEF value
  <2> QED BY <1>0, <2>1, <2>2, <2>3 DEF Abstract!IterNothing
<1>5. ASSUME Discard PROVE Abstract!Discard
  <2>1. HasValues(1) /\ stack' = Below(1) /\ UNCHANGED bound /\ form' = "discard"
    BY <1>5 DEF Discard
  <2>2. Abstract!HasValues(1) /\ ShownStack(stack') = Abstract!Below(1)
    BY <2>1, TopFacts, AbstractHas, ShownBelow
  <2> QED BY <2>1, <2>2 DEF Abstract!Discard
<1> QED BY <1>1, <1>2, <1>3, <1>4, <1>5

LEMMA ShownIter ==
  ASSUME NEW left, NEW made, NEW tail
  PROVE  Shown(Iter(left, made, tail)) = Abstract!Iter(left, SubSeq(made, 1, tail))
BY DEF Shown, Iter, Abstract!Iter

LEMMA AbstractIterBegins ==
  ASSUME Stacked, IterBegins
  PROVE  Abstract!IterBegins
<1> DEFINE list == First(Top.chain)
<1>1. HasValues(1) /\ list \in Lists /\ list.items # <<>> /\ UNCHANGED bound
      /\ form' = "iter" /\ stack' = Append(Below(1), Iter(list.items, <<>>, 0))
  BY DEF IterBegins, Push
<1>2. Iter(list.items, <<>>, 0) \in SoundEntries
  <2>1. <<>> \in Seq(Items) /\ 0 \in Nat /\ 0 <= Len(<<>>)
    BY SMT
  <2> HIDE DEF list
  <2> QED BY <1>1, <2>1, ListFacts, IterEntry
<1>3. Abstract!HasValues(1) /\ Abstract!Top.value = list
  BY <1>1, AbstractHas
<1> HIDE DEF list
<1>4. SubSeq(<<>>, 1, 0) = <<>>
  BY SMT
<1>5. ShownStack(stack') = Append(Abstract!Below(1), Abstract!Iter(list.items, <<>>))
  <2> DEFINE e == Iter(list.items, <<>>, 0)
  <2>1. 1 \in Nat /\ 1 <= Len(stack)
    BY <1>1, TopFacts
  <2>2. Shown(e) = Abstract!Iter(list.items, <<>>)
    BY <1>4, ShownIter
  <2>3. e \in SoundEntries /\ stack' = Append(Below(1), e)
    BY <1>1, <1>2
  <2> HIDE DEF e
  <2>4. ShownStack(stack') = Append(Abstract!Below(1), Shown(e))
    BY <2>1, <2>3, AbstractPush
  <2> QED BY <2>2, <2>4
<1> QED BY <1>1, <1>3, <1>5 DEF Abstract!IterBegins, Abstract!Push, Lists, Abstract!Lists

LEMMA AbstractIterTakes ==
  ASSUME Stacked, IterTakes
  PROVE  Abstract!IterTakes
<1> DEFINE frame == stack[Len(stack) - 1]
           new == Link(frame.made, frame.tail, Top.chain)
<1>1. /\ Len(stack) >= 2 /\ HasValues(1) /\ UNCHANGED bound /\ form' = "iter"
      /\ frame.kind = "iter" /\ frame.left # <<>>
      /\ \A i \in 1..Len(new) : new[i] \in Items
      /\ stack' = Append(Below(2), Iter(Tail(frame.left), new, frame.tail + 1))
  BY DEF IterTakes, Push
<1>2. Len(stack) \in Nat /\ Len(stack) - 1 \in 1..Len(stack)
  BY <1>1 DEF Stacked
<1>3. frame \in SoundEntries
  BY <1>2 DEF Stacked
<1>4. /\ frame.left \in Seq(Items) /\ frame.made \in Seq(Items) /\ frame.tail \in Nat
      /\ frame.tail <= Len(frame.made) /\ frame = Iter(frame.left, frame.made, frame.tail)
  <2> HIDE DEF frame
  <2> QED BY <1>1, <1>3, IterFacts
<1>5. /\ new \in Seq(Items) /\ frame.tail + 1 <= Len(new)
      /\ SubSeq(new, 1, frame.tail + 1)
           = Append(SubSeq(frame.made, 1, frame.tail), First(Top.chain))
  <2> HIDE DEF frame
  <2> QED BY <1>1, <1>4, TopFacts, LinkFacts
<1>6. Iter(Tail(frame.left), new, frame.tail + 1) \in SoundEntries
  <2>1. Tail(frame.left) \in Seq(Items) /\ frame.tail + 1 \in Nat
    <3> HIDE DEF frame, new
    <3> QED BY <1>1, <1>4, SMT
  <2> HIDE DEF frame, new
  <2> QED BY <1>5, <2>1, IterEntry
<1> HIDE DEF new
<1>7. ShownStack(stack') = Append(Abstract!Below(2),
         Abstract!Iter(Tail(frame.left), Append(SubSeq(frame.made, 1, frame.tail), First(Top.chain))))
  <2> HIDE DEF frame
  <2> QED BY <1>1, <1>2, <1>5, <1>6, AbstractPush, ShownIter
<1>8. /\ Abstract!HasValues(1) /\ Abstract!Top.value = First(Top.chain)
      /\ Len(ShownStack(stack)) = Len(stack)
      /\ ShownStack(stack)[Len(stack) - 1] = Abstract!Iter(frame.left, SubSeq(frame.made, 1, frame.tail))
  <2>1. Abstract!HasValues(1) /\ Abstract!Top.value = First(Top.chain)
    BY <1>1, AbstractHas
  <2>2. Len(ShownStack(stack)) = Len(stack) /\ ShownStack(stack)[Len(stack) - 1] = Shown(frame)
    BY <1>2, ShownFacts DEF Stacked
  <2> HIDE DEF frame
  <2> QED BY <1>4, <2>1, <2>2, ShownIter
<1> HIDE DEF frame
<1> QED BY <1>1, <1>7, <1>8 DEF Abstract!IterTakes, Abstract!Push, Abstract!Iter

LEMMA AbstractIterEnds ==
  ASSUME Stacked, IterEnds
  PROVE  Abstract!IterEnds
<1> DEFINE made == [items |-> Top.made]
<1>1. stack # <<>> /\ Top.kind = "iter" /\ Top.left = <<>> /\ form' = "iter"
      /\ Replace(1, <<made>>)
  BY DEF IterEnds
<1>2. Top \in SoundEntries /\ Len(stack) \in Nat /\ 1 <= Len(stack)
  BY <1>1, LastFacts DEF Top, Stacked
<1>3. /\ Top.made \in Seq(Items) /\ Top.tail \in Nat /\ Top.tail <= Len(Top.made)
      /\ Top = Iter(Top.left, Top.made, Top.tail)
  BY <1>1, <1>2, IterFacts
<1>4. /\ Len(ShownStack(stack)) = Len(stack)
      /\ Abstract!Top = Abstract!Iter(Top.left, SubSeq(Top.made, 1, Top.tail))
  <2>1. Len(ShownStack(stack)) = Len(stack) /\ Abstract!Top = Shown(Top)
    BY <1>2, ShownFacts DEF Stacked, Abstract!Top, Top
  <2> QED BY <1>3, <2>1, ShownIter
<1>5. made \in Lists /\ made \in Cells
  BY <1>3, ListCell
<1>6. <<made>> \in Seq(Cells) /\ <<made>> # <<>> /\ First(<<made>>) = made
      /\ Value(<<made>>) \in SoundEntries
  <2> HIDE DEF made
  <2> QED BY <1>5, OneCell
<1>7. Abstract!Replace(1, made)
  <2> HIDE DEF made
  <2> QED BY <1>1, <1>2, <1>6, AbstractReplace
<1>8. /\ Len(ShownStack(stack')) = Len(stack)
      /\ ShownStack(stack')[Len(stack)] = Abstract!Value(made)
  <2> HIDE DEF made
  <2>1. Below(1) \in Seq(SoundEntries) /\ Len(Below(1)) = Len(stack) - 1
        /\ stack' = Append(Below(1), Value(<<made>>))
    BY <1>1, <1>2, BelowFacts DEF Replace, Push
  <2>2. /\ stack' \in Seq(SoundEntries) /\ Len(stack') = Len(Below(1)) + 1
        /\ stack'[Len(Below(1)) + 1] = Value(<<made>>)
    BY <1>6, <2>1, PushFacts
  <2>3. Len(Below(1)) + 1 = Len(stack) /\ Len(stack) \in 1..Len(stack')
    BY <1>2, <2>1, <2>2
  <2> QED BY <1>6, <2>2, <2>3, ShownFacts, ShownValue
<1>9. Abstract!StartsWith(Top.made, SubSeq(Top.made, 1, Top.tail))
  BY <1>3, PrefixFacts DEF Abstract!StartsWith
<1>10. /\ Abstract!Top.kind = "iter" /\ Abstract!Top.left = <<>>
       /\ Abstract!Top.done = SubSeq(Top.made, 1, Top.tail)
       /\ Abstract!Value(made).value = made /\ Abstract!Value(made).kind = "value"
       /\ made.items = Top.made /\ made \in Abstract!Lists
       /\ ShownStack(stack) # <<>>
  <2>1. /\ Abstract!Top.kind = "iter" /\ Abstract!Top.left = <<>>
        /\ Abstract!Top.done = SubSeq(Top.made, 1, Top.tail)
    BY <1>1, <1>4 DEF Abstract!Iter
  <2>2. Abstract!Value(made).value = made /\ Abstract!Value(made).kind = "value"
    BY DEF Abstract!Value
  <2>3. made.items = Top.made /\ made \in Abstract!Lists
    BY <1>5 DEF Lists, Abstract!Lists
  <2>4. ShownStack(stack) # <<>>
    <3>1. Len(ShownStack(stack)) # 0
      BY <1>2, <1>4
    <3> QED BY <3>1, SMT
  <2> HIDE DEF made
  <2> QED BY <2>1, <2>2, <2>3, <2>4
<1> HIDE DEF made
<1> QED BY <1>1, <1>4, <1>7, <1>8, <1>9, <1>10 DEF Abstract!IterEnds

LEMMA AbstractFail ==
  ASSUME Stacked, Fail
  PROVE  Abstract!Fail
<1>1. UNCHANGED bound /\ form' = "fail"
  BY DEF Fail
<1>2. CASE stack' = <<>>
  <2>1. ShownStack(stack') = <<>>
    BY <1>2 DEF ShownStack
  <2> QED BY <1>1, <2>1 DEF Abstract!Fail
<1>3. CASE \E k \in 1..Len(stack) : stack' = Append(Below(k), Value(<<Nil>>))
  <2>1. PICK k \in 1..Len(stack) : stack' = Append(Below(k), Value(<<Nil>>))
    BY <1>3
  <2>2. k \in Nat /\ k <= Len(stack) /\ Len(ShownStack(stack)) = Len(stack)
    BY <2>1, ShownFacts DEF Stacked
  <2>3. ShownStack(stack') = Append(Abstract!Below(k), Abstract!Value(Nil))
    <3>1. Value(<<Nil>>) \in SoundEntries /\ First(<<Nil>>) = Nil
      BY ConstantFacts, OneCell
    <3> QED BY <2>1, <2>2, <3>1, AbstractPush, ShownValue
  <2> QED BY <1>1, <2>1, <2>2, <2>3 DEF Abstract!Fail
<1> QED BY <1>2, <1>3 DEF Fail

LEMMA AbstractStep ==
  ASSUME Stacked, [Next]_vars
  PROVE  [Abstract!Next]_(Abstract!vars)
<1>1. CASE EvalLiteral \/ EvalQuoted \/ EvalNil \/ EvalPieces
  BY <1>1, ExpressionChain, AbstractWrite DEF Abstract!Next
<1>2. CASE \E n \in Names : EvalSymbol(n) \/ Let(n) \/ Set(n)
  BY <1>2, AbstractNames DEF Abstract!Next
<1>3. CASE Discard \/ Cons \/ Car \/ Cdr \/ IterNothing
  BY <1>3, AbstractLists DEF Abstract!Next
<1>4. CASE IterBegins \/ IterTakes \/ IterEnds
  BY <1>4, AbstractIterBegins, AbstractIterTakes, AbstractIterEnds DEF Abstract!Next
<1>5. CASE Fail
  BY <1>5, AbstractFail DEF Abstract!Next
<1>6. CASE UNCHANGED vars
  BY <1>6 DEF vars, Abstract!vars
<1> QED BY <1>1, <1>2, <1>3, <1>4, <1>5, <1>6 DEF Next

LEMMA AbstractInit == Init => Abstract!Init
<1> SUFFICES ASSUME Init PROVE Abstract!Init
  OBVIOUS
<1>1. ShownStack(<<>>) = <<>>
  BY DEF ShownStack
<1>2. ShownBound(bound) = [n \in Names |-> Abstract!Unbound]
  BY DEF Init, ShownBound, Abstract!Unbound
<1> QED BY <1>1, <1>2 DEF Init, Abstract!Init

(* The cells that follow a value are never seen: names, lists and iter do  *)
(* with the first cell of each chain what ListValues says of values.       *)
THEOREM Refinement == Spec => ImplementsListValues
<1>1. Spec => []Stacked
  BY AlwaysStacked
<1>2. Stacked /\ [Next]_vars => [Abstract!Next]_(Abstract!vars)
  BY AbstractStep
<1>3. ImplementsListValues <=> Abstract!Init /\ [][Abstract!Next]_(Abstract!vars)
  BY DEF ImplementsListValues, Abstract!Spec
<1> QED BY <1>1, <1>2, <1>3, AbstractInit, PTL DEF Spec

=============================================================================
