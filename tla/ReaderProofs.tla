---------------------------- MODULE ReaderProofs ----------------------------
(***************************************************************************)
(* Theorems of Reader, for texts of every length.                          *)
(*                                                                         *)
(* In this order: the functions Parser and OpenLists are well defined; a   *)
(* token keeps, opens or closes a list; the brackets of a kind that lack   *)
(* their partner are the open lists of that kind, so that a group found by *)
(* counting is the innermost list at its end; a call of the parser that    *)
(* starts at place i ends where the meaning has added its cell, or         *)
(* complains; so do lines and whole texts; and what a quote holds is read  *)
(* the same where it stands alone.  What is shown of every place of a text *)
(* is shown from the last place down, as the parser depends on later       *)
(* places only.                                                            *)
(***************************************************************************)
EXTENDS Reader, StackFacts, FiniteSetTheorems

-----------------------------------------------------------------------------
(***************************************************************************)
(* The scanner.                                                            *)
(***************************************************************************)
LEMMA SkipFacts ==
  ASSUME NEW s, NEW i \in Nat, NEW e \in Int, i <= e + 1
  PROVE  /\ Skip(s, i, e) \in i..(e + 1)
         /\ Skip(s, i, e) = e + 1 \/ s[Skip(s, i, e)] # "nl"
         /\ \A k \in i..(Skip(s, i, e) - 1) : s[k] = "nl"
<1> DEFINE ends(j) == j = e + 1 \/ s[j] # "nl"
           S == {j \in i..(e + 1) : ends(j)}
<1>1. S \in SUBSET Nat /\ e + 1 \in S
  OBVIOUS
<1>2. PICK m \in S : \A k \in S : m <= k
  <2> HIDE DEF S
  <2> QED BY <1>1, Least
<1>3. m \in i..(e + 1) /\ ends(m) /\ \A k \in i..(m - 1) : s[k] = "nl"
  <2>1. ASSUME NEW k \in i..(m - 1) PROVE s[k] = "nl"
    <3>1. k \in i..(e + 1) /\ ~(m <= k)
      BY <1>2
    <3> QED BY <1>2, <3>1
  <2> QED BY <1>2, <2>1
<1> QED BY <1>3 DEF Skip

(* What is skipped is determined by the first token that is not.           *)
LEMMA SkipIs ==
  ASSUME NEW s, NEW i \in Nat, NEW e \in Int, NEW m \in i..(e + 1),
         m = e + 1 \/ s[m] # "nl", \A k \in i..(m - 1) : s[k] = "nl"
  PROVE  Skip(s, i, e) = m
<1> DEFINE j == Skip(s, i, e)
<1>0. i <= e + 1
  OBVIOUS
<1>1. /\ j \in i..(e + 1)
      /\ j = e + 1 \/ s[j] # "nl"
      /\ \A k \in i..(j - 1) : s[k] = "nl"
  BY <1>0, SkipFacts, Zenon
<1> HIDE DEF j
<1>2. ~(j < m) /\ ~(m < j)
  BY <1>1
<1> QED BY <1>1, <1>2 DEF j

LEMMA GroupEndFacts ==
  ASSUME NEW s, NEW i \in Nat, NEW e \in Int, GroupEnds(s, i, e) # {}
  PROVE  /\ GroupEnd(s, i, e) \in GroupEnds(s, i, e)
         /\ GroupEnd(s, i, e) \in (i + 1)..e
         /\ \A k \in GroupEnds(s, i, e) : GroupEnd(s, i, e) <= k
<1>1. GroupEnds(s, i, e) \subseteq (i + 1)..e
  BY DEF GroupEnds
<1>2. GroupEnds(s, i, e) \in SUBSET Nat
  BY <1>1
<1>3. \E m \in GroupEnds(s, i, e) : \A k \in GroupEnds(s, i, e) : m <= k
  BY <1>2, Least
<1> QED BY <1>1, <1>3 DEF GroupEnd

-----------------------------------------------------------------------------
(***************************************************************************)
(* The recursion of the parser is well founded: what it returns at one     *)
(* position depends on later positions only.                               *)
(***************************************************************************)

(* What is defined for position i.                                         *)
Row(f, s, i) ==
  [argument    |-> [e \in (i - 1)..Len(s) |-> ParseArgument(f, s, i, e)],
   items       |-> [e \in (i - 1)..Len(s) |-> Items(f, s, i, e)],
   line        |-> [e \in (i - 1)..Len(s) |-> Line(f, s, i, e)],
   expressions |-> [e \in (i - 1)..Len(s) |-> Expressions(f, s, i, e)]]

LEMMA RowAt ==
  ASSUME NEW f, NEW s, NEW i, NEW e \in (i - 1)..Len(s)
  PROVE  /\ Row(f, s, i).argument[e] = ParseArgument(f, s, i, e)
         /\ Row(f, s, i).items[e] = Items(f, s, i, e)
         /\ Row(f, s, i).line[e] = Line(f, s, i, e)
         /\ Row(f, s, i).expressions[e] = Expressions(f, s, i, e)
BY DEF Row

(* The scanner never goes back, goes on with every cell, and stays within  *)
(* its buffer.                                                             *)
Advances(result, i, e) ==
  result.next \in i..(e + 1) /\ (result.cell # NoCell => result.next > i)

Goes(f, s, k) ==
  \A i \in k..(Len(s) + 1) : \A e \in (i - 1)..Len(s) :
    Advances(f[i].argument[e], i, e) /\ f[i].line[e].next \in i..(e + 1)

LEMMA ResultFields ==
  ASSUME NEW cell, NEW next, NEW errors
  PROVE  /\ Result(cell, next, errors).cell = cell /\ Result(cell, next, errors).next = next
         /\ Result(cell, next, errors).errors = errors
         /\ Cells(cell, next, errors).cells = cell /\ Cells(cell, next, errors).next = next
         /\ Cells(cell, next, errors).errors = errors
BY DEF Result, Cells

LEMMA PrependedFields ==
  ASSUME NEW first, NEW rest
  PROVE  /\ Prepended(first, rest).cells = <<first.cell>> \o rest.cells
         /\ Prepended(first, rest).next = rest.next
         /\ Prepended(first, rest).errors = first.errors \cup rest.errors
<1> DEFINE cells == <<first.cell>> \o rest.cells
           errors == first.errors \cup rest.errors
<1>1. Prepended(first, rest) = Cells(cells, rest.next, errors)
  BY DEF Prepended
<1> HIDE DEF cells, errors
<1>2. /\ Prepended(first, rest).cells = cells /\ Prepended(first, rest).next = rest.next
      /\ Prepended(first, rest).errors = errors
  BY <1>1, ResultFields
<1> QED BY <1>2 DEF cells, errors

LEMMA GoesAt ==
  ASSUME NEW s, NEW f, NEW k, Goes(f, s, k),
         NEW i \in k..(Len(s) + 1), NEW e \in (i - 1)..Len(s)
  PROVE  /\ f[i].argument[e].next \in i..(e + 1)
         /\ f[i].argument[e].cell # NoCell => f[i].argument[e].next > i
         /\ f[i].line[e].next \in i..(e + 1)
BY DEF Goes, Advances

LEMMA ArgumentLocal ==
  ASSUME NEW s, Len(s) \in Nat, NEW i \in 1..(Len(s) + 1), NEW e \in (i - 1)..Len(s),
         NEW f, NEW g, \A j \in (i + 1)..(Len(s) + 1) : f[j] = g[j],
         Goes(f, s, i + 1)
  PROVE  /\ ParseArgument(f, s, i, e) = ParseArgument(g, s, i, e)
         /\ Advances(ParseArgument(f, s, i, e), i, e)
<1> DEFINE st == Skip(s, i, e)
<1>1. i \in Nat /\ e \in Int /\ e <= Len(s) /\ i <= e + 1
  OBVIOUS
<1>2. st \in i..(e + 1) /\ st \in Nat
  <2>1. st \in i..(e + 1)
    BY <1>1, SkipFacts, Zenon
  <2> HIDE DEF st
  <2> QED BY <1>1, <2>1
<1> HIDE DEF st
<1>3. CASE st > e
  <2>1. ParseArgument(f, s, i, e) = Result(NoCell, st, {})
        /\ ParseArgument(g, s, i, e) = Result(NoCell, st, {})
    BY <1>3 DEF ParseArgument, st
  <2> QED BY <1>2, <2>1 DEF Advances, Result
<1>4. CASE ~(st > e)
  <2>1. st + 1 \in (i + 1)..(Len(s) + 1) /\ f[st + 1] = g[st + 1] /\ st <= e
    BY <1>1, <1>2, <1>4
  <2>2. CASE s[st] \in Opening
    <3>1. ParseArgument(f, s, i, e) = ParseExplicitList(f, s, st, e)
          /\ ParseArgument(g, s, i, e) = ParseExplicitList(g, s, st, e)
      BY <1>4, <2>2 DEF ParseArgument, st, Opening, Strings
    <3>2. ParseExplicitList(f, s, st, e) = ParseExplicitList(g, s, st, e)
      BY <2>1 DEF ParseExplicitList
    <3>3. CASE GroupEnds(s, st, e) = {}
      <4>1. ParseExplicitList(f, s, st, e) = Result(NoCell, st, {"unterminated"})
        BY <3>3 DEF ParseExplicitList
      <4>2. ParseArgument(f, s, i, e) = Result(NoCell, st, {"unterminated"})
        BY <3>1, <4>1
      <4>3. ParseArgument(f, s, i, e).cell = NoCell /\ ParseArgument(f, s, i, e).next = st
        BY <4>2, ResultFields
      <4> QED BY <1>2, <2>1, <3>1, <3>2, <4>3 DEF Advances
    <3>4. CASE GroupEnds(s, st, e) # {}
      <4>1. GroupEnd(s, st, e) \in (st + 1)..e
        BY <1>1, <1>2, <3>4, GroupEndFacts
      <4>2. ParseExplicitList(f, s, st, e).next = GroupEnd(s, st, e) + 1
        BY <3>4 DEF ParseExplicitList, Result
      <4> QED BY <1>1, <1>2, <3>1, <3>2, <4>1, <4>2 DEF Advances
    <3> QED BY <3>3, <3>4
  <2>3. CASE s[st] \in Strings
    <3>1. ParseArgument(f, s, i, e) = ParseStringLiteral(s, st)
          /\ ParseArgument(g, s, i, e) = ParseStringLiteral(s, st)
      BY <1>4, <2>3 DEF ParseArgument, st, Opening, Strings
    <3> QED BY <1>1, <1>2, <2>1, <3>1 DEF ParseStringLiteral, Advances, Result
  <2>4. CASE s[st] = "'"
    <3>1. ParseArgument(f, s, i, e) = ParseQuoted(f, s, st, e)
          /\ ParseArgument(g, s, i, e) = ParseQuoted(g, s, st, e)
      BY <1>4, <2>4 DEF ParseArgument, st, Opening
    <3>2. ParseQuoted(f, s, st, e) = ParseQuoted(g, s, st, e)
      BY <2>1 DEF ParseQuoted
    <3>3. ParseQuoted(f, s, st, e).next = f[st + 1].argument[e].next
      BY DEF ParseQuoted, Result
    <3>4. f[st + 1].argument[e].next \in (st + 1)..(e + 1)
      <4>1. e \in (st + 1 - 1)..Len(s)
        BY <1>1, <1>2, <2>1
      <4> QED BY <1>1, <1>2, <2>1, <4>1, GoesAt
    <3> QED BY <1>1, <1>2, <3>1, <3>2, <3>3, <3>4 DEF Advances
  <2>5. CASE s[st] \notin Opening /\ s[st] \notin Strings /\ s[st] # "'"
    <3>1. ParseArgument(f, s, i, e) = ParseStaticType(s, st)
          /\ ParseArgument(g, s, i, e) = ParseStaticType(s, st)
      BY <1>4, <2>5 DEF ParseArgument, st
    <3> QED BY <1>1, <1>2, <2>1, <3>1 DEF ParseStaticType, Advances, Result, NoCell
  <2> QED BY <2>2, <2>3, <2>4, <2>5
<1> QED BY <1>3, <1>4

LEMMA LoopsLocal ==
  ASSUME NEW s, Len(s) \in Nat, NEW i \in 1..(Len(s) + 1), NEW e \in (i - 1)..Len(s),
         NEW f, NEW g, \A j \in (i + 1)..(Len(s) + 1) : f[j] = g[j],
         Goes(f, s, i + 1)
  PROVE  /\ Items(f, s, i, e) = Items(g, s, i, e)
         /\ Line(f, s, i, e) = Line(g, s, i, e)
         /\ Line(f, s, i, e).next \in i..(e + 1)
<1> DEFINE a == ParseArgument(f, s, i, e)
<1>1. i \in Nat /\ e \in Int /\ e <= Len(s) /\ i <= e + 1
  OBVIOUS
<1>2. a = ParseArgument(g, s, i, e) /\ a.next \in i..(e + 1)
      /\ (a.cell # NoCell => a.next > i)
  BY ArgumentLocal DEF Advances
<1>3. a.cell # NoCell =>
        a.next \in (i + 1)..(Len(s) + 1) /\ e \in (a.next - 1)..Len(s)
        /\ f[a.next] = g[a.next]
  BY <1>1, <1>2
<1>4. Items(f, s, i, e) = Items(g, s, i, e)
  BY <1>2, <1>3 DEF Items
<1>5. Line(f, s, i, e) = Line(g, s, i, e)
  BY <1>2, <1>3 DEF Line
<1>6. Line(f, s, i, e).next \in i..(e + 1)
  <2>1. CASE i > e \/ s[i] = "nl"
    <3>1. Line(f, s, i, e).next = Skip(s, i, e)
      BY <2>1 DEF Line, Cells
    <3>2. Skip(s, i, e) \in i..(e + 1)
      BY <1>1, SkipFacts, Zenon
    <3> QED BY <3>1, <3>2
  <2>2. CASE ~(i > e \/ s[i] = "nl") /\ a.cell = NoCell
    <3>1. Line(f, s, i, e).next = a.next
      BY <2>2 DEF Line, Ended, Cells
    <3> QED BY <1>2, <3>1
  <2>3. CASE ~(i > e \/ s[i] = "nl") /\ a.cell # NoCell
    <3>1. Line(f, s, i, e).next = f[a.next].line[e].next
      BY <2>3 DEF Line, Prepended, Cells
    <3>2. f[a.next].line[e].next \in (a.next)..(e + 1)
      BY <1>3, <2>3 DEF Goes
    <3> QED BY <1>1, <1>2, <3>1, <3>2
  <2> QED BY <2>1, <2>2, <2>3
<1> QED BY <1>4, <1>5, <1>6

LEMMA ExpressionsLocal ==
  ASSUME NEW s, Len(s) \in Nat, NEW i \in 1..(Len(s) + 1), NEW e \in (i - 1)..Len(s),
         NEW f, NEW g, \A j \in (i + 1)..(Len(s) + 1) : f[j] = g[j],
         Goes(f, s, i + 1)
  PROVE  /\ Expressions(f, s, i, e) = Expressions(g, s, i, e)
         /\ ~(Skip(s, i, e) > e) /\ ParseExpression(f, s, Skip(s, i, e), e).cell # NoCell =>
              ParseExpression(f, s, Skip(s, i, e), e).next \in (i + 1)..(e + 1)
<1> DEFINE st == Skip(s, i, e)
           x == ParseExpression(f, s, st, e)
<1>1. i \in Nat /\ e \in Int /\ e <= Len(s) /\ i <= e + 1
  OBVIOUS
<1>2. st \in i..(e + 1) /\ st \in Nat
  <2>1. st \in i..(e + 1)
    BY <1>1, SkipFacts, Zenon
  <2> HIDE DEF st
  <2> QED BY <1>1, <2>1
<1> HIDE DEF st
<1>3. CASE st > e
  BY <1>3 DEF Expressions, st
<1>4. CASE ~(st > e)
  <2>1. st + 1 \in (i + 1)..(Len(s) + 1) /\ f[st + 1] = g[st + 1] /\ st <= e
        /\ e \in (st + 1 - 1)..Len(s)
    BY <1>1, <1>2, <1>4
  <2>2. x = ParseExpression(g, s, st, e)
        /\ (x.cell # NoCell => x.next \in (i + 1)..(e + 1))
    <3>1. CASE s[st] \in Opening
      <4>1. x = ParseExplicitList(f, s, st, e)
            /\ ParseExpression(g, s, st, e) = ParseExplicitList(g, s, st, e)
        BY <3>1 DEF ParseExpression, Opening
      <4>2. ParseExplicitList(f, s, st, e) = ParseExplicitList(g, s, st, e)
        BY <2>1 DEF ParseExplicitList
      <4>3. CASE GroupEnds(s, st, e) = {}
        <5>1. ParseExplicitList(f, s, st, e) = Result(NoCell, st, {"unterminated"})
          BY <4>3 DEF ParseExplicitList
        <5>2. x = Result(NoCell, st, {"unterminated"})
          BY <4>1, <5>1
        <5>3. x.cell = NoCell
          BY <5>2, ResultFields
        <5> QED BY <4>1, <4>2, <5>3
      <4>4. CASE GroupEnds(s, st, e) # {}
        <5>1. GroupEnd(s, st, e) \in (st + 1)..e
          BY <1>1, <1>2, <4>4, GroupEndFacts
        <5>2. ParseExplicitList(f, s, st, e).next = GroupEnd(s, st, e) + 1
          BY <4>4 DEF ParseExplicitList, Result
        <5> QED BY <1>1, <1>2, <4>1, <4>2, <5>1, <5>2
      <4> QED BY <4>3, <4>4
    <3>2. CASE s[st] = "'"
      <4>1. x = ParseQuoted(f, s, st, e)
            /\ ParseExpression(g, s, st, e) = ParseQuoted(g, s, st, e)
        BY <3>2 DEF ParseExpression, Opening
      <4>2. ParseQuoted(f, s, st, e) = ParseQuoted(g, s, st, e)
        BY <2>1 DEF ParseQuoted
      <4>3. ParseQuoted(f, s, st, e).next = f[st + 1].argument[e].next
        BY DEF ParseQuoted, Result
      <4>4. f[st + 1].argument[e].next \in (st + 1)..(e + 1)
        BY <1>1, <1>2, <2>1, GoesAt
      <4> QED BY <1>1, <1>2, <4>1, <4>2, <4>3, <4>4
    <3>3. CASE s[st] \notin Opening /\ s[st] # "'"
      <4>1. x = ParseVirtualList(f, s, st, e)
            /\ ParseExpression(g, s, st, e) = ParseVirtualList(g, s, st, e)
        BY <3>3 DEF ParseExpression
      <4>2. ParseVirtualList(f, s, st, e) = ParseVirtualList(g, s, st, e)
        BY <2>1 DEF ParseVirtualList
      <4>3. f[st + 1].line[e].next \in (st + 1)..(e + 1)
        BY <1>1, <1>2, <2>1, GoesAt
      <4>4. CASE s[st] = "sym"
        <5>1. ParseVirtualList(f, s, st, e).next = f[st + 1].line[e].next
          BY <4>4 DEF ParseVirtualList, Result
        <5> QED BY <1>1, <1>2, <4>1, <4>2, <4>3, <5>1
      <4>5. CASE s[st] # "sym"
        BY <4>1, <4>2, <4>5 DEF ParseVirtualList, Result, NoCell
      <4> QED BY <4>4, <4>5
    <3> QED BY <3>1, <3>2, <3>3
  <2>3. x.cell # NoCell => f[x.next] = g[x.next]
    <3>1. \A j \in (i + 1)..(e + 1) : j \in (i + 1)..(Len(s) + 1)
      BY <1>1
    <3> HIDE DEF x
    <3> QED BY <2>2, <3>1
  <2> QED BY <2>2, <2>3 DEF Expressions, st
<1> QED BY <1>3, <1>4

(* One position more is as well behaved as those behind it.                *)
LEMMA GoesOn ==
  ASSUME NEW s, Len(s) \in Nat, NEW k \in 1..(Len(s) + 2), NEW f,
         f = [j \in k..(Len(s) + 1) |-> Row(f, s, j)],
         NEW i \in k..(Len(s) + 1), Goes(f, s, i + 1)
  PROVE  Goes(f, s, i)
<1>1. i \in 1..(Len(s) + 1) /\ i \in Nat
  OBVIOUS
<1>2. f[i] = Row(f, s, i)
  OBVIOUS
<1>3. ASSUME NEW e \in (i - 1)..Len(s)
      PROVE  Advances(f[i].argument[e], i, e) /\ f[i].line[e].next \in i..(e + 1)
  <2>1. f[i].argument[e] = ParseArgument(f, s, i, e) /\ f[i].line[e] = Line(f, s, i, e)
    <3>1. Row(f, s, i).argument[e] = ParseArgument(f, s, i, e)
          /\ Row(f, s, i).line[e] = Line(f, s, i, e)
      BY RowAt
    <3> QED BY <1>2, <3>1
  <2>2. Advances(ParseArgument(f, s, i, e), i, e) /\ Line(f, s, i, e).next \in i..(e + 1)
    BY <1>1, ArgumentLocal, LoopsLocal
  <2> QED BY <2>1, <2>2
<1>4. ASSUME NEW j \in i..(Len(s) + 1), NEW e \in (j - 1)..Len(s)
      PROVE  Advances(f[j].argument[e], j, e) /\ f[j].line[e].next \in j..(e + 1)
  <2>1. CASE j = i
    BY <1>3, <2>1
  <2>2. CASE j # i
    <3>1. j \in (i + 1)..(Len(s) + 1)
      BY <1>1, <2>2
    <3> QED BY <3>1 DEF Goes
  <2> QED BY <2>1, <2>2
<1> QED BY <1>4 DEF Goes

LEMMA GoesEverywhere ==
  ASSUME NEW s, Len(s) \in Nat, NEW k \in 1..(Len(s) + 2), NEW f,
         f = [i \in k..(Len(s) + 1) |-> Row(f, s, i)]
  PROVE  Goes(f, s, k)
<1> DEFINE N == Len(s) + 2
           Bad == {n \in Nat : n <= N - k /\ ~Goes(f, s, N - n)}
<1>1. k \in Nat /\ N \in Nat /\ k <= N /\ 1 <= k
  OBVIOUS
<1>2. ASSUME Bad # {} PROVE FALSE
  <2>1. Bad \in SUBSET Nat
    OBVIOUS
  <2>2. PICK n \in Bad : \A m \in Bad : n <= m
    <3> HIDE DEF Bad
    <3> QED BY <1>2, <2>1, Least
  <2>3. n \in Nat /\ n <= N - k /\ ~Goes(f, s, N - n)
    BY <2>2
  <2>4. CASE n = 0
    <3>1. N - n = N
      BY <1>1, <2>4
    <3>2. Goes(f, s, N)
      <4>1. \A i \in N..(Len(s) + 1) : FALSE
        OBVIOUS
      <4> QED BY <4>1 DEF Goes
    <3> QED BY <2>3, <3>1, <3>2
  <2>5. CASE n # 0
    <3> DEFINE i == N - n
    <3>1. n - 1 \in Nat /\ n - 1 <= N - k /\ n - 1 < n /\ N - (n - 1) = i + 1
          /\ i \in k..(Len(s) + 1)
      BY <1>1, <2>3, <2>5
    <3>2. Goes(f, s, N - (n - 1))
      BY <2>2, <2>3, <3>1
    <3>3. Goes(f, s, i + 1)
      BY <3>1, <3>2
    <3> HIDE DEF i
    <3>4. Goes(f, s, i)
      BY <3>1, <3>3, GoesOn
    <3> QED BY <2>3, <3>4 DEF i
  <2> QED BY <2>4, <2>5
<1>3. N - (N - k) = k /\ N - k \in Nat /\ N - k <= N - k
  BY <1>1
<1>4. N - k \notin Bad
  BY <1>2
<1> QED BY <1>3, <1>4

(* A function that solves the equation from k + 1 on extends to k.         *)
LEMMA ParserExtends ==
  ASSUME NEW s, Len(s) \in Nat, NEW k \in 1..(Len(s) + 1), NEW g,
         g = [i \in (k + 1)..(Len(s) + 1) |-> Row(g, s, i)]
  PROVE  \E f : f = [i \in k..(Len(s) + 1) |-> Row(f, s, i)]
<1> DEFINE f == [i \in k..(Len(s) + 1) |-> IF i = k THEN Row(g, s, k) ELSE g[i]]
<1>1. k \in Nat /\ 1 <= k /\ k + 1 \in 1..(Len(s) + 2)
  OBVIOUS
<1>2. Goes(g, s, k + 1)
  BY <1>1, GoesEverywhere
<1>3. f[k] = Row(g, s, k) /\ \A j \in (k + 1)..(Len(s) + 1) : g[j] = f[j]
  BY <1>1
<1>4. DOMAIN f = k..(Len(s) + 1) /\ f = [i \in k..(Len(s) + 1) |-> f[i]]
  OBVIOUS
<1> HIDE DEF f
<1>5. ASSUME NEW i \in k..(Len(s) + 1) PROVE f[i] = Row(f, s, i)
  <2>1. i \in 1..(Len(s) + 1) /\ \A j \in (i + 1)..(Len(s) + 1) : g[j] = f[j]
    BY <1>1, <1>3
  <2>2. Goes(g, s, i + 1)
    <3>1. \A j \in (i + 1)..(Len(s) + 1) : j \in (k + 1)..(Len(s) + 1)
      BY <1>1
    <3> QED BY <1>2, <3>1 DEF Goes
  <2>3. ASSUME NEW e \in (i - 1)..Len(s)
        PROVE  /\ ParseArgument(g, s, i, e) = ParseArgument(f, s, i, e)
               /\ Items(g, s, i, e) = Items(f, s, i, e)
               /\ Line(g, s, i, e) = Line(f, s, i, e)
               /\ Expressions(g, s, i, e) = Expressions(f, s, i, e)
    BY <2>1, <2>2, ArgumentLocal, LoopsLocal, ExpressionsLocal
  <2>4. Row(g, s, i) = Row(f, s, i)
    BY <2>3 DEF Row
  <2>5. f[i] = Row(g, s, i)
    BY <1>1, <1>3
  <2> QED BY <2>4, <2>5
<1>6. f = [i \in k..(Len(s) + 1) |-> Row(f, s, i)]
  BY <1>4, <1>5
<1> QED BY <1>6

LEMMA ParserIs ==
  ASSUME NEW s, Len(s) \in Nat
  PROVE  /\ Parser(s) = [i \in 1..(Len(s) + 1) |-> Row(Parser(s), s, i)]
         /\ Goes(Parser(s), s, 1)
<1> DEFINE N == Len(s) + 2
           Solved(k) == \E f : f = [i \in k..(Len(s) + 1) |-> Row(f, s, i)]
           Bad == {n \in Nat : n <= N - 1 /\ ~Solved(N - n)}
<1>1. N \in Nat /\ 1 <= N
  OBVIOUS
<1>2. ASSUME Bad # {} PROVE FALSE
  <2>1. Bad \in SUBSET Nat
    OBVIOUS
  <2>2. PICK n \in Bad : \A m \in Bad : n <= m
    <3> HIDE DEF Bad
    <3> QED BY <1>2, <2>1, Least
  <2>3. n \in Nat /\ n <= N - 1 /\ ~Solved(N - n) /\ \A m \in Nat : m < n => Solved(N - m)
    <3> HIDE DEF Solved
    <3> QED BY <1>1, <2>2
  <2>4. CASE n = 0
    <3>1. N - n = N
      BY <1>1, <2>4
    <3>2. Solved(N)
      <4>1. N..(Len(s) + 1) = {}
        OBVIOUS
      <4>2. <<>> = [i \in N..(Len(s) + 1) |-> Row(<<>>, s, i)]
        BY <4>1
      <4> QED BY <4>2
    <3> HIDE DEF Solved
    <3> QED BY <2>3, <3>1, <3>2
  <2>5. CASE n # 0
    <3> DEFINE k == N - n
    <3>1. n - 1 \in Nat /\ n - 1 < n /\ N - (n - 1) = k + 1 /\ k \in 1..(Len(s) + 1)
      BY <1>1, <2>3, <2>5
    <3>2. Solved(k + 1)
      <4> HIDE DEF Solved
      <4> QED BY <2>3, <3>1
    <3> HIDE DEF k
    <3>3. Solved(k)
      BY <3>1, <3>2, ParserExtends
    <3> HIDE DEF Solved
    <3> QED BY <2>3, <3>3 DEF k
  <2> QED BY <2>4, <2>5
<1>3. Solved(1)
  <2>1. N - (N - 1) = 1 /\ N - 1 \in Nat /\ N - 1 <= N - 1 /\ N - 1 \notin Bad
    BY <1>1, <1>2
  <2> HIDE DEF Solved
  <2> QED BY <2>1
<1>4. Parser(s) = CHOOSE f : f = [i \in 1..(Len(s) + 1) |-> Row(f, s, i)]
  BY DEF Parser, Row
<1>5. Parser(s) = [i \in 1..(Len(s) + 1) |-> Row(Parser(s), s, i)]
  BY <1>3, <1>4
<1> QED BY <1>5, GoesEverywhere

LEMMA ParserAt ==
  ASSUME NEW s, Len(s) \in Nat, NEW i \in 1..(Len(s) + 1), NEW e \in (i - 1)..Len(s)
  PROVE  /\ Parser(s)[i].argument[e] = ParseArgument(Parser(s), s, i, e)
         /\ Parser(s)[i].items[e] = Items(Parser(s), s, i, e)
         /\ Parser(s)[i].line[e] = Line(Parser(s), s, i, e)
         /\ Parser(s)[i].expressions[e] = Expressions(Parser(s), s, i, e)
<1> DEFINE f == Parser(s)
<1>1. f = [j \in 1..(Len(s) + 1) |-> Row(f, s, j)]
  BY ParserIs
<1> HIDE DEF f
<1>2. f[i] = Row(f, s, i)
  BY <1>1
<1>3. /\ Row(f, s, i).argument[e] = ParseArgument(f, s, i, e)
      /\ Row(f, s, i).items[e] = Items(f, s, i, e)
      /\ Row(f, s, i).line[e] = Line(f, s, i, e)
      /\ Row(f, s, i).expressions[e] = Expressions(f, s, i, e)
  BY RowAt
<1> QED BY <1>2, <1>3 DEF f

-----------------------------------------------------------------------------
(***************************************************************************)
(* The lists that are open: their recursion is well founded, too.          *)
(***************************************************************************)
OpenRow(f, s, i) ==
  IF i = 0 THEN <<OpenList("text", <<>>, 0)>>
  ELSE IF f[i - 1] = Misplaced THEN Misplaced
  ELSE TakeToken(s, f[i - 1], i)

LEMMA OpenListsIs ==
  ASSUME NEW s, Len(s) \in Nat
  PROVE  OpenLists(s) = [i \in 0..Len(s) |-> OpenRow(OpenLists(s), s, i)]
<1> DEFINE Solved(n) == \E f : f = [i \in 0..n |-> OpenRow(f, s, i)]
           Bad == {n \in Nat : ~Solved(n)}
<1>1. ASSUME Bad # {} PROVE FALSE
  <2>1. Bad \in SUBSET Nat
    OBVIOUS
  <2>2. PICK n \in Bad : \A m \in Bad : n <= m
    <3> HIDE DEF Bad
    <3> QED BY <1>1, <2>1, Least
  <2>3. n \in Nat /\ ~Solved(n) /\ \A m \in Nat : m < n => Solved(m)
    <3> HIDE DEF Solved
    <3> QED BY <2>2
  <2>4. CASE n = 0
    <3> DEFINE f == [i \in 0..0 |-> <<OpenList("text", <<>>, 0)>>]
    <3>1. \A i \in 0..0 : OpenRow(f, s, i) = <<OpenList("text", <<>>, 0)>>
      BY DEF OpenRow
    <3>2. f = [i \in 0..0 |-> OpenRow(f, s, i)]
      BY <3>1
    <3>3. Solved(0)
      BY <3>2
    <3> HIDE DEF Solved
    <3> QED BY <2>3, <2>4, <3>3
  <2>5. CASE n # 0
    <3>1. n - 1 \in Nat /\ n - 1 < n
      BY <2>3, <2>5
    <3>2. Solved(n - 1)
      <4> HIDE DEF Solved
      <4> QED BY <2>3, <3>1
    <3>3. PICK g : g = [i \in 0..(n - 1) |-> OpenRow(g, s, i)]
      BY <3>2
    <3> DEFINE f == [i \in 0..n |-> IF i = n THEN OpenRow(g, s, n) ELSE g[i]]
    <3>4. f = [i \in 0..n |-> f[i]] /\ f[n] = OpenRow(g, s, n)
          /\ \A i \in 0..(n - 1) : f[i] = g[i]
      BY <2>3
    <3> HIDE DEF f
    <3>5. ASSUME NEW i \in 0..n PROVE f[i] = OpenRow(f, s, i)
      <4>0. i # 0 => i - 1 \in 0..(n - 1)
        BY <2>3
      <4>1. i # 0 => f[i - 1] = g[i - 1]
        BY <3>4, <4>0
      <4>2. OpenRow(g, s, i) = OpenRow(f, s, i)
        BY <4>1 DEF OpenRow
      <4>3. i # n => i \in 0..(n - 1)
        BY <2>3
      <4>4. i # n => g[i] = OpenRow(g, s, i)
        BY <3>3, <4>3
      <4> QED BY <3>4, <4>2, <4>3, <4>4
    <3>6. f = [i \in 0..n |-> OpenRow(f, s, i)]
      BY <3>4, <3>5
    <3>7. Solved(n)
      BY <3>6
    <3> HIDE DEF Solved
    <3> QED BY <2>3, <3>7
  <2> QED BY <2>4, <2>5
<1>2. Solved(Len(s))
  <2> HIDE DEF Solved
  <2> QED BY <1>1
<1>3. OpenLists(s) = CHOOSE f : f = [i \in 0..Len(s) |-> OpenRow(f, s, i)]
  BY DEF OpenLists, OpenRow
<1> QED BY <1>2, <1>3

AnyToken == Opening \cup Closing \cup StaticTypes \cup Strings \cup {"'", "nl"}

Atoms == StaticTypes \cup {"str"}

(* A text may be anything.                                                 *)
LEMMA OpenListsAt ==
  ASSUME NEW s \in Seq(AnyToken)
  PROVE  /\ Len(s) \in Nat
         /\ OpenLists(s)[0] = <<OpenList("text", <<>>, 0)>>
         /\ \A i \in 1..Len(s) :
              /\ s[i] \in AnyToken
              /\ OpenLists(s)[i - 1] = Misplaced => OpenLists(s)[i] = Misplaced
              /\ OpenLists(s)[i - 1] # Misplaced =>
                   OpenLists(s)[i] = TakeToken(s, OpenLists(s)[i - 1], i)
<1> DEFINE f == OpenLists(s)
<1>1. Len(s) \in Nat /\ \A i \in 1..Len(s) : s[i] \in AnyToken
  OBVIOUS
<1>2. f = [i \in 0..Len(s) |-> OpenRow(f, s, i)]
  BY <1>1, OpenListsIs
<1> HIDE DEF f
<1>3. \A i \in 0..Len(s) : f[i] = OpenRow(f, s, i)
  BY <1>2
<1>4. f[0] = <<OpenList("text", <<>>, 0)>>
  <2>1. 0 \in 0..Len(s)
    BY <1>1
  <2> QED BY <1>3, <2>1 DEF OpenRow
<1>5. ASSUME NEW i \in 1..Len(s)
      PROVE  f[i] = IF f[i - 1] = Misplaced THEN Misplaced ELSE TakeToken(s, f[i - 1], i)
  <2>1. i \in 0..Len(s) /\ i # 0
    BY <1>1
  <2> QED BY <1>3, <2>1 DEF OpenRow
<1> QED BY <1>1, <1>4, <1>5 DEF f

-----------------------------------------------------------------------------
(***************************************************************************)
(* The lists that are open after each token of a text.                     *)
(***************************************************************************)
IsOpenList(list) == list = OpenList(list.kind, list.cells, list.quote)

SameKinds(open, after, n) == \A d \in 1..n : after[d].kind = open[d].kind

Kind == {"text", "line", "string"} \cup Opening

StackOK(open) ==
  /\ IsSeq(open) /\ Len(open) >= 1
  /\ \A d \in 1..Len(open) :
       /\ IsOpenList(open[d])
       /\ open[d].kind \in Kind
       /\ IsSeq(open[d].cells)
       /\ open[d].kind = "text" <=> d = 1
       /\ open[d].kind = "line" => d = 2

LEMMA OpenListFields ==
  ASSUME NEW kind, NEW cells, NEW quote
  PROVE  /\ OpenList(kind, cells, quote).kind = kind
         /\ OpenList(kind, cells, quote).cells = cells
         /\ OpenList(kind, cells, quote).quote = quote
BY DEF OpenList

LEMMA BracketFacts ==
  /\ \A o \in Opening : CloserOf[o] \in Closing /\ o \notin Closing /\ o # "sym" /\ o # "nl"
  /\ \A c \in Closing : c \notin Opening /\ c # "sym" /\ c # "nl"
  /\ \A o \in Opening, p \in Opening : CloserOf[o] = CloserOf[p] => o = p
BY DEF Opening, Closing, CloserOf

LEMMA InnermostOK ==
  ASSUME NEW open, StackOK(open)
  PROVE  /\ Len(open) \in Nat /\ Len(open) \in 1..Len(open) /\ Len(open) - 1 \in Nat
         /\ open # Misplaced
         /\ IsOpenList(Innermost(open))
         /\ Innermost(open).kind \in Kind
         /\ IsSeq(Innermost(open).cells)
         /\ Innermost(open).kind = "text" <=> Len(open) = 1
         /\ Innermost(open).kind = "line" => Len(open) = 2
<1>1. IsSeq(open) /\ Len(open) >= 1
  BY DEF StackOK
<1>2. Len(open) \in Nat
  BY <1>1, IsSeqFacts
<1>3. Len(open) \in 1..Len(open) /\ Len(open) - 1 \in Nat
  BY <1>1, <1>2
<1>4. open # Misplaced
  BY <1>1, EmptyIsSeq DEF Misplaced
<1> QED BY <1>2, <1>3, <1>4 DEF StackOK, Innermost

(* Other cells and another quote in the innermost list.                    *)
Retopped(open, after, cells, quote) ==
  /\ StackOK(after) /\ Len(after) = Len(open)
  /\ SameKinds(open, after, Len(open))
  /\ Innermost(after).kind = Innermost(open).kind
  /\ Innermost(after).cells = cells /\ Innermost(after).quote = quote
  /\ Outer(after) = Outer(open)
  /\ \A list : WithInnermost(after, list) = WithInnermost(open, list)

LEMMA Topped ==
  ASSUME NEW open, StackOK(open), NEW cells, IsSeq(cells), NEW quote
  PROVE  Retopped(open, WithInnermost(open, OpenList(Innermost(open).kind, cells, quote)),
                  cells, quote)
<1> DEFINE n == Len(open)
           list == OpenList(Innermost(open).kind, cells, quote)
           after == WithInnermost(open, list)
<1>1. IsSeq(open) /\ n >= 1 /\ n \in Nat /\ n \in 1..n
  BY InnermostOK DEF StackOK
<1>2. after = [open EXCEPT ![n] = list]
  BY DEF WithInnermost, after
<1>3. list.kind = Innermost(open).kind /\ list.cells = cells /\ list.quote = quote
      /\ IsOpenList(list)
  BY OpenListFields DEF IsOpenList
<1> HIDE DEF list, after
<1>4. IsSeq(after) /\ Len(after) = n
      /\ \A d \in 1..n : after[d] = IF d = n THEN list ELSE open[d]
  <2>1. /\ IsSeq([open EXCEPT ![n] = list]) /\ Len([open EXCEPT ![n] = list]) = Len(open)
        /\ \A d \in 1..Len(open) : [open EXCEPT ![n] = list][d] = IF d = n THEN list ELSE open[d]
    <3>1. PlaceReplaced(open, n, list)
      BY <1>1, ReplacedSeq
    <3> QED BY <3>1 DEF PlaceReplaced
  <2> QED BY <1>2, <2>1
<1>5. after[n] = list /\ list.kind = open[n].kind
  BY <1>1, <1>3, <1>4 DEF Innermost
<1>6. Innermost(after) = list
  BY <1>4, <1>5 DEF Innermost
<1>7. SameKinds(open, after, n)
  BY <1>4, <1>5 DEF SameKinds
<1>8. ASSUME NEW d \in 1..Len(after)
      PROVE  /\ IsOpenList(after[d])
             /\ after[d].kind \in Kind
             /\ IsSeq(after[d].cells)
             /\ after[d].kind = "text" <=> d = 1
             /\ after[d].kind = "line" => d = 2
  <2>1. d \in 1..n /\ after[d].kind = open[d].kind
    BY <1>4, <1>7 DEF SameKinds
  <2>2. CASE d = n
    <3>1. after[d] = list
      BY <1>5, <2>2
    <3> QED BY <1>3, <2>1, <3>1 DEF StackOK
  <2>3. CASE d # n
    <3>1. after[d] = open[d]
      BY <1>4, <2>1, <2>3
    <3> QED BY <2>1, <3>1 DEF StackOK
  <2> QED BY <2>2, <2>3
<1>9. StackOK(after)
  BY <1>1, <1>4, <1>8 DEF StackOK
<1>10. Outer(after) = Outer(open)
  <2>1. 1 \in 1..(n + 1) /\ n - 1 \in (1 - 1)..n /\ n - 1 - 1 + 1 = n - 1
    BY <1>1
  <2>2. /\ IsSeq(SubSeq(open, 1, n - 1)) /\ Len(SubSeq(open, 1, n - 1)) = n - 1
        /\ \A k \in 1..(n - 1) : SubSeq(open, 1, n - 1)[k] = open[1 + k - 1]
    BY <1>1, <2>1, PartOfSeq
  <2>3. /\ IsSeq(SubSeq(after, 1, n - 1)) /\ Len(SubSeq(after, 1, n - 1)) = n - 1
        /\ \A k \in 1..(n - 1) : SubSeq(after, 1, n - 1)[k] = after[1 + k - 1]
    BY <1>4, <2>1, PartOfSeq
  <2>4. \A k \in 1..(n - 1) : after[1 + k - 1] = open[1 + k - 1]
    BY <1>1, <1>4
  <2>5. SubSeq(after, 1, n - 1) = SubSeq(open, 1, n - 1)
    BY <2>2, <2>3, <2>4, SameSeq
  <2> QED BY <1>4, <2>5 DEF Outer
<1>11. ASSUME NEW x PROVE WithInnermost(after, x) = WithInnermost(open, x)
  <2>1. WithInnermost(after, x) = [after EXCEPT ![n] = x]
        /\ WithInnermost(open, x) = [open EXCEPT ![n] = x]
    BY <1>4 DEF WithInnermost
  <2>2. [after EXCEPT ![n] = x] = [open EXCEPT ![n] = x]
    BY <1>2
  <2> QED BY <2>1, <2>2
<1> QED BY <1>3, <1>4, <1>6, <1>7, <1>9, <1>10, <1>11 DEF list, after, Retopped

(* Nothing is different where the innermost list is not.                   *)
LEMMA ToppedSame ==
  ASSUME NEW open, StackOK(open)
  PROVE  open = WithInnermost(open, OpenList(Innermost(open).kind, Innermost(open).cells,
                                             Innermost(open).quote))
<1>1. IsSeq(open) /\ Len(open) \in 1..Len(open)
  BY InnermostOK DEF StackOK
<1>2. DOMAIN open = 1..Len(open) /\ open = [d \in DOMAIN open |-> open[d]]
  BY <1>1, IsSeqFacts DEF IsSeq
<1>3. open = [open EXCEPT ![Len(open)] = Innermost(open)]
  BY <1>1, <1>2 DEF Innermost
<1> QED BY <1>3, InnermostOK DEF WithInnermost, IsOpenList

(* A list more.                                                            *)
PushedOn(open, after, kind, cells, quote) ==
  /\ StackOK(after) /\ Len(after) = Len(open) + 1
  /\ SameKinds(open, after, Len(open))
  /\ Innermost(after).kind = kind
  /\ Innermost(after).cells = cells /\ Innermost(after).quote = quote
  /\ Outer(after) = open

LEMMA Pushed ==
  ASSUME NEW open, StackOK(open), NEW kind, NEW cells, IsSeq(cells), NEW quote,
         kind \in Opening \cup {"string"} \/ (kind = "line" /\ Len(open) = 1)
  PROVE  PushedOn(open, Append(open, OpenList(kind, cells, quote)), kind, cells, quote)
<1> DEFINE n == Len(open)
           list == OpenList(kind, cells, quote)
           after == Append(open, list)
<1>1. IsSeq(open) /\ n >= 1 /\ n \in Nat
  BY InnermostOK DEF StackOK
<1>3. list.kind = kind /\ list.cells = cells /\ list.quote = quote
      /\ IsOpenList(list)
  BY OpenListFields DEF IsOpenList
<1> HIDE DEF list, after
<1>4. IsSeq(after) /\ Len(after) = n + 1 /\ after[n + 1] = list
      /\ \A d \in 1..n : after[d] = open[d]
  <2>1. after = Append(open, list)
    BY DEF after
  <2> QED BY <1>1, <2>1, AppendedSeq
<1>5. Innermost(after) = list
  BY <1>4 DEF Innermost
<1>6. ASSUME NEW d \in 1..Len(after)
      PROVE  /\ IsOpenList(after[d])
             /\ after[d].kind \in Kind
             /\ IsSeq(after[d].cells)
             /\ after[d].kind = "text" <=> d = 1
             /\ after[d].kind = "line" => d = 2
  <2>1. d \in 1..(n + 1)
    BY <1>4
  <2>2. CASE d = n + 1
    <3>1. after[d] = list
      BY <1>4, <2>2
    <3>2. list.kind # "text" /\ list.kind \in Kind
          /\ (list.kind = "line" => n + 1 = 2) /\ d # 1
      <4>1. n + 1 # 1 /\ (n = 1 => n + 1 = 2)

        <5>1. \A k \in Nat : k >= 1 => k + 1 # 1 /\ (k = 1 => k + 1 = 2)
          OBVIOUS
        <5> HIDE DEF n
        <5> QED BY <1>1, <5>1
      <4>2. kind # "text" /\ kind \in Kind /\ (kind = "line" => n = 1)
        BY DEF Opening, Kind
      <4> QED BY <1>3, <2>2, <4>1, <4>2
    <3> QED BY <1>3, <2>2, <3>1, <3>2
  <2>3. CASE d # n + 1
    <3>1. d \in 1..n /\ after[d] = open[d]
      BY <1>1, <1>4, <2>1, <2>3
    <3> QED BY <3>1 DEF StackOK
  <2> QED BY <2>2, <2>3
<1>7. StackOK(after)
  BY <1>1, <1>4, <1>6 DEF StackOK
<1>8. Outer(after) = open
  <2>1. 1 \in 1..(Len(after) + 1) /\ n \in (1 - 1)..Len(after) /\ n - 1 + 1 = n
        /\ Len(after) - 1 = n
    BY <1>1, <1>4
  <2>2. /\ IsSeq(SubSeq(after, 1, n)) /\ Len(SubSeq(after, 1, n)) = n
        /\ \A k \in 1..n : SubSeq(after, 1, n)[k] = after[1 + k - 1]
    <3>1. /\ IsSeq(SubSeq(after, 1, n)) /\ Len(SubSeq(after, 1, n)) = n - 1 + 1
          /\ \A k \in 1..(n - 1 + 1) : SubSeq(after, 1, n)[k] = after[1 + k - 1]
      BY <1>4, <2>1, PartOfSeq
    <3> QED BY <2>1, <3>1
  <2>3. \A k \in 1..n : SubSeq(after, 1, n)[k] = open[k]
    BY <1>1, <1>4, <2>2
  <2>4. SubSeq(after, 1, n) = open
    BY <1>1, <2>2, <2>3, SameSeq
  <2> QED BY <2>1, <2>4 DEF Outer
<1>9. SameKinds(open, after, n)
  BY <1>4 DEF SameKinds
<1> QED BY <1>3, <1>4, <1>5, <1>7, <1>8, <1>9 DEF list, after, PushedOn

LEMMA OuterOK ==
  ASSUME NEW open, StackOK(open), Len(open) >= 2
  PROVE  /\ StackOK(Outer(open)) /\ Len(Outer(open)) = Len(open) - 1
         /\ \A d \in 1..(Len(open) - 1) : Outer(open)[d] = open[d]
<1> DEFINE n == Len(open)
           after == Outer(open)
<1>1. IsSeq(open) /\ n >= 1 /\ n \in Nat
  BY InnermostOK DEF StackOK
<1>2. 1 \in 1..(n + 1) /\ n - 1 \in (1 - 1)..n /\ n - 1 - 1 + 1 = n - 1
  BY <1>1
<1>3. IsSeq(after) /\ Len(after) = n - 1 /\ \A k \in 1..(n - 1) : after[k] = open[1 + k - 1]
  BY <1>1, <1>2, PartOfSeq DEF Outer
<1> HIDE DEF after
<1>4. \A k \in 1..(n - 1) : after[k] = open[k] /\ k \in 1..n
  BY <1>1, <1>3
<1>5. \A d \in 1..(n - 1) :
        /\ IsOpenList(after[d])
        /\ after[d].kind \in Kind
        /\ IsSeq(after[d].cells)
        /\ after[d].kind = "text" <=> d = 1
        /\ after[d].kind = "line" => d = 2
  BY <1>4 DEF StackOK
<1>6. StackOK(after)
  BY <1>1, <1>3, <1>5 DEF StackOK
<1> QED BY <1>3, <1>4, <1>6 DEF after

LEMMA TakeIs ==
  ASSUME NEW s, NEW open, NEW i
  PROVE  /\ s[i] = "nl" => TakeToken(s, open, i)
                             = IF LineEnds(open) THEN Closed(s, open, "(", i) ELSE open
         /\ s[i] = "'" => TakeToken(s, open, i) = TakeQuote(open, i)
         /\ s[i] \in Opening =>
              TakeToken(s, open, i) = Append(open, OpenList(s[i], <<>>, 0))
         /\ s[i] \in Closing => TakeToken(s, open, i) = TakeClosing(s, open, i)
         /\ s[i] = "str..." => TakeToken(s, open, i) = TakeOpenString(open)
         /\ s[i] \in Atoms => TakeToken(s, open, i) = TakeAtom(s, open, i)
<1>1. s[i] = "nl" => TakeToken(s, open, i)
                       = IF LineEnds(open) THEN Closed(s, open, "(", i) ELSE open
  BY DEF TakeToken, Opening, Closing
<1>2. s[i] = "'" => TakeToken(s, open, i) = TakeQuote(open, i)
  BY DEF TakeToken, Opening, Closing
<1>3. s[i] \in Opening => TakeToken(s, open, i) = Append(open, OpenList(s[i], <<>>, 0))
  BY DEF TakeToken, Opening, Closing
<1>4. s[i] \in Closing => TakeToken(s, open, i) = TakeClosing(s, open, i)
  BY DEF TakeToken, Opening, Closing
<1>5. s[i] \in Atoms => TakeToken(s, open, i) = TakeAtom(s, open, i)
  BY DEF TakeToken, Opening, Closing, Atoms, StaticTypes
<1>6. s[i] = "str..." => TakeToken(s, open, i) = TakeOpenString(open)
  BY DEF TakeToken, Opening, Closing
<1> QED BY <1>1, <1>2, <1>3, <1>4, <1>5, <1>6

LEMMA AddedFacts ==
  ASSUME NEW s, NEW open, StackOK(open), NEW cell, NEW i
  PROVE  Retopped(open, Added(s, open, cell, i),
                  Append(Innermost(open).cells, Item(s, Innermost(open), cell, i)), 0)
<1> DEFINE cells == Append(Innermost(open).cells, Item(s, Innermost(open), cell, i))
<1>1. IsSeq(cells)
  BY InnermostOK, AppendedSeq
<1>2. Added(s, open, cell, i) = WithInnermost(open, OpenList(Innermost(open).kind, cells, 0))
  BY DEF Added
<1> HIDE DEF cells
<1>3. Retopped(open, Added(s, open, cell, i), cells, 0)
  BY <1>1, <1>2, Topped
<1> QED BY <1>3 DEF cells

(* What a token does to the lists that are open: it keeps them, opens one, *)
(* or closes the innermost.                                                *)
Keeps(open, after, t) ==
  /\ Len(after) = Len(open) /\ SameKinds(open, after, Len(open))
  /\ t \notin Opening \cup Closing

Opens(open, after, t) ==
  /\ Len(after) = Len(open) + 1 /\ SameKinds(open, after, Len(open))
  /\ \/ t \in Opening /\ Innermost(after).kind = t
     \/ t \notin Opening \cup Closing /\ Innermost(after).kind \in {"line", "string"}

Closes(open, after, t) ==
  /\ Len(open) >= 2 /\ Len(after) = Len(open) - 1 /\ SameKinds(open, after, Len(open) - 1)
  /\ \/ Innermost(open).kind \in Opening /\ Innermost(open).quote = 0
        /\ t = CloserOf[Innermost(open).kind]
     \/ t \notin Opening \cup Closing /\ Innermost(open).kind = "line"

LEMMA ClosedFacts ==
  ASSUME NEW s, NEW open, StackOK(open), Len(open) >= 2, NEW kind, NEW i
  PROVE  /\ StackOK(Closed(s, open, kind, i)) /\ Len(Closed(s, open, kind, i)) = Len(open) - 1
         /\ SameKinds(open, Closed(s, open, kind, i), Len(open) - 1)
<1> DEFINE outer == Outer(open)
           after == Closed(s, open, kind, i)
           list == List(kind, Innermost(open).cells)
<1>1. StackOK(outer) /\ Len(outer) = Len(open) - 1
      /\ \A d \in 1..(Len(open) - 1) : outer[d] = open[d]
  BY OuterOK
<1>2. after = Added(s, outer, list, i)
  BY DEF Closed
<1> HIDE DEF outer, after, list
<1>3. Retopped(outer, after, Append(Innermost(outer).cells, Item(s, Innermost(outer), list, i)), 0)
  BY <1>1, <1>2, AddedFacts
<1>4. StackOK(after) /\ Len(after) = Len(outer) /\ SameKinds(outer, after, Len(outer))
  BY <1>3 DEF Retopped
<1>5. SameKinds(open, after, Len(open) - 1)
  BY <1>1, <1>4 DEF SameKinds
<1> QED BY <1>1, <1>4, <1>5 DEF after

LEMMA Taken ==
  ASSUME NEW s, NEW open, StackOK(open), NEW i, s[i] \in AnyToken,
         TakeToken(s, open, i) # Misplaced
  PROVE  /\ StackOK(TakeToken(s, open, i))
         /\ \/ Keeps(open, TakeToken(s, open, i), s[i])
            \/ Opens(open, TakeToken(s, open, i), s[i])
            \/ Closes(open, TakeToken(s, open, i), s[i])
<1> DEFINE L == Innermost(open)
           after == TakeToken(s, open, i)
<1>0. /\ Len(open) \in Nat /\ Len(open) >= 1 /\ L.kind \in Kind
      /\ IsSeq(L.cells) /\ (L.kind = "text" <=> Len(open) = 1)
      /\ (L.kind = "line" => Len(open) = 2)
  BY InnermostOK DEF StackOK
<1>t. after = TakeToken(s, open, i) /\ after # Misplaced
  OBVIOUS
<1> HIDE DEF L, after
<1>k. ASSUME after = open, s[i] \notin Opening \cup Closing
      PROVE  StackOK(after) /\ Keeps(open, after, s[i])
  BY <1>k DEF Keeps, SameKinds
<1>1. CASE s[i] = "nl"
  <2>1. s[i] \notin Opening \cup Closing
    BY <1>1 DEF Opening, Closing
  <2>2. CASE LineEnds(open)
    <3>1. L.kind = "line"
      BY <2>2 DEF LineEnds, L
    <3>2. Len(open) = 2
      BY <1>0, <3>1
    <3>3. after = Closed(s, open, "(", i)
      BY <1>1, <1>t, <2>2, TakeIs
    <3>4. Len(open) >= 2
      BY <3>2
    <3>5. StackOK(after) /\ Len(after) = Len(open) - 1 /\ SameKinds(open, after, Len(open) - 1)
      BY <3>3, <3>4, ClosedFacts
    <3> QED BY <2>1, <3>1, <3>4, <3>5 DEF Closes, L, after
  <2>3. CASE ~LineEnds(open)
    <3>1. after = open
      BY <1>1, <1>t, <2>3, TakeIs
    <3> QED BY <1>k, <2>1, <3>1 DEF after
  <2> QED BY <2>2, <2>3
<1>2. CASE s[i] = "'"
  <2>1. s[i] \notin Opening \cup Closing
    BY <1>2 DEF Opening, Closing
  <2>2. after = TakeQuote(open, i)
    BY <1>2, <1>t, TakeIs
  <2>3. CASE L.quote = 0
    <3>1. after = WithInnermost(open, OpenList(L.kind, L.cells, i))
      BY <2>2, <2>3 DEF TakeQuote, L
    <3>2. Retopped(open, after, L.cells, i)
      BY <1>0, <3>1, Topped DEF L
    <3> QED BY <2>1, <3>2 DEF Keeps, Retopped, after
  <2>4. CASE L.quote # 0
    <3>1. after = open
      BY <2>2, <2>4 DEF TakeQuote, L
    <3> QED BY <1>k, <2>1, <3>1 DEF after
  <2> QED BY <2>3, <2>4
<1>3. CASE s[i] \in Opening
  <2>1. after = Append(open, OpenList(s[i], <<>>, 0))
    BY <1>3, <1>t, TakeIs
  <2>2. PushedOn(open, after, s[i], <<>>, 0)
    BY <1>3, <2>1, EmptyIsSeq, Pushed
  <2> QED BY <1>3, <2>2 DEF Opens, PushedOn, after
<1>4. CASE s[i] \in Closing
  <2>1. after = TakeClosing(s, open, i)
    BY <1>4, <1>t, TakeIs
  <2>2. L.kind \in Opening /\ CloserOf[L.kind] = s[i] /\ L.quote = 0
        /\ after = Closed(s, open, L.kind, i)
    BY <1>t, <2>1 DEF TakeClosing, L
  <2>3. Len(open) >= 2
    <3>1. L.kind # "text"
      BY <2>2 DEF Opening
    <3>2. Len(open) # 1
      BY <1>0, <3>1
    <3>3. \A n \in Nat : n >= 1 /\ n # 1 => n >= 2
      OBVIOUS
    <3> QED BY <1>0, <3>2, <3>3
  <2>4. StackOK(after) /\ Len(after) = Len(open) - 1 /\ SameKinds(open, after, Len(open) - 1)
    BY <2>2, <2>3, ClosedFacts
  <2> QED BY <2>2, <2>3, <2>4 DEF Closes, L, after
<1>5. CASE s[i] \in Atoms
  <2>1. s[i] \notin Opening \cup Closing
    BY <1>5 DEF Opening, Closing, Atoms, StaticTypes
  <2>2. after = TakeAtom(s, open, i)
    BY <1>5, <1>t, TakeIs
  <2>3. CASE ~Outside(open)
    <3>1. after = Added(s, open, Atom(s[i]), i)
      BY <2>2, <2>3 DEF TakeAtom
    <3>2. Retopped(open, after,
                   Append(Innermost(open).cells, Item(s, Innermost(open), Atom(s[i]), i)), 0)
      BY <3>1, AddedFacts
    <3> QED BY <2>1, <3>2 DEF Keeps, Retopped, after
  <2>4. CASE Outside(open)
    <3>1. Len(open) = 1
      BY <1>0, <2>4 DEF Outside, L
    <3>2. after = Append(open, OpenList("line", <<Atom(s[i])>>, 0))
      BY <1>t, <2>2, <2>4 DEF TakeAtom
    <3>3. IsSeq(<<Atom(s[i])>>)
      <4>1. <<Atom(s[i])>> \in Seq({Atom(s[i])})
        OBVIOUS
      <4> QED BY <4>1, SeqIsSeq
    <3>4. PushedOn(open, after, "line", <<Atom(s[i])>>, 0)
      BY <3>1, <3>2, <3>3, Pushed
    <3> QED BY <2>1, <3>4 DEF Opens, PushedOn, after
  <2> QED BY <2>3, <2>4
<1>6. CASE s[i] = "str..."
  <2>1. s[i] \notin Opening \cup Closing
    BY <1>6 DEF Opening, Closing
  <2>2. after = TakeOpenString(open)
    BY <1>6, <1>t, TakeIs
  <2>3. after = Append(open, OpenList("string", <<>>, 0))
    BY <1>t, <2>2 DEF TakeOpenString
  <2>4. PushedOn(open, after, "string", <<>>, 0)
    BY <2>3, EmptyIsSeq, Pushed
  <2> QED BY <2>1, <2>4 DEF Opens, PushedOn, after
<1>7. s[i] \in Opening \cup Closing \cup Atoms \cup {"nl", "'", "str..."}
  BY DEF AnyToken, Atoms, Strings
<1> QED BY <1>1, <1>2, <1>3, <1>4, <1>5, <1>6, <1>7

-----------------------------------------------------------------------------
(***************************************************************************)
(* A text that can be read up to some token can be read up to each token   *)
(* before it, and what is open is well formed there.                       *)
(***************************************************************************)
Live(s, i) == OpenLists(s)[i] # Misplaced

LEMMA Before ==
  ASSUME NEW s \in Seq(AnyToken), NEW n \in 0..Len(s), Live(s, n)
  PROVE  \A i \in 0..n : Live(s, i)
<1> DEFINE S == {i \in 0..n : Live(s, i)}
<1>1. Len(s) \in Nat /\ n \in Int /\ 0 \in Int
  BY OpenListsAt
<1>2. ASSUME NEW k \in 0..n, \A j \in (k + 1)..n : j \in S PROVE k \in S
  <2>1. CASE k = n
    BY <2>1
  <2>2. CASE k # n
    <3>1. k + 1 \in (k + 1)..n /\ k + 1 \in 1..Len(s) /\ k + 1 - 1 = k
      BY <1>1, <2>2
    <3>2. Live(s, k + 1)
      BY <1>2, <3>1
    <3>3. OpenLists(s)[k + 1 - 1] = Misplaced => OpenLists(s)[k + 1] = Misplaced
      BY <3>1, OpenListsAt
    <3> QED BY <3>1, <3>2, <3>3 DEF Live
  <2> QED BY <2>1, <2>2
<1>3. \A k \in 0..n : k \in S
  <2> HIDE DEF S
  <2> QED BY <1>1, <1>2, Downward
<1> QED BY <1>3

LEMMA Along ==
  ASSUME NEW s \in Seq(AnyToken), NEW n \in 0..Len(s), Live(s, n)
  PROVE  \A i \in 0..n : StackOK(OpenLists(s)[i])
<1> DEFINE S == {i \in 0..n : StackOK(OpenLists(s)[i])}
<1>1. Len(s) \in Nat /\ n \in Int /\ 0 \in Int
  BY OpenListsAt
<1>2. 0 \in S
  <2> DEFINE first == OpenList("text", <<>>, 0)
  <2>1. OpenLists(s)[0] = <<first>>
    BY OpenListsAt
  <2>2. first.kind = "text" /\ first.cells = <<>> /\ IsOpenList(first)
    BY OpenListFields DEF IsOpenList
  <2> HIDE DEF first
  <2>3. <<first>> \in Seq({first}) /\ Len(<<first>>) = 1 /\ <<first>>[1] = first
    OBVIOUS
  <2>4. IsSeq(<<first>>)
    BY <2>3, SeqIsSeq
  <2>5. StackOK(<<first>>)
    <3>1. \A d \in 1..Len(<<first>>) : d = 1 /\ <<first>>[d] = first
      BY <2>3
    <3>2. first.kind \in Kind /\ first.kind # "line"
          /\ IsSeq(first.cells)
      BY <2>2, EmptyIsSeq DEF Kind
    <3> QED BY <2>2, <2>3, <2>4, <3>1, <3>2 DEF StackOK
  <2> QED BY <1>1, <2>1, <2>5
<1>3. ASSUME NEW k \in 0..(n - 1), k \in S PROVE k + 1 \in S
  <2>1. k + 1 \in 0..n /\ k + 1 \in 1..Len(s) /\ k + 1 - 1 = k /\ k \in 0..n
    BY <1>1
  <2>2. Live(s, k) /\ Live(s, k + 1)
    BY <2>1, Before
  <2>3. OpenLists(s)[k + 1] = TakeToken(s, OpenLists(s)[k], k + 1) /\ s[k + 1] \in AnyToken
    BY <2>1, <2>2, OpenListsAt DEF Live
  <2>4. StackOK(OpenLists(s)[k]) /\ TakeToken(s, OpenLists(s)[k], k + 1) # Misplaced
    BY <1>3, <2>2, <2>3 DEF Live
  <2>5. StackOK(TakeToken(s, OpenLists(s)[k], k + 1))
    BY <2>3, <2>4, Taken
  <2> QED BY <2>1, <2>3, <2>5
<1>4. \A k \in 0..n : k \in S
  <2> HIDE DEF S
  <2> QED BY <1>1, <1>2, <1>3, Upward
<1> QED BY <1>4

(* One token.                                                              *)
LEMMA StepAlong ==
  ASSUME NEW s \in Seq(AnyToken), NEW n \in 0..Len(s), Live(s, n), NEW k \in 0..(n - 1)
  PROVE  /\ OpenLists(s)[k + 1] = TakeToken(s, OpenLists(s)[k], k + 1)
         /\ s[k + 1] \in AnyToken /\ k + 1 \in 1..Len(s) /\ k + 1 \in 0..n /\ k \in 0..n
         /\ StackOK(OpenLists(s)[k]) /\ StackOK(OpenLists(s)[k + 1])
         /\ Live(s, k) /\ Live(s, k + 1)
         /\ \/ Keeps(OpenLists(s)[k], OpenLists(s)[k + 1], s[k + 1])
            \/ Opens(OpenLists(s)[k], OpenLists(s)[k + 1], s[k + 1])
            \/ Closes(OpenLists(s)[k], OpenLists(s)[k + 1], s[k + 1])
<1>1. Len(s) \in Nat
  BY OpenListsAt
<1>2. k + 1 \in 0..n /\ k + 1 \in 1..Len(s) /\ k + 1 - 1 = k /\ k \in 0..n
  BY <1>1
<1>3. Live(s, k) /\ Live(s, k + 1)
  BY <1>2, Before
<1>4. OpenLists(s)[k + 1] = TakeToken(s, OpenLists(s)[k], k + 1) /\ s[k + 1] \in AnyToken
  BY <1>2, <1>3, OpenListsAt DEF Live
<1>5. StackOK(OpenLists(s)[k]) /\ StackOK(OpenLists(s)[k + 1])
  BY <1>2, Along
<1>6. TakeToken(s, OpenLists(s)[k], k + 1) # Misplaced
  BY <1>3, <1>4 DEF Live
<1>7. \/ Keeps(OpenLists(s)[k], TakeToken(s, OpenLists(s)[k], k + 1), s[k + 1])
      \/ Opens(OpenLists(s)[k], TakeToken(s, OpenLists(s)[k], k + 1), s[k + 1])
      \/ Closes(OpenLists(s)[k], TakeToken(s, OpenLists(s)[k], k + 1), s[k + 1])
  BY <1>4, <1>5, <1>6, Taken
<1>8. \/ Keeps(OpenLists(s)[k], OpenLists(s)[k + 1], s[k + 1])
      \/ Opens(OpenLists(s)[k], OpenLists(s)[k + 1], s[k + 1])
      \/ Closes(OpenLists(s)[k], OpenLists(s)[k + 1], s[k + 1])
  BY <1>4, <1>7
<1> QED BY <1>2, <1>3, <1>4, <1>5, <1>8

(* The lists that stay open keep their kinds.                              *)
LEMMA KindsHold ==
  ASSUME NEW s \in Seq(AnyToken), NEW n \in 0..Len(s), Live(s, n), NEW m \in 0..n,
         NEW D \in Nat, \A k \in m..n : Len(OpenLists(s)[k]) >= D
  PROVE  SameKinds(OpenLists(s)[m], OpenLists(s)[n], D)
<1> DEFINE S == {k \in m..n : SameKinds(OpenLists(s)[m], OpenLists(s)[k], D)}
<1>1. Len(s) \in Nat /\ n \in Int /\ m \in Int /\ m \in m..n /\ n \in m..n
  BY OpenListsAt
<1>2. m \in S
  BY <1>1 DEF SameKinds
<1>3. ASSUME NEW k \in m..(n - 1), k \in S PROVE k + 1 \in S
  <2> DEFINE old == OpenLists(s)[k]
             open == OpenLists(s)[k + 1]
  <2>1. k \in 0..(n - 1) /\ k + 1 \in m..n /\ k \in m..n
    BY <1>1
  <2>2. StackOK(old) /\ StackOK(open)
        /\ (Keeps(old, open, s[k + 1]) \/ Opens(old, open, s[k + 1])
            \/ Closes(old, open, s[k + 1]))
    BY <2>1, StepAlong
  <2>3. Len(old) >= D /\ Len(open) >= D
    BY <2>1
  <2> HIDE DEF old, open
  <2>4. Len(old) \in Nat
    BY <2>2, InnermostOK
  <2>5. SameKinds(old, open, D)
    <3>1. CASE SameKinds(old, open, Len(old))
      BY <2>3, <2>4, <3>1 DEF SameKinds
    <3>2. CASE Closes(old, open, s[k + 1])
      <4>1. D <= Len(old) - 1 /\ SameKinds(old, open, Len(old) - 1)
        BY <2>3, <2>4, <3>2 DEF Closes
      <4> QED BY <2>4, <4>1 DEF SameKinds
    <3> QED BY <2>2, <3>1, <3>2 DEF Keeps, Opens
  <2>6. SameKinds(OpenLists(s)[m], old, D)
    BY <1>3 DEF old
  <2>7. SameKinds(OpenLists(s)[m], open, D)
    BY <2>5, <2>6 DEF SameKinds
  <2> QED BY <2>1, <2>7 DEF open
<1>4. \A k \in m..n : k \in S
  <2> HIDE DEF S
  <2> QED BY <1>1, <1>2, <1>3, Upward
<1> QED BY <1>1, <1>4

-----------------------------------------------------------------------------
(***************************************************************************)
(* Counting brackets.                                                      *)
(***************************************************************************)
LEMMA CountFacts ==
  ASSUME NEW s, NEW t, NEW i \in Int, NEW j \in Int, j >= i - 1
  PROVE  /\ Count(s, t, i, j) \in Nat /\ Count(s, t, i, i - 1) = 0
         /\ s[j + 1] = t => Count(s, t, i, j + 1) = Count(s, t, i, j) + 1
         /\ s[j + 1] # t => Count(s, t, i, j + 1) = Count(s, t, i, j)
<1> DEFINE A == {k \in i..j : s[k] = t}
           B == {k \in i..(j + 1) : s[k] = t}
<1>1. IsFiniteSet(A)
  <2>1. IsFiniteSet(i..j) /\ A \subseteq i..j
    BY FS_Interval
  <2> QED BY <2>1, FS_Subset
<1>2. Cardinality(A) \in Nat
  <2> HIDE DEF A
  <2> QED BY <1>1, FS_CardinalityType
<1>3. Count(s, t, i, i - 1) = 0
  <2>1. {k \in i..(i - 1) : s[k] = t} = {}
    OBVIOUS
  <2>2. Cardinality({}) = 0
    BY FS_EmptySet
  <2> QED BY <2>1, <2>2 DEF Count
<1>4. CASE s[j + 1] = t
  <2>1. B = A \cup {j + 1} /\ j + 1 \notin A
    BY <1>4
  <2> HIDE DEF A, B
  <2>2. Cardinality(A \cup {j + 1}) = Cardinality(A) + 1
    BY <1>1, <2>1, FS_AddElement
  <2>3. Cardinality(B) = Cardinality(A) + 1
    BY <2>1, <2>2
  <2> QED BY <1>2, <1>3, <1>4, <2>3 DEF A, B, Count
<1>5. CASE s[j + 1] # t
  <2>1. B = A
    BY <1>5
  <2> QED BY <1>2, <1>3, <1>5, <2>1 DEF Count
<1> QED BY <1>4, <1>5

LEMMA SameCount ==
  ASSUME NEW s, NEW r, NEW t, NEW i \in Int, NEW j \in Int, \A k \in i..j : s[k] = r[k]
  PROVE  Count(s, t, i, j) = Count(r, t, i, j)
<1>1. {k \in i..j : s[k] = t} = {k \in i..j : r[k] = t}
  OBVIOUS
<1> QED BY <1>1 DEF Count

(* The lists of a kind that are open above a depth.                        *)
Kinds(open) == [d \in 1..Len(open) |-> open[d].kind]

Above(open, t, D) == Count(Kinds(open), t, D + 1, Len(open))

LEMMA CountStep ==
  ASSUME NEW old, StackOK(old), NEW open, StackOK(open), NEW token,
         Keeps(old, open, token) \/ Opens(old, open, token) \/ Closes(old, open, token),
         NEW D \in Nat, Len(old) >= D, Len(open) >= D, NEW t \in Opening
  PROVE  /\ Above(old, t, D) \in Nat /\ Above(open, t, D) \in Nat
         /\ token = t => Above(open, t, D) = Above(old, t, D) + 1
         /\ token = CloserOf[t] => Above(old, t, D) = Above(open, t, D) + 1
         /\ token # t /\ token # CloserOf[t] => Above(open, t, D) = Above(old, t, D)
         /\ t # CloserOf[t]
         /\ token = CloserOf[t] =>
              Innermost(old).kind = t /\ Innermost(old).quote = 0
              /\ Len(open) = Len(old) - 1
<1> DEFINE m == Len(old)
           n == Len(open)
           f == Kinds(old)
           g == Kinds(open)
<1>1. m \in Nat /\ n \in Nat /\ m \in 1..m /\ n \in 1..n /\ D \in Int /\ D + 1 \in Int
      /\ m >= D + 1 - 1 /\ n >= D + 1 - 1
  BY InnermostOK
<1>2. /\ \A d \in 1..m : f[d] = old[d].kind
      /\ \A d \in 1..n : g[d] = open[d].kind
      /\ f[m] = Innermost(old).kind /\ g[n] = Innermost(open).kind
  BY <1>1 DEF Kinds, Innermost
<1>3. Above(old, t, D) = Count(f, t, D + 1, m) /\ Above(open, t, D) = Count(g, t, D + 1, n)
  BY DEF Above
<1>4. t \notin Closing /\ CloserOf[t] \in Closing /\ CloserOf[t] \notin Opening
      /\ t \notin {"line", "string"} /\ t # CloserOf[t]
  BY BracketFacts DEF Opening
<1> HIDE DEF m, n, f, g
<1>5. Count(f, t, D + 1, m) \in Nat /\ Count(g, t, D + 1, n) \in Nat
  BY <1>1, CountFacts
<1>6. CASE Keeps(old, open, token)
  <2>1. m = n /\ SameKinds(old, open, m) /\ token \notin Opening \cup Closing
    BY <1>6 DEF Keeps, m, n
  <2>2. \A d \in (D + 1)..m : f[d] = g[d]
    BY <1>1, <1>2, <2>1 DEF SameKinds
  <2>3. Count(f, t, D + 1, m) = Count(g, t, D + 1, n)
    BY <1>1, <2>1, <2>2, SameCount
  <2> QED BY <1>3, <1>4, <1>5, <2>1, <2>3
<1>7. CASE Opens(old, open, token)
  <2>1. n = m + 1 /\ SameKinds(old, open, m)
        /\ \/ token \in Opening /\ g[n] = token
           \/ token \notin Opening \cup Closing /\ g[n] \in {"line", "string"}
    <3>1. n = m + 1 /\ SameKinds(old, open, m)
      BY <1>7 DEF Opens, m, n
    <3>2. \/ token \in Opening /\ Innermost(open).kind = token
          \/ token \notin Opening \cup Closing /\ Innermost(open).kind \in {"line", "string"}
      BY <1>7 DEF Opens
    <3> QED BY <1>2, <3>1, <3>2
  <2>2. \A d \in (D + 1)..m : f[d] = g[d]
    BY <1>1, <1>2, <2>1 DEF SameKinds
  <2>3. Count(f, t, D + 1, m) = Count(g, t, D + 1, m)
    BY <1>1, <2>2, SameCount
  <2>4. /\ g[m + 1] = t => Count(g, t, D + 1, n) = Count(g, t, D + 1, m) + 1
        /\ g[m + 1] # t => Count(g, t, D + 1, n) = Count(g, t, D + 1, m)
    BY <1>1, <2>1, CountFacts
  <2>5. (g[m + 1] = t <=> token = t) /\ token # CloserOf[t]
    BY <1>4, <2>1
  <2> QED BY <1>3, <1>4, <1>5, <2>3, <2>4, <2>5
<1>8. CASE Closes(old, open, token)
  <2>1. m >= 2 /\ n = m - 1 /\ SameKinds(old, open, n)
        /\ \/ f[m] \in Opening /\ token = CloserOf[f[m]] /\ Innermost(old).quote = 0
           \/ token \notin Opening \cup Closing /\ f[m] = "line"
    <3>1. m >= 2 /\ n = m - 1 /\ SameKinds(old, open, n)
      BY <1>8 DEF Closes, m, n
    <3>2. \/ Innermost(old).kind \in Opening /\ Innermost(old).quote = 0
             /\ token = CloserOf[Innermost(old).kind]
          \/ token \notin Opening \cup Closing /\ Innermost(old).kind = "line"
      BY <1>8 DEF Closes
    <3> QED BY <1>2, <3>1, <3>2
  <2>2. \A d \in (D + 1)..n : f[d] = g[d]
    <3>1. \A d \in 1..n : old[d].kind = open[d].kind
      BY <2>1 DEF SameKinds
    <3>2. ASSUME NEW d \in (D + 1)..n PROVE f[d] = g[d]
      <4>1. d \in 1..n /\ d \in 1..m
        BY <1>1, <2>1
      <4> QED BY <1>2, <3>1, <4>1
    <3> QED BY <3>2
  <2>3. Count(f, t, D + 1, n) = Count(g, t, D + 1, n)
    BY <1>1, <2>2, SameCount
  <2>4. n + 1 = m
    BY <1>1, <2>1
  <2>5. /\ f[m] = t => Count(f, t, D + 1, m) = Count(f, t, D + 1, n) + 1
        /\ f[m] # t => Count(f, t, D + 1, m) = Count(f, t, D + 1, n)
    BY <1>1, <2>4, CountFacts
  <2>6. (f[m] = t <=> token = CloserOf[t]) /\ token # t
    BY <1>4, <2>1, BracketFacts
  <2>7. token = CloserOf[t] => Innermost(old).kind = t /\ Innermost(old).quote = 0
    BY <1>2, <1>4, <2>1, <2>6
  <2>8. Len(open) = Len(old) - 1
    BY <2>1 DEF m, n
  <2> QED BY <1>3, <1>4, <1>5, <2>3, <2>5, <2>6, <2>7, <2>8
<1> QED BY <1>6, <1>7, <1>8

(* As long as nothing below a depth is closed, the brackets of one kind    *)
(* that lack their partner are the lists of that kind above it.            *)
LEMMA Balance ==
  ASSUME NEW s \in Seq(AnyToken), NEW n \in 0..Len(s), Live(s, n), NEW m \in 0..n,
         NEW D \in Nat, \A k \in m..n : Len(OpenLists(s)[k]) >= D,
         NEW t \in Opening, Above(OpenLists(s)[m], t, D) = 0
  PROVE  /\ Above(OpenLists(s)[n], t, D) \in Nat
         /\ Count(s, CloserOf[t], m + 1, n) \in Nat
         /\ Count(s, t, m + 1, n)
              = Count(s, CloserOf[t], m + 1, n) + Above(OpenLists(s)[n], t, D)
<1> DEFINE c == CloserOf[t]
           Even(k) == /\ Above(OpenLists(s)[k], t, D) \in Nat
                      /\ Count(s, c, m + 1, k) \in Nat
                      /\ Count(s, t, m + 1, k)
                           = Count(s, c, m + 1, k) + Above(OpenLists(s)[k], t, D)
           S == {k \in m..n : Even(k)}
<1>1. Len(s) \in Nat /\ n \in Int /\ m \in Int /\ m \in m..n /\ n \in m..n
      /\ m + 1 \in Int /\ m + 1 - 1 = m
  BY OpenListsAt
<1>2. Even(m)
  <2>1. Count(s, t, m + 1, m + 1 - 1) = 0 /\ Count(s, c, m + 1, m + 1 - 1) = 0
    BY <1>1, CountFacts
  <2> QED BY <1>1, <2>1
<1>3. ASSUME NEW k \in m..(n - 1), Even(k) PROVE Even(k + 1)
  <2> DEFINE old == OpenLists(s)[k]
             open == OpenLists(s)[k + 1]
             token == s[k + 1]
  <2>1. k \in 0..(n - 1) /\ k + 1 \in m..n /\ k \in m..n /\ k \in Int /\ k >= m + 1 - 1
    BY <1>1
  <2>2. StackOK(old) /\ StackOK(open)
        /\ (Keeps(old, open, token) \/ Opens(old, open, token) \/ Closes(old, open, token))
    BY <2>1, StepAlong
  <2>3. Len(old) >= D /\ Len(open) >= D
    BY <2>1
  <2> HIDE DEF old, open, token, c
  <2>4. /\ Above(old, t, D) \in Nat /\ Above(open, t, D) \in Nat
        /\ token = t => Above(open, t, D) = Above(old, t, D) + 1
        /\ token = c => Above(old, t, D) = Above(open, t, D) + 1
        /\ token # t /\ token # c => Above(open, t, D) = Above(old, t, D)
        /\ t # c
    BY <2>2, <2>3, CountStep DEF c
  <2>5. /\ Count(s, t, m + 1, k) \in Nat
        /\ token = t => Count(s, t, m + 1, k + 1) = Count(s, t, m + 1, k) + 1
        /\ token # t => Count(s, t, m + 1, k + 1) = Count(s, t, m + 1, k)
    BY <1>1, <2>1, CountFacts DEF token
  <2>6. /\ Count(s, c, m + 1, k) \in Nat
        /\ token = c => Count(s, c, m + 1, k + 1) = Count(s, c, m + 1, k) + 1
        /\ token # c => Count(s, c, m + 1, k + 1) = Count(s, c, m + 1, k)
    BY <1>1, <2>1, CountFacts DEF token
  <2>7. Count(s, t, m + 1, k) = Count(s, c, m + 1, k) + Above(old, t, D)
    BY <1>3 DEF old
  <2>8. Above(open, t, D) \in Nat /\ Count(s, c, m + 1, k + 1) \in Nat
        /\ Count(s, t, m + 1, k + 1) = Count(s, c, m + 1, k + 1) + Above(open, t, D)
    <3> DEFINE o1 == Count(s, t, m + 1, k)
               o2 == Count(s, t, m + 1, k + 1)
               c1 == Count(s, c, m + 1, k)
               c2 == Count(s, c, m + 1, k + 1)
               a1 == Above(old, t, D)
               a2 == Above(open, t, D)
    <3>1. /\ a1 \in Nat /\ a2 \in Nat /\ o1 \in Nat /\ c1 \in Nat
          /\ o1 = c1 + a1
      BY <2>4, <2>5, <2>6, <2>7
    <3>2. \/ o2 = o1 + 1 /\ c2 = c1 /\ a2 = a1 + 1
          \/ o2 = o1 /\ c2 = c1 + 1 /\ a1 = a2 + 1
          \/ o2 = o1 /\ c2 = c1 /\ a2 = a1
      BY <2>4, <2>5, <2>6
    <3> HIDE DEF o1, o2, c1, c2, a1, a2
    <3>3. a2 \in Nat /\ c2 \in Nat /\ o2 = c2 + a2
      BY <3>1, <3>2
    <3> QED BY <3>3 DEF o2, c2, a2
  <2> QED BY <2>8 DEF open
<1> HIDE DEF Even
<1>4. \A k \in m..n : k \in S
  <2>1. m \in S
    BY <1>1, <1>2
  <2>2. \A k \in m..(n - 1) : k \in S => k + 1 \in S
    BY <1>1, <1>3
  <2> HIDE DEF S
  <2> QED BY <1>1, <2>1, <2>2, Upward
<1> QED BY <1>1, <1>4 DEF Even

LEMMA CountOne ==
  ASSUME NEW s, NEW t, NEW i \in Int, NEW j \in Int,
         NEW k \in i..j, s[k] = t, NEW l \in i..j, s[l] = t
  PROVE  Count(s, t, i, j) >= 1 /\ (Count(s, t, i, j) = 1 => l = k)
<1> DEFINE A == {x \in i..j : s[x] = t}
<1>1. IsFiniteSet(A)
  <2>1. IsFiniteSet(i..j) /\ A \subseteq i..j
    BY FS_Interval
  <2> QED BY <2>1, FS_Subset
<1>2. k \in A /\ l \in A
  OBVIOUS
<1>3. Cardinality(A) \in Nat /\ Cardinality(A) # 0
  <2> HIDE DEF A
  <2> QED BY <1>1, <1>2, FS_CardinalityType, FS_EmptySet
<1>4. ASSUME Cardinality(A) = 1 PROVE l = k
  <2> HIDE DEF A
  <2>1. \E x : A = {x}
    BY <1>1, <1>4, FS_Singleton
  <2> QED BY <1>2, <2>1
<1> QED BY <1>3, <1>4 DEF Count

LEMMA NoneAbove ==
  ASSUME NEW open, NEW t, Len(open) \in Nat
  PROVE  Above(open, t, Len(open)) = 0
<1> DEFINE n == Len(open)
<1>1. n + 1 \in Int /\ n + 1 - 1 = n /\ n \in Int /\ n >= n + 1 - 1
  OBVIOUS
<1> HIDE DEF n
<1>2. Count(Kinds(open), t, n + 1, n + 1 - 1) = 0
  BY <1>1, CountFacts
<1> QED BY <1>1, <1>2 DEF Above, n

(* A group is open as long as its brackets do not balance.                 *)
LEMMA GroupOpen ==
  ASSUME NEW s \in Seq(AnyToken), NEW e \in 0..Len(s), Live(s, e),
         NEW i \in 1..e, s[i] \in Opening, NEW j \in i..e,
         \A k \in (i + 1)..j : k \notin GroupEnds(s, i, e)
  PROVE  /\ Len(OpenLists(s)[i - 1]) \in Nat
         /\ \A k \in i..j : Len(OpenLists(s)[k]) >= Len(OpenLists(s)[i - 1]) + 1
         /\ Len(OpenLists(s)[j]) >= 1
         /\ OpenLists(s)[j][Len(OpenLists(s)[i - 1]) + 1].kind = s[i]
<1> DEFINE O == OpenLists(s)
           D == Len(O[i - 1])
           t == s[i]
           S == {k \in i..j : \A l \in i..k : Len(O[l]) >= D + 1}
<1>1. Len(s) \in Nat /\ e \in Int /\ i \in Int /\ j \in Int /\ i - 1 \in 0..(e - 1) /\ i - 1 + 1 = i
      /\ 1 <= i /\ i <= j /\ j <= e /\ i \in 0..e /\ e <= Len(s)
  BY OpenListsAt
<1>2. StackOK(O[i - 1]) /\ D \in Nat /\ Live(s, i - 1)
  BY <1>1, StepAlong, InnermostOK
<1>3. PushedOn(O[i - 1], O[i], t, <<>>, 0)
  <2>1. O[i] = TakeToken(s, O[i - 1], i)
    BY <1>1, StepAlong
  <2>2. O[i] = Append(O[i - 1], OpenList(t, <<>>, 0))
    BY <2>1, TakeIs
  <2> HIDE DEF O
  <2> QED BY <1>2, <2>2, EmptyIsSeq, Pushed
<1>4. Len(O[i]) = D + 1
  BY <1>3 DEF PushedOn
<1>5. i \in S
  BY <1>1, <1>2, <1>4
<1>6. ASSUME NEW k \in i..(j - 1), k \in S PROVE k + 1 \in S
  <2>1. k \in 0..(e - 1) /\ k + 1 \in 0..Len(s) /\ k + 1 \in (i + 1)..j /\ k + 1 \in (i + 1)..e
        /\ k \in i..k /\ k + 1 \in i..j
    BY <1>1
  <2>2. /\ StackOK(O[k]) /\ StackOK(O[k + 1]) /\ Live(s, k + 1)
        /\ \/ Keeps(O[k], O[k + 1], s[k + 1])
           \/ Opens(O[k], O[k + 1], s[k + 1])
           \/ Closes(O[k], O[k + 1], s[k + 1])
    BY <2>1, StepAlong
  <2>3. Len(O[k]) >= D + 1
    BY <1>6, <2>1
  <2>4. Len(O[k]) \in Nat /\ Len(O[k + 1]) \in Nat
    BY <2>2, InnermostOK
  <2>5. Len(O[k + 1]) >= Len(O[k]) - 1
    BY <2>2, <2>4 DEF Keeps, Opens, Closes
  <2>6. ASSUME ~(Len(O[k + 1]) >= D + 1) PROVE FALSE
    <3>1. Len(O[k + 1]) = D
      <4> DEFINE x == Len(O[k])
                 y == Len(O[k + 1])
      <4>1. x \in Nat /\ y \in Nat /\ x >= D + 1 /\ y >= x - 1 /\ ~(y >= D + 1)
        BY <2>3, <2>4, <2>5, <2>6
      <4> HIDE DEF x, y
      <4>2. y = D
        BY <1>2, <4>1
      <4> QED BY <4>2 DEF y
    <3>2. \A l \in (i - 1)..(k + 1) : Len(O[l]) >= D
      <4>1. ASSUME NEW l \in (i - 1)..(k + 1) PROVE Len(O[l]) >= D
        <5>1. l = i - 1 \/ l = k + 1 \/ l \in i..k
          BY <1>1
        <5>2. l \in i..k => Len(O[l]) \in Nat /\ Len(O[l]) >= D + 1
          <6>1. l \in i..k => l \in 0..e
            BY <1>1, <2>1
          <6>2. l \in i..k => StackOK(O[l])
            BY <6>1, Along
          <6> QED BY <1>6, <6>2, InnermostOK
        <5>3. l \in i..k => Len(O[l]) >= D
          BY <1>2, <5>2
        <5> QED BY <1>2, <3>1, <5>1, <5>3
      <4> QED BY <4>1
    <3>3. Above(O[i - 1], t, D) = 0
      BY <1>2, NoneAbove
    <3>4. Above(O[k + 1], t, D) = 0
      BY <2>4, <3>1, NoneAbove
    <3> HIDE DEF O, D
    <3>5. i - 1 \in 0..(k + 1)
      BY <1>1, <2>1
    <3>6. Count(s, CloserOf[t], i - 1 + 1, k + 1) \in Nat
          /\ Count(s, t, i - 1 + 1, k + 1)
               = Count(s, CloserOf[t], i - 1 + 1, k + 1) + Above(O[k + 1], t, D)
      BY <1>2, <2>1, <2>2, <3>2, <3>3, <3>5, Balance DEF O
    <3>7. Count(s, t, i, k + 1) = Count(s, CloserOf[t], i, k + 1)
      BY <1>1, <3>4, <3>6
    <3>8. k + 1 \in GroupEnds(s, i, e)
      BY <2>1, <3>7 DEF GroupEnds
    <3> QED BY <2>1, <3>8
  <2>7. \A l \in i..(k + 1) : Len(O[l]) >= D + 1
    <3>1. \A l \in i..(k + 1) : l \in i..k \/ l = k + 1
      BY <1>1
    <3> QED BY <1>6, <2>6, <3>1
  <2> QED BY <2>1, <2>7
<1>7. \A k \in i..j : k \in S
  <2> HIDE DEF S
  <2> QED BY <1>1, <1>5, <1>6, Upward
<1>8. \A k \in i..j : Len(O[k]) >= D + 1
  <2>1. \A k \in i..j : k \in i..k
    BY <1>1
  <2> QED BY <1>7, <2>1
<1>9. SameKinds(O[i], O[j], D + 1)
  <2>1. j \in 0..Len(s) /\ i \in 0..j /\ j \in 0..e /\ D + 1 \in Nat
    BY <1>1, <1>2
  <2>2. Live(s, j)
    BY <2>1, Before
  <2> HIDE DEF D
  <2> QED BY <1>8, <2>1, <2>2, KindsHold
<1>10. O[i][D + 1].kind = t
  BY <1>3, <1>4 DEF PushedOn, Innermost
<1>11. O[j][D + 1].kind = t
  <2>1. D + 1 \in 1..(D + 1)
    BY <1>2
  <2> QED BY <1>9, <1>10, <2>1 DEF SameKinds
<1>12. Len(O[j]) >= 1
  <2>1. j \in 0..e
    BY <1>1
  <2> QED BY <2>1, Along DEF StackOK
<1> QED BY <1>2, <1>8, <1>11, <1>12

(* The end of a group that is found by counting is the bracket that closes *)
(* the list: at this place the list is the innermost one.                  *)
LEMMA GroupClosed ==
  ASSUME NEW s \in Seq(AnyToken), NEW e \in 0..Len(s), Live(s, e),
         NEW i \in 1..e, s[i] \in Opening, GroupEnds(s, i, e) # {},
         NEW end, end = GroupEnd(s, i, e)
  PROVE  /\ end \in (i + 1)..e
         /\ s[end] = CloserOf[s[i]]
         /\ Len(OpenLists(s)[end - 1]) = Len(OpenLists(s)[i - 1]) + 1
         /\ Innermost(OpenLists(s)[end - 1]).kind = s[i]
         /\ Innermost(OpenLists(s)[end - 1]).quote = 0
<1> DEFINE O == OpenLists(s)
           D == Len(O[i - 1])
           t == s[i]
           old == O[end - 1]
           open == O[end]
<1>1. i \in Nat /\ e \in Int /\ Len(s) \in Nat /\ e <= Len(s) /\ 1 <= i
  BY OpenListsAt
<1>2. end \in GroupEnds(s, i, e) /\ end \in (i + 1)..e /\ \A k \in GroupEnds(s, i, e) : end <= k
  BY <1>1, GroupEndFacts
<1>3. Count(s, t, i, end) = Count(s, CloserOf[t], i, end)
  BY <1>2 DEF GroupEnds
<1>4. end - 1 \in i..e /\ end - 1 \in 0..(e - 1) /\ end - 1 + 1 = end /\ end \in 0..Len(s)
      /\ i - 1 \in 0..end /\ i - 1 \in 0..e /\ end \in Int /\ end \in 0..e
  BY <1>1, <1>2
<1>5. \A k \in (i + 1)..(end - 1) : k \notin GroupEnds(s, i, e)
  BY <1>1, <1>2, <1>4
<1>6. D \in Nat /\ (\A k \in i..(end - 1) : Len(O[k]) >= D + 1) /\ old[D + 1].kind = t
  BY <1>4, <1>5, GroupOpen
<1>7. /\ StackOK(old) /\ StackOK(open) /\ Live(s, end)
      /\ \/ Keeps(old, open, s[end])
         \/ Opens(old, open, s[end])
         \/ Closes(old, open, s[end])
  <2>1. /\ StackOK(O[end - 1]) /\ StackOK(O[end - 1 + 1]) /\ Live(s, end - 1 + 1)
        /\ \/ Keeps(O[end - 1], O[end - 1 + 1], s[end - 1 + 1])
           \/ Opens(O[end - 1], O[end - 1 + 1], s[end - 1 + 1])
           \/ Closes(O[end - 1], O[end - 1 + 1], s[end - 1 + 1])
    BY <1>4, StepAlong
  <2> QED BY <1>4, <2>1
<1>8. Len(old) \in Nat /\ Len(open) \in Nat
  BY <1>7, InnermostOK
<1>9. Len(old) >= D + 1 /\ Len(open) >= D /\ Len(old) >= D
  <2>1. Len(old) >= D + 1
    <3>1. end - 1 \in i..(end - 1)
      BY <1>4
    <3> QED BY <1>6, <3>1
  <2>2. Len(open) >= Len(old) - 1
    BY <1>7, <1>8 DEF Keeps, Opens, Closes
  <2> QED BY <1>6, <1>8, <2>1, <2>2
<1>10. \A l \in (i - 1)..end : Len(O[l]) >= D
  <2>1. ASSUME NEW l \in (i - 1)..end PROVE Len(O[l]) >= D
    <3>1. l = i - 1 \/ l = end \/ l \in i..(end - 1)
      BY <1>1, <1>4
    <3>2. l \in i..(end - 1) => Len(O[l]) \in Nat
      <4>1. l \in i..(end - 1) => l \in 0..e
        BY <1>1, <1>4
      <4> QED BY <4>1, Along, InnermostOK
    <3>3. l \in i..(end - 1) => Len(O[l]) >= D
      BY <1>6, <3>2
    <3> QED BY <1>6, <1>9, <3>1, <3>3
  <2> QED BY <2>1
<1>11. Above(open, t, D) = 0
  <2>1. Above(O[i - 1], t, D) = 0
    BY <1>6, NoneAbove
  <2> HIDE DEF O, D
  <2>2. Count(s, CloserOf[t], i - 1 + 1, end) \in Nat /\ Above(open, t, D) \in Nat
        /\ Count(s, t, i - 1 + 1, end)
             = Count(s, CloserOf[t], i - 1 + 1, end) + Above(open, t, D)
    BY <1>4, <1>6, <1>7, <1>10, <2>1, Balance DEF O
  <2>3. i - 1 + 1 = i
    BY <1>1
  <2> QED BY <1>3, <2>2, <2>3
<1>12. Kinds(old)[D + 1] = t /\ Kinds(old)[Len(old)] = Innermost(old).kind
       /\ D + 1 \in (D + 1)..Len(old) /\ Len(old) \in (D + 1)..Len(old)
  <2>1. D + 1 \in 1..Len(old) /\ Len(old) \in 1..Len(old)
        /\ D + 1 \in (D + 1)..Len(old) /\ Len(old) \in (D + 1)..Len(old)
    BY <1>6, <1>8, <1>9
  <2> QED BY <1>6, <2>1 DEF Kinds, Innermost
<1> HIDE DEF D, old, open
<1>13. /\ Above(old, t, D) >= 1
       /\ Innermost(old).kind = t => (Above(old, t, D) = 1 => Len(old) = D + 1)
  <2> DEFINE f == Kinds(old)
             a == D + 1
             n == Len(old)
  <2>1. a \in Int /\ n \in Int /\ a \in a..n /\ n \in a..n /\ f[a] = t
        /\ f[n] = Innermost(old).kind
    BY <1>6, <1>8, <1>12
  <2>2. Above(old, t, D) = Count(f, t, a, n)
    BY DEF Above
  <2> HIDE DEF f, a, n
  <2>3. Count(f, t, a, n) >= 1
    BY <2>1, CountOne
  <2>4. f[n] = t => (Count(f, t, a, n) = 1 => n = a)
    BY <2>1, CountOne
  <2> QED BY <2>1, <2>2, <2>3, <2>4 DEF a, n
<1>14. /\ Above(old, t, D) \in Nat
       /\ s[end] = t => Above(open, t, D) = Above(old, t, D) + 1
       /\ s[end] = CloserOf[t] => Above(old, t, D) = Above(open, t, D) + 1
       /\ s[end] # t /\ s[end] # CloserOf[t] => Above(open, t, D) = Above(old, t, D)
       /\ s[end] = CloserOf[t] => Innermost(old).kind = t /\ Innermost(old).quote = 0
  BY <1>6, <1>7, <1>9, CountStep
<1>15. s[end] = CloserOf[t] /\ Above(old, t, D) = 1
  BY <1>11, <1>13, <1>14
<1>16. Innermost(old).kind = t /\ Innermost(old).quote = 0
  BY <1>14, <1>15
<1>17. Len(old) = D + 1
  BY <1>13, <1>15, <1>16
<1> QED BY <1>2, <1>15, <1>16, <1>17 DEF D, old

(* Nothing closes a string that is open, nor what is around it.            *)
LEMMA StringStays ==
  ASSUME NEW s \in Seq(AnyToken), NEW e \in 0..Len(s), Live(s, e),
         NEW i \in 1..e, s[i] = "str..."
  PROVE  /\ Len(OpenLists(s)[i - 1]) \in Nat /\ Len(OpenLists(s)[e]) \in Nat
         /\ Len(OpenLists(s)[e]) >= Len(OpenLists(s)[i - 1]) + 1
         /\ OpenLists(s)[e][Len(OpenLists(s)[i - 1]) + 1].kind = "string"
<1> DEFINE O == OpenLists(s)
           D == Len(O[i - 1])
           top == D + 1
           Stays(k) == Len(O[k]) >= top /\ O[k][top].kind = "string"
           S == {k \in i..e : Stays(k)}
<1>1. Len(s) \in Nat /\ e \in Int /\ i \in Int /\ i - 1 \in 0..(e - 1) /\ i - 1 + 1 = i
      /\ i \in i..e /\ e \in i..e /\ e \in 0..e /\ 1 <= i
  BY OpenListsAt
<1>2. StackOK(O[i - 1]) /\ StackOK(O[i - 1 + 1]) /\ Live(s, i - 1 + 1)
      /\ O[i - 1 + 1] = TakeToken(s, O[i - 1], i - 1 + 1)
  BY <1>1, StepAlong
<1>3. D \in Nat /\ top \in Nat
  BY <1>2, InnermostOK
<1>4. PushedOn(O[i - 1], O[i], "string", <<>>, 0)
  <2>1. O[i] = TakeOpenString(O[i - 1]) /\ O[i] # Misplaced
    BY <1>1, <1>2, TakeIs DEF Live
  <2>2. O[i] = Append(O[i - 1], OpenList("string", <<>>, 0))
    BY <2>1 DEF TakeOpenString
  <2> HIDE DEF O
  <2> QED BY <1>2, <2>2, EmptyIsSeq, Pushed
<1>5. Stays(i)
  BY <1>3, <1>4 DEF PushedOn, Innermost
<1>6. ASSUME NEW k \in i..(e - 1), Stays(k) PROVE Stays(k + 1)
  <2> DEFINE old == O[k]
             open == O[k + 1]
  <2>1. k \in 0..(e - 1)
    BY <1>1
  <2>2. /\ StackOK(old) /\ StackOK(open)
        /\ \/ Keeps(old, open, s[k + 1])
           \/ Opens(old, open, s[k + 1])
           \/ Closes(old, open, s[k + 1])
    BY <2>1, StepAlong
  <2>3. Len(old) >= top /\ old[top].kind = "string"
    BY <1>6
  <2> HIDE DEF O, D, top, old, open
  <2>4. Len(old) \in Nat /\ Len(open) \in Nat
    BY <2>2, InnermostOK
  <2>5. top >= 1
    BY <1>3 DEF top
  <2>6. CASE Len(open) >= Len(old) /\ SameKinds(old, open, Len(old))
    <3>1. top \in 1..Len(old) /\ Len(open) >= top
      BY <1>3, <2>3, <2>4, <2>5, <2>6
    <3> QED BY <2>3, <2>6, <3>1 DEF SameKinds, Stays, open
  <2>7. CASE Closes(old, open, s[k + 1])
    <3>1. Len(open) = Len(old) - 1 /\ SameKinds(old, open, Len(old) - 1)
          /\ Innermost(old).kind # "string"
      BY <2>7 DEF Closes, Opening
    <3>2. Len(old) # top
      BY <2>3, <3>1 DEF Innermost
    <3>3. top \in 1..(Len(old) - 1) /\ Len(open) >= top
      BY <1>3, <2>3, <2>4, <2>5, <3>1, <3>2
    <3> QED BY <2>3, <3>1, <3>3 DEF SameKinds, Stays, open
  <2> QED BY <2>2, <2>4, <2>6, <2>7 DEF Keeps, Opens
<1>7. \A k \in i..e : k \in S
  <2>1. i \in S /\ \A k \in i..(e - 1) : k \in S => k + 1 \in S
    <3> HIDE DEF Stays
    <3> QED BY <1>1, <1>5, <1>6
  <2> HIDE DEF S
  <2> QED BY <1>1, <2>1, Upward
<1>8. Len(O[e]) \in Nat
  BY <1>1, Along, InnermostOK
<1> QED BY <1>1, <1>3, <1>7, <1>8

-----------------------------------------------------------------------------
(***************************************************************************)
(* The parser and the meaning of a text, token by token.  A call that      *)
(* starts at place i and sees the text up to place e either returns a cell *)
(* at the place where the meaning has added this cell to the innermost     *)
(* list, or complains of something that is unfinished at place e.          *)
(***************************************************************************)
Completes(s, i, e, result) ==
  /\ result.cell # NoCell /\ result.errors = {} /\ result.next \in (i + 1)..(e + 1)
  /\ OpenLists(s)[result.next - 1]
       = Added(s, OpenLists(s)[i - 1], result.cell, result.next - 1)

(* At depth D or above it something has begun and has not ended.           *)
Unfinished(open, D, errors) ==
  /\ errors # {} /\ Len(open) >= D
  /\ Len(open) = D => open[D].quote # 0 /\ open[D].kind # "string"
  /\ Len(open) > D => open[D + 1].kind \in Opening \cup {"string"}
  /\ "unterminated" \in errors => Len(open) > D /\ open[D + 1].kind \in Opening
  /\ "unterminated_string" \in errors <=> Len(open) > D /\ open[D + 1].kind = "string"

Breaks(s, i, e, result) ==
  /\ result.cell = NoCell
  /\ Unfinished(OpenLists(s)[e], Len(OpenLists(s)[i - 1]), result.errors)
  /\ \/ result.next \in 1..e /\ s[result.next] = "str..."
     \/ Len(OpenLists(s)[e]) = Len(OpenLists(s)[i - 1]) /\ result.next = e + 1
     \/ /\ Len(OpenLists(s)[e]) > Len(OpenLists(s)[i - 1])
        /\ OpenLists(s)[e][Len(OpenLists(s)[i - 1]) + 1].kind \in Opening

(* There is nothing, or a closing bracket.                                 *)
FindsNone(s, i, e, result) ==
  /\ result.cell = NoCell /\ result.errors = {} /\ result.next = e + 1
  /\ OpenLists(s)[e] = OpenLists(s)[i - 1]

FindsClosing(s, i, e, result) ==
  /\ result.cell = NoCell /\ result.errors = {} /\ result.next \in i..e
  /\ s[result.next] \in Closing
  /\ OpenLists(s)[result.next - 1] = OpenLists(s)[i - 1]

Inside(s, i, e) ==
  /\ ~Outside(OpenLists(s)[i - 1]) /\ Innermost(OpenLists(s)[i - 1]).kind # "string"
  /\ LineEnds(OpenLists(s)[i - 1]) => i <= e /\ s[i] # "nl"

ArgumentReads(s, i, e) ==
  Live(s, e) /\ Inside(s, i, e) =>
    \/ Completes(s, i, e, ParseArgument(Parser(s), s, i, e))
    \/ Breaks(s, i, e, ParseArgument(Parser(s), s, i, e))
    \/ FindsNone(s, i, e, ParseArgument(Parser(s), s, i, e))
    \/ FindsClosing(s, i, e, ParseArgument(Parser(s), s, i, e))

(* The items of a bracket that is the innermost one at both ends.          *)
Brackets(s, i, e) ==
  /\ Innermost(OpenLists(s)[i - 1]).kind \in Opening
  /\ Innermost(OpenLists(s)[i - 1]).quote = 0 /\ Innermost(OpenLists(s)[e]).quote = 0
  /\ Len(OpenLists(s)[e]) = Len(OpenLists(s)[i - 1])
  /\ \A k \in (i - 1)..e : Len(OpenLists(s)[k]) >= Len(OpenLists(s)[i - 1])

Lists(s, i, e, read) ==
  /\ read.errors = {} /\ read.next = e + 1 /\ IsSeq(read.cells)
  /\ OpenLists(s)[e]
       = WithInnermost(OpenLists(s)[i - 1],
                       OpenList(Innermost(OpenLists(s)[i - 1]).kind,
                                Innermost(OpenLists(s)[i - 1]).cells \o read.cells, 0))

ItemsRead(s, i, e) ==
  Live(s, e) /\ Brackets(s, i, e) => Lists(s, i, e, Items(Parser(s), s, i, e))

LEMMA ListReads ==
  ASSUME NEW s \in Seq(AnyToken), NEW e \in 0..Len(s), Live(s, e),
         NEW i \in 1..e, s[i] \in Opening, \A k \in i..e : ItemsRead(s, i + 1, k)
  PROVE  \/ Completes(s, i, e, ParseExplicitList(Parser(s), s, i, e))
         \/ Breaks(s, i, e, ParseExplicitList(Parser(s), s, i, e))
<1> DEFINE O == OpenLists(s)
           P == Parser(s)
           D == Len(O[i - 1])
           t == s[i]
           list == ParseExplicitList(P, s, i, e)
<1>1. Len(s) \in Nat /\ e \in Int /\ i \in Int /\ i - 1 \in 0..(e - 1) /\ i - 1 + 1 = i
      /\ 1 <= i /\ i <= e /\ i \in i..e /\ e <= Len(s) /\ i \in 0..e /\ e \in i..e
      /\ i \in 0..Len(s) /\ e \in 0..e
  BY OpenListsAt
<1>2. StackOK(O[i - 1]) /\ D \in Nat /\ O[i] = TakeToken(s, O[i - 1], i)
  BY <1>1, StepAlong, InnermostOK
<1>3. PushedOn(O[i - 1], O[i], t, <<>>, 0)
  <2>1. O[i] = Append(O[i - 1], OpenList(t, <<>>, 0))
    BY <1>2, TakeIs
  <2> HIDE DEF O
  <2> QED BY <1>2, <2>1, EmptyIsSeq, Pushed
<1>4. /\ StackOK(O[i]) /\ Len(O[i]) = D + 1 /\ Outer(O[i]) = O[i - 1]
      /\ Innermost(O[i]).kind = t /\ Innermost(O[i]).cells = <<>> /\ Innermost(O[i]).quote = 0
  BY <1>3 DEF PushedOn
<1>5. CASE GroupEnds(s, i, e) = {}
  <2>1. list = Result(NoCell, i, {"unterminated"})
    BY <1>5 DEF ParseExplicitList
  <2>2. list.cell = NoCell /\ list.errors = {"unterminated"}
    BY <2>1, ResultFields
  <2>3. (\A k \in i..e : Len(O[k]) >= D + 1) /\ O[e][D + 1].kind = t
    BY <1>1, <1>5, GroupOpen
  <2>4. Len(O[e]) \in Nat /\ Len(O[e]) >= D + 1
    BY <1>1, <2>3, Along, InnermostOK
  <2> HIDE DEF O, D, list
  <2>5. Len(O[e]) >= D /\ ~(Len(O[e]) = D) /\ Len(O[e]) > D
    BY <1>2, <2>4
  <2>6. Unfinished(O[e], D, list.errors)
    BY <2>2, <2>3, <2>5 DEF Unfinished, Opening
  <2>7. Breaks(s, i, e, list)
    BY <2>2, <2>3, <2>5, <2>6 DEF Breaks, O, D
  <2> QED BY <2>7 DEF list
<1>6. CASE GroupEnds(s, i, e) # {}
  <2> DEFINE end == GroupEnd(s, i, e)
             inside == P[i + 1].items[end - 1]
  <2>1. /\ end \in (i + 1)..e /\ s[end] = CloserOf[t] /\ Len(O[end - 1]) = D + 1
        /\ Innermost(O[end - 1]).kind = t /\ Innermost(O[end - 1]).quote = 0
    BY <1>6, GroupClosed
  <2>2. \A k \in GroupEnds(s, i, e) : end <= k
    BY <1>1, <1>6, GroupEndFacts
  <2>3. list = Result(List(t, inside.cells), end + 1, inside.errors)
    BY <1>6 DEF ParseExplicitList
  <2> HIDE DEF end
  <2>4. end \in Int /\ end - 1 \in i..e /\ end - 1 \in 0..Len(s) /\ end - 1 \in 0..e
        /\ end - 1 \in 0..(e - 1) /\ end - 1 + 1 = end /\ i + 1 \in 1..(Len(s) + 1)
        /\ end - 1 \in (i + 1 - 1)..Len(s) /\ i + 1 - 1 = i /\ i \in i..(end - 1)
    BY <1>1, <2>1
  <2>5. \A k \in i..(end - 1) : Len(O[k]) >= D + 1
    <3>1. \A k \in (i + 1)..(end - 1) : k \notin GroupEnds(s, i, e)
      BY <1>1, <2>2, <2>4
    <3> QED BY <1>1, <2>4, <3>1, GroupOpen
  <2>6. inside = Items(P, s, i + 1, end - 1)
    BY <1>1, <2>4, ParserAt
  <2>7. Live(s, end - 1)
    BY <2>4, Before
  <2>8. Brackets(s, i + 1, end - 1)
    <3>1. /\ Innermost(O[i]).kind \in Opening /\ Innermost(O[i]).quote = 0
          /\ Innermost(O[end - 1]).quote = 0 /\ Len(O[end - 1]) = Len(O[i])
          /\ \A k \in i..(end - 1) : Len(O[k]) >= Len(O[i])
      BY <1>4, <2>1, <2>5
    <3> DEFINE b == end - 1
    <3>2. i + 1 - 1 = i
      BY <2>4
    <3> HIDE DEF b
    <3>3. Brackets(s, i + 1, b) <=>
            /\ Innermost(O[i]).kind \in Opening /\ Innermost(O[i]).quote = 0
            /\ Innermost(O[b]).quote = 0 /\ Len(O[b]) = Len(O[i])
            /\ \A k \in i..b : Len(O[k]) >= Len(O[i])
      BY ONLY <3>2 DEF Brackets
    <3> QED BY <3>1, <3>3 DEF b
  <2>9. Lists(s, i + 1, end - 1, inside)
    BY <2>4, <2>6, <2>7, <2>8 DEF ItemsRead
  <2> DEFINE cells == inside.cells
  <2>10. inside.errors = {} /\ IsSeq(cells)
         /\ O[end - 1] = WithInnermost(O[i], OpenList(t, <<>> \o cells, 0))
    <3>1. /\ inside.errors = {} /\ IsSeq(cells)
          /\ O[end - 1] = WithInnermost(O[i + 1 - 1],
                            OpenList(Innermost(O[i + 1 - 1]).kind,
                                     Innermost(O[i + 1 - 1]).cells \o cells, 0))
      BY <2>9 DEF Lists
    <3> HIDE DEF O, inside
    <3> QED BY <1>4, <2>4, <3>1
  <2> HIDE DEF inside, cells, O
  <2>11. <<>> \o cells = cells
    BY <2>10, EmptyIsSeq, JoinedSeq
  <2>12. Retopped(O[i], O[end - 1], cells, 0)
    BY <1>4, <2>10, <2>11, Topped
  <2>13. Innermost(O[end - 1]).cells = cells /\ Outer(O[end - 1]) = O[i - 1]
    BY <1>4, <2>12 DEF Retopped
  <2>14. O[end] = TakeToken(s, O[end - 1], end) /\ s[end] \in Closing
    <3>1. O[end - 1 + 1] = TakeToken(s, O[end - 1], end - 1 + 1)
      BY <2>4, StepAlong DEF O
    <3> QED BY <2>1, <2>4, <3>1, BracketFacts
  <2>15. O[end] = Closed(s, O[end - 1], t, end)
    <3>1. O[end] = TakeClosing(s, O[end - 1], end)
      BY <2>14, TakeIs
    <3> QED BY <2>1, <3>1 DEF TakeClosing
  <2>16. O[end] = Added(s, O[i - 1], List(t, cells), end)
    BY <2>13, <2>15 DEF Closed
  <2>17. list.cell = List(t, cells) /\ list.next = end + 1 /\ list.errors = {}
    BY <2>3, <2>10, ResultFields DEF cells
  <2>18. List(t, cells) # NoCell
    BY DEF List, NoCell
  <2>19. end + 1 \in (i + 1)..(e + 1) /\ end + 1 - 1 = end
    BY <1>1, <2>1
  <2> HIDE DEF list
  <2>20. Completes(s, i, e, list)
    <3>1. list.next - 1 = end /\ list.next \in (i + 1)..(e + 1)
      <4>1. list.next = end + 1
        BY <2>17
      <4> QED BY <1>1, <2>4, <2>19, <4>1
    <3>2. O[list.next - 1] = Added(s, O[i - 1], list.cell, list.next - 1)
      BY <2>16, <2>17, <3>1
    <3> QED BY <2>17, <2>18, <3>1, <3>2 DEF Completes, O
  <2> QED BY <2>20 DEF list
<1> QED BY <1>5, <1>6

(* Line breaks that end no line change nothing.                            *)
LEMMA BreaksSkipped ==
  ASSUME NEW s \in Seq(AnyToken), NEW e \in 0..Len(s), Live(s, e),
         NEW i \in 1..(e + 1), NEW m \in i..(e + 1), \A k \in i..(m - 1) : s[k] = "nl",
         LineEnds(OpenLists(s)[i - 1]) => m = i
  PROVE  OpenLists(s)[m - 1] = OpenLists(s)[i - 1]
<1> DEFINE O == OpenLists(s)
           S == {k \in (i - 1)..(m - 1) : O[k] = O[i - 1]}
<1>1. Len(s) \in Nat /\ e \in Int /\ i \in Int /\ m \in Int /\ i - 1 \in Int /\ m - 1 \in Int
      /\ i - 1 \in (i - 1)..(m - 1) /\ m - 1 \in (i - 1)..(m - 1) /\ e <= Len(s) /\ 1 <= i
  BY OpenListsAt
<1>2. i - 1 \in S
  BY <1>1
<1>3. ASSUME NEW k \in (i - 1)..(m - 1 - 1), k \in S PROVE k + 1 \in S
  <2>1. k \in 0..(e - 1) /\ k + 1 \in i..(m - 1) /\ k + 1 \in (i - 1)..(m - 1) /\ m # i
    BY <1>1
  <2>2. O[k + 1] = TakeToken(s, O[k], k + 1)
    BY <2>1, StepAlong
  <2>3. s[k + 1] = "nl" /\ ~LineEnds(O[k])
    BY <1>3, <2>1
  <2>4. O[k + 1] = O[k]
    BY <2>2, <2>3, TakeIs
  <2> QED BY <1>3, <2>1, <2>4
<1>4. \A k \in (i - 1)..(m - 1) : k \in S
  <2> HIDE DEF S
  <2> QED BY <1>1, <1>2, <1>3, Upward
<1> QED BY <1>1, <1>4

LEMMA QuoteReads ==
  ASSUME NEW s \in Seq(AnyToken), NEW e \in 0..Len(s), Live(s, e),
         NEW i \in 1..e, s[i] = "'", ArgumentReads(s, i + 1, e),
         Innermost(OpenLists(s)[i - 1]).kind # "string"
  PROVE  \/ Completes(s, i, e, ParseQuoted(Parser(s), s, i, e))
         \/ Breaks(s, i, e, ParseQuoted(Parser(s), s, i, e))
<1> DEFINE O == OpenLists(s)
           P == Parser(s)
           old == O[i - 1]
           open == O[i]
           L == Innermost(old)
           inner == P[i + 1].argument[e]
           quoted == ParseQuoted(P, s, i, e)
<1>1. Len(s) \in Nat /\ e \in Int /\ i \in Int /\ i - 1 \in 0..(e - 1) /\ i - 1 + 1 = i
      /\ 1 <= i /\ i <= e /\ e <= Len(s) /\ i # 0
      /\ i + 1 \in 1..(Len(s) + 1) /\ e \in (i + 1 - 1)..Len(s) /\ i + 1 - 1 = i
  BY OpenListsAt
<1>2. StackOK(old) /\ StackOK(open) /\ open = TakeToken(s, old, i)
  BY <1>1, StepAlong
<1>3. open = TakeQuote(old, i)
  BY <1>2, TakeIs
<1>4. inner = ParseArgument(P, s, i + 1, e)
  BY <1>1, ParserAt
<1>5. IsSeq(L.cells) /\ L.kind # "string"
  BY <1>2, InnermostOK
<1>p. /\ inner.cell = NoCell =>
           quoted = Result(NoCell, inner.next, inner.errors \cup {"invalid_quote"})
      /\ inner.cell # NoCell =>
           quoted = Result(Quoted(SubSeq(s, i + 1, inner.next - 1)), inner.next, inner.errors)
  BY DEF ParseQuoted
<1> HIDE DEF O, P, old, open, L, inner, quoted
<1>6. /\ Len(open) = Len(old) /\ Innermost(open).quote # 0
      /\ \A cell, j : Added(s, open, cell, j)
                        = Added(s, old, Quoted(SubSeq(s, i + 1, j)), j)
                      \/ L.quote # 0
      /\ L.quote # 0 => open = old
      /\ Innermost(open).kind = L.kind
  <2>1. CASE L.quote = 0
    <3>1. open = WithInnermost(old, OpenList(L.kind, L.cells, i))
      BY <1>3, <2>1 DEF TakeQuote, L
    <3>2. Retopped(old, open, L.cells, i)
      BY <1>2, <1>5, <3>1, Topped DEF L
    <3>3. /\ Len(open) = Len(old) /\ Innermost(open).kind = L.kind
          /\ Innermost(open).cells = L.cells /\ Innermost(open).quote = i
      BY <3>2 DEF Retopped, L
    <3>4. \A list : WithInnermost(open, list) = WithInnermost(old, list)
      BY <3>2 DEF Retopped
    <3>5. ASSUME NEW cell, NEW j
          PROVE  Added(s, open, cell, j) = Added(s, old, Quoted(SubSeq(s, i + 1, j)), j)
      <4> DEFINE q == Quoted(SubSeq(s, i + 1, j))
      <4>1. Item(s, Innermost(open), cell, j) = q
        BY <1>1, <3>3 DEF Item
      <4>2. Item(s, L, q, j) = q
        BY <2>1 DEF Item
      <4> HIDE DEF q
      <4>3. Added(s, open, cell, j)
              = WithInnermost(open, OpenList(L.kind, Append(L.cells, q), 0))
        BY <3>3, <4>1 DEF Added
      <4>4. Added(s, old, q, j) = WithInnermost(old, OpenList(L.kind, Append(L.cells, q), 0))
        BY <4>2 DEF Added, L
      <4>5. Added(s, open, cell, j) = Added(s, old, q, j)
        BY <3>4, <4>3, <4>4
      <4> QED BY <4>5 DEF q
    <3> QED BY <1>1, <2>1, <3>3, <3>5
  <2>2. CASE L.quote # 0
    <3>1. open = old
      BY <1>3, <2>2 DEF TakeQuote, L
    <3> QED BY <2>2, <3>1 DEF L
  <2> QED BY <2>1, <2>2
<1>7. Inside(s, i + 1, e)
  BY <1>1, <1>5, <1>6 DEF Inside, Outside, LineEnds, O, open
<1>8. \/ Completes(s, i + 1, e, inner) \/ Breaks(s, i + 1, e, inner)
      \/ FindsNone(s, i + 1, e, inner) \/ FindsClosing(s, i + 1, e, inner)
  BY <1>4, <1>7 DEF ArgumentReads, P
<1>9. CASE Completes(s, i + 1, e, inner)
  <2> DEFINE n == inner.next
             q == Quoted(SubSeq(s, i + 1, n - 1))
  <2>1. inner.cell # NoCell /\ inner.errors = {} /\ n \in (i + 1 + 1)..(e + 1)
        /\ O[n - 1] = Added(s, open, inner.cell, n - 1)
    BY <1>1, <1>9 DEF Completes, O, open
  <2>2. quoted = Result(q, n, {})
    BY <1>p, <2>1
  <2>3. quoted.cell = q /\ quoted.next = n /\ quoted.errors = {}
    BY <2>2, ResultFields
  <2>4. q # NoCell
    BY DEF Quoted, NoCell
  <2> HIDE DEF n
  <2>5. O[n - 1] = Added(s, old, q, n - 1)
    <3>1. CASE L.quote = 0
      BY <1>6, <2>1, <3>1
    <3>2. CASE L.quote # 0
      <4>1. Item(s, L, q, n - 1) = Item(s, L, inner.cell, n - 1)
        BY <3>2 DEF Item
      <4> HIDE DEF q
      <4> QED BY <1>6, <2>1, <3>2, <4>1 DEF Added, L
    <3> QED BY <3>1, <3>2
  <2> HIDE DEF q
  <2>6. n \in (i + 1)..(e + 1)
    BY <1>1, <2>1
  <2> QED BY <2>3, <2>4, <2>5, <2>6 DEF Completes, O, old, quoted, P
<1>10. CASE inner.cell = NoCell
  <2>1. quoted.cell = NoCell /\ quoted.errors = inner.errors \cup {"invalid_quote"}
    BY <1>p, <1>10, ResultFields
  <2> DEFINE D == Len(old)
  <2>2. D \in Nat /\ D = Len(open)
    BY <1>2, <1>6, InnermostOK
  <2>c. ASSUME FindsClosing(s, i + 1, e, inner) PROVE FALSE
    <3> DEFINE n == inner.next
    <3>1. n \in (i + 1)..e /\ s[n] \in Closing /\ O[n - 1] = open
      BY <1>1, <2>c DEF FindsClosing, O, open
    <3> HIDE DEF n
    <3>2. n - 1 \in 0..(e - 1) /\ n - 1 + 1 = n
      BY <1>1, <3>1
    <3>3. O[n - 1 + 1] = TakeToken(s, O[n - 1], n - 1 + 1) /\ Live(s, n - 1 + 1)
      BY <3>2, StepAlong DEF O
    <3>4. O[n] = TakeClosing(s, open, n) /\ O[n] # Misplaced
      BY <3>1, <3>2, <3>3, TakeIs DEF Live, O
    <3> QED BY <1>6, <3>4 DEF TakeClosing
  <2>3. Unfinished(O[e], D, quoted.errors)
    <3>1. CASE Breaks(s, i + 1, e, inner)
      <4>1. Unfinished(O[e], Len(open), inner.errors)
        BY <1>1, <3>1 DEF Breaks, O, open
      <4>2. /\ quoted.errors # {}
            /\ "unterminated" \in quoted.errors <=> "unterminated" \in inner.errors
            /\ "unterminated_string" \in quoted.errors
                 <=> "unterminated_string" \in inner.errors
        BY <2>1
      <4> HIDE DEF D
      <4> QED BY <2>2, <4>1, <4>2 DEF Unfinished
    <3>2. CASE FindsNone(s, i + 1, e, inner)
      <4>1. O[e] = open /\ inner.errors = {}
        BY <1>1, <3>2 DEF FindsNone, O, open
      <4>2. quoted.errors # {} /\ "unterminated" \notin quoted.errors
            /\ "unterminated_string" \notin quoted.errors
        BY <2>1, <4>1
      <4>3. /\ Len(open) >= D /\ ~(Len(open) > D)
            /\ Len(open) = D => open[D].quote # 0 /\ open[D].kind # "string"
        BY <1>5, <1>6, <2>2 DEF Innermost
      <4> HIDE DEF D
      <4> QED BY <4>1, <4>2, <4>3 DEF Unfinished
    <3> QED BY <1>8, <1>10, <2>c, <3>1, <3>2 DEF Completes
  <2>4. \/ quoted.next \in 1..e /\ s[quoted.next] = "str..."
        \/ Len(O[e]) = D /\ quoted.next = e + 1
        \/ Len(O[e]) > D /\ O[e][D + 1].kind \in Opening
    <3>1. quoted.next = inner.next
      BY <1>p, <1>10, ResultFields
    <3>2. CASE Breaks(s, i + 1, e, inner)
      <4>1. \/ inner.next \in 1..e /\ s[inner.next] = "str..."
            \/ Len(O[e]) = Len(open) /\ inner.next = e + 1
            \/ Len(O[e]) > Len(open) /\ O[e][Len(open) + 1].kind \in Opening
        BY <1>1, <3>2 DEF Breaks, O, open
      <4> HIDE DEF D
      <4> QED BY <2>2, <3>1, <4>1
    <3>3. CASE FindsNone(s, i + 1, e, inner)
      <4>1. O[e] = open /\ inner.next = e + 1
        BY <1>1, <3>3 DEF FindsNone, O, open
      <4> QED BY <2>2, <3>1, <4>1
    <3>4. ~FindsClosing(s, i + 1, e, inner)
      BY <2>c
    <3> QED BY <1>8, <1>10, <3>2, <3>3, <3>4 DEF Completes
  <2> QED BY <2>1, <2>3, <2>4 DEF Breaks, O, old, quoted, P
<1> QED BY <1>8, <1>9, <1>10 DEF Breaks, FindsNone, FindsClosing

LEMMA ArgumentReadsToo ==
  ASSUME NEW s \in Seq(AnyToken), NEW i \in 1..(Len(s) + 1), NEW e \in (i - 1)..Len(s),
         \A j \in (i + 1)..(Len(s) + 1) : \A k \in (j - 1)..Len(s) :
           ArgumentReads(s, j, k) /\ ItemsRead(s, j, k)
  PROVE  ArgumentReads(s, i, e)
<1> SUFFICES ASSUME Live(s, e), Inside(s, i, e)
             PROVE  \/ Completes(s, i, e, ParseArgument(Parser(s), s, i, e))
                    \/ Breaks(s, i, e, ParseArgument(Parser(s), s, i, e))
                    \/ FindsNone(s, i, e, ParseArgument(Parser(s), s, i, e))
                    \/ FindsClosing(s, i, e, ParseArgument(Parser(s), s, i, e))
  BY DEF ArgumentReads
<1> DEFINE O == OpenLists(s)
           P == Parser(s)
           a == ParseArgument(P, s, i, e)
           st == Skip(s, i, e)
<1>1. Len(s) \in Nat /\ e \in Int /\ i \in Nat /\ 1 <= i /\ i <= e + 1 /\ e <= Len(s)
      /\ e \in 0..Len(s) /\ i \in 1..(e + 1) /\ e \in 0..e
  BY OpenListsAt
<1>2. st \in i..(e + 1) /\ (st = e + 1 \/ s[st] # "nl") /\ \A k \in i..(st - 1) : s[k] = "nl"
  BY <1>1, SkipFacts, Zenon
<1> HIDE DEF st
<1>3. O[st - 1] = O[i - 1]
  <2>1. LineEnds(O[i - 1]) => st = i
    <3>1. st # i => i \in i..(st - 1)
      BY <1>1, <1>2
    <3> QED BY <1>2, <3>1 DEF Inside
  <2> QED BY <1>1, <1>2, <2>1, BreaksSkipped
<1>4. CASE st > e
  <2>1. st = e + 1 /\ st - 1 = e
    BY <1>1, <1>2, <1>4
  <2>2. a = Result(NoCell, st, {})
    BY <1>4 DEF ParseArgument, st
  <2>3. a.cell = NoCell /\ a.errors = {} /\ a.next = e + 1
    BY <2>1, <2>2, ResultFields
  <2>4. O[e] = O[i - 1]
    BY <1>3, <2>1
  <2> HIDE DEF a
  <2>5. FindsNone(s, i, e, a)
    BY <2>3, <2>4 DEF FindsNone
  <2> QED BY <2>5 DEF a
<1>5. CASE ~(st > e)
  <2>1. st \in 1..e /\ st \in i..e /\ st - 1 \in 0..(e - 1) /\ st - 1 + 1 = st /\ st \in Int
        /\ st + 1 \in (i + 1)..(Len(s) + 1) /\ e \in (st + 1 - 1)..Len(s)
        /\ (st + 1)..(e + 1) \subseteq (i + 1)..(e + 1)
    BY <1>1, <1>2, <1>5
  <2>2. StackOK(O[st - 1]) /\ O[st] = TakeToken(s, O[st - 1], st) /\ s[st] \in AnyToken
    BY <2>1, StepAlong
  <2>3. ASSUME NEW part, a = part,
               Completes(s, st, e, part) \/ Breaks(s, st, e, part)
        PROVE  Completes(s, i, e, a) \/ Breaks(s, i, e, a)
    <3>1. CASE Completes(s, st, e, part)
      <4>1. Completes(s, i, e, part)
        BY <1>3, <2>1, <3>1 DEF Completes
      <4> QED BY <2>3, <4>1
    <3>2. CASE Breaks(s, st, e, part)
      <4>1. Breaks(s, i, e, part)
        BY <1>3, <3>2 DEF Breaks
      <4> QED BY <2>3, <4>1
    <3> QED BY <2>3, <3>1, <3>2
  <2>4. CASE s[st] \in Opening
    <3>1. a = ParseExplicitList(P, s, st, e)
      BY <1>5, <2>4 DEF ParseArgument, st, Opening, Strings
    <3>2. \A k \in st..e : ItemsRead(s, st + 1, k)
      <4>1. \A k \in st..e : k \in (st + 1 - 1)..Len(s)
        BY <1>1, <2>1
      <4> QED BY <2>1, <4>1
    <3>3. \/ Completes(s, st, e, ParseExplicitList(P, s, st, e))
          \/ Breaks(s, st, e, ParseExplicitList(P, s, st, e))
      BY <1>1, <2>1, <2>4, <3>2, ListReads
    <3> QED BY <2>3, <3>1, <3>3
  <2>5. CASE s[st] = "'"
    <3>1. a = ParseQuoted(P, s, st, e)
      BY <1>5, <2>5 DEF ParseArgument, st, Opening
    <3>2. ArgumentReads(s, st + 1, e)
      BY <2>1
    <3>3. Innermost(O[st - 1]).kind # "string"
      BY <1>3 DEF Inside
    <3>4. \/ Completes(s, st, e, ParseQuoted(P, s, st, e))
          \/ Breaks(s, st, e, ParseQuoted(P, s, st, e))
      BY <1>1, <2>1, <2>5, <3>2, <3>3, QuoteReads
    <3> QED BY <2>3, <3>1, <3>4
  <2>6. CASE s[st] \in Atoms
    <3>1. a = Result(Atom(s[st]), st + 1, {})
      <4>1. CASE s[st] = "str"
        BY <1>5, <4>1 DEF ParseArgument, st, Opening, Strings, ParseStringLiteral
      <4>2. CASE s[st] \in StaticTypes
        BY <1>5, <4>2 DEF ParseArgument, st, Opening, Strings, ParseStaticType, StaticTypes
      <4> QED BY <2>6, <4>1, <4>2 DEF Atoms
    <3>2. a.cell = Atom(s[st]) /\ a.next = st + 1 /\ a.errors = {}
      BY <3>1, ResultFields
    <3>3. O[st] = Added(s, O[st - 1], Atom(s[st]), st)
      <4>1. O[st] = TakeAtom(s, O[st - 1], st)
        BY <2>2, <2>6, TakeIs
      <4>2. ~Outside(O[st - 1])
        BY <1>3 DEF Inside
      <4> QED BY <4>1, <4>2 DEF TakeAtom
    <3>4. Atom(s[st]) # NoCell
      BY DEF Atom, NoCell
    <3> HIDE DEF a, O
    <3>5. Completes(s, i, e, a)
      <4>1. st + 1 \in (i + 1)..(e + 1) /\ st + 1 - 1 = st
        BY <1>1, <2>1
      <4>2. a.next \in (i + 1)..(e + 1) /\ a.next - 1 = st
        BY <2>1, <3>2, <4>1
      <4>3. O[a.next - 1] = Added(s, O[i - 1], a.cell, a.next - 1)
        BY <1>3, <3>2, <3>3, <4>2
      <4> QED BY <3>2, <3>4, <4>2, <4>3 DEF Completes, O
    <3> QED BY <3>5 DEF a
  <2>7. CASE s[st] \in Closing
    <3>1. a = Result(NoCell, st, {})
      BY <1>5, <2>7 DEF ParseArgument, st, Opening, Closing, Strings, ParseStaticType, StaticTypes
    <3>2. a.cell = NoCell /\ a.next = st /\ a.errors = {}
      BY <3>1, ResultFields
    <3> HIDE DEF a
    <3>3. FindsClosing(s, i, e, a)
      BY <1>3, <2>1, <2>7, <3>2 DEF FindsClosing
    <3> QED BY <3>3 DEF a
  <2>8. CASE s[st] = "str..."
    <3>1. a = Result(NoCell, st, {"unterminated_string"})
      BY <1>5, <2>8 DEF ParseArgument, st, Opening, Strings, ParseStringLiteral
    <3>2. a.cell = NoCell /\ a.next = st /\ a.errors = {"unterminated_string"}
      BY <3>1, ResultFields
    <3> DEFINE D == Len(O[st - 1])
    <3>3. D \in Nat /\ Len(O[e]) \in Nat /\ Len(O[e]) >= D + 1 /\ O[e][D + 1].kind = "string"
      BY <1>1, <2>1, <2>8, StringStays
    <3>4. a.errors # {} /\ "unterminated" \notin a.errors
      BY <3>2
    <3> HIDE DEF a, D, O
    <3>5. Len(O[e]) >= D /\ Len(O[e]) > D /\ ~(Len(O[e]) = D)
      BY <3>3
    <3>6. Unfinished(O[e], D, a.errors)
      BY <3>2, <3>3, <3>4, <3>5 DEF Unfinished, Opening
    <3>7. Breaks(s, st, e, a)
      BY <2>1, <2>8, <3>2, <3>6 DEF Breaks, D, O
    <3> QED BY <2>3, <3>7 DEF a
  <2>9. s[st] # "nl"
    BY <1>1, <1>2, <2>1
  <2> QED BY <2>2, <2>4, <2>5, <2>6, <2>7, <2>8, <2>9 DEF AnyToken, Atoms, Strings
<1> QED BY <1>4, <1>5

LEMMA ItemsReadToo ==
  ASSUME NEW s \in Seq(AnyToken), NEW i \in 1..(Len(s) + 1), NEW e \in (i - 1)..Len(s),
         \A j \in (i + 1)..(Len(s) + 1) : \A k \in (j - 1)..Len(s) :
           ArgumentReads(s, j, k) /\ ItemsRead(s, j, k)
  PROVE  ItemsRead(s, i, e)
<1> SUFFICES ASSUME Live(s, e), Brackets(s, i, e)
             PROVE  Lists(s, i, e, Items(Parser(s), s, i, e))
  BY DEF ItemsRead
<1> DEFINE O == OpenLists(s)
           P == Parser(s)
           a == ParseArgument(P, s, i, e)
           open == O[i - 1]
           L == Innermost(open)
           read == Items(P, s, i, e)
<1>1. Len(s) \in Nat /\ e \in Int /\ i \in Nat /\ 1 <= i /\ i <= e + 1 /\ e <= Len(s)
      /\ e \in 0..Len(s) /\ i - 1 \in 0..e /\ e \in 0..e
  BY OpenListsAt
<1>2. StackOK(open) /\ StackOK(O[e]) /\ Len(open) \in Nat /\ IsSeq(L.cells)
  BY <1>1, Along, InnermostOK
<1>3. /\ L.kind \in Opening /\ L.quote = 0 /\ Innermost(O[e]).quote = 0
      /\ Len(O[e]) = Len(open) /\ \A k \in (i - 1)..e : Len(O[k]) >= Len(open)
  BY DEF Brackets
<1>r. /\ a.cell = NoCell => read = Ended(a)
      /\ a.cell # NoCell => read = Prepended(a, P[a.next].items[e])
  BY DEF Items
<1>4. \/ Completes(s, i, e, a) \/ Breaks(s, i, e, a)
      \/ FindsNone(s, i, e, a) \/ FindsClosing(s, i, e, a)
  <2>1. Inside(s, i, e)
    BY <1>3 DEF Inside, Outside, LineEnds, Opening
  <2>2. ArgumentReads(s, i, e)
    BY ArgumentReadsToo
  <2> QED BY <2>1, <2>2 DEF ArgumentReads
<1> HIDE DEF O, P, a, open, L, read
<1>5. CASE Completes(s, i, e, a)
  <2> DEFINE n == a.next
             c == a.cell
             rest == P[n].items[e]
  <2>1. c # NoCell /\ a.errors = {} /\ n \in (i + 1)..(e + 1)
        /\ O[n - 1] = Added(s, open, c, n - 1)
    BY <1>5 DEF Completes, O, open
  <2> HIDE DEF n, c, rest
  <2>2. n \in Nat /\ n \in (i + 1)..(Len(s) + 1) /\ e \in (n - 1)..Len(s) /\ n \in 1..(Len(s) + 1)
        /\ n - 1 \in (i - 1)..e
    BY <1>1, <2>1
  <2>3. Item(s, L, c, n - 1) = c
    BY <1>3 DEF Item
  <2>4. Retopped(open, O[n - 1], Append(L.cells, c), 0)
    BY <1>2, <2>1, <2>3, AddedFacts DEF L
  <2>5. /\ Len(O[n - 1]) = Len(open) /\ Innermost(O[n - 1]).kind = L.kind
        /\ Innermost(O[n - 1]).cells = Append(L.cells, c) /\ Innermost(O[n - 1]).quote = 0
    BY <2>4 DEF Retopped, L
  <2>6. \A list : WithInnermost(O[n - 1], list) = WithInnermost(open, list)
    BY <2>4 DEF Retopped
  <2>7. Brackets(s, n, e)
    <3>1. \A k \in (n - 1)..e : Len(O[k]) >= Len(O[n - 1])
      <4>1. \A k \in (n - 1)..e : k \in (i - 1)..e
        BY <1>1, <2>2
      <4> QED BY <1>3, <2>5, <4>1
    <3> QED BY <1>3, <2>5, <3>1 DEF Brackets, O
  <2>8. Lists(s, n, e, rest)
    <3>1. rest = Items(P, s, n, e)
      BY <1>1, <2>2, ParserAt DEF P, rest
    <3> QED BY <2>2, <2>7, <3>1 DEF ItemsRead, P
  <2>9. /\ rest.errors = {} /\ rest.next = e + 1 /\ IsSeq(rest.cells)
        /\ O[e] = WithInnermost(O[n - 1], OpenList(L.kind, Append(L.cells, c) \o rest.cells, 0))
    BY <2>5, <2>8 DEF Lists, O
  <2>10. read = Prepended(a, rest)
    BY <1>r, <2>1 DEF rest, n, c
  <2>11. /\ read.cells = <<c>> \o rest.cells /\ read.next = e + 1 /\ read.errors = {}
    <3>1. read = Cells(<<c>> \o rest.cells, rest.next, a.errors \cup rest.errors)
      BY <2>10 DEF Prepended, c
    <3>2. a.errors \cup rest.errors = {}
      BY <2>1, <2>9
    <3>3. read.cells = <<c>> \o rest.cells /\ read.next = rest.next
          /\ read.errors = a.errors \cup rest.errors
      BY <3>1 DEF Cells
    <3> QED BY <2>9, <3>2, <3>3
  <2>12. /\ Append(L.cells, c) \o rest.cells = L.cells \o (<<c>> \o rest.cells)
         /\ IsSeq(<<c>> \o rest.cells)
    <3> DEFINE old == L.cells
               tail == rest.cells
    <3>1. IsSeq(old) /\ IsSeq(tail)
      BY <1>2, <2>9
    <3> HIDE DEF old, tail
    <3>2. Append(old, c) \o tail = old \o (<<c>> \o tail) /\ IsSeq(<<c>> \o tail)
      <4>1. Regrouped(old, c, tail)
        BY <3>1, RegroupedSeq
      <4> QED BY <4>1 DEF Regrouped
    <3> QED BY <3>2 DEF old, tail
  <2>13. O[e] = WithInnermost(open, OpenList(L.kind, L.cells \o read.cells, 0))
    BY <2>6, <2>9, <2>11, <2>12
  <2> QED BY <2>11, <2>12, <2>13 DEF Lists, O, open, L, read, P
<1>6. CASE Breaks(s, i, e, a)
  <2>1. Unfinished(O[e], Len(open), a.errors)
    BY <1>6 DEF Breaks, O, open
  <2> QED BY <1>3, <2>1 DEF Unfinished, Innermost
<1>7. CASE FindsNone(s, i, e, a)
  <2>1. a.cell = NoCell /\ a.errors = {} /\ a.next = e + 1 /\ O[e] = open
    BY <1>7 DEF FindsNone, O, open
  <2>2. read = Cells(<<>>, a.next, a.errors)
    BY <1>r, <2>1 DEF Ended
  <2>3. read.cells = <<>> /\ read.next = e + 1 /\ read.errors = {}
    BY <2>1, <2>2, ResultFields
  <2>4. L.cells \o read.cells = L.cells /\ IsSeq(read.cells)
    BY <1>2, <2>3, EmptyIsSeq, JoinedSeq
  <2>5. O[e] = WithInnermost(open, OpenList(L.kind, L.cells \o read.cells, 0))
    BY <1>2, <1>3, <2>1, <2>4, ToppedSame DEF L
  <2> QED BY <2>3, <2>4, <2>5 DEF Lists, O, open, L, read, P
<1>8. CASE FindsClosing(s, i, e, a)
  <2> DEFINE n == a.next
  <2>1. n \in i..e /\ s[n] \in Closing /\ O[n - 1] = open
    BY <1>8 DEF FindsClosing, O, open
  <2> HIDE DEF n
  <2>2. n - 1 \in 0..(e - 1) /\ n - 1 + 1 = n /\ n \in (i - 1)..e
    BY <1>1, <2>1
  <2>3. /\ StackOK(O[n - 1])
        /\ \/ Keeps(O[n - 1], O[n - 1 + 1], s[n - 1 + 1])
           \/ Opens(O[n - 1], O[n - 1 + 1], s[n - 1 + 1])
           \/ Closes(O[n - 1], O[n - 1 + 1], s[n - 1 + 1])
    BY <1>1, <2>2, StepAlong DEF O
  <2>4. Keeps(open, O[n], s[n]) \/ Opens(open, O[n], s[n]) \/ Closes(open, O[n], s[n])
    BY <2>1, <2>2, <2>3
  <2>5. Len(O[n]) = Len(open) - 1
    <3>1. s[n] \in Opening \cup Closing /\ s[n] \notin Opening
      BY <2>1, BracketFacts
    <3> QED BY <2>4, <3>1 DEF Keeps, Opens, Closes
  <2>6. Len(O[n]) >= Len(open)
    BY <1>3, <2>2
  <2> QED BY <1>2, <2>5, <2>6
<1> QED BY <1>4, <1>5, <1>6, <1>7, <1>8

LEMMA AllReads ==
  ASSUME NEW s \in Seq(AnyToken), NEW i \in 1..(Len(s) + 1), NEW e \in (i - 1)..Len(s)
  PROVE  ArgumentReads(s, i, e) /\ ItemsRead(s, i, e)
<1> DEFINE N == Len(s) + 1
           S == {j \in 1..N : \A k \in (j - 1)..Len(s) :
                                ArgumentReads(s, j, k) /\ ItemsRead(s, j, k)}
<1>1. N \in Int /\ 1 \in Int
  BY OpenListsAt
<1>2. ASSUME NEW k \in 1..N, \A j \in (k + 1)..N : j \in S PROVE k \in S
  <2>1. \A j \in (k + 1)..N : \A l \in (j - 1)..Len(s) :
          ArgumentReads(s, j, l) /\ ItemsRead(s, j, l)
    BY <1>2
  <2>2. \A l \in (k - 1)..Len(s) : ArgumentReads(s, k, l) /\ ItemsRead(s, k, l)
    BY <2>1, ArgumentReadsToo, ItemsReadToo
  <2> QED BY <2>2
<1>3. \A k \in 1..N : k \in S
  <2> HIDE DEF S, N
  <2> QED BY <1>1, <1>2, Downward
<1> QED BY <1>3

-----------------------------------------------------------------------------
(***************************************************************************)
(* Lines and whole texts.                                                  *)
(***************************************************************************)

(* The reader goes no further: the text or what can be read of it ends.    *)
Halted(s, n) == n = Len(s) + 1 \/ (n \in 1..Len(s) /\ s[n] = "str...")

HasOpen(open, kinds) == \E d \in 1..Len(open) : open[d].kind \in kinds

(* The text is not complete, and that is said.  If no bracket is missing,  *)
(* none is reported, but a string that is open is.                         *)
Broken(s, read) ==
  /\ read.errors # {} /\ ~WellFormed(s)
  /\ ~HasOpen(OpenLists(s)[Len(s)], Opening) =>
       /\ "unterminated" \notin read.errors /\ Halted(s, read.next)
       /\ "unterminated_string" \in read.errors
            <=> HasOpen(OpenLists(s)[Len(s)], {"string"})

LEMMA BreaksText ==
  ASSUME NEW s \in Seq(AnyToken), Live(s, Len(s)), NEW i \in 1..(Len(s) + 1), NEW result,
         Breaks(s, i, Len(s), result), Len(OpenLists(s)[i - 1]) <= 2
  PROVE  Broken(s, result)
<1> DEFINE N == Len(s)
           open == OpenLists(s)[N]
           D == Len(OpenLists(s)[i - 1])
           L == Innermost(open)
<1>1. N \in Nat /\ N \in 0..N /\ i - 1 \in 0..N
  BY OpenListsAt
<1>2. StackOK(open) /\ D \in Nat /\ D >= 1 /\ D <= 2 /\ Len(open) \in Nat
  BY <1>1, Along, InnermostOK DEF StackOK
<1>3. /\ Unfinished(open, D, result.errors)
      /\ \/ result.next \in 1..N /\ s[result.next] = "str..."
         \/ Len(open) = D /\ result.next = N + 1
         \/ Len(open) > D /\ open[D + 1].kind \in Opening
  BY DEF Breaks
<1> HIDE DEF N, open, D, L
<1>4. /\ result.errors # {} /\ Len(open) >= D
      /\ Len(open) = D => open[D].quote # 0 /\ open[D].kind # "string"
      /\ Len(open) > D => open[D + 1].kind \in Opening \cup {"string"}
      /\ "unterminated" \in result.errors => Len(open) > D /\ open[D + 1].kind \in Opening
      /\ "unterminated_string" \in result.errors
           <=> Len(open) > D /\ open[D + 1].kind = "string"
  BY <1>3 DEF Unfinished
<1>5. L = open[Len(open)] /\ open # Misplaced
  BY <1>2, InnermostOK DEF L, Innermost
<1>6. ~LineEnds(open)
  <2>1. SUFFICES ASSUME L.kind = "line", L.quote = 0 PROVE FALSE
    BY DEF LineEnds, L
  <2>2. Len(open) = 2
    BY <1>2, <2>1, InnermostOK DEF L
  <2>3. D = 1 \/ D = 2
    BY <1>2, <1>4, <2>2
  <2>4. CASE D = 2
    BY <1>4, <1>5, <2>1, <2>2, <2>4
  <2>5. CASE D = 1
    <3>1. open[2].kind \in Opening \cup {"string"}
      BY <1>4, <2>2, <2>5
    <3> QED BY <1>5, <2>1, <2>2, <3>1 DEF Opening
  <2> QED BY <2>3, <2>4, <2>5
<1>7. OpenAfter(s) = open
  BY <1>6 DEF OpenAfter, open, N
<1>8. ~WellFormed(s)
  <2>1. ~(Len(open) = 1 /\ open[1].quote = 0)
    <3>1. Len(open) = 1 => D = 1
      BY <1>2, <1>4
    <3> QED BY <1>4, <3>1
  <2> QED BY <1>7, <2>1 DEF WellFormed, IsText
<1>9. CASE Len(open) > D
  <2>1. D + 1 \in 1..Len(open)
    BY <1>2, <1>9
  <2>2. CASE open[D + 1].kind \in Opening
    <3>1. HasOpen(open, Opening)
      BY <2>1, <2>2 DEF HasOpen
    <3> QED BY <1>4, <1>8, <3>1 DEF Broken, open, N
  <2>3. CASE open[D + 1].kind = "string"
    <3>1. HasOpen(open, {"string"}) /\ open[D + 1].kind \notin Opening
      BY <2>1, <2>3 DEF HasOpen, Opening
    <3>2. "unterminated" \notin result.errors /\ "unterminated_string" \in result.errors
      BY <1>4, <1>9, <2>3, <3>1
    <3>3. Halted(s, result.next)
      BY <1>2, <1>3, <1>9, <3>1 DEF Halted, N
    <3> QED BY <1>4, <1>8, <3>1, <3>2, <3>3 DEF Broken, open, N
  <2> QED BY <1>4, <1>9, <2>2, <2>3
<1>10. CASE ~(Len(open) > D)
  <2>1. Len(open) = D
    BY <1>2, <1>4, <1>10
  <2>2. "unterminated" \notin result.errors /\ "unterminated_string" \notin result.errors
    BY <1>4, <1>10
  <2>3. Halted(s, result.next)
    BY <1>3, <1>10 DEF Halted, N
  <2>4. ASSUME NEW d \in 1..Len(open) PROVE open[d].kind # "string"
    <3>1. d = 1 \/ d = D
      <4>1. D \in 1..2
        BY <1>2
      <4> QED BY <2>1, <4>1
    <3>2. CASE d = 1
      <4>1. open[d].kind = "text"
        BY <1>2, <3>2 DEF StackOK
      <4> QED BY <4>1
    <3>3. CASE d = D
      BY <1>4, <2>1, <3>3
    <3> QED BY <3>1, <3>2, <3>3
  <2>5. ~HasOpen(open, {"string"})
    BY <2>4 DEF HasOpen
  <2> QED BY <1>4, <1>8, <2>2, <2>3, <2>5 DEF Broken, open, N
<1> QED BY <1>9, <1>10

(* The text with a line more.                                              *)
WithLine(open, cells) ==
  WithInnermost(Outer(open),
    OpenList(Innermost(Outer(open)).kind,
             Append(Innermost(Outer(open)).cells, List("(", cells)), 0))

LineDone(s, i, read) ==
  /\ read.errors = {} /\ IsSeq(read.cells) /\ read.next \in i..(Len(s) + 1)
  /\ \/ OpenLists(s)[read.next - 1]
          = WithLine(OpenLists(s)[i - 1], Innermost(OpenLists(s)[i - 1]).cells \o read.cells)
     \/ /\ read.next = Len(s) + 1
        /\ OpenAfter(s)
             = WithLine(OpenLists(s)[i - 1], Innermost(OpenLists(s)[i - 1]).cells \o read.cells)

LineReads(s, i) ==
  Live(s, Len(s)) /\ LineEnds(OpenLists(s)[i - 1])
  /\ Innermost(Outer(OpenLists(s)[i - 1])).quote = 0 =>
    \/ LineDone(s, i, Line(Parser(s), s, i, Len(s)))
    \/ Broken(s, Line(Parser(s), s, i, Len(s)))

LEMMA ClosedLine ==
  ASSUME NEW s, NEW open, Innermost(Outer(open)).quote = 0, NEW i
  PROVE  Closed(s, open, "(", i) = WithLine(open, Innermost(open).cells)
BY DEF Closed, Added, Item, WithLine

LEMMA LineReadsToo ==
  ASSUME NEW s \in Seq(AnyToken), NEW i \in 1..(Len(s) + 1),
         \A j \in (i + 1)..(Len(s) + 1) : LineReads(s, j)
  PROVE  LineReads(s, i)
<1> SUFFICES ASSUME Live(s, Len(s)), LineEnds(OpenLists(s)[i - 1]),
                    Innermost(Outer(OpenLists(s)[i - 1])).quote = 0
             PROVE  \/ LineDone(s, i, Line(Parser(s), s, i, Len(s)))
                    \/ Broken(s, Line(Parser(s), s, i, Len(s)))
  BY DEF LineReads
<1> DEFINE N == Len(s)
           O == OpenLists(s)
           P == Parser(s)
           open == O[i - 1]
           L == Innermost(open)
           a == ParseArgument(P, s, i, N)
           read == Line(P, s, i, N)
<1>1. N \in Nat /\ N \in 0..N /\ i \in Nat /\ 1 <= i /\ i <= N + 1 /\ i - 1 \in 0..N
      /\ N \in (i - 1)..N /\ N \in Int
  BY OpenListsAt
<1>2. StackOK(open) /\ IsSeq(L.cells) /\ Len(open) \in Nat
  BY <1>1, Along, InnermostOK
<1>3. L.kind = "line" /\ L.quote = 0
  BY DEF LineEnds
<1>4. Len(open) = 2
  BY <1>2, <1>3, InnermostOK
<1>c. L.cells \o <<>> = L.cells /\ IsSeq(<<>>)
  BY <1>2, EmptyIsSeq, JoinedSeq
<1>r. /\ i > N \/ s[i] = "nl" => read = Cells(<<>>, Skip(s, i, N), {})
      /\ ~(i > N \/ s[i] = "nl") =>
           /\ a.cell = NoCell => read = Ended(a)
           /\ a.cell # NoCell => read = Prepended(a, P[a.next].line[N])
  BY DEF Line
<1>a. ~(i > N \/ s[i] = "nl") =>
        \/ Completes(s, i, N, a) \/ Breaks(s, i, N, a)
        \/ FindsNone(s, i, N, a) \/ FindsClosing(s, i, N, a)
  <2>1. SUFFICES ASSUME ~(i > N \/ s[i] = "nl")
                 PROVE \/ Completes(s, i, N, a) \/ Breaks(s, i, N, a)
                       \/ FindsNone(s, i, N, a) \/ FindsClosing(s, i, N, a)
    OBVIOUS
  <2>2. Inside(s, i, N)
    BY <1>1, <1>3, <2>1 DEF Inside, Outside
  <2>3. ArgumentReads(s, i, N)
    BY <1>1, AllReads
  <2> QED BY <2>2, <2>3 DEF ArgumentReads
<1> HIDE DEF N, O, P, open, L, a, read
<1>5. ASSUME read = Cells(<<>>, N + 1, {}), O[N] = open
      PROVE  LineDone(s, i, read)
  <2>1. read.cells = <<>> /\ read.next = N + 1 /\ read.errors = {}
    BY <1>5, ResultFields
  <2>2. OpenAfter(s) = Closed(s, open, "(", N)
    BY <1>5 DEF OpenAfter, Live, O, open, N
  <2>3. OpenAfter(s) = WithLine(open, L.cells \o read.cells)
    BY <1>c, <2>1, <2>2, ClosedLine DEF open, O, L
  <2>4. read.next \in i..(N + 1) /\ IsSeq(read.cells)
    BY <1>1, <1>c, <2>1
  <2> QED BY <2>1, <2>3, <2>4 DEF LineDone, O, open, L, N
<1>6. CASE i > N
  <2>1. i = N + 1
    BY <1>1, <1>6
  <2>2. Skip(s, i, N) = N + 1
    <3>1. Skip(s, i, N) \in i..(N + 1)
      BY <1>1, SkipFacts, Zenon
    <3> QED BY <2>1, <3>1
  <2>3. O[N] = open
    <3>1. N = i - 1
      BY <1>1, <2>1
    <3> QED BY <3>1 DEF open
  <2>4. LineDone(s, i, read)
    BY <1>5, <1>6, <1>r, <2>2, <2>3
  <2> QED BY <2>4 DEF read, P, N
<1>7. CASE ~(i > N) /\ s[i] = "nl"
  <2> DEFINE m == Skip(s, i, N)
  <2>1. m \in i..(N + 1) /\ (m = N + 1 \/ s[m] # "nl") /\ \A k \in i..(m - 1) : s[k] = "nl"
    BY <1>1, SkipFacts, Zenon
  <2> HIDE DEF m
  <2>2. m \in (i + 1)..(N + 1) /\ i + 1 \in 1..(N + 1) /\ i \in 1..N /\ i - 1 \in 0..(N - 1)
        /\ i - 1 + 1 = i /\ i + 1 - 1 = i /\ i \in 0..N
    BY <1>1, <1>7, <2>1
  <2>3. O[i] = Closed(s, open, "(", i)
    <3>1. O[i - 1 + 1] = TakeToken(s, O[i - 1], i - 1 + 1)
      BY <1>1, <2>2, StepAlong DEF O, N
    <3>2. O[i] = TakeToken(s, open, i)
      BY <2>2, <3>1 DEF open
    <3> QED BY <1>7, <3>2, TakeIs DEF open, O
  <2>4. O[i] = WithLine(open, L.cells)
    BY <2>3, ClosedLine DEF open, O, L
  <2>5. ~LineEnds(O[i])
    <3>1. StackOK(O[i]) /\ Len(O[i]) = Len(open) - 1
      <4>1. Len(open) >= 2
        BY <1>4
      <4> QED BY <1>2, <2>3, <4>1, ClosedFacts
    <3>2. Len(O[i]) = 1
      BY <1>4, <3>1
    <3>3. Innermost(O[i]).kind # "line"
      BY <3>1, <3>2, InnermostOK
    <3> QED BY <3>3 DEF LineEnds
  <2>6. O[m - 1] = O[i]
    <3>1. \A k \in (i + 1)..(m - 1) : s[k] = "nl"
      BY <1>1, <2>1
    <3>2. OpenLists(s)[m - 1] = OpenLists(s)[i + 1 - 1]
      <4>1. LineEnds(OpenLists(s)[i + 1 - 1]) => m = i + 1
        BY <2>2, <2>5 DEF O
      <4>2. /\ Len(s) \in 0..Len(s) /\ i + 1 \in 1..(Len(s) + 1)
            /\ m \in (i + 1)..(Len(s) + 1)
        BY <1>1, <2>2 DEF N
      <4> DEFINE h == i + 1
      <4>3. h \in 1..(Len(s) + 1) /\ m \in h..(Len(s) + 1) /\ \A k \in h..(m - 1) : s[k] = "nl"
            /\ (LineEnds(OpenLists(s)[h - 1]) => m = h)
        BY <3>1, <4>1, <4>2
      <4> HIDE DEF h
      <4>4. OpenLists(s)[m - 1] = OpenLists(s)[h - 1]
        BY <4>2, <4>3, BreaksSkipped
      <4> QED BY <4>4 DEF h
    <3> QED BY <2>2, <3>2 DEF O
  <2>7. read.cells = <<>> /\ read.next = m /\ read.errors = {}
    BY <1>r, <1>7, ResultFields DEF m
  <2>8. O[read.next - 1] = WithLine(open, L.cells \o read.cells)
    BY <1>c, <2>4, <2>6, <2>7
  <2>9. LineDone(s, i, read)
    BY <1>c, <2>1, <2>7, <2>8 DEF LineDone, O, open, L, N
  <2> QED BY <2>9 DEF read, P, N
<1>8. CASE ~(i > N) /\ s[i] # "nl"
  <2>1. CASE Completes(s, i, N, a)
    <3> DEFINE n == a.next
               c == a.cell
               rest == P[n].line[N]
    <3>1. c # NoCell /\ a.errors = {} /\ n \in (i + 1)..(N + 1)
          /\ O[n - 1] = Added(s, open, c, n - 1)
      BY <2>1 DEF Completes, O, open
    <3> HIDE DEF n, c, rest
    <3>2. n \in Nat /\ n \in 1..(N + 1) /\ N \in (n - 1)..N
      BY <1>1, <3>1
    <3>3. Item(s, L, c, n - 1) = c
      BY <1>3 DEF Item
    <3>4. Retopped(open, O[n - 1], Append(L.cells, c), 0)
      BY <1>2, <3>1, <3>3, AddedFacts DEF L
    <3>5. /\ Innermost(O[n - 1]).kind = "line" /\ Innermost(O[n - 1]).quote = 0
          /\ Innermost(O[n - 1]).cells = Append(L.cells, c) /\ Outer(O[n - 1]) = Outer(open)
      BY <1>3, <3>4 DEF Retopped, L
    <3>6. rest = Line(P, s, n, N)
      BY <1>1, <3>2, ParserAt DEF P, rest, N
    <3>7. LineDone(s, n, rest) \/ Broken(s, rest)
      <4>1. LineReads(s, n)
        BY <3>1 DEF N
      <4>2. LineEnds(O[n - 1]) /\ Innermost(Outer(O[n - 1])).quote = 0
        BY <3>5 DEF LineEnds, open, O
      <4> QED BY <3>6, <4>1, <4>2 DEF LineReads, O, P, N
    <3>8. read = Prepended(a, rest)
      BY <1>r, <1>8, <3>1 DEF rest, n, c
    <3>9. /\ read.cells = <<c>> \o rest.cells /\ read.next = rest.next
          /\ read.errors = rest.errors
      <4>1. read = Cells(<<c>> \o rest.cells, rest.next, a.errors \cup rest.errors)
        BY <3>8 DEF Prepended, c
      <4>2. /\ read.cells = <<c>> \o rest.cells /\ read.next = rest.next
            /\ read.errors = a.errors \cup rest.errors
        BY <4>1 DEF Cells
      <4> QED BY <3>1, <4>2
    <3>10. CASE LineDone(s, n, rest)
      <4> DEFINE tail == rest.cells
                 old == L.cells
      <4>1. rest.errors = {} /\ IsSeq(tail) /\ rest.next \in n..(N + 1)
        BY <3>10 DEF LineDone, N
      <4>2. IsSeq(old)
        BY <1>2
      <4> HIDE DEF tail, old
      <4>3. Append(old, c) \o tail = old \o (<<c>> \o tail) /\ IsSeq(<<c>> \o tail)
        <5>1. Regrouped(old, c, tail)
          BY <4>1, <4>2, RegroupedSeq
        <5> QED BY <5>1 DEF Regrouped
      <4>4. WithLine(O[n - 1], Append(old, c) \o tail) = WithLine(open, old \o read.cells)
        BY <3>5, <3>9, <4>3 DEF WithLine, tail
      <4>5. \/ O[rest.next - 1] = WithLine(O[n - 1], Append(old, c) \o tail)
            \/ /\ rest.next = N + 1
               /\ OpenAfter(s) = WithLine(O[n - 1], Append(old, c) \o tail)
        BY <3>5, <3>10 DEF LineDone, N, O, old, tail
      <4>6. \/ O[read.next - 1] = WithLine(open, old \o read.cells)
            \/ read.next = N + 1 /\ OpenAfter(s) = WithLine(open, old \o read.cells)
        BY <3>9, <4>4, <4>5
      <4>7. read.errors = {} /\ IsSeq(read.cells) /\ read.next \in i..(N + 1)
        <5>1. n..(N + 1) \subseteq i..(N + 1)
          BY <1>1, <3>1, <3>2
        <5> QED BY <3>9, <4>1, <4>3, <5>1 DEF tail
      <4>8. LineDone(s, i, read)
        BY <4>6, <4>7 DEF LineDone, N, O, open, old, L
      <4> QED BY <4>8 DEF read, P, N
    <3>11. CASE Broken(s, rest)
      <4>1. Broken(s, read)
        BY <3>9, <3>11 DEF Broken
      <4> QED BY <4>1 DEF read, P, N
    <3> QED BY <3>7, <3>10, <3>11
  <2>2. CASE Breaks(s, i, N, a)
    <3>1. Broken(s, a)
      <4>1. Len(OpenLists(s)[i - 1]) <= 2
        BY <1>4 DEF open, O
      <4> QED BY <1>1, <2>2, <4>1, BreaksText DEF N
    <3>2. read = Ended(a)
      BY <1>r, <1>8, <2>2 DEF Breaks
    <3>3. read.errors = a.errors /\ read.next = a.next
      BY <3>2, ResultFields DEF Ended
    <3>4. Broken(s, read)
      BY <3>1, <3>3 DEF Broken
    <3> QED BY <3>4 DEF read, P, N
  <2>3. CASE FindsNone(s, i, N, a)
    <3>1. a.cell = NoCell /\ a.errors = {} /\ a.next = N + 1 /\ O[N] = open
      BY <2>3 DEF FindsNone, O, open
    <3>2. read = Cells(<<>>, N + 1, {})
      BY <1>r, <1>8, <3>1 DEF Ended
    <3>3. LineDone(s, i, read)
      BY <1>5, <3>1, <3>2
    <3> QED BY <3>3 DEF read, P, N
  <2>4. CASE FindsClosing(s, i, N, a)
    <3> DEFINE n == a.next
    <3>1. n \in i..N /\ s[n] \in Closing /\ O[n - 1] = open
      BY <2>4 DEF FindsClosing, O, open
    <3> HIDE DEF n
    <3>2. n - 1 \in 0..(N - 1) /\ n - 1 + 1 = n
      BY <1>1, <3>1
    <3>3. O[n - 1 + 1] = TakeToken(s, O[n - 1], n - 1 + 1) /\ Live(s, n - 1 + 1)
      BY <1>1, <3>2, StepAlong DEF O, N
    <3>4. O[n] = TakeClosing(s, open, n) /\ O[n] # Misplaced
      BY <3>1, <3>2, <3>3, TakeIs DEF Live, O
    <3> QED BY <1>3, <3>4 DEF TakeClosing, L, Opening
  <2> QED BY <1>8, <1>a, <2>1, <2>2, <2>3, <2>4
<1> QED BY <1>6, <1>7, <1>8

LEMMA AllLines ==
  ASSUME NEW s \in Seq(AnyToken), NEW i \in 1..(Len(s) + 1)
  PROVE  LineReads(s, i)
<1> DEFINE N == Len(s) + 1
           S == {j \in 1..N : LineReads(s, j)}
<1>1. N \in Int /\ 1 \in Int
  BY OpenListsAt
<1>2. ASSUME NEW k \in 1..N, \A j \in (k + 1)..N : j \in S PROVE k \in S
  BY <1>2, LineReadsToo
<1>3. \A k \in 1..N : k \in S
  <2> HIDE DEF S, N
  <2> QED BY <1>1, <1>2, Downward
<1> QED BY <1>3

(* The rest of a text, read outside brackets and lines.                    *)
TextDone(s, i, read) ==
  /\ read.errors = {} /\ IsSeq(read.cells) /\ read.next = Len(s) + 1
  /\ OpenAfter(s)
       = WithInnermost(OpenLists(s)[i - 1],
                       OpenList(Innermost(OpenLists(s)[i - 1]).kind,
                                Innermost(OpenLists(s)[i - 1]).cells \o read.cells, 0))

TextReads(s, i) ==
  Live(s, Len(s)) /\ Outside(OpenLists(s)[i - 1]) =>
    \/ TextDone(s, i, Expressions(Parser(s), s, i, Len(s)))
    \/ Broken(s, Expressions(Parser(s), s, i, Len(s)))

(* A cell more, and then the rest.                                         *)
LEMMA TextGoesOn ==
  ASSUME NEW s \in Seq(AnyToken), Live(s, Len(s)), NEW i \in 1..(Len(s) + 1),
         Outside(OpenLists(s)[i - 1]), NEW first, first.errors = {},
         first.next \in 1..(Len(s) + 1), TextReads(s, first.next),
         Retopped(OpenLists(s)[i - 1], OpenLists(s)[first.next - 1],
                  Append(Innermost(OpenLists(s)[i - 1]).cells, first.cell), 0)
  PROVE  \/ TextDone(s, i, Prepended(first, Parser(s)[first.next].expressions[Len(s)]))
         \/ Broken(s, Prepended(first, Parser(s)[first.next].expressions[Len(s)]))
<1> DEFINE N == Len(s)
           O == OpenLists(s)
           n == first.next
           c == first.cell
           open == O[i - 1]
           after == O[n - 1]
           old == Innermost(open).cells
           rest == Parser(s)[n].expressions[N]
           tail == rest.cells
           read == Prepended(first, rest)
<1>1. N \in Nat /\ N \in 0..N /\ i - 1 \in 0..N /\ N \in (n - 1)..N
  BY OpenListsAt
<1>2. IsSeq(old)
  BY <1>1, Along, InnermostOK
<1>3. rest = Expressions(Parser(s), s, n, N)
  BY <1>1, ParserAt
<1>4. Innermost(after).kind = Innermost(open).kind /\ Innermost(after).cells = Append(old, c)
      /\ Innermost(after).quote = 0 /\ \A list : WithInnermost(after, list) = WithInnermost(open, list)
  BY DEF Retopped
<1>5. Outside(after)
  BY <1>4 DEF Outside
<1>6. TextDone(s, n, rest) \/ Broken(s, rest)
  BY <1>3, <1>5 DEF TextReads
<1>7. read.cells = <<c>> \o tail /\ read.next = rest.next /\ read.errors = rest.errors
  <2>1. /\ read.cells = <<c>> \o tail /\ read.next = rest.next
        /\ read.errors = first.errors \cup rest.errors
    BY DEF Prepended, Cells
  <2> QED BY <2>1
<1> HIDE DEF rest, read, tail
<1>8. CASE TextDone(s, n, rest)
  <2>1. rest.errors = {} /\ IsSeq(tail) /\ rest.next = N + 1
        /\ OpenAfter(s) = WithInnermost(after, OpenList(Innermost(after).kind,
                                                        Innermost(after).cells \o tail, 0))
    BY <1>8 DEF TextDone, tail
  <2> HIDE DEF N, O, open, after, old, n, c
  <2>2. Append(old, c) \o tail = old \o (<<c>> \o tail) /\ IsSeq(<<c>> \o tail)
    <3>1. Regrouped(old, c, tail)
      BY <1>2, <2>1, RegroupedSeq
    <3> QED BY <3>1 DEF Regrouped
  <2>3. OpenAfter(s) = WithInnermost(open, OpenList(Innermost(open).kind, old \o read.cells, 0))
    BY <1>4, <1>7, <2>1, <2>2
  <2>4. TextDone(s, i, read)
    BY <1>7, <2>1, <2>2, <2>3 DEF TextDone, open, old, O, N
  <2> QED BY <2>4 DEF read, rest, n, N
<1>9. CASE Broken(s, rest)
  <2>1. Broken(s, read)
    BY <1>7, <1>9 DEF Broken
  <2> QED BY <2>1 DEF read, rest
<1> QED BY <1>6, <1>8, <1>9

LEMMA NothingMore ==
  ASSUME NEW s \in Seq(AnyToken), NEW e \in 0..Len(s), NEW i \in 1..(Len(s) + 1), i = e + 1
  PROVE  /\ Parser(s)[i].expressions[e] = Cells(<<>>, i, {})
         /\ Skip(s, i, e) = i
<1>1. e \in Int /\ Len(s) \in Nat /\ i \in Nat /\ e \in (i - 1)..Len(s) /\ i <= e + 1 /\ i > e
  BY OpenListsAt
<1>2. Skip(s, i, e) = i
  <2>1. Skip(s, i, e) \in i..(e + 1)
    BY <1>1, SkipFacts, Zenon
  <2> QED BY <1>1, <2>1
<1>3. Parser(s)[i].expressions[e] = Expressions(Parser(s), s, i, e)
  BY <1>1, ParserAt
<1> QED BY <1>1, <1>2, <1>3 DEF Expressions

LEMMA NothingToRead ==
  ASSUME NEW s \in Seq(AnyToken), NEW n \in 1..(Len(s) + 1), Halted(s, n)
  PROVE  /\ Parser(s)[n].expressions[Len(s)].errors = {}
         /\ Parser(s)[n].expressions[Len(s)].next = n
<1> DEFINE N == Len(s)
<1>1. N \in Nat /\ N \in 0..N /\ N \in Int /\ n \in Nat /\ N \in (n - 1)..N /\ n <= N + 1
  BY OpenListsAt
<1>2. CASE n = N + 1
  <2>1. Parser(s)[n].expressions[N] = Cells(<<>>, n, {})
    BY <1>1, <1>2, NothingMore
  <2> QED BY <2>1 DEF Cells
<1>3. CASE n \in 1..N /\ s[n] = "str..."
  <2> DEFINE first == ParseExpression(Parser(s), s, n, N)
  <2>1. Skip(s, n, N) = n /\ ~(n > N)
    <3>1. N \in Int /\ n \in n..(N + 1) /\ n <= N /\ s[n] # "nl"
      BY <1>1, <1>3
    <3>2. \A k \in n..(n - 1) : s[k] = "nl"
      BY <1>1
    <3> QED BY <1>1, <3>1, <3>2, SkipIs
  <2>2. first = Result(NoCell, n, {})
    BY <1>3 DEF ParseExpression, ParseVirtualList, Opening
  <2>3. first.cell = NoCell /\ first.next = n /\ first.errors = {}
    BY <2>2, ResultFields
  <2>4. Expressions(Parser(s), s, n, N) = Ended(first)
    BY <2>1, <2>3 DEF Expressions
  <2>5. Parser(s)[n].expressions[N] = Ended(first)
    BY <1>1, <2>4, ParserAt
  <2> QED BY <2>3, <2>5, ResultFields DEF Ended
<1> QED BY <1>2, <1>3 DEF Halted

LEMMA VirtualReads ==
  ASSUME NEW s \in Seq(AnyToken), Live(s, Len(s)), NEW i \in 1..Len(s), s[i] = "sym",
         Outside(OpenLists(s)[i - 1]),
         \A j \in (i + 1)..(Len(s) + 1) : TextReads(s, j),
         NEW first, first = ParseVirtualList(Parser(s), s, i, Len(s)),
         NEW read, read = Prepended(first, Parser(s)[first.next].expressions[Len(s)])
  PROVE  TextDone(s, i, read) \/ Broken(s, read)
<1> DEFINE N == Len(s)
           O == OpenLists(s)
           P == Parser(s)
           open == O[i - 1]
           old == Innermost(open).cells
           atom == <<Atom(s[i])>>
           rest == P[i + 1].line[N]
           c == List("(", atom \o rest.cells)
<1>1. N \in Nat /\ N \in 0..N /\ i - 1 \in 0..(N - 1) /\ i - 1 + 1 = i /\ i + 1 - 1 = i
      /\ i + 1 \in 1..(N + 1) /\ N \in (i + 1 - 1)..N /\ i - 1 \in 0..N /\ i \in 1..(N + 1)
      /\ i \in Int /\ N + 1 \in 1..(N + 1) /\ N \in Int
  BY OpenListsAt
<1>2. StackOK(open) /\ IsSeq(old) /\ Innermost(open).kind = "text"
      /\ Innermost(open).quote = 0 /\ Len(open) = 1
  <2>1. StackOK(open)
    BY <1>1, Along
  <2> QED BY <2>1, InnermostOK DEF Outside
<1>3. O[i] = Append(open, OpenList("line", atom, 0))
  <2>1. O[i - 1 + 1] = TakeToken(s, O[i - 1], i - 1 + 1)
    BY <1>1, StepAlong
  <2>2. O[i] = TakeToken(s, open, i)
    BY <1>1, <2>1
  <2>3. s[i] \in Atoms
    BY DEF Atoms, StaticTypes
  <2>4. O[i] = TakeAtom(s, open, i)
    BY <2>2, <2>3, TakeIs
  <2> QED BY <2>4 DEF TakeAtom
<1>4. PushedOn(open, O[i], "line", atom, 0)
  <2>1. IsSeq(atom)
    <3>1. atom \in Seq({Atom(s[i])})
      OBVIOUS
    <3> QED BY <3>1, SeqIsSeq
  <2> HIDE DEF open, atom
  <2> QED BY <1>2, <1>3, <2>1, Pushed
<1>5. /\ Innermost(O[i]).kind = "line" /\ Innermost(O[i]).cells = atom
      /\ Innermost(O[i]).quote = 0 /\ Outer(O[i]) = open
  BY <1>4 DEF PushedOn
<1>6. rest = Line(P, s, i + 1, N) /\ rest.next \in (i + 1)..(N + 1)
  <2>1. rest = Line(P, s, i + 1, N)
    BY <1>1, ParserAt
  <2>2. Goes(P, s, 1)
    BY <1>1, ParserIs
  <2>3. rest.next \in (i + 1)..(N + 1)
    BY <1>1, <2>2, GoesAt
  <2> QED BY <2>1, <2>3
<1>7. LineDone(s, i + 1, rest) \/ Broken(s, rest)
  <2>1. LineReads(s, i + 1)
    BY <1>1, AllLines
  <2>2. LineEnds(O[i + 1 - 1]) /\ Innermost(Outer(O[i + 1 - 1])).quote = 0
    BY <1>1, <1>2, <1>5 DEF LineEnds
  <2> QED BY <1>6, <2>1, <2>2 DEF LineReads
<1>8. first.cell = c /\ first.next = rest.next /\ first.errors = rest.errors
  BY DEF ParseVirtualList, Result
<1>9. /\ read.cells = <<c>> \o P[first.next].expressions[N].cells
      /\ read.next = P[first.next].expressions[N].next
      /\ read.errors = first.errors \cup P[first.next].expressions[N].errors
  BY <1>8 DEF Prepended, Cells
<1>10. rest.next = N + 1 => read.cells = <<c>> \o <<>> /\ read.next = N + 1
                            /\ read.errors = rest.errors
  <2>1. SUFFICES ASSUME rest.next = N + 1
                 PROVE  read.cells = <<c>> \o <<>> /\ read.next = N + 1
                        /\ read.errors = rest.errors
    OBVIOUS
  <2>2. P[N + 1].expressions[N] = Cells(<<>>, N + 1, {})
    BY <1>1, NothingMore
  <2>3. /\ P[first.next].expressions[N].cells = <<>> /\ P[first.next].expressions[N].next = N + 1
        /\ P[first.next].expressions[N].errors = {}
    BY <1>8, <2>1, <2>2 DEF Cells
  <2> QED BY <1>8, <1>9, <2>3
<1> HIDE DEF N, O, P, open, old, atom, rest, c
<1>11. CASE LineDone(s, i + 1, rest)
  <2>1. /\ rest.errors = {} /\ IsSeq(rest.cells)
        /\ \/ O[rest.next - 1] = WithLine(O[i], atom \o rest.cells)
           \/ rest.next = N + 1 /\ OpenAfter(s) = WithLine(O[i], atom \o rest.cells)
    BY <1>1, <1>5, <1>11 DEF LineDone, O, N
  <2>2. WithLine(O[i], atom \o rest.cells)
          = WithInnermost(open, OpenList(Innermost(open).kind, Append(old, c), 0))
    BY <1>5 DEF WithLine, old, c
  <2>3. CASE O[rest.next - 1] = WithLine(O[i], atom \o rest.cells)
    <3>1. IsSeq(Append(old, c))
      BY <1>2, AppendedSeq
    <3>2. Retopped(open, O[first.next - 1], Append(old, c), 0)
      BY <1>2, <1>8, <2>2, <2>3, <3>1, Topped
    <3>3. first.next \in (i + 1)..(Len(s) + 1) /\ first.next \in 1..(Len(s) + 1)
      BY <1>1, <1>6, <1>8 DEF N
    <3>4. TextReads(s, first.next)
      BY <3>3
    <3>5. Retopped(OpenLists(s)[i - 1], OpenLists(s)[first.next - 1],
                   Append(Innermost(OpenLists(s)[i - 1]).cells, first.cell), 0)
      BY <1>8, <3>2 DEF open, O, old
    <3>6. first.errors = {} /\ i \in 1..(Len(s) + 1)
      BY <1>1, <1>8, <2>1 DEF N
    <3> QED BY <3>3, <3>4, <3>5, <3>6, TextGoesOn
  <2>4. CASE rest.next = N + 1 /\ OpenAfter(s) = WithLine(O[i], atom \o rest.cells)
    <3>1. read.cells = <<c>> \o <<>> /\ read.next = N + 1 /\ read.errors = {}
      BY <1>10, <2>1, <2>4
    <3>2. Append(old, c) \o <<>> = old \o (<<c>> \o <<>>) /\ IsSeq(<<c>> \o <<>>)
          /\ Append(old, c) \o <<>> = Append(old, c)
      <4>1. IsSeq(<<>>) /\ IsSeq(Append(old, c))
        BY <1>2, EmptyIsSeq, AppendedSeq
      <4> DEFINE more == Append(old, c)
                 none == <<>>
      <4>2. more \o none = more
        <5> HIDE DEF more
        <5> QED BY <4>1, JoinedSeq
      <4>3. Append(old, c) \o none = old \o (<<c>> \o none) /\ IsSeq(<<c>> \o none)
        <5>1. IsSeq(none)
          BY <4>1
        <5> HIDE DEF none, more
        <5>2. Regrouped(old, c, none)
          BY <1>2, <5>1, RegroupedSeq
        <5> QED BY <5>2 DEF Regrouped
      <4> QED BY <4>2, <4>3
    <3>3. OpenAfter(s) = WithInnermost(open, OpenList(Innermost(open).kind, old \o read.cells, 0))
      BY <2>2, <2>4, <3>1, <3>2
    <3>4. TextDone(s, i, read)
      BY <3>1, <3>2, <3>3 DEF TextDone, open, old, O, N
    <3> QED BY <3>4
  <2> QED BY <2>1, <2>3, <2>4
<1>12. CASE Broken(s, rest)
  <2>1. read.errors # {} /\ ~WellFormed(s)
    BY <1>8, <1>9, <1>12 DEF Broken
  <2>2. ASSUME Halted(s, rest.next) PROVE read.next = rest.next /\ read.errors = rest.errors
    <3>1. rest.next \in 1..(Len(s) + 1)
      BY <1>1, <1>6 DEF N
    <3>2. /\ P[rest.next].expressions[N].errors = {}
          /\ P[rest.next].expressions[N].next = rest.next
      BY <2>2, <3>1, NothingToRead DEF P, N
    <3> QED BY <1>8, <1>9, <3>2
  <2>3. ~HasOpen(OpenLists(s)[Len(s)], Opening) =>
          /\ "unterminated" \notin rest.errors /\ Halted(s, rest.next)
          /\ "unterminated_string" \in rest.errors
               <=> HasOpen(OpenLists(s)[Len(s)], {"string"})
    BY <1>12 DEF Broken
  <2> QED BY <2>1, <2>2, <2>3 DEF Broken
<1> QED BY <1>7, <1>11, <1>12

LEMMA TextReadsToo ==
  ASSUME NEW s \in Seq(AnyToken), NEW i \in 1..(Len(s) + 1),
         \A j \in (i + 1)..(Len(s) + 1) : TextReads(s, j)
  PROVE  TextReads(s, i)
<1> SUFFICES ASSUME Live(s, Len(s)), Outside(OpenLists(s)[i - 1])
             PROVE  \/ TextDone(s, i, Expressions(Parser(s), s, i, Len(s)))
                    \/ Broken(s, Expressions(Parser(s), s, i, Len(s)))
  BY DEF TextReads
<1> DEFINE N == Len(s)
           O == OpenLists(s)
           P == Parser(s)
           open == O[i - 1]
           m == Skip(s, i, N)
           first == ParseExpression(P, s, m, N)
           read == Expressions(P, s, i, N)
<1>1. N \in Nat /\ N \in 0..N /\ i \in Nat /\ i \in Int /\ 1 <= i /\ i <= N + 1 /\ i - 1 \in 0..N
      /\ N \in (i - 1)..N /\ N \in Int
  BY OpenListsAt
<1>2. StackOK(open) /\ IsSeq(Innermost(open).cells) /\ Innermost(open).kind = "text"
      /\ Innermost(open).quote = 0 /\ Len(open) = 1 /\ ~LineEnds(open)
  <2>1. StackOK(open)
    BY <1>1, Along
  <2> QED BY <2>1, InnermostOK DEF Outside, LineEnds
<1>3. m \in i..(N + 1) /\ (m = N + 1 \/ s[m] # "nl") /\ \A k \in i..(m - 1) : s[k] = "nl"
  BY <1>1, SkipFacts, Zenon
<1>r. /\ m > N => read = Cells(<<>>, m, {})
      /\ ~(m > N) /\ first.cell = NoCell => read = Ended(first)
      /\ ~(m > N) /\ first.cell # NoCell => read = Prepended(first, P[first.next].expressions[N])
  BY DEF Expressions
<1> HIDE DEF m
<1>4. m \in 1..(N + 1) /\ m \in Int /\ O[m - 1] = open
  <2>1. LineEnds(OpenLists(s)[i - 1]) => m = i
    BY <1>2
  <2>2. Len(s) \in 0..Len(s) /\ i \in 1..(Len(s) + 1) /\ m \in i..(Len(s) + 1)
        /\ \A k \in i..(m - 1) : s[k] = "nl"
    BY <1>1, <1>3
  <2>3. OpenLists(s)[m - 1] = OpenLists(s)[i - 1]
    BY <2>1, <2>2, BreaksSkipped
  <2> QED BY <1>1, <1>3, <2>3
<1> HIDE DEF N, O, P, open, first, read
<1>5. CASE m > N
  <2>1. m = N + 1 /\ m - 1 = N
    BY <1>1, <1>3, <1>5
  <2>2. read.errors = {} /\ read.cells = <<>> /\ read.next = N + 1
    BY <1>5, <1>r, <2>1 DEF Cells
  <2>3. OpenAfter(s) = open
    <3>1. O[N] = open
      BY <1>4, <2>1
    <3> QED BY <1>2, <3>1 DEF OpenAfter, O, N
  <2>4. Innermost(open).cells \o <<>> = Innermost(open).cells /\ IsSeq(<<>>)
    BY <1>2, EmptyIsSeq, JoinedSeq
  <2>5. open = WithInnermost(open, OpenList(Innermost(open).kind,
                                            Innermost(open).cells \o read.cells, 0))
    BY <1>2, <2>2, <2>4, ToppedSame
  <2>6. TextDone(s, i, read)
    BY <2>2, <2>3, <2>4, <2>5 DEF TextDone, open, O, N
  <2> QED BY <2>6 DEF read, P, N
<1>6. CASE ~(m > N)
  <2>1. m \in 1..N /\ s[m] # "nl" /\ s[m] \in AnyToken /\ m - 1 \in 0..(N - 1) /\ m - 1 + 1 = m
        /\ m \in 1..(N + 1)
    <3>1. m \in 1..N /\ s[m] # "nl" /\ m - 1 \in 0..(N - 1) /\ m - 1 + 1 = m /\ m \in 1..(N + 1)
      BY <1>1, <1>3, <1>4, <1>6
    <3> QED BY <3>1, OpenListsAt DEF N
  <2>2. ASSUME NEW j \in (m + 1)..(N + 1) PROVE TextReads(s, j)
    <3>1. j \in (i + 1)..(Len(s) + 1)
      BY <1>1, <1>3 DEF N
    <3> QED BY <3>1
  <2>3. \A r : TextDone(s, m, r) => TextDone(s, i, r)
    BY <1>4 DEF TextDone, O, open
  <2>4. ASSUME Completes(s, m, N, first) \/ Breaks(s, m, N, first)
        PROVE  TextDone(s, m, read) \/ Broken(s, read)
    <3>1. CASE Completes(s, m, N, first)
      <4>1. first.cell # NoCell /\ first.errors = {} /\ first.next \in (m + 1)..(N + 1)
            /\ O[first.next - 1] = Added(s, open, first.cell, first.next - 1)
        BY <1>4, <3>1 DEF Completes, O
      <4>2. Item(s, Innermost(open), first.cell, first.next - 1) = first.cell
        BY <1>2 DEF Item
      <4>3. Retopped(open, O[first.next - 1], Append(Innermost(open).cells, first.cell), 0)
        BY <1>2, <4>1, <4>2, AddedFacts
      <4>4. first.next \in 1..(Len(s) + 1) /\ m \in 1..(Len(s) + 1)
        <5>1. first.next \in 1..(N + 1)
          BY <1>1, <1>4, <4>1
        <5> QED BY <2>1, <5>1 DEF N
      <4>5. TextReads(s, first.next)
        BY <2>2, <4>1
      <4>6. Outside(OpenLists(s)[m - 1])
        BY <1>4 DEF O, open
      <4>7. Retopped(OpenLists(s)[m - 1], OpenLists(s)[first.next - 1],
                     Append(Innermost(OpenLists(s)[m - 1]).cells, first.cell), 0)
        BY <1>4, <4>3 DEF O
      <4>8. read = Prepended(first, Parser(s)[first.next].expressions[Len(s)])
        BY <1>6, <1>r, <4>1 DEF P, N
      <4> QED BY <4>1, <4>4, <4>5, <4>6, <4>7, <4>8, TextGoesOn
    <3>2. CASE Breaks(s, m, N, first)
      <4>1. Len(OpenLists(s)[m - 1]) <= 2
        <5>1. Len(OpenLists(s)[m - 1]) = 1
          BY <1>2, <1>4 DEF O
        <5> QED BY <5>1
      <4>2. m \in 1..(Len(s) + 1) /\ Breaks(s, m, Len(s), first)
        BY <2>1, <3>2 DEF N
      <4>3. Broken(s, first)
        BY <4>1, <4>2, BreaksText
      <4>4. read = Ended(first)
        BY <1>6, <1>r, <3>2 DEF Breaks
      <4>5. read.errors = first.errors /\ read.next = first.next
        BY <4>4, ResultFields DEF Ended
      <4> QED BY <4>3, <4>5 DEF Broken
    <3> QED BY <2>4, <3>1, <3>2
  <2>5. CASE s[m] \in Opening
    <3>1. first = ParseExplicitList(P, s, m, N)
      <4>1. s[m] # "'"
        BY <2>5 DEF Opening
      <4> QED BY <2>5, <4>1 DEF first, ParseExpression
    <3>2. \A k \in m..N : ItemsRead(s, m + 1, k)
      <4>1. ASSUME NEW k \in m..N PROVE ItemsRead(s, m + 1, k)
        <5> DEFINE j == m + 1
        <5>1. j \in 1..(Len(s) + 1) /\ k \in (j - 1)..Len(s)
          BY <1>1, <2>1 DEF N
        <5> HIDE DEF j
        <5>2. ItemsRead(s, j, k)
          BY <5>1, AllReads
        <5> QED BY <5>2 DEF j
      <4> QED BY <4>1
    <3>3. Completes(s, m, N, first) \/ Breaks(s, m, N, first)
      BY <1>1, <2>1, <2>5, <3>1, <3>2, ListReads DEF P, N
    <3> QED BY <2>3, <2>4, <3>3 DEF read, P, N
  <2>6. CASE s[m] = "'"
    <3>1. first = ParseQuoted(P, s, m, N)
      BY <2>6 DEF first, ParseExpression, Opening
    <3>2. ArgumentReads(s, m + 1, N)
      <4> DEFINE j == m + 1
      <4>1. j \in 1..(Len(s) + 1) /\ N \in (j - 1)..Len(s)
        BY <1>1, <2>1 DEF N
      <4> HIDE DEF j
      <4>2. ArgumentReads(s, j, N)
        BY <4>1, AllReads
      <4> QED BY <4>2 DEF j
    <3>3. Innermost(OpenLists(s)[m - 1]).kind # "string"
      BY <1>2, <1>4 DEF O
    <3>4. Completes(s, m, N, first) \/ Breaks(s, m, N, first)
      BY <1>1, <2>1, <2>6, <3>1, <3>2, <3>3, QuoteReads DEF P, N
    <3> QED BY <2>3, <2>4, <3>4 DEF read, P, N
  <2>7. CASE s[m] = "sym"
    <3>1. first = ParseVirtualList(P, s, m, N)
      BY <2>7 DEF first, ParseExpression, Opening
    <3>2. first.cell # NoCell
      BY <2>7, <3>1 DEF ParseVirtualList, Result, List, NoCell
    <3>3. read = Prepended(first, Parser(s)[first.next].expressions[Len(s)])
      BY <1>6, <1>r, <3>2 DEF P, N
    <3>4. TextDone(s, m, read) \/ Broken(s, read)
      <4>1. Outside(OpenLists(s)[m - 1]) /\ m \in 1..Len(s)
        BY <1>4, <2>1 DEF O, open, N
      <4>2. first = ParseVirtualList(Parser(s), s, m, Len(s))
        BY <3>1 DEF P, N
      <4>3. \A j \in (m + 1)..(Len(s) + 1) : TextReads(s, j)
        BY <2>2 DEF N
      <4> QED BY <2>7, <3>3, <4>1, <4>2, <4>3, VirtualReads
    <3> QED BY <2>3, <3>4 DEF read, P, N
  <2>8. CASE s[m] \in Closing \cup (Atoms \ {"sym"}) \cup {"str..."}
    <3>1. O[m - 1 + 1] = TakeToken(s, O[m - 1], m - 1 + 1) /\ Live(s, m - 1 + 1)
      BY <1>1, <2>1, StepAlong DEF O, N
    <3>2. TakeToken(s, open, m) # Misplaced
      BY <1>4, <2>1, <3>1 DEF Live, O
    <3>3. CASE s[m] \in Closing
      <4>1. TakeClosing(s, open, m) # Misplaced
        BY <3>2, <3>3, TakeIs
      <4> QED BY <1>2, <4>1 DEF TakeClosing, Opening
    <3>4. CASE s[m] \in Atoms \ {"sym"}
      <4>1. TakeAtom(s, open, m) # Misplaced
        BY <3>2, <3>4, TakeIs
      <4>2. Outside(open)
        BY DEF open, O
      <4> QED BY <3>4, <4>1, <4>2 DEF TakeAtom
    <3>5. CASE s[m] = "str..."
      <4>1. TakeOpenString(open) # Misplaced
        BY <3>2, <3>5, TakeIs
      <4>2. Outside(open)
        BY DEF open, O
      <4> QED BY <4>1, <4>2 DEF TakeOpenString
    <3> QED BY <2>8, <3>3, <3>4, <3>5
  <2>9. \/ s[m] \in Opening \/ s[m] = "'" \/ s[m] = "sym"
        \/ s[m] \in Closing \cup (Atoms \ {"sym"}) \cup {"str..."}
    BY <2>1 DEF AnyToken, Atoms, Strings, StaticTypes
  <2> QED BY <2>5, <2>6, <2>7, <2>8, <2>9
<1> QED BY <1>5, <1>6

LEMMA AllTexts ==
  ASSUME NEW s \in Seq(AnyToken), NEW i \in 1..(Len(s) + 1)
  PROVE  TextReads(s, i)
<1> DEFINE N == Len(s) + 1
           S == {j \in 1..N : TextReads(s, j)}
<1>1. N \in Int /\ 1 \in Int
  BY OpenListsAt
<1>2. ASSUME NEW k \in 1..N, \A j \in (k + 1)..N : j \in S PROVE k \in S
  BY <1>2, TextReadsToo
<1>3. \A k \in 1..N : k \in S
  <2> HIDE DEF S, N
  <2> QED BY <1>1, <1>2, Downward
<1> QED BY <1>3

-----------------------------------------------------------------------------
(***************************************************************************)
(* What a whole text comes to.                                             *)
(***************************************************************************)
LEMMA TextStart ==
  ASSUME NEW s \in Seq(AnyToken)
  PROVE  /\ Len(OpenLists(s)[0]) = 1 /\ OpenLists(s)[0][1].kind = "text"
         /\ Outside(OpenLists(s)[0]) /\ Innermost(OpenLists(s)[0]).cells = <<>>
         /\ Innermost(OpenLists(s)[0]).kind = "text"
         /\ \A list : WithInnermost(OpenLists(s)[0], list) = <<list>>
<1> DEFINE start == OpenList("text", <<>>, 0)
           open == <<start>>
<1>1. OpenLists(s)[0] = open
  BY OpenListsAt
<1>2. start.kind = "text" /\ start.cells = <<>> /\ start.quote = 0
  BY OpenListFields
<1> HIDE DEF start
<1>3. Len(open) = 1 /\ open[1] = start
  OBVIOUS
<1>4. Innermost(open) = start
  BY <1>3 DEF Innermost
<1>5. ASSUME NEW list PROVE WithInnermost(open, list) = <<list>>
  BY <1>3 DEF WithInnermost
<1> HIDE DEF open
<1> QED BY <1>1, <1>2, <1>3, <1>4, <1>5 DEF Outside

(* A text whose tokens all have a place is read, or it is not complete.    *)
LEMMA WholeText ==
  ASSUME NEW s \in Seq(AnyToken), Live(s, Len(s))
  PROVE  \/ /\ ParseBuffer(s).errors = {} /\ ParseBuffer(s).next = Len(s) + 1
            /\ WellFormed(s) /\ ParseBuffer(s).cells = Meaning(s)
         \/ Broken(s, ParseBuffer(s))
<1> DEFINE N == Len(s)
           O == OpenLists(s)
           read == ParseBuffer(s)
<1>1. N \in Nat /\ 1 \in 1..(N + 1) /\ N \in (1 - 1)..N /\ 1 - 1 = 0
  BY OpenListsAt
<1>2. read = Expressions(Parser(s), s, 1, N)
  BY <1>1, ParserAt DEF ParseBuffer
<1>3. TextDone(s, 1, read) \/ Broken(s, read)
  <2>1. TextReads(s, 1)
    BY <1>1, AllTexts
  <2>2. Outside(O[1 - 1])
    BY <1>1, TextStart
  <2> QED BY <1>2, <2>1, <2>2 DEF TextReads
<1> HIDE DEF read
<1>4. CASE TextDone(s, 1, read)
  <2> DEFINE list == OpenList("text", read.cells, 0)
  <2>1. /\ read.errors = {} /\ IsSeq(read.cells) /\ read.next = N + 1
        /\ OpenAfter(s) = WithInnermost(O[0], OpenList(Innermost(O[0]).kind,
                                                       Innermost(O[0]).cells \o read.cells, 0))
    BY <1>1, <1>4 DEF TextDone
  <2>2. <<>> \o read.cells = read.cells
    BY <2>1, EmptyIsSeq, JoinedSeq
  <2>3. OpenAfter(s) = <<list>>
    BY <2>1, <2>2, TextStart
  <2>4. list.quote = 0 /\ list.cells = read.cells
    BY OpenListFields
  <2> HIDE DEF list
  <2>5. Len(<<list>>) = 1 /\ <<list>>[1] = list
    OBVIOUS
  <2>6. WellFormed(s) /\ Meaning(s) = read.cells
    BY <2>3, <2>4, <2>5 DEF WellFormed, IsText, Meaning
  <2> QED BY <2>1, <2>6 DEF read
<1> QED BY <1>3, <1>4 DEF read

LEMMA AfterIsLive ==
  ASSUME NEW s
  PROVE  /\ OpenAfter(s) # Misplaced => Live(s, Len(s))
         /\ WellFormed(s) => OpenAfter(s) # Misplaced
<1>1. OpenAfter(s) # Misplaced => Live(s, Len(s))
  BY DEF OpenAfter, Live
<1>2. WellFormed(s) => OpenAfter(s) # Misplaced
  <2>1. Len(Misplaced) = 0
    BY DEF Misplaced
  <2> QED BY <2>1 DEF WellFormed, IsText
<1> QED BY <1>1, <1>2

(* The brackets of a kind that lack their partner in a text are its lists  *)
(* of this kind that are open.                                             *)
LEMMA OpenBrackets ==
  ASSUME NEW s \in Seq(AnyToken), Live(s, Len(s)), NEW t \in Opening
  PROVE  /\ OpenOf(OpenLists(s)[Len(s)], t) \in Nat
         /\ Count(s, CloserOf[t], 1, Len(s)) \in Nat
         /\ Count(s, t, 1, Len(s))
              = Count(s, CloserOf[t], 1, Len(s)) + OpenOf(OpenLists(s)[Len(s)], t)
<1> DEFINE N == Len(s)
           O == OpenLists(s)
<1>1. N \in Nat /\ N \in 0..N /\ 0 \in 0..N
  BY OpenListsAt
<1>2. ASSUME NEW o, Len(o) \in Nat PROVE Above(o, t, 0) = OpenOf(o, t)
  <2>1. {k \in (0 + 1)..Len(o) : Kinds(o)[k] = t} = {d \in 1..Len(o) : o[d].kind = t}
    BY <1>2 DEF Kinds
  <2> QED BY <2>1 DEF Above, Count, OpenOf
<1>3. Above(O[0], t, 0) = 0
  <2>1. Len(O[0]) \in Nat /\ \A d \in 1..Len(O[0]) : O[0][d].kind # t
    BY TextStart DEF Opening
  <2>2. {d \in 1..Len(O[0]) : O[0][d].kind = t} = {}
    BY <2>1
  <2> QED BY <1>2, <2>1, <2>2, FS_EmptySet DEF OpenOf
<1>4. /\ Above(O[N], t, 0) \in Nat /\ Count(s, CloserOf[t], 0 + 1, N) \in Nat
      /\ Count(s, t, 0 + 1, N) = Count(s, CloserOf[t], 0 + 1, N) + Above(O[N], t, 0)
  <2>1. \A k \in 0..N : Len(O[k]) >= 0
    BY <1>1, Along, InnermostOK
  <2> QED BY <1>1, <1>3, <2>1, Balance
<1>5. Len(O[N]) \in Nat
  BY <1>1, Along, InnermostOK
<1>6. 0 + 1 = 1
  OBVIOUS
<1> QED BY <1>2, <1>4, <1>5, <1>6

(* The end of the last line closes nothing but the line.                   *)
LEMMA OpenAtEnd ==
  ASSUME NEW s \in Seq(AnyToken), Live(s, Len(s)), NEW t \in Opening \cup {"string"}
  PROVE  OpenOf(OpenAfter(s), t) = OpenOf(OpenLists(s)[Len(s)], t)
<1> DEFINE N == Len(s)
           open == OpenLists(s)[N]
           after == Closed(s, open, "(", N)
<1>1. StackOK(open)
  BY OpenListsAt, Along
<1>2. CASE LineEnds(open)
  <2>1. OpenAfter(s) = after
    BY <1>1, <1>2, InnermostOK DEF OpenAfter
  <2>2. Innermost(open).kind = "line" /\ Len(open) = 2
    BY <1>1, <1>2, InnermostOK DEF LineEnds
  <2> HIDE DEF open
  <2>3. Len(after) = 1 /\ SameKinds(open, after, 1)
    <3>1. Len(open) >= 2 /\ Len(open) - 1 = 1
      BY <2>2
    <3>2. Len(after) = Len(open) - 1 /\ SameKinds(open, after, Len(open) - 1)
      BY <1>1, <3>1, ClosedFacts
    <3> QED BY <3>1, <3>2
  <2> HIDE DEF after
  <2>4. t # "line"
    BY DEF Opening
  <2>5. {d \in 1..Len(after) : after[d].kind = t} = {d \in 1..Len(open) : open[d].kind = t}
    <3>1. open[2].kind = "line" /\ after[1].kind = open[1].kind
      BY <2>2, <2>3 DEF Innermost, SameKinds
    <3>2. \A d : (d \in 1..Len(open) <=> d = 1 \/ d = 2) /\ (d \in 1..Len(after) <=> d = 1)
      BY <2>2, <2>3
    <3>3. \A d : d \in 1..Len(after) /\ after[d].kind = t
                 <=> d \in 1..Len(open) /\ open[d].kind = t
      BY <2>4, <3>1, <3>2
    <3> QED BY <3>3
  <2> QED BY <2>1, <2>5 DEF OpenOf, open, N
<1>3. CASE ~LineEnds(open)
  BY <1>3 DEF OpenAfter
<1> QED BY <1>2, <1>3

(* No string is open in a complete text.                                   *)
LEMMA WellFormedStrings ==
  ASSUME NEW s \in Seq(AnyToken), WellFormed(s)
  PROVE  ~HasOpen(OpenLists(s)[Len(s)], {"string"})
<1> DEFINE open == OpenLists(s)[Len(s)]
<1>1. StackOK(open)
  BY OpenListsAt, AfterIsLive, Along
<1>2. Len(OpenAfter(s)) = 1
  BY DEF WellFormed, IsText
<1>3. CASE LineEnds(open)
  <2>1. Innermost(open).kind = "line" /\ Len(open) = 2
    BY <1>1, <1>3, InnermostOK DEF LineEnds
  <2>2. open[2].kind = "line" /\ open[1].kind = "text"
    BY <1>1, <2>1 DEF Innermost, StackOK
  <2>3. \A d \in 1..Len(open) : d = 1 \/ d = 2
    BY <2>1
  <2> QED BY <2>2, <2>3 DEF HasOpen
<1>4. CASE ~LineEnds(open)
  <2>1. Len(open) = 1
    BY <1>2, <1>4 DEF OpenAfter
  <2>2. open[1].kind = "text" /\ \A d \in 1..Len(open) : d = 1
    BY <1>1, <2>1 DEF StackOK
  <2> QED BY <2>2 DEF HasOpen
<1> QED BY <1>3, <1>4

LEMMA NoneOpen ==
  ASSUME NEW open, Len(open) \in Nat, NEW t
  PROVE  /\ OpenOf(open, t) \in Nat
         /\ OpenOf(open, t) = 0 <=> ~HasOpen(open, {t})
<1> DEFINE A == {d \in 1..Len(open) : open[d].kind = t}
<1>1. IsFiniteSet(A)
  <2>1. IsFiniteSet(1..Len(open)) /\ A \subseteq 1..Len(open)
    BY FS_Interval
  <2> QED BY <2>1, FS_Subset
<1>2. A = {} <=> ~HasOpen(open, {t})
  BY DEF HasOpen
<1>3. Cardinality(A) \in Nat /\ (Cardinality(A) = 0 <=> A = {})
  <2> HIDE DEF A
  <2> QED BY <1>1, FS_CardinalityType, FS_EmptySet
<1> QED BY <1>2, <1>3 DEF OpenOf

-----------------------------------------------------------------------------
(***************************************************************************)
(* The theorems: every text a file or the loop can hold is read as meant.  *)
(***************************************************************************)

Typed == text \in Seq(AnyToken) /\ noted \in Seq(Opening \cup Closing)

(* What is written or typed is a sequence of tokens, and what is noted of  *)
(* its comments are brackets: akx_cell_parse_buffer reads any file and     *)
(* repl_buffer_append_line takes any line.                                 *)
THEOREM TextIsTokens == Spec => []Typed
<1>1. Init => Typed
  BY DEF Init, Typed
<1>2. Typed /\ [Next]_vars => Typed'
  <2> SUFFICES ASSUME Typed, [Next]_vars PROVE Typed'
    OBVIOUS
  <2> USE DEF Typed
  <2>1. ASSUME NEW t \in Tokens, Write(t) PROVE Typed'
    BY <2>1, ReaderConstants DEF Write, AnyToken
  <2>2. CASE EndString
    <3>1. Len(text) \in 1..Len(text) /\ "str" \in AnyToken
      BY <2>2 DEF EndString, InString, AnyToken, Strings
    <3> QED BY <2>2, <3>1 DEF EndString
  <2>3. ASSUME NEW bracket \in Opening \cup Closing, Comment(bracket) PROVE Typed'
    BY <2>3 DEF Comment, AnyToken
  <2>4. CASE UNCHANGED vars
    BY <2>4 DEF vars
  <2> QED BY <2>1, <2>2, <2>3, <2>4 DEF Next
<1> QED BY <1>1, <1>2, PTL DEF Spec

(* akx_cell_parse_buffer reads a well-formed text to its end, without an   *)
(* error, into the cells that the text means token by token.               *)
THEOREM TextsAreReadAsMeant == Spec => []ReadsWhatIsMeant
<1>1. Typed => ReadsWhatIsMeant
  BY WholeText, AfterIsLive DEF Typed, ReadsWhatIsMeant, Broken
<1> QED BY <1>1, TextIsTokens, PTL

(* A text that can still be completed is read whole or complained about:   *)
(* no list, quote or line of it is dropped by akx_cell_parse_buffer in     *)
(* silence.                                                                *)
THEOREM TextIsNotLostSilently == Spec => []NothingIsLostSilently
<1>1. Typed => NothingIsLostSilently
  BY WholeText, AfterIsLive DEF Typed, NothingIsLostSilently, Broken
<1> QED BY <1>1, TextIsTokens, PTL

(* repl_buffer_is_balanced, which only counts brackets, holds of an entry  *)
(* that can still be completed exactly when no list is open in it, up to   *)
(* the brackets in its comments.  The parser, which nests the brackets,    *)
(* then reports no unterminated list, and reports an unterminated string   *)
(* if one is open.                                                         *)
THEOREM LoopSubmitsClosedLists == Spec => []LoopWaitsForLists
<1>1. ASSUME Typed, OpenAfter(text) # Misplaced
      PROVE  IsBalanced(text, noted) <=>
               \A o \in Opening :
                 OpenOf(OpenAfter(text), o) + Count(noted, o, 1, Len(noted))
                   = Count(noted, CloserOf[o], 1, Len(noted))
  <2>1. text \in Seq(AnyToken) /\ Live(text, Len(text)) /\ Len(noted) \in Nat
    BY <1>1, AfterIsLive DEF Typed
  <2>2. ASSUME NEW o \in Opening
        PROVE  Count(text, o, 1, Len(text)) + Count(noted, o, 1, Len(noted))
                 = Count(text, CloserOf[o], 1, Len(text)) + Count(noted, CloserOf[o], 1, Len(noted))
               <=> OpenOf(OpenAfter(text), o) + Count(noted, o, 1, Len(noted))
                     = Count(noted, CloserOf[o], 1, Len(noted))
    <3> DEFINE a == Count(text, o, 1, Len(text))
               b == Count(text, CloserOf[o], 1, Len(text))
               x == OpenOf(OpenAfter(text), o)
               p == Count(noted, o, 1, Len(noted))
               q == Count(noted, CloserOf[o], 1, Len(noted))
    <3>1. x \in Nat /\ b \in Nat /\ a = b + x
      BY <2>1, OpenBrackets, OpenAtEnd
    <3>2. p \in Nat /\ q \in Nat
      <4>1. Len(noted) \in Int /\ 1 \in Int /\ Len(noted) >= 1 - 1
        BY <2>1
      <4> QED BY <4>1, CountFacts
    <3> HIDE DEF a, b, x, p, q
    <3>3. a + p = b + q <=> x + p = q
      BY <3>1, <3>2
    <3> QED BY <3>3 DEF a, b, x, p, q
  <2> QED BY <2>2 DEF IsBalanced
<1>2. ASSUME Typed, OpenAfter(text) # Misplaced,
             \A o \in Opening : OpenOf(OpenAfter(text), o) = 0
      PROVE  /\ "unterminated" \notin ParseBuffer(text).errors
             /\ "unterminated_string" \in ParseBuffer(text).errors
                  <=> OpenOf(OpenAfter(text), "string") > 0
  <2> DEFINE open == OpenLists(text)[Len(text)]
  <2>1. text \in Seq(AnyToken) /\ Live(text, Len(text))
    BY <1>2, AfterIsLive DEF Typed
  <2>2. Len(open) \in Nat
    BY <2>1, OpenListsAt, Along, InnermostOK
  <2>3. ~HasOpen(open, Opening)
    <3>1. ASSUME NEW o \in Opening PROVE ~HasOpen(open, {o})
      <4>1. OpenOf(open, o) = 0
        BY <1>2, <2>1, OpenAtEnd
      <4> HIDE DEF open
      <4> QED BY <2>2, <4>1, NoneOpen
    <3> QED BY <3>1 DEF HasOpen
  <2>4. OpenOf(OpenAfter(text), "string") > 0 <=> HasOpen(open, {"string"})
    <3>1. OpenOf(OpenAfter(text), "string") = OpenOf(open, "string")
      BY <2>1, OpenAtEnd
    <3>2. /\ OpenOf(open, "string") \in Nat
          /\ OpenOf(open, "string") = 0 <=> ~HasOpen(open, {"string"})
      <4> HIDE DEF open
      <4> QED BY <2>2, NoneOpen
    <3> DEFINE x == OpenOf(open, "string")
    <3> HIDE DEF x
    <3>3. x \in Nat => (x > 0 <=> x # 0)
      OBVIOUS
    <3> QED BY <3>1, <3>2, <3>3 DEF x
  <2>5. CASE Broken(text, ParseBuffer(text))
    BY <2>3, <2>4, <2>5 DEF Broken
  <2>6. CASE ParseBuffer(text).errors = {} /\ WellFormed(text)
    <3>1. ~HasOpen(open, {"string"})
      BY <2>1, <2>6, WellFormedStrings
    <3> QED BY <2>4, <2>6, <3>1
  <2> QED BY <2>1, <2>5, <2>6, WholeText
<1>3. Typed => LoopWaitsForLists
  BY <1>1, <1>2 DEF LoopWaitsForLists
<1> QED BY <1>3, TextIsTokens, PTL

-----------------------------------------------------------------------------
(***************************************************************************)
(* Quotes.  A cell that is read depends on its own tokens only: it is the  *)
(* same whatever follows it, and wherever it stands in the text.           *)
(***************************************************************************)
EndsEarly(s, i, e) ==
  ParseArgument(Parser(s), s, i, e).cell # NoCell =>
    /\ Skip(s, i, e) <= e
    /\ Skip(s, i, e) < ParseArgument(Parser(s), s, i, e).next
    /\ \A k \in (ParseArgument(Parser(s), s, i, e).next - 1)..e :
         ParseArgument(Parser(s), s, i, k) = ParseArgument(Parser(s), s, i, e)

LEMMA EndsEarlyToo ==
  ASSUME NEW s, Len(s) \in Nat, NEW i \in 1..(Len(s) + 1),
         \A j \in (i + 1)..(Len(s) + 1) : \A k \in (j - 1)..Len(s) : EndsEarly(s, j, k)
  PROVE  \A e \in (i - 1)..Len(s) : EndsEarly(s, i, e)
<1> DEFINE P == Parser(s)
           A(e) == ParseArgument(P, s, i, e)
<1>1. SUFFICES ASSUME NEW e \in (i - 1)..Len(s), A(e).cell # NoCell
               PROVE  /\ Skip(s, i, e) <= e /\ Skip(s, i, e) < A(e).next
                      /\ \A k \in (A(e).next - 1)..e : A(k) = A(e)
  BY DEF EndsEarly
<1> DEFINE st == Skip(s, i, e)
           n == A(e).next
<1>2. i \in Nat /\ e \in Int /\ i <= e + 1 /\ 1 <= i /\ e <= Len(s)
  OBVIOUS
<1>3. st \in i..(e + 1) /\ (st = e + 1 \/ s[st] # "nl") /\ \A k \in i..(st - 1) : s[k] = "nl"
  BY <1>2, SkipFacts, Zenon
<1>4. st <= e
  <2>1. CASE st > e
    <3>1. A(e) = Result(NoCell, st, {})
      BY <2>1 DEF ParseArgument
    <3> QED BY <1>1, <3>1, ResultFields
  <2> HIDE DEF st
  <2> QED BY <1>2, <1>3, <2>1
<1>5. A(e) = CASE s[st] \in Opening -> ParseExplicitList(P, s, st, e)
               [] s[st] \in Strings -> ParseStringLiteral(s, st)
               [] s[st] = "'"       -> ParseQuoted(P, s, st, e)
               [] OTHER             -> ParseStaticType(s, st)
  <2>1. ~(st > e)
    <3> HIDE DEF st
    <3> QED BY <1>2, <1>3, <1>4
  <2> QED BY <2>1 DEF ParseArgument
<1>6. ASSUME NEW k \in st..e
      PROVE  A(k) = CASE s[st] \in Opening -> ParseExplicitList(P, s, st, k)
                      [] s[st] \in Strings -> ParseStringLiteral(s, st)
                      [] s[st] = "'"       -> ParseQuoted(P, s, st, k)
                      [] OTHER             -> ParseStaticType(s, st)
  <2>1. Skip(s, i, k) = st
    <3>1. k \in Int /\ st \in i..(k + 1) /\ s[st] # "nl"
      <4> HIDE DEF st
      <4> QED BY <1>2, <1>3, <1>4
    <3> HIDE DEF st
    <3> QED BY <1>2, <1>3, <3>1, SkipIs
  <2>2. ~(st > k)
    <3> HIDE DEF st
    <3> QED BY <1>2, <1>3
  <2> HIDE DEF st
  <2> QED BY <2>1, <2>2 DEF ParseArgument
<1> HIDE DEF P, A, st, n
<1>7. st \in Nat /\ st \in Int /\ st + 1 \in (i + 1)..(Len(s) + 1) /\ e \in st..Len(s)
      /\ e \in (st + 1 - 1)..Len(s)
  BY <1>2, <1>3, <1>4
<1>8. SUFFICES st < n /\ \A k \in (n - 1)..e : k \in st..e => A(k) = A(e)
  <2>1. n \in Int
    <3>1. Goes(P, s, 1)
      BY ParserIs DEF P
    <3>2. P[i].argument[e].next \in i..(e + 1)
      BY <1>2, <3>1, GoesAt
    <3>3. P[i].argument[e] = A(e)
      BY ParserAt DEF P, A
    <3> QED BY <3>2, <3>3 DEF n
  <2>2. ASSUME st < n PROVE \A k \in (n - 1)..e : k \in st..e
    BY <1>7, <2>1, <2>2
  <2> QED BY <1>4, <1>8, <2>2 DEF n, st
<1>9. CASE s[st] \in Opening
  <2>1. A(e) = ParseExplicitList(P, s, st, e)
        /\ \A k \in st..e : A(k) = ParseExplicitList(P, s, st, k)
    <3>1. s[st] \notin Strings /\ s[st] # "'"
      BY <1>9 DEF Opening, Strings
    <3>2. A(e) = ParseExplicitList(P, s, st, e)
      BY <1>5, <1>9, <3>1
    <3>3. ASSUME NEW k \in st..e PROVE A(k) = ParseExplicitList(P, s, st, k)
      BY <1>6, <1>9, <3>1
    <3> QED BY <3>2, <3>3
  <2>2. GroupEnds(s, st, e) # {}
    BY <1>1, <2>1, ResultFields DEF ParseExplicitList
  <2> DEFINE end == GroupEnd(s, st, e)
             inside == P[st + 1].items[end - 1]
  <2>3. end \in GroupEnds(s, st, e) /\ end \in (st + 1)..e
        /\ \A k \in GroupEnds(s, st, e) : end <= k
    BY <1>7, <2>2, GroupEndFacts
  <2>4. A(e) = Result(List(s[st], inside.cells), end + 1, inside.errors)
    BY <2>1, <2>2 DEF ParseExplicitList
  <2>5. n = end + 1
    BY <2>4, ResultFields DEF n
  <2>6. ASSUME NEW k \in (n - 1)..e, k \in st..e PROVE A(k) = A(e)
    <3> HIDE DEF end
    <3>1. k \in Int /\ end \in (st + 1)..k
      BY <1>7, <2>3, <2>5
    <3>2. end \in GroupEnds(s, st, k) /\ \A j \in GroupEnds(s, st, k) : j \in GroupEnds(s, st, e)
      BY <1>7, <2>3, <3>1 DEF GroupEnds
    <3>3. GroupEnd(s, st, k) \in GroupEnds(s, st, k) /\ GroupEnd(s, st, k) \in (st + 1)..k
          /\ \A j \in GroupEnds(s, st, k) : GroupEnd(s, st, k) <= j
      BY <1>7, <3>1, <3>2, GroupEndFacts
    <3>4. GroupEnd(s, st, k) = end
      BY <1>7, <2>3, <3>1, <3>2, <3>3
    <3>5. A(k) = Result(List(s[st], inside.cells), end + 1, inside.errors)
      BY <2>1, <2>6, <3>2, <3>4 DEF ParseExplicitList
    <3> QED BY <2>4, <3>5
  <2> HIDE DEF end
  <2>7. st < n
    BY <1>7, <2>3, <2>5
  <2> QED BY <2>6, <2>7
<1>10. CASE s[st] = "'"
  <2> DEFINE I(k) == P[st + 1].argument[k]
  <2>1. /\ A(e) = ParseQuoted(P, s, st, e)
        /\ \A k \in st..e : A(k) = ParseQuoted(P, s, st, k)
    BY <1>5, <1>6, <1>10 DEF Opening
  <2>2. I(e).cell # NoCell
    BY <1>1, <2>1, ResultFields DEF ParseQuoted
  <2>3. n = I(e).next
    BY <2>1, <2>2, ResultFields DEF ParseQuoted, n
  <2>4. ASSUME NEW k \in st..Len(s) PROVE I(k) = ParseArgument(P, s, st + 1, k)
    <3> DEFINE j == st + 1
    <3>1. j \in 1..(Len(s) + 1) /\ k \in (j - 1)..Len(s)
      BY <1>7
    <3> HIDE DEF j
    <3>2. P[j].argument[k] = ParseArgument(P, s, j, k)
      BY <3>1, ParserAt DEF P
    <3> QED BY <3>2 DEF j
  <2>5. EndsEarly(s, st + 1, e)
    BY <1>7
  <2> HIDE DEF I
  <2>6. /\ Skip(s, st + 1, e) < n
        /\ \A k \in (n - 1)..e : ParseArgument(P, s, st + 1, k) = I(e)
    BY <1>7, <2>2, <2>3, <2>4, <2>5 DEF EndsEarly, P
  <2>7. Skip(s, st + 1, e) \in (st + 1)..(e + 1)
    <3>1. st + 1 \in Nat /\ st + 1 <= e + 1 /\ e \in Int
      BY <1>7
    <3> QED BY <3>1, SkipFacts
  <2>8. n \in Int
    <3>1. Goes(P, s, 1)
      BY ParserIs DEF P
    <3>2. I(e).next \in (st + 1)..(e + 1)
      <4> DEFINE j == st + 1
      <4>1. j \in 1..(Len(s) + 1) /\ e \in (j - 1)..Len(s)
        BY <1>7
      <4> HIDE DEF j
      <4>2. P[j].argument[e].next \in j..(e + 1)
        BY <3>1, <4>1, GoesAt
      <4> QED BY <4>2 DEF I, j
    <3> QED BY <2>3, <3>2
  <2>9. st < n
    BY <1>7, <2>6, <2>7, <2>8
  <2>10. ASSUME NEW k \in (n - 1)..e, k \in st..e PROVE A(k) = A(e)
    <3>1. k \in st..Len(s)
      BY <1>7, <2>10
    <3>2. I(k) = I(e)
      BY <2>4, <2>6, <3>1
    <3> QED BY <2>1, <2>10, <3>2, <1>7 DEF ParseQuoted, I
  <2> QED BY <2>9, <2>10
<1>11. CASE s[st] \notin Opening /\ s[st] # "'"
  <2>1. \A k \in st..e : A(k) = IF s[st] \in Strings THEN ParseStringLiteral(s, st)
                                ELSE ParseStaticType(s, st)
    BY <1>6, <1>11
  <2>2. A(e) = IF s[st] \in Strings THEN ParseStringLiteral(s, st) ELSE ParseStaticType(s, st)
    BY <1>5, <1>11
  <2>3. n = st + 1
    BY <1>1, <2>2, ResultFields DEF ParseStringLiteral, ParseStaticType, n
  <2> QED BY <1>7, <2>1, <2>2, <2>3
<1> QED BY <1>9, <1>10, <1>11

LEMMA AllEndEarly ==
  ASSUME NEW s, Len(s) \in Nat, NEW i \in 1..(Len(s) + 1), NEW e \in (i - 1)..Len(s)
  PROVE  EndsEarly(s, i, e)
<1> DEFINE N == Len(s) + 1
           S == {j \in 1..N : \A k \in (j - 1)..Len(s) : EndsEarly(s, j, k)}
<1>1. N \in Int /\ 1 \in Int
  OBVIOUS
<1>2. ASSUME NEW k \in 1..N, \A j \in (k + 1)..N : j \in S PROVE k \in S
  <2>1. \A j \in (k + 1)..N : \A l \in (j - 1)..Len(s) : EndsEarly(s, j, l)
    BY <1>2
  <2>2. \A l \in (k - 1)..Len(s) : EndsEarly(s, k, l)
    BY <2>1, EndsEarlyToo
  <2> QED BY <2>2
<1>3. \A k \in 1..N : k \in S
  <2> HIDE DEF S, N
  <2> QED BY <1>1, <1>2, Downward
<1> QED BY <1>3

(* What the loop over the expressions of a buffer collects is a sequence.  *)
LEMMA ExpressionsAreSeq ==
  ASSUME NEW s, Len(s) \in Nat, NEW i \in 1..(Len(s) + 1), NEW e \in (i - 1)..Len(s)
  PROVE  IsSeq(Parser(s)[i].expressions[e].cells)
<1> DEFINE N == Len(s) + 1
           P == Parser(s)
           C(j, k) == IsSeq(P[j].expressions[k].cells)
           S == {j \in 1..N : \A k \in (j - 1)..Len(s) : C(j, k)}
<1>1. N \in Int /\ 1 \in Int
  OBVIOUS
<1>2. ASSUME NEW j \in 1..N, \A l \in (j + 1)..N : l \in S PROVE j \in S
  <2>1. ASSUME NEW k \in (j - 1)..Len(s) PROVE C(j, k)
    <3> DEFINE st == Skip(s, j, k)
               first == ParseExpression(P, s, st, k)
               rest == P[first.next].expressions[k]
    <3>1. P[j].expressions[k] = Expressions(P, s, j, k)
      BY ParserAt
    <3>2. ~(st > k) /\ first.cell # NoCell => first.next \in (j + 1)..(k + 1)
      <4>1. Goes(P, s, j + 1)
        <5>1. Goes(P, s, 1)
          BY ParserIs
        <5>2. \A l \in (j + 1)..(Len(s) + 1) : l \in 1..(Len(s) + 1)
          OBVIOUS
        <5> QED BY <5>1, <5>2 DEF Goes
      <4> HIDE DEF P
      <4> QED BY <4>1, ExpressionsLocal
    <3>3. \/ Expressions(P, s, j, k) = Cells(<<>>, st, {})
          \/ Expressions(P, s, j, k) = Ended(first)
          \/ /\ ~(st > k) /\ first.cell # NoCell
             /\ Expressions(P, s, j, k) = Prepended(first, rest)
      BY DEF Expressions
    <3> HIDE DEF st
    <3>4. CASE \/ Expressions(P, s, j, k) = Cells(<<>>, st, {})
               \/ Expressions(P, s, j, k) = Ended(first)
      <4>1. Expressions(P, s, j, k).cells = <<>>
        BY <3>4 DEF Ended, Cells
      <4> QED BY <3>1, <4>1, EmptyIsSeq
    <3>5. CASE /\ ~(st > k) /\ first.cell # NoCell
               /\ Expressions(P, s, j, k) = Prepended(first, rest)
      <4>1. C(first.next, k)
        <5> DEFINE l == first.next
        <5>1. l \in (j + 1)..N /\ k \in (l - 1)..Len(s)
          <6>1. l \in (j + 1)..(k + 1)
            BY <3>2, <3>5
          <6> HIDE DEF l
          <6> QED BY <6>1
        <5> HIDE DEF l, C
        <5>2. C(l, k)
          BY <1>2, <5>1
        <5> QED BY <5>2 DEF l
      <4>2. Expressions(P, s, j, k).cells = <<first.cell>> \o rest.cells
        <5>1. Expressions(P, s, j, k) = Prepended(first, rest)
          BY <3>5
        <5> HIDE DEF first, rest
        <5>2. Prepended(first, rest).cells = <<first.cell>> \o rest.cells
          BY PrependedFields
        <5> QED BY <5>1, <5>2
      <4> DEFINE tail == rest.cells
      <4>3. IsSeq(tail)
        BY <4>1
      <4> HIDE DEF tail
      <4>4. IsSeq(<<first.cell>> \o tail)
        <5>1. Regrouped(<<>>, first.cell, tail)
          BY <4>3, EmptyIsSeq, RegroupedSeq
        <5> QED BY <5>1 DEF Regrouped
      <4> QED BY <3>1, <4>2, <4>4 DEF tail
    <3> QED BY <3>3, <3>4, <3>5
  <2> HIDE DEF C
  <2> QED BY <2>1
<1>3. \A j \in 1..N : j \in S
  <2> HIDE DEF S, N
  <2> QED BY <1>1, <1>2, Downward
<1> QED BY <1>3

(* t is the part of s that starts behind place d.                          *)
IsPart(s, t, d) ==
  /\ IsSeq(s) /\ IsSeq(t) /\ d \in Nat /\ Len(t) + d <= Len(s)
  /\ \A k \in 1..Len(t) : t[k] = s[k + d]

LEMMA PartFacts ==
  ASSUME NEW s, NEW t, NEW d, IsPart(s, t, d)
  PROVE  /\ Len(s) \in Nat /\ Len(t) \in Nat /\ d \in Nat /\ d \in Int /\ Len(t) + d <= Len(s)
         /\ \A k \in 1..Len(t) : t[k] = s[k + d]
BY IsSeqFacts DEF IsPart

LEMMA SkipShift ==
  ASSUME NEW s, NEW t, NEW d, IsPart(s, t, d), NEW i \in 1..(Len(t) + 1),
         NEW e \in (i - 1)..Len(t), NEW a, a = i + d, NEW b, b = e + d
  PROVE  Skip(s, a, b) = Skip(t, i, e) + d
<1> DEFINE m == Skip(t, i, e)
           x == m + d
<1>1. Len(t) \in Nat /\ d \in Nat /\ i \in Nat /\ e \in Int /\ i <= e + 1 /\ 1 <= i /\ e <= Len(t)
      /\ a \in Nat /\ b \in Int
  BY PartFacts
<1>2. m \in i..(e + 1) /\ (m = e + 1 \/ t[m] # "nl") /\ \A k \in i..(m - 1) : t[k] = "nl"
  BY <1>1, SkipFacts, Zenon
<1> HIDE DEF m
<1>3. x \in a..(b + 1) /\ x = m + d
  BY <1>1, <1>2
<1>4. x = b + 1 \/ s[x] # "nl"
  <2>1. CASE m = e + 1
    BY <1>1, <1>3, <2>1
  <2>2. CASE m # e + 1
    <3>1. m \in 1..Len(t)
      BY <1>1, <1>2, <2>2
    <3>2. t[m] = s[x]
      BY <1>3, <3>1, PartFacts
    <3> QED BY <1>2, <2>2, <3>2
  <2> QED BY <2>1, <2>2
<1>5. ASSUME NEW k \in a..(x - 1) PROVE s[k] = "nl"
  <2>1. k - d \in i..(m - 1) /\ k - d \in 1..Len(t) /\ k - d + d = k
    BY <1>1, <1>2, <1>3
  <2>2. t[k - d] = s[k - d + d]
    BY <2>1, PartFacts
  <2> QED BY <1>2, <2>1, <2>2
<1> HIDE DEF x
<1>6. Skip(s, a, b) = x
  BY <1>1, <1>3, <1>4, <1>5, SkipIs
<1> QED BY <1>6 DEF x, m

LEMMA CountShift ==
  ASSUME NEW s, NEW t, NEW d, IsPart(s, t, d), NEW i \in 1..(Len(t) + 1),
         NEW e \in (i - 1)..Len(t), NEW token
  PROVE  \A j \in (i - 1)..e : Count(t, token, i, j) = Count(s, token, i + d, j + d)
<1> DEFINE a == i + d
           S == {j \in (i - 1)..e : Count(t, token, i, j) = Count(s, token, a, j + d)}
<1>1. Len(t) \in Nat /\ d \in Int /\ i \in Int /\ e \in Int /\ 1 <= i /\ e <= Len(t) /\ i - 1 \in Int
      /\ a \in Int /\ i - 1 <= e
  BY PartFacts
<1>2. i - 1 \in S
  <2>1. Count(t, token, i, i - 1) = 0
    BY <1>1, CountFacts
  <2>2. Count(s, token, a, a - 1) = 0
    <3> HIDE DEF a
    <3> QED BY <1>1, CountFacts
  <2>3. a - 1 = i - 1 + d /\ i - 1 \in (i - 1)..e
    BY <1>1
  <2> QED BY <2>1, <2>2, <2>3
<1>3. ASSUME NEW j \in (i - 1)..(e - 1), j \in S PROVE j + 1 \in S
  <2>1. j \in Int /\ j >= i - 1 /\ j + d \in Int /\ j + d >= a - 1 /\ j + 1 \in 1..Len(t)
        /\ j + 1 + d = j + d + 1 /\ j + 1 \in (i - 1)..e
    BY <1>1
  <2>2. t[j + 1] = s[j + 1 + d]
    BY <2>1, PartFacts
  <2> DEFINE jd == j + d
  <2>3. t[j + 1] = s[jd + 1]
    BY <2>1, <2>2
  <2>4. /\ Count(t, token, i, j) \in Nat
        /\ t[j + 1] = token => Count(t, token, i, j + 1) = Count(t, token, i, j) + 1
        /\ t[j + 1] # token => Count(t, token, i, j + 1) = Count(t, token, i, j)
    BY <1>1, <2>1, CountFacts
  <2>5. /\ Count(s, token, a, jd) \in Nat
        /\ s[jd + 1] = token => Count(s, token, a, jd + 1) = Count(s, token, a, jd) + 1
        /\ s[jd + 1] # token => Count(s, token, a, jd + 1) = Count(s, token, a, jd)
    <3>1. jd \in Int /\ jd >= a - 1
      BY <2>1
    <3> HIDE DEF a, jd
    <3> QED BY <1>1, <3>1, CountFacts
  <2>6. Count(t, token, i, j) = Count(s, token, a, jd)
    BY <1>3
  <2>7. Count(t, token, i, j + 1) = Count(s, token, a, jd + 1)
    <3> HIDE DEF a, jd
    <3> QED BY <2>3, <2>4, <2>5, <2>6
  <2> QED BY <2>1, <2>7
<1>4. \A j \in (i - 1)..e : j \in S
  <2> HIDE DEF S
  <2> QED BY <1>1, <1>2, <1>3, Upward
<1> QED BY <1>4

LEMMA GroupShift ==
  ASSUME NEW s, NEW t, NEW d, IsPart(s, t, d), NEW i \in 1..Len(t),
         NEW e \in i..Len(t), NEW a, a = i + d, NEW b, b = e + d
  PROVE  /\ GroupEnds(t, i, e) = {} <=> GroupEnds(s, a, b) = {}
         /\ GroupEnds(t, i, e) # {} => GroupEnd(s, a, b) = GroupEnd(t, i, e) + d
<1>1. Len(t) \in Nat /\ d \in Nat /\ i \in Nat /\ e \in Int /\ i <= e /\ 1 <= i /\ e <= Len(t)
      /\ a \in Nat /\ b \in Int /\ d \in Int /\ t[i] = s[a]
  BY PartFacts
<1>2. ASSUME NEW j \in (i + 1)..e
      PROVE  j \in GroupEnds(t, i, e) <=> j + d \in GroupEnds(s, a, b)
  <2>1. /\ Count(t, t[i], i, j) = Count(s, t[i], i + d, j + d)
        /\ Count(t, CloserOf[t[i]], i, j) = Count(s, CloserOf[t[i]], i + d, j + d)
    <3>1. j \in (i - 1)..e /\ i \in 1..(Len(t) + 1) /\ e \in (i - 1)..Len(t)
      BY <1>1
    <3> QED BY <3>1, CountShift
  <2>2. j + d \in (a + 1)..b
    BY <1>1
  <2> QED BY <1>1, <2>1, <2>2 DEF GroupEnds
<1>3. ASSUME NEW k \in GroupEnds(s, a, b)
      PROVE  k \in Int /\ k - d \in GroupEnds(t, i, e)
  <2>1. k \in (a + 1)..b
    BY DEF GroupEnds
  <2>2. k \in Int /\ k - d \in (i + 1)..e /\ k - d + d = k
    BY <1>1, <2>1
  <2> QED BY <1>2, <2>2
<1>4. ASSUME NEW j \in GroupEnds(t, i, e)
      PROVE  j \in Int /\ j + d \in GroupEnds(s, a, b)
  <2>1. j \in (i + 1)..e
    BY DEF GroupEnds
  <2> QED BY <1>1, <1>2, <2>1
<1>5. GroupEnds(t, i, e) = {} <=> GroupEnds(s, a, b) = {}
  BY <1>3, <1>4
<1>6. ASSUME GroupEnds(t, i, e) # {} PROVE GroupEnd(s, a, b) = GroupEnd(t, i, e) + d
  <2> DEFINE j == GroupEnd(t, i, e)
             k == GroupEnd(s, a, b)
  <2>1. j \in GroupEnds(t, i, e) /\ \A l \in GroupEnds(t, i, e) : j <= l
    BY <1>1, <1>6, GroupEndFacts
  <2>2. k \in GroupEnds(s, a, b) /\ \A l \in GroupEnds(s, a, b) : k <= l
    BY <1>1, <1>5, <1>6, GroupEndFacts
  <2> HIDE DEF j, k
  <2>3. j \in Int /\ k \in Int /\ j <= k - d /\ k <= j + d
    BY <1>3, <1>4, <2>1, <2>2
  <2>4. k = j + d
    BY <1>1, <2>3
  <2> QED BY <2>4 DEF j, k
<1> QED BY <1>5, <1>6

(* SubSeq, but an operator of its own, which the provers leave alone.      *)
Cut(s, i, j) == SubSeq(s, i, j)

LEMMA PartShift ==
  ASSUME NEW s, NEW t, NEW d, IsPart(s, t, d), NEW i \in 1..(Len(t) + 1),
         NEW j \in (i - 1)..Len(t)
  PROVE  Cut(t, i, j) = Cut(s, i + d, j + d)
<1> DEFINE a == i + d
           b == j + d
<1>1. Len(t) \in Nat /\ Len(s) \in Nat /\ d \in Nat /\ i \in Int /\ j \in Int /\ 1 <= i /\ j <= Len(t)
      /\ i - 1 <= j /\ Len(t) + d <= Len(s)
  BY PartFacts
<1>2. IsSeq(s) /\ IsSeq(t)
  BY DEF IsPart
<1>3. a \in 1..(Len(s) + 1) /\ b \in (a - 1)..Len(s) /\ b - a + 1 = j - i + 1 /\ a \in Int /\ b \in Int
  BY <1>1
<1> HIDE DEF b
<1>4. /\ IsSeq(SubSeq(t, i, j)) /\ Len(SubSeq(t, i, j)) = j - i + 1
      /\ \A k \in 1..(j - i + 1) : SubSeq(t, i, j)[k] = t[i + k - 1]
  BY <1>2, PartOfSeq
<1>5. /\ IsSeq(SubSeq(s, a, b)) /\ Len(SubSeq(s, a, b)) = j - i + 1
      /\ \A k \in 1..(j - i + 1) : SubSeq(s, a, b)[k] = s[a + k - 1]
  <2>1. /\ IsSeq(SubSeq(s, a, b)) /\ Len(SubSeq(s, a, b)) = b - a + 1
        /\ \A k \in 1..(b - a + 1) : SubSeq(s, a, b)[k] = s[a + k - 1]
    BY <1>2, <1>3, PartOfSeq
  <2> QED BY <1>3, <2>1
<1>6. ASSUME NEW k \in 1..(j - i + 1) PROVE SubSeq(t, i, j)[k] = SubSeq(s, a, b)[k]
  <2> DEFINE l == i + k - 1
  <2>1. l \in 1..Len(t) /\ l + d = a + k - 1 /\ l = i + k - 1
    BY <1>1
  <2> HIDE DEF l
  <2>2. t[l] = s[l + d]
    BY <2>1, PartFacts
  <2> QED BY <1>4, <1>5, <2>1, <2>2
<1> HIDE DEF a
<1>7. SubSeq(t, i, j) = SubSeq(s, a, b)
  BY <1>4, <1>5, <1>6, SameSeq
<1> QED BY <1>7 DEF Cut, a, b

(* What is read at a place of t is read at the same place of s.            *)
SameCell(r, q, d) == q.cell = r.cell /\ q.errors = r.errors /\ q.next = r.next + d

SameCells(r, q, d) == q.cells = r.cells /\ q.errors = r.errors /\ q.next = r.next + d

Shifts(s, t, d, i, e) ==
  /\ SameCell(Parser(t)[i].argument[e], Parser(s)[i + d].argument[e + d], d)
  /\ SameCells(Parser(t)[i].items[e], Parser(s)[i + d].items[e + d], d)

(* The function Parser defines is applied to places of the text only.      *)
LEMMA PartAt ==
  ASSUME NEW s, NEW t, NEW d, IsPart(s, t, d), NEW i \in 1..(Len(t) + 1),
         NEW e \in (i - 1)..Len(t), NEW a, a = i + d, NEW b, b = e + d
  PROVE  /\ Parser(t)[i].argument[e] = ParseArgument(Parser(t), t, i, e)
         /\ Parser(t)[i].items[e] = Items(Parser(t), t, i, e)
         /\ Parser(s)[a].argument[b] = ParseArgument(Parser(s), s, a, b)
         /\ Parser(s)[a].items[b] = Items(Parser(s), s, a, b)
         /\ Parser(t)[i].argument[e].next \in i..(e + 1)
         /\ Parser(t)[i].argument[e].cell # NoCell => Parser(t)[i].argument[e].next > i
<1>1. Len(t) \in Nat /\ Len(s) \in Nat /\ d \in Nat /\ Len(t) + d <= Len(s)
  BY PartFacts
<1>2. a \in 1..(Len(s) + 1) /\ b \in (a - 1)..Len(s)
  BY <1>1
<1>3. Goes(Parser(t), t, 1)
  BY <1>1, ParserIs
<1> QED BY <1>1, <1>2, <1>3, ParserAt, GoesAt

LEMMA ListShifts ==
  ASSUME NEW s, NEW t, NEW d, IsPart(s, t, d), NEW i \in 1..Len(t), NEW e \in i..Len(t),
         NEW a, a = i + d, NEW b, b = e + d, \A k \in i..e : Shifts(s, t, d, i + 1, k)
  PROVE  SameCell(ParseExplicitList(Parser(t), t, i, e),
                  ParseExplicitList(Parser(s), s, a, b), d)
<1>1. Len(t) \in Nat /\ d \in Nat /\ i \in Nat /\ e \in Int /\ d \in Int /\ t[i] = s[a]
  BY PartFacts
<1>2. /\ GroupEnds(t, i, e) = {} <=> GroupEnds(s, a, b) = {}
      /\ GroupEnds(t, i, e) # {} => GroupEnd(s, a, b) = GroupEnd(t, i, e) + d
  BY GroupShift
<1>3. CASE GroupEnds(t, i, e) = {}
  BY <1>1, <1>2, <1>3, ResultFields DEF ParseExplicitList, SameCell
<1>4. CASE GroupEnds(t, i, e) # {}
  <2> DEFINE end == GroupEnd(t, i, e)
             stop == GroupEnd(s, a, b)
             r == Parser(t)[i + 1].items[end - 1]
             q == Parser(s)[a + 1].items[stop - 1]
  <2>0. i + 1 + d = a + 1 /\ i \in Int
    BY <1>1
  <2>1. end \in (i + 1)..e /\ stop = end + d
    BY <1>1, <1>2, <1>4, GroupEndFacts
  <2>2. ParseExplicitList(Parser(t), t, i, e) = Result(List(t[i], r.cells), end + 1, r.errors)
    BY <1>4 DEF ParseExplicitList
  <2>3. ParseExplicitList(Parser(s), s, a, b) = Result(List(s[a], q.cells), stop + 1, q.errors)
    BY <1>2, <1>4 DEF ParseExplicitList
  <2> HIDE DEF end, stop
  <2>4. end - 1 \in i..e /\ i + 1 + d = a + 1 /\ end - 1 + d = stop - 1
        /\ stop + 1 = end + 1 + d
    <3>1. end \in Int /\ end - 1 \in i..e
      BY <1>1, <2>1
    <3>2. end - 1 + d = stop - 1 /\ stop + 1 = end + 1 + d
      BY <1>1, <2>1, <3>1
    <3> QED BY <2>0, <3>1, <3>2
  <2>5. SameCells(r, q, d)
    BY <2>4 DEF Shifts
  <2> HIDE DEF r, q
  <2>6. /\ ParseExplicitList(Parser(t), t, i, e).cell = List(t[i], r.cells)
        /\ ParseExplicitList(Parser(t), t, i, e).next = end + 1
        /\ ParseExplicitList(Parser(t), t, i, e).errors = r.errors
    BY <2>2, ResultFields
  <2>7. /\ ParseExplicitList(Parser(s), s, a, b).cell = List(s[a], q.cells)
        /\ ParseExplicitList(Parser(s), s, a, b).next = stop + 1
        /\ ParseExplicitList(Parser(s), s, a, b).errors = q.errors
    BY <2>3, ResultFields
  <2>8. r.cells = q.cells /\ r.errors = q.errors
    BY <2>5 DEF SameCells
  <2> QED BY <1>1, <2>4, <2>6, <2>7, <2>8 DEF SameCell
<1> QED BY <1>3, <1>4

LEMMA QuoteShifts ==
  ASSUME NEW s, NEW t, NEW d, IsPart(s, t, d), NEW i \in 1..Len(t), NEW e \in i..Len(t),
         NEW a, a = i + d, NEW b, b = e + d, Shifts(s, t, d, i + 1, e)
  PROVE  SameCell(ParseQuoted(Parser(t), t, i, e), ParseQuoted(Parser(s), s, a, b), d)
<1> DEFINE j == i + 1
           r == Parser(t)[j].argument[e]
           q == Parser(s)[a + 1].argument[b]
<1>1. /\ Len(t) \in Nat /\ d \in Nat /\ i \in Nat /\ e \in Int /\ d \in Int /\ j \in 1..(Len(t) + 1)
      /\ e \in (j - 1)..Len(t) /\ e <= Len(t) /\ j + d = a + 1 /\ j \in Int
  <2>1. Len(t) \in Nat /\ d \in Nat /\ d \in Int
    BY PartFacts
  <2> QED BY <2>1
<1>2. SameCell(r, q, d)
  BY <1>1 DEF Shifts
<1>3. r.next \in j..(e + 1)
  <2> DEFINE x == j + d
             y == e + d
  <2>1. x = j + d /\ y = e + d
    OBVIOUS
  <2> HIDE DEF j, x, y
  <2> QED BY <1>1, <2>1, PartAt
<1>4. ParseQuoted(Parser(t), t, i, e)
        = IF r.cell = NoCell THEN Result(NoCell, r.next, r.errors \cup {"invalid_quote"})
          ELSE Result(Quoted(SubSeq(t, j, r.next - 1)), r.next, r.errors)
  BY DEF ParseQuoted
<1>5. ParseQuoted(Parser(s), s, a, b)
        = IF q.cell = NoCell THEN Result(NoCell, q.next, q.errors \cup {"invalid_quote"})
          ELSE Result(Quoted(SubSeq(s, a + 1, q.next - 1)), q.next, q.errors)
  BY DEF ParseQuoted
<1> HIDE DEF r, q
<1>6. q.cell = r.cell /\ q.errors = r.errors /\ q.next = r.next + d
  BY <1>2 DEF SameCell
<1>7. SubSeq(t, j, r.next - 1) = SubSeq(s, a + 1, q.next - 1)
  <2> DEFINE x == a + 1
             y == q.next - 1
             last == r.next - 1
  <2>1. x = j + d /\ y = last + d /\ last \in (j - 1)..Len(t)
    BY <1>1, <1>3, <1>6
  <2> HIDE DEF x, y, last, j
  <2>2. Cut(t, j, last) = Cut(s, x, y)
    BY <1>1, <2>1, PartShift
  <2> QED BY <2>2 DEF Cut, x, y, last
<1> DEFINE c == Quoted(SubSeq(t, j, r.next - 1))
<1>8. Quoted(SubSeq(s, a + 1, q.next - 1)) = c
  BY <1>7
<1> HIDE DEF c
<1>9. CASE r.cell = NoCell
  BY <1>4, <1>5, <1>6, <1>9, ResultFields DEF SameCell
<1>10. CASE r.cell # NoCell
  <2>1. ParseQuoted(Parser(t), t, i, e) = Result(c, r.next, r.errors)
    BY <1>4, <1>10 DEF c
  <2>2. ParseQuoted(Parser(s), s, a, b) = Result(c, q.next, q.errors)
    BY <1>5, <1>6, <1>8, <1>10
  <2> QED BY <1>6, <2>1, <2>2, ResultFields DEF SameCell
<1> QED BY <1>9, <1>10

LEMMA ShiftsToo ==
  ASSUME NEW s, NEW t, NEW d, IsPart(s, t, d), NEW i \in 1..(Len(t) + 1),
         NEW e \in (i - 1)..Len(t),
         \A j \in (i + 1)..(Len(t) + 1) : \A k \in (j - 1)..Len(t) : Shifts(s, t, d, j, k)
  PROVE  Shifts(s, t, d, i, e)
<1> DEFINE a == i + d
           b == e + d
           m == Skip(t, i, e)
           n == m + d
           r == ParseArgument(Parser(t), t, i, e)
           q == ParseArgument(Parser(s), s, a, b)
<1>1. /\ Len(t) \in Nat /\ d \in Nat /\ i \in Nat /\ e \in Int /\ d \in Int /\ i <= e + 1
      /\ e <= Len(t) /\ a = i + d /\ b = e + d /\ i \in Int /\ 1 <= i
  BY PartFacts
<1>2. m \in i..(e + 1)
  BY <1>1, SkipFacts, Zenon
<1>3. Skip(s, a, b) = n /\ n = m + d
  <2> HIDE DEF a, b, n
  <2>1. Skip(s, a, b) = m + d
    BY <1>1, SkipShift
  <2> QED BY <2>1 DEF n
<1> HIDE DEF m, n
<1>4. m > e <=> n > b
  <2> HIDE DEF b
  <2> QED BY <1>1, <1>2, <1>3
<1>5. SameCell(r, q, d)
  <2>1. CASE m > e
    <3>1. r = Result(NoCell, m, {})
      BY <2>1 DEF ParseArgument, m
    <3>2. q = Result(NoCell, n, {})
      <4> HIDE DEF a, b
      <4> QED BY <1>3, <1>4, <2>1 DEF ParseArgument, q
    <3> QED BY <1>3, <3>1, <3>2, ResultFields DEF SameCell
  <2>2. CASE ~(m > e)
    <3>1. m \in 1..Len(t) /\ e \in m..Len(t) /\ m \in Int
      BY <1>1, <1>2, <2>2
    <3>2. t[m] = s[n]
      BY <1>3, <3>1, PartFacts
    <3>3. r = CASE t[m] \in Opening -> ParseExplicitList(Parser(t), t, m, e)
                [] t[m] \in Strings -> ParseStringLiteral(t, m)
                [] t[m] = "'"       -> ParseQuoted(Parser(t), t, m, e)
                [] OTHER            -> ParseStaticType(t, m)
      BY <2>2 DEF ParseArgument, m
    <3>4. q = CASE t[m] \in Opening -> ParseExplicitList(Parser(s), s, n, b)
                [] t[m] \in Strings -> ParseStringLiteral(s, n)
                [] t[m] = "'"       -> ParseQuoted(Parser(s), s, n, b)
                [] OTHER            -> ParseStaticType(s, n)
      <4> HIDE DEF a, b
      <4> QED BY <1>3, <1>4, <2>2, <3>2 DEF ParseArgument, q
    <3>5. \A k \in m..e : Shifts(s, t, d, m + 1, k)
      <4>1. ASSUME NEW k \in m..e PROVE Shifts(s, t, d, m + 1, k)
        <5> DEFINE j == m + 1
        <5>1. j \in (i + 1)..(Len(t) + 1) /\ k \in (j - 1)..Len(t)
          BY <1>1, <1>2, <3>1
        <5> HIDE DEF j
        <5>2. Shifts(s, t, d, j, k)
          BY <5>1
        <5> QED BY <5>2 DEF j
      <4> QED BY <4>1
    <3>6. Shifts(s, t, d, m + 1, e)
      BY <3>1, <3>5
    <3> HIDE DEF r, q, a, b
    <3>7. CASE t[m] \in Opening
      <4>1. t[m] \notin Strings /\ t[m] # "'"
        BY <3>7 DEF Opening, Strings
      <4>2. r = ParseExplicitList(Parser(t), t, m, e) /\ q = ParseExplicitList(Parser(s), s, n, b)
        BY <3>3, <3>4, <3>7, <4>1
      <4>3. SameCell(ParseExplicitList(Parser(t), t, m, e), ParseExplicitList(Parser(s), s, n, b), d)
        BY <1>1, <1>3, <3>1, <3>5, ListShifts
      <4> QED BY <4>2, <4>3
    <3>8. CASE t[m] = "'"
      <4>1. r = ParseQuoted(Parser(t), t, m, e) /\ q = ParseQuoted(Parser(s), s, n, b)
        BY <3>3, <3>4, <3>8 DEF Opening
      <4>2. SameCell(ParseQuoted(Parser(t), t, m, e), ParseQuoted(Parser(s), s, n, b), d)
        BY <1>1, <1>3, <3>1, <3>6, QuoteShifts
      <4> QED BY <4>1, <4>2
    <3>9. CASE t[m] \notin Opening /\ t[m] # "'"
      <4>1. /\ r = IF t[m] \in Strings THEN ParseStringLiteral(t, m) ELSE ParseStaticType(t, m)
            /\ q = IF t[m] \in Strings THEN ParseStringLiteral(s, n) ELSE ParseStaticType(s, n)
        BY <3>3, <3>4, <3>9
      <4>2. n + 1 = m + 1 + d
        BY <1>1, <1>3, <3>1
      <4> QED BY <1>3, <3>2, <4>1, <4>2, ResultFields
              DEF ParseStringLiteral, ParseStaticType, SameCell
    <3> QED BY <3>7, <3>8, <3>9
  <2> QED BY <2>1, <2>2
<1>6. /\ Parser(t)[i].argument[e] = r /\ Parser(s)[a].argument[b] = q
      /\ Parser(t)[i].items[e] = Items(Parser(t), t, i, e)
      /\ Parser(s)[a].items[b] = Items(Parser(s), s, a, b)
      /\ r.next \in i..(e + 1) /\ (r.cell # NoCell => r.next > i)
  <2> HIDE DEF a, b
  <2> QED BY <1>1, PartAt DEF r, q
<1>7. SameCells(Items(Parser(t), t, i, e), Items(Parser(s), s, a, b), d)
  <2> DEFINE u == Parser(t)[r.next].items[e]
             v == Parser(s)[q.next].items[b]
  <2>1. /\ r.cell = NoCell => Items(Parser(t), t, i, e) = Ended(r)
        /\ r.cell # NoCell => Items(Parser(t), t, i, e) = Prepended(r, u)
    BY DEF Items
  <2>2. /\ q.cell = NoCell => Items(Parser(s), s, a, b) = Ended(q)
        /\ q.cell # NoCell => Items(Parser(s), s, a, b) = Prepended(q, v)
    BY DEF Items
  <2> HIDE DEF r, q
  <2>3. q.cell = r.cell /\ q.errors = r.errors /\ q.next = r.next + d
    BY <1>5 DEF SameCell
  <2>4. CASE r.cell = NoCell
    BY <2>1, <2>2, <2>3, <2>4, ResultFields DEF Ended, SameCells
  <2>5. CASE r.cell # NoCell
    <3>1. Shifts(s, t, d, r.next, e)
      <4> DEFINE j == r.next
      <4>1. j \in (i + 1)..(Len(t) + 1) /\ e \in (j - 1)..Len(t)
        BY <1>1, <1>6, <2>5
      <4> HIDE DEF j
      <4>2. Shifts(s, t, d, j, e)
        BY <4>1
      <4> QED BY <4>2 DEF j
    <3>2. SameCells(u, v, d)
      BY <2>3, <3>1 DEF Shifts
    <3> HIDE DEF u, v
    <3> DEFINE x == Items(Parser(t), t, i, e)
               y == Items(Parser(s), s, a, b)
    <3>3. /\ x.cells = <<r.cell>> \o u.cells /\ x.next = u.next /\ x.errors = r.errors \cup u.errors
          /\ y.cells = <<q.cell>> \o v.cells /\ y.next = v.next /\ y.errors = q.errors \cup v.errors
      <4>1. x = Prepended(r, u) /\ y = Prepended(q, v)
        BY <2>1, <2>2, <2>3, <2>5
      <4> HIDE DEF x, y
      <4>2. ASSUME NEW f, NEW g PROVE
              /\ Prepended(f, g).cells = <<f.cell>> \o g.cells
              /\ Prepended(f, g).next = g.next
              /\ Prepended(f, g).errors = f.errors \cup g.errors
        BY ONLY TRUE DEF Prepended, Cells
      <4> QED BY <4>1, <4>2
    <3>4. v.cells = u.cells /\ v.errors = u.errors /\ v.next = u.next + d
      BY <3>2 DEF SameCells
    <3> HIDE DEF x, y
    <3>5. y.cells = x.cells /\ y.errors = x.errors /\ y.next = x.next + d
      BY <2>3, <3>3, <3>4
    <3> QED BY <3>5 DEF SameCells, x, y
  <2> QED BY <2>4, <2>5
<1> QED BY <1>5, <1>6, <1>7 DEF Shifts

LEMMA AllShift ==
  ASSUME NEW s, NEW t, NEW d, IsPart(s, t, d), NEW i \in 1..(Len(t) + 1),
         NEW e \in (i - 1)..Len(t)
  PROVE  Shifts(s, t, d, i, e)
<1> DEFINE N == Len(t) + 1
           S == {j \in 1..N : \A k \in (j - 1)..Len(t) : Shifts(s, t, d, j, k)}
<1>1. N \in Int /\ 1 \in Int
  BY PartFacts
<1>2. ASSUME NEW k \in 1..N, \A j \in (k + 1)..N : j \in S PROVE k \in S
  <2>1. \A j \in (k + 1)..N : \A l \in (j - 1)..Len(t) : Shifts(s, t, d, j, l)
    BY <1>2
  <2>2. \A l \in (k - 1)..Len(t) : Shifts(s, t, d, k, l)
    BY <2>1, ShiftsToo
  <2> QED BY <2>2
<1>3. \A k \in 1..N : k \in S
  <2> HIDE DEF S, N
  <2> QED BY <1>1, <1>2, Downward
<1> QED BY <1>3

(* akx_cell_unwrap_quoted gives back the list or quoted cell that the      *)
(* parser found behind a quote.                                            *)
LEMMA QuoteReadsBack ==
  ASSUME NEW s \in Seq(AnyToken), NEW i \in 1..Len(s),
         Len(Parser(s)[i + 1].argument[Len(s)].cell) > 1
  PROVE  UnwrapQuoted(ParseQuoted(Parser(s), s, i, Len(s)).cell)
           = Parser(s)[i + 1].argument[Len(s)].cell
<1> DEFINE N == Len(s)
           p == i + 1
           a == Parser(s)[p].argument[N]
           inner == a.cell
           q == a.next - 1
           t == Cut(s, p, q)
           M == q - i
           r == Parser(t)[1].argument[M]
           read == Parser(t)[1].expressions[M]
<1>1. N \in Nat /\ i \in Nat /\ p \in 1..(N + 1) /\ N \in (p - 1)..N /\ p = i + 1 /\ i <= N
      /\ N \in Int /\ p \in Int
  BY OpenListsAt
<1>2. a = ParseArgument(Parser(s), s, p, N)
  <2> HIDE DEF p
  <2> QED BY <1>1, ParserAt
<1>3. inner # NoCell /\ inner # <<>> /\ ~(Len(inner) <= 1)
  <2>1. Len(<<>>) = 0 /\ Len(inner) > 1 /\ Len(inner) # 0 /\ ~(Len(inner) <= 1)
    <3>1. Len(inner) > 1
      OBVIOUS
    <3> HIDE DEF inner
    <3> QED BY <3>1, EmptyIsSeq
  <2> QED BY <2>1 DEF NoCell
<1> HIDE DEF p, N, inner, q, M, t
<1>4. a.next \in (p + 1)..(N + 1)
  <2>1. Goes(Parser(s), s, 1)
    BY <1>1, ParserIs DEF N
  <2>2. a.next \in p..(N + 1) /\ (a.cell # NoCell => a.next > p)
    BY <1>1, <2>1, GoesAt DEF N
  <2> HIDE DEF a
  <2> QED BY <1>1, <1>3, <2>2 DEF inner
<1> HIDE DEF a
<1>5. q \in p..N /\ q \in Int /\ M = q - p + 1 /\ M \in Nat /\ M >= 1 /\ q = M + i /\ q \in (p - 1)..N
      /\ M \in Int
  BY <1>1, <1>4 DEF q, M
<1>6. IsPart(s, t, i) /\ Len(t) = M
  <2>1. IsSeq(s)
    BY SeqIsSeq
  <2>2. /\ IsSeq(t) /\ Len(t) = M
        /\ \A k \in 1..M : t[k] = s[p + k - 1]
    BY <1>1, <1>5, <2>1, PartOfSeq DEF t, Cut, N
  <2>3. \A k \in 1..M : k + i = p + k - 1
    BY <1>1, <1>5
  <2>4. \A k \in 1..M : t[k] = s[k + i]
    BY <2>2, <2>3
  <2>5. M + i <= Len(s)
    BY <1>1, <1>5 DEF N
  <2> QED BY <1>1, <2>1, <2>2, <2>4, <2>5 DEF IsPart
(* The quote ends where its cell ends: reading it again stops there.       *)
<1>7. Parser(s)[p].argument[q] = a
  <2>1. EndsEarly(s, p, N)
    BY <1>1, AllEndEarly DEF N
  <2>2. q \in (ParseArgument(Parser(s), s, p, N).next - 1)..N
    BY <1>1, <1>2, <1>5 DEF q
  <2>3. ParseArgument(Parser(s), s, p, q) = a
    BY <1>2, <1>3, <2>1, <2>2 DEF EndsEarly, inner
  <2>4. Parser(s)[p].argument[q] = ParseArgument(Parser(s), s, p, q)
    BY <1>1, <1>5, ParserAt DEF N
  <2> QED BY <2>3, <2>4
<1>8. 1 \in 1..(Len(t) + 1) /\ M \in (1 - 1)..Len(t) /\ Len(t) \in Nat
  <2>1. 1 \in 1..(M + 1) /\ M \in (1 - 1)..M /\ M \in Nat
    BY <1>5
  <2> QED BY <1>6, <2>1
(* And it is read the same where its text stands alone.                    *)
<1>9. r.cell = inner
  <2>1. Shifts(s, t, i, 1, M)
    BY <1>6, <1>8, AllShift
  <2>2. SameCell(r, Parser(s)[1 + i].argument[M + i], i)
    BY <2>1 DEF Shifts
  <2>3. 1 + i = p /\ M + i = q
    BY <1>1, <1>5
  <2>4. SameCell(r, a, i)
    BY <1>7, <2>2, <2>3
  <2> QED BY <2>4 DEF SameCell, inner
<1>10. r = ParseArgument(Parser(t), t, 1, M)
  BY <1>8, ParserAt
<1> DEFINE m == Skip(t, 1, M)
<1>11. m <= M /\ m \in Int
  <2>1. EndsEarly(t, 1, M)
    BY <1>8, AllEndEarly
  <2>2. m \in 1..(M + 1)
    <3>1. 1 \in Nat /\ M \in Int /\ 1 <= M + 1
      BY <1>5
    <3> QED BY <3>1, SkipFacts
  <2> QED BY <1>3, <1>5, <1>9, <1>10, <2>1, <2>2 DEF EndsEarly
<1> HIDE DEF r
<1>12. r = ParseExpression(Parser(t), t, m, M)
  <2> HIDE DEF m
  <2>1. r = CASE t[m] \in Opening -> ParseExplicitList(Parser(t), t, m, M)
              [] t[m] \in Strings -> ParseStringLiteral(t, m)
              [] t[m] = "'"       -> ParseQuoted(Parser(t), t, m, M)
              [] OTHER            -> ParseStaticType(t, m)
    <3>1. ~(m > M)
      BY <1>5, <1>11
    <3> QED BY <1>10, <3>1 DEF ParseArgument, m
  <2>2. CASE t[m] \in Opening
    <3>1. t[m] \notin Strings /\ t[m] # "'"
      BY <2>2 DEF Opening, Strings
    <3> QED BY <2>1, <2>2, <3>1 DEF ParseExpression
  <2>3. CASE t[m] = "'"
    BY <2>1, <2>3 DEF ParseExpression, Opening
  <2>4. CASE t[m] \notin Opening /\ t[m] # "'"
    <3>1. r = ParseStringLiteral(t, m) \/ r = ParseStaticType(t, m)
      BY <2>1, <2>4
    <3>2. r.cell = NoCell \/ r.cell = Atom(t[m])
      BY <3>1, ResultFields DEF ParseStringLiteral, ParseStaticType
    <3>3. Len(Atom(t[m])) <= 1
      BY DEF Atom
    <3> QED BY <1>3, <1>9, <3>2, <3>3
  <2> QED BY <2>2, <2>3, <2>4
<1>13. read.cells # <<>> /\ read.cells[1] = inner
  <2> DEFINE tail == Parser(t)[r.next].expressions[M].cells
  <2>1. read = Prepended(r, Parser(t)[r.next].expressions[M])
    <3>1. read = Expressions(Parser(t), t, 1, M)
      BY <1>8, ParserAt
    <3>2. ~(m > M) /\ r.cell # NoCell
      <4> HIDE DEF m
      <4> QED BY <1>3, <1>5, <1>9, <1>11
    <3> QED BY <1>12, <3>1, <3>2 DEF Expressions
  <2>2. read.cells = <<inner>> \o tail
    <3> DEFINE more == Parser(t)[r.next].expressions[M]
    <3>1. Prepended(r, more).cells = <<r.cell>> \o more.cells
      BY PrependedFields
    <3> QED BY <1>9, <2>1, <3>1
  <2>3. IsSeq(tail)
    <3> DEFINE l == r.next
    <3>1. l \in 1..(Len(t) + 1) /\ M \in (l - 1)..Len(t)
      <4>1. Goes(Parser(t), t, 1)
        BY <1>8, ParserIs
      <4>2. r.next \in 1..(M + 1)
        BY <1>8, <4>1, GoesAt DEF r
      <4>3. \A x \in 1..(M + 1) : M \in (x - 1)..M
        BY <1>5
      <4>4. l \in 1..(M + 1) /\ M \in (l - 1)..M
        BY <4>2, <4>3
      <4> HIDE DEF l
      <4> QED BY <1>6, <4>4
    <3> HIDE DEF l
    <3>2. IsSeq(Parser(t)[l].expressions[M].cells)
      BY <1>8, <3>1, ExpressionsAreSeq
    <3> QED BY <3>2 DEF l
  <2> HIDE DEF tail, read
  <2>4. (<<inner>> \o tail)[1] = inner
    <3>1. Regrouped(<<>>, inner, tail)
      BY <2>3, EmptyIsSeq, RegroupedSeq
    <3> QED BY <3>1 DEF Regrouped
  <2>5. <<inner>> \o tail # <<>>
    <3>1. IsSeq(<<inner>> \o tail) /\ Len(<<inner>> \o tail) = 1 + Len(tail) /\ Len(tail) \in Nat
      <4>1. <<inner>> \in Seq({inner}) /\ Len(<<inner>>) = 1
        OBVIOUS
      <4>2. IsSeq(<<inner>>)
        BY <4>1, SeqIsSeq
      <4> QED BY <2>3, <4>1, <4>2, JoinedSeq, IsSeqFacts
    <3> QED BY <3>1, EmptyIsSeq
  <2> QED BY <2>2, <2>4, <2>5
<1>14. ParseQuoted(Parser(s), s, i, N).cell = Quoted(t)
  BY <1>3 DEF ParseQuoted, Result, a, inner, q, t, p, Cut
<1>15. UnwrapQuoted(Quoted(t)) = inner
  <2>1. Quoted(t)[2] = t
    BY DEF Quoted
  <2>2. ParseBuffer(t) = read
    BY <1>6 DEF ParseBuffer
  <2> HIDE DEF read
  <2> QED BY <1>13, <2>1, <2>2 DEF UnwrapQuoted
<1> QED BY <1>14, <1>15 DEF inner, a, p, N

(* A quote holds text, not cells: akx_cell_unwrap_quoted reads this text   *)
(* again, alone, and gets what akx_cell_parse_buffer found behind the      *)
(* quote, whatever followed it there.                                      *)
THEOREM QuotesAreReadBack == Spec => []QuotesReadBack
<1>1. Typed => QuotesReadBack
  <2>1. SUFFICES ASSUME text \in Seq(AnyToken), NEW i \in {j \in 1..Len(text) : text[j] = "'"},
                        Len(Parser(text)[i + 1].argument[Len(text)].cell) > 1
                 PROVE  UnwrapQuoted(ParseQuoted(Parser(text), text, i, Len(text)).cell)
                          = Parser(text)[i + 1].argument[Len(text)].cell
    BY DEF QuotesReadBack, Typed
  <2>2. i \in 1..Len(text)
    OBVIOUS
  <2> QED BY <2>1, <2>2, QuoteReadsBack
<1> QED BY <1>1, TextIsTokens, PTL

=============================================================================
