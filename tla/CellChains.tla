----------------------------- MODULE CellChains -----------------------------
(***************************************************************************)
(* Cells and their chains: what the next pointer of a cell does to the     *)
(* values of a program.  A cell the evaluator returns need not stand       *)
(* alone.  akx_cell_clone copies the cells that follow along with a cell,  *)
(* so a literal comes with copies of the arguments written after it, and   *)
(* some builtins return several cells in a row.  A chain is the sequence   *)
(* of a cell and those after it; the value it stands for is its first.     *)
(*                                                                         *)
(* A program is a stack machine, as in ListValues: each action is an       *)
(* expression or a builtin after its arguments were evaluated.  What a     *)
(* lambda does with the item it is given is any sequence of actions.       *)
(* Lambda cells, and who frees which cell, are left out.                   *)
(***************************************************************************)
EXTENDS Integers, Sequences

CONSTANTS
  Names,     \* the names a program binds
  Items,     \* the cells that may be items of a list
  Nil,       \* the symbol nil
  Arguments, \* what may follow a literal among the arguments of a call
  MaxItems,  \* bound on the items of a list
  MaxStack   \* bound on the stack

(* A list cell, with the cells its list_head leads to.                     *)
Lists == [items : Seq(Items)]

Cells == Items \cup Lists

Chains == {c \in Seq(Cells) : c # <<>>}

Literals == Items \ (Lists \cup {Nil})

ASSUME ChainConstants ==
  /\ Nil \in Items \ Lists
  /\ <<>> \in Arguments /\ Arguments \subseteq Seq(Cells)
  /\ MaxItems \in Nat /\ MaxStack \in Nat

VARIABLES
  bound,     \* the chain each name is bound to in the current scope, or <<>>
  stack,     \* chains the evaluator holds, and frames of iter_list
  form       \* what was evaluated last: a name, an expression or a builtin

vars == <<bound, stack, form>>

Value(chain) == [kind |-> "value", chain |-> chain]

(* A frame of iter_list: the items from current on, the cells linked from  *)
(* result_head on, and how many of them lead to result_tail.               *)
Iter(left, made, tail) == [kind |-> "iter", left |-> left, made |-> made, tail |-> tail]

Top == stack[Len(stack)]

Below(k) == SubSeq(stack, 1, Len(stack) - k)

HasValues(k) ==
  /\ Len(stack) >= k
  /\ \A i \in (Len(stack) - k + 1)..Len(stack) : stack[i].kind = "value"

Push(k, entry) == stack' = Append(Below(k), entry) /\ UNCHANGED bound

Replace(k, chain) == Push(k, Value(chain))

Init == bound = [n \in Names |-> <<>>] /\ stack = <<>> /\ form = "none"

-----------------------------------------------------------------------------
(***************************************************************************)
(* Expressions.                                                            *)
(***************************************************************************)

(* A number or string, with the arguments written after it.                *)
EvalLiteral ==
  /\ form' = "text"
  /\ Len(stack) < MaxStack
  /\ \E c \in Literals, rest \in Arguments : Replace(0, <<c>> \o rest)

(* A quoted list is parsed anew: its cell stands alone.                    *)
EvalQuoted ==
  /\ form' = "text"
  /\ Len(stack) < MaxStack
  /\ \E n \in 0..MaxItems : \E s \in [1..n -> Items] : Replace(0, <<[items |-> s]>>)

(* Anything that gives nil: (), an if without a branch to take.            *)
EvalNil ==
  /\ form' = "text"
  /\ Len(stack) < MaxStack
  /\ Replace(0, <<Nil>>)

EvalSymbol(n) ==
  /\ form' = n
  /\ Len(stack) < MaxStack
  /\ bound[n] # <<>>
  /\ Replace(0, bound[n])

(* Some builtins return cells in a row and no list around them: the parts  *)
(* of a string, the arguments of a script, the entries of a directory.     *)
Row(n) == \E s \in [1..n -> Literals] : Replace(0, s)

SplitParts == \E n \in 1..2 : Row(n)

ScriptArguments == \E n \in 1..MaxItems : Row(n)

DirectoryEntries == \E n \in 1..MaxItems : Row(n)

EvalPieces ==
  /\ form' = "text"
  /\ Len(stack) < MaxStack
  /\ SplitParts \/ ScriptArguments \/ DirectoryEntries

-----------------------------------------------------------------------------
(***************************************************************************)
(* Builtins.                                                               *)
(***************************************************************************)
Let(n) ==
  /\ form' = "bind"
  /\ bound[n] = <<>>
  /\ HasValues(1)
  /\ bound' = [bound EXCEPT ![n] = Top.chain]
  /\ UNCHANGED stack

Set(n) ==
  /\ form' = "bind"
  /\ bound[n] # <<>>
  /\ HasValues(1)
  /\ bound' = [bound EXCEPT ![n] = Top.chain]
  /\ UNCHANGED stack

(* A value nobody wants: a condition, all but the last form of a body.     *)
Discard ==
  /\ form' = "discard"
  /\ HasValues(1)
  /\ stack' = Below(1)
  /\ UNCHANGED bound

First(chain) == chain[1]

(* Mutant of Cons: the clone of the element keeps what follows it.         *)
ConsUncut ==
  /\ form' = "cons"
  /\ HasValues(2)
  /\ LET element == stack[Len(stack) - 1].chain
         list == First(Top.chain)
     IN /\ list \in Lists
        /\ \A i \in 1..Len(element) : element[i] \in Items
        /\ Len(element) + Len(list.items) <= MaxItems
        /\ Replace(2, <<[items |-> element \o list.items]>>)

Cons ==
  /\ form' = "cons"
  /\ HasValues(2)
  /\ LET element == First(stack[Len(stack) - 1].chain)
         list == First(Top.chain)
     IN /\ list \in Lists
        /\ element \in Items
        /\ Len(list.items) < MaxItems
        /\ Replace(2, <<[items |-> <<element>> \o list.items]>>)

Car ==
  /\ form' = "car"
  /\ HasValues(1)
  /\ LET list == First(Top.chain) IN
     /\ list \in Lists /\ list.items # <<>>
     /\ Replace(1, <<list.items[1]>>)

Cdr ==
  /\ form' = "cdr"
  /\ HasValues(1)
  /\ LET list == First(Top.chain) IN
     /\ list \in Lists
     /\ Replace(1, IF Len(list.items) > 1 THEN <<[items |-> Tail(list.items)]>> ELSE <<Nil>>)

IterNothing ==
  /\ form' = "iter"
  /\ HasValues(1)
  /\ LET value == First(Top.chain) IN value = Nil \/ (value \in Lists /\ value.items = <<>>)
  /\ Replace(1, <<Nil>>)

IterBegins ==
  /\ form' = "iter"
  /\ HasValues(1)
  /\ LET list == First(Top.chain) IN
     /\ list \in Lists /\ list.items # <<>>
     /\ Push(1, Iter(list.items, <<>>, 0))

(* The chain becomes what follows result_tail; what followed it is lost.   *)
Link(made, tail, chain) == SubSeq(made, 1, tail) \o chain

(* Mutant of IterTakes: result_tail runs ahead of what was linked.         *)
IterTakesAhead ==
  /\ form' = "iter"
  /\ Len(stack) >= 2 /\ HasValues(1)
  /\ LET frame == stack[Len(stack) - 1] IN
     /\ frame.kind = "iter" /\ frame.left # <<>>
     /\ Len(frame.made) < MaxItems /\ First(Top.chain) \in Items
     /\ Push(2, Iter(Tail(frame.left), Append(frame.made, First(Top.chain)), frame.tail + 2))

(* The lambda returned: its chain is linked to result_tail, which moves to *)
(* the first cell of that chain.                                           *)
IterTakes ==
  /\ form' = "iter"
  /\ Len(stack) >= 2 /\ HasValues(1)
  /\ LET frame == stack[Len(stack) - 1]
         made == Link(frame.made, frame.tail, Top.chain)
     IN /\ frame.kind = "iter" /\ frame.left # <<>>
        /\ \A i \in 1..Len(made) : made[i] \in Items
        /\ Len(made) <= MaxItems
        /\ Push(2, Iter(Tail(frame.left), made, frame.tail + 1))

IterEnds ==
  /\ form' = "iter"
  /\ stack # <<>>
  /\ Top.kind = "iter" /\ Top.left = <<>>
  /\ Replace(1, <<[items |-> Top.made]>>)

(* Any evaluation may fail.  NULL is handed up to a lambda, whose call     *)
(* gives nil then, or ends the form at the top level.                      *)
Fail ==
  /\ form' = "fail"
  /\ \/ stack' = <<>>
     \/ \E k \in 1..Len(stack) : stack' = Append(Below(k), Value(<<Nil>>))
  /\ UNCHANGED bound

Next ==
  \/ EvalLiteral \/ EvalQuoted \/ EvalNil \/ EvalPieces
  \/ \E n \in Names : EvalSymbol(n) \/ Let(n) \/ Set(n)
  \/ Discard \/ Cons \/ Car \/ Cdr
  \/ IterNothing \/ IterBegins \/ IterTakes \/ IterEnds
  \/ Fail

Spec == Init /\ [][Next]_vars

-----------------------------------------------------------------------------
(***************************************************************************)
(* The refinement: a chain stands for its first cell, a frame of iter_list *)
(* for the cells up to result_tail.                                        *)
(***************************************************************************)
Shown(entry) ==
  IF entry.kind = "value"
    THEN [kind |-> "value", value |-> First(entry.chain)]
    ELSE [kind |-> "iter", left |-> entry.left, done |-> SubSeq(entry.made, 1, entry.tail)]

ShownBound(b) ==
  [n \in Names |-> IF b[n] = <<>> THEN [kind |-> "unbound"] ELSE Shown(Value(b[n]))]

ShownStack(s) == [i \in 1..Len(s) |-> Shown(s[i])]

Abstract == INSTANCE ListValues WITH
  bound <- ShownBound(bound),
  stack <- ShownStack(stack)

-----------------------------------------------------------------------------
(***************************************************************************)
(* Properties.                                                             *)
(***************************************************************************)

Entries ==
  [kind : {"value"}, chain : Chains]
    \cup [kind : {"iter"}, left : Seq(Items), made : Seq(Items), tail : Nat]

(* Every variable has its type, and result_tail is a cell of the list.     *)
TypeOK ==
  /\ bound \in [Names -> Chains \cup {<<>>}]
  /\ stack \in Seq(Entries)
  /\ \A i \in 1..Len(stack) : stack[i].kind = "iter" => stack[i].tail <= Len(stack[i].made)

(* The cells that follow a value never get into what the program sees of   *)
(* it, whatever it is bound to, put into or taken out of: lists, names and *)
(* cons, car and cdr behave as ListValues says.                            *)
ImplementsListValues == Abstract!Spec

(* The list that iter makes has one item for each item of its argument.    *)
IterMapsItems == [][IterEnds => Len(Top'.chain[1].items) = Top.tail]_vars

=============================================================================
