----------------------------- MODULE ListValues -----------------------------
(***************************************************************************)
(* What a program may expect of values and lists: a value is an atom or a  *)
(* list, cons puts one value in front of a list, car and cdr take it apart *)
(* again, a name gives back what was bound to it, and the list iter makes  *)
(* begins with the values the lambda gave, one for each item.              *)
(*                                                                         *)
(* A program is a stack machine here: an expression leaves its value on    *)
(* the stack, a builtin finds the values of its arguments there.  A frame  *)
(* of iter lies on the stack while the lambda is evaluated for an item.    *)
(***************************************************************************)
EXTENDS Integers, Sequences

CONSTANTS
  Names,     \* the names a program binds
  Items,     \* the values that may be items of a list
  Nil        \* the symbol nil

Unbound == [kind |-> "unbound"]

Lists == [items : Seq(Items)]

Values == Items \cup Lists

VARIABLES
  bound,     \* what each name is bound to
  stack,     \* values, and frames of iter
  form       \* what was evaluated last: a name, an expression or a builtin

vars == <<bound, stack, form>>

Value(v) == [kind |-> "value", value |-> v]

(* iter has items left to visit; done are the values given for the others. *)
Iter(left, done) == [kind |-> "iter", left |-> left, done |-> done]

Top == stack[Len(stack)]

Below(k) == SubSeq(stack, 1, Len(stack) - k)

(* The last k entries of the stack are values.                             *)
HasValues(k) ==
  /\ Len(stack) >= k
  /\ \A i \in (Len(stack) - k + 1)..Len(stack) : stack[i].kind = "value"

Push(k, entry) == stack' = Append(Below(k), entry) /\ UNCHANGED bound

Replace(k, v) == Push(k, Value(v))

Init == bound = [n \in Names |-> Unbound] /\ stack = <<>> /\ form = "none"

-----------------------------------------------------------------------------

(* An expression is evaluated: anything a program writes, or a name.       *)
Write ==
  /\ form' = "text"
  /\ Len(stack') = Len(stack) + 1
  /\ LET v == stack'[Len(stack) + 1].value IN
     /\ v \in Values
     /\ Replace(0, v)

Read(n) ==
  /\ form' = n
  /\ bound[n] # Unbound
  /\ Replace(0, bound[n].value)

(* let and set: the value stays as the value of the form.                  *)
Bind(n) ==
  /\ form' = "bind"
  /\ HasValues(1)
  /\ bound' = [bound EXCEPT ![n] = Top]
  /\ UNCHANGED stack

Discard ==
  /\ form' = "discard"
  /\ HasValues(1)
  /\ stack' = Below(1)
  /\ UNCHANGED bound

Cons ==
  /\ form' = "cons"
  /\ HasValues(2)
  /\ Top.value \in Lists
  /\ Replace(2, [items |-> <<stack[Len(stack) - 1].value>> \o Top.value.items])

Car ==
  /\ form' = "car"
  /\ HasValues(1)
  /\ Top.value \in Lists /\ Top.value.items # <<>>
  /\ Replace(1, Top.value.items[1])

(* Of a list without a second item the rest is nil.                        *)
Cdr ==
  /\ form' = "cdr"
  /\ HasValues(1)
  /\ Top.value \in Lists
  /\ Replace(1, IF Len(Top.value.items) > 1 THEN [items |-> Tail(Top.value.items)] ELSE Nil)

(* Nothing to visit: iter gives nil.                                       *)
IterNothing ==
  /\ form' = "iter"
  /\ HasValues(1)
  /\ Top.value = Nil \/ (Top.value \in Lists /\ Top.value.items = <<>>)
  /\ Replace(1, Nil)

IterBegins ==
  /\ form' = "iter"
  /\ HasValues(1)
  /\ Top.value \in Lists /\ Top.value.items # <<>>
  /\ Push(1, Iter(Top.value.items, <<>>))

IterTakes ==
  /\ form' = "iter"
  /\ Len(stack) >= 2 /\ HasValues(1)
  /\ LET frame == stack[Len(stack) - 1] IN
     /\ frame.kind = "iter" /\ frame.left # <<>>
     /\ Push(2, Iter(Tail(frame.left), Append(frame.done, Top.value)))

(* s begins with the elements of t.                                        *)
StartsWith(s, t) == Len(t) <= Len(s) /\ \A i \in 1..Len(t) : s[i] = t[i]

IterEnds ==
  /\ form' = "iter"
  /\ stack # <<>>
  /\ Top.kind = "iter" /\ Top.left = <<>>
  /\ Len(stack') = Len(stack) /\ stack'[Len(stack)].kind = "value"
  /\ LET made == stack'[Len(stack)].value IN
     /\ made \in Lists
     /\ StartsWith(made.items, Top.done)
     /\ Replace(1, made)

(* A failure ends the whole form, or the lambda it happened in gives nil.  *)
Fail ==
  /\ form' = "fail"
  /\ \/ stack' = <<>>
     \/ \E k \in 1..Len(stack) : stack' = Append(Below(k), Value(Nil))
  /\ UNCHANGED bound

Next ==
  \/ Write
  \/ \E n \in Names : Read(n) \/ Bind(n)
  \/ Discard \/ Cons \/ Car \/ Cdr
  \/ IterNothing \/ IterBegins \/ IterTakes \/ IterEnds
  \/ Fail

Spec == Init /\ [][Next]_vars

=============================================================================
