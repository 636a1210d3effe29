----------------------------- MODULE ScopeChain -----------------------------
(***************************************************************************)
(* The chain of variable scopes of an AKX runtime (rt->current_context).   *)
(* The runtime keeps one current scope; every scope but the global one has *)
(* a parent, so the chain is a sequence whose first element is the global  *)
(* scope and whose last is the current one.  The scopes themselves are     *)
(* ak_context_t objects of the ak24 library: their operations are modelled *)
(* from the way pkg/rt/akx_rt.c and the nucleus sources call them.         *)
(*                                                                         *)
(* Spec is the discipline the evaluator promises to its programs: a scope  *)
(* is entered, left or recycled only at the end of the chain, a name is    *)
(* introduced only in the current scope, and an assignment reaches the     *)
(* innermost scope that binds the name.                                    *)
(***************************************************************************)
EXTENDS Naturals, Sequences

CONSTANTS Names,    \* the symbols a program binds
          Values,   \* the cells a name can be bound to
          Unbound   \* what a scope holds for a name it does not bind

VARIABLE scopes

EmptyScope == [x \in Names |-> Unbound]

ScopesOK == scopes \in Seq([Names -> Values \cup {Unbound}]) /\ scopes # <<>>

(* ak_context_get and ak_context_get_containing_context stop at the        *)
(* innermost scope that binds x.                                           *)
Innermost(x, i) ==
  /\ i \in 1..Len(scopes)
  /\ scopes[i][x] # Unbound
  /\ \A j \in (i + 1)..Len(scopes) : scopes[j][x] = Unbound

(* ak_context_get returned NULL: no scope of the chain binds x.            *)
Undefined(x) == \A i \in 1..Len(scopes) : scopes[i][x] = Unbound

Pushed == Append(scopes, EmptyScope)

Popped == SubSeq(scopes, 1, Len(scopes) - 1)

(* A pop followed by a push.                                               *)
Recycled == [scopes EXCEPT ![Len(scopes)] = EmptyScope]

BoundAt(i, x, v) == [scopes EXCEPT ![i] = [@ EXCEPT ![x] = v]]

-----------------------------------------------------------------------------

Init == scopes = <<EmptyScope>>

Enter == scopes' = Pushed

Leave == Len(scopes) > 1 /\ scopes' = Popped

Recycle == Len(scopes) > 1 /\ scopes' = Recycled

Bind(x, v) == scopes' = BoundAt(Len(scopes), x, v)

Assign(x, v) == \E i \in 1..Len(scopes) : Innermost(x, i) /\ scopes' = BoundAt(i, x, v)

Next ==
  \/ Enter
  \/ Leave
  \/ Recycle
  \/ \E x \in Names, v \in Values : Bind(x, v) \/ Assign(x, v)

Spec == Init /\ [][Next]_scopes

=============================================================================
