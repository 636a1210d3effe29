--------------------------- MODULE EvaluatorProofs ---------------------------
(***************************************************************************)
(* Theorems of Evaluator, for every set of names and lambdas and every     *)
(* bound on the stack.                                                     *)
(***************************************************************************)
EXTENDS Evaluator, StackFacts

-----------------------------------------------------------------------------
(***************************************************************************)
(* How a step changes the stack: it keeps it, pops it, pushes a frame or   *)
(* replaces the last frame by one of the same kind.                        *)
(***************************************************************************)

(* The last frame is well formed.                                          *)
LEMMA TopFacts ==
  ASSUME IsStack(stack)
  PROVE  /\ Len(stack) \in Nat /\ Len(stack) >= 1
         /\ FrameOK(Top) /\ Top \in Frame
         /\ Top.kind # "top" => Len(stack) > 1
BY LastFacts DEF IsStack, Top, FrameOK

(* Dropping k frames, not the top level.                                   *)
LEMMA DropStack ==
  ASSUME NEW s, IsStack(s), NEW k \in Nat, k < Len(s)
  PROVE  IsStack(SubSeq(s, 1, Len(s) - k))
<1> DEFINE t == SubSeq(s, 1, Len(s) - k)
<1>1. s \in Seq(Frame) /\ Len(s) \in Nat
  BY LastFacts DEF IsStack
<1>2. /\ t \in Seq(Frame)
      /\ Len(t) = Len(s) - k
      /\ \A i \in 1..(Len(s) - k) : t[i] = s[i]
  BY <1>1, DropFacts
<1> HIDE DEF t
<1>3. t # <<>> /\ t[1] = s[1]
  BY <1>1, <1>2, SMT
<1>4. \A i \in 1..Len(t) : i \in 1..Len(s) /\ t[i] = s[i]
  BY <1>1, <1>2, SMT
<1>5. \A i \in 2..Len(t) : i \in 2..Len(s) /\ t[i] = s[i]
  BY <1>1, <1>2, SMT
<1>6. IsStack(t)
  BY <1>2, <1>3, <1>4, <1>5 DEF IsStack
<1> QED BY <1>6 DEF t

(* Pushing a frame.                                                        *)
LEMMA PushStack ==
  ASSUME NEW s, IsStack(s), NEW f, FrameOK(f), f.kind # "top"
  PROVE  IsStack(Append(s, f))
<1> DEFINE t == Append(s, f)
<1>1. s \in Seq(Frame) /\ Len(s) \in Nat /\ Len(s) >= 1 /\ f \in Frame
  BY LastFacts DEF IsStack, FrameOK
<1>2. /\ t \in Seq(Frame)
      /\ Len(t) = Len(s) + 1
      /\ \A i \in 1..Len(s) : t[i] = s[i]
      /\ t[Len(s) + 1] = f
  BY <1>1, PushFacts
<1> HIDE DEF t
<1>3. t # <<>> /\ t[1] = s[1]
  BY <1>1, <1>2, SMT
<1>4. \A i \in 1..Len(t) : i \in 1..Len(s) \/ i = Len(s) + 1
  BY <1>1, <1>2, SMT
<1>5. \A i \in 2..Len(t) : i \in 2..Len(s) \/ i = Len(s) + 1
  BY <1>1, <1>2, SMT
<1>6. \A i \in 2..Len(s) : i \in 1..Len(s)
  BY <1>1, SMT
<1>7. IsStack(t)
  BY <1>2, <1>3, <1>4, <1>5, <1>6 DEF IsStack
<1> QED BY <1>7 DEF t

(* Advancing the last frame.                                               *)
LEMMA AdvanceStack ==
  ASSUME NEW s, IsStack(s), NEW f, FrameOK(f), f.kind = s[Len(s)].kind
  PROVE  IsStack([s EXCEPT ![Len(s)] = f])
<1> DEFINE t == [s EXCEPT ![Len(s)] = f]
<1>1. s \in Seq(Frame) /\ Len(s) \in Nat /\ Len(s) >= 1 /\ f \in Frame
      /\ Len(s) \in 1..Len(s)
  BY LastFacts, SMT DEF IsStack, FrameOK
<1>2. /\ t \in Seq(Frame)
      /\ Len(t) = Len(s)
      /\ \A i \in 1..Len(s) : t[i] = IF i = Len(s) THEN f ELSE s[i]
  BY <1>1, ReplaceFacts
<1> HIDE DEF t
<1>3. t # <<>> /\ 1 \in 1..Len(s)
  BY <1>1, <1>2, SMT
<1>4. t[1].kind = "top"
  BY <1>2, <1>3 DEF IsStack
<1>5. \A i \in 2..Len(t) : t[i].kind # "top"
  BY <1>1, <1>2, SMT DEF IsStack
<1>6. \A i \in 1..Len(t) : FrameOK(t[i])
  BY <1>2 DEF IsStack
<1>7. IsStack(t)
  BY <1>2, <1>3, <1>4, <1>5, <1>6 DEF IsStack
<1> QED BY <1>7 DEF t

-----------------------------------------------------------------------------
(***************************************************************************)
(* The chain of base values, over any stack s and number n of scopes.      *)
(***************************************************************************)
Balanced(s, n) ==
  /\ s[1].base = 1
  /\ \A i \in 1..(Len(s) - 1) : s[i + 1].base = Depth(s[i])
  /\ n = Depth(s[Len(s)])

(* Dropping frames leaves as many scopes as the first dropped one found.   *)
LEMMA BalancedDrop ==
  ASSUME NEW s, IsStack(s), NEW n, Balanced(s, n), NEW k \in Nat \ {0}, k < Len(s)
  PROVE  Balanced(SubSeq(s, 1, Len(s) - k), s[Len(s) - k + 1].base)
<1> DEFINE t == SubSeq(s, 1, Len(s) - k)
<1>1. s \in Seq(Frame) /\ Len(s) \in Nat
  BY LastFacts DEF IsStack
<1>2. /\ Len(t) = Len(s) - k
      /\ \A i \in 1..(Len(s) - k) : t[i] = s[i]
  BY <1>1, DropFacts
<1> HIDE DEF t
<1>3. t[1] = s[1] /\ t[Len(t)] = s[Len(s) - k]
  BY <1>1, <1>2, SMT
<1>4. s[Len(s) - k + 1].base = Depth(s[Len(s) - k])
  <2>1. Len(s) - k \in 1..(Len(s) - 1)
    BY <1>1, SMT
  <2> QED BY <2>1 DEF Balanced
<1>5. \A i \in 1..(Len(t) - 1) : t[i] = s[i] /\ t[i + 1] = s[i + 1] /\ i \in 1..(Len(s) - 1)
  BY <1>1, <1>2, SMT
<1>6. Balanced(t, s[Len(s) - k + 1].base)
  BY <1>3, <1>4, <1>5 DEF Balanced
<1> QED BY <1>6 DEF t

(* Pushing a frame that records the number of scopes.                      *)
LEMMA BalancedPush ==
  ASSUME NEW s, IsStack(s), NEW n, Balanced(s, n), NEW f \in Frame, f.base = n
  PROVE  Balanced(Append(s, f), Depth(f))
<1> DEFINE t == Append(s, f)
<1>1. s \in Seq(Frame) /\ Len(s) \in Nat /\ Len(s) >= 1
  BY LastFacts DEF IsStack
<1>2. /\ Len(t) = Len(s) + 1
      /\ \A i \in 1..Len(s) : t[i] = s[i]
      /\ t[Len(s) + 1] = f
  BY <1>1, PushFacts
<1> HIDE DEF t
<1>3. t[1] = s[1] /\ t[Len(t)] = f /\ t[Len(s)] = s[Len(s)]
  BY <1>1, <1>2, SMT
<1>4. ASSUME NEW i \in 1..(Len(t) - 1)
      PROVE  t[i + 1].base = Depth(t[i])
  <2>1. CASE i = Len(s)
    BY <1>2, <1>3, <2>1 DEF Balanced
  <2>2. CASE i # Len(s)
    <3>1. i \in 1..(Len(s) - 1) /\ t[i] = s[i] /\ t[i + 1] = s[i + 1]
      BY <1>1, <1>2, <2>2, SMT
    <3> QED BY <3>1 DEF Balanced
  <2> QED BY <2>1, <2>2
<1>5. Balanced(t, Depth(f))
  BY <1>3, <1>4 DEF Balanced
<1> QED BY <1>5 DEF t

(* Advancing the last frame without changing what it recorded.             *)
LEMMA BalancedAdvance ==
  ASSUME NEW s, IsStack(s), NEW n, Balanced(s, n), NEW f \in Frame,
         f.base = s[Len(s)].base
  PROVE  Balanced([s EXCEPT ![Len(s)] = f], Depth(f))
<1> DEFINE t == [s EXCEPT ![Len(s)] = f]
<1>1. s \in Seq(Frame) /\ Len(s) \in Nat /\ Len(s) \in 1..Len(s)
  BY LastFacts, SMT DEF IsStack
<1>2. /\ Len(t) = Len(s)
      /\ \A i \in 1..Len(s) : t[i] = IF i = Len(s) THEN f ELSE s[i]
  BY <1>1, ReplaceFacts
<1> HIDE DEF t
<1>3. t[1].base = s[1].base /\ t[Len(t)] = f
  BY <1>1, <1>2, SMT
<1>4. \A i \in 1..(Len(t) - 1) :
        /\ i \in 1..(Len(s) - 1)
        /\ t[i] = s[i]
        /\ t[i + 1].base = s[i + 1].base
  BY <1>1, <1>2, SMT
<1>5. Balanced(t, Depth(f))
  BY <1>3, <1>4 DEF Balanced
<1> QED BY <1>5 DEF t

-----------------------------------------------------------------------------
(***************************************************************************)
(* How a step changes the chain of scopes.                                 *)
(***************************************************************************)
Scope == [Names -> Values \cup {Unbound}]

(* A new scope at the end of the chain.                                    *)
LEMMA PushScope ==
  ASSUME Chain!ScopesOK, scopes' = Chain!Pushed
  PROVE  Chain!ScopesOK' /\ Len(scopes') = Len(scopes) + 1
<1>1. scopes \in Seq(Scope) /\ Chain!EmptyScope \in Scope
  BY DEF Chain!ScopesOK, Chain!EmptyScope, Scope
<1>2. scopes' \in Seq(Scope) /\ Len(scopes') = Len(scopes) + 1
  BY <1>1, PushFacts DEF Chain!Pushed
<1>3. scopes' # <<>>
  BY <1>1, <1>2, SMT
<1> QED BY <1>2, <1>3 DEF Chain!ScopesOK, Scope

(* The last scope, not the global one, leaves the chain.                   *)
LEMMA PopScope ==
  ASSUME Chain!ScopesOK, Len(scopes) > 1, scopes' = Chain!Popped
  PROVE  Chain!ScopesOK' /\ Len(scopes') = Len(scopes) - 1
<1>1. scopes \in Seq(Scope) /\ 1 \in Nat /\ 1 <= Len(scopes)
  BY SMT DEF Chain!ScopesOK, Scope
<1>2. scopes' \in Seq(Scope) /\ Len(scopes') = Len(scopes) - 1
  BY <1>1, DropFacts DEF Chain!Popped
<1>3. scopes' # <<>>
  BY <1>1, <1>2, SMT
<1> QED BY <1>2, <1>3 DEF Chain!ScopesOK, Scope

(* The last scope is replaced by an empty one.                             *)
LEMMA RecycleScope ==
  ASSUME Chain!ScopesOK, scopes' = Chain!Recycled
  PROVE  Chain!ScopesOK' /\ Len(scopes') = Len(scopes)
<1>1. scopes \in Seq(Scope) /\ Chain!EmptyScope \in Scope /\ Len(scopes) \in 1..Len(scopes)
  BY SMT DEF Chain!ScopesOK, Chain!EmptyScope, Scope
<1>2. scopes' \in Seq(Scope) /\ Len(scopes') = Len(scopes)
  BY <1>1, ReplaceFacts DEF Chain!Recycled
<1>3. scopes' # <<>>
  BY <1>1, <1>2, SMT
<1> QED BY <1>2, <1>3 DEF Chain!ScopesOK, Scope

(* A name is bound in some scope of the chain.                             *)
LEMMA BindScope ==
  ASSUME Chain!ScopesOK, NEW i \in 1..Len(scopes), NEW x \in Names, NEW v \in Values,
         scopes' = Chain!BoundAt(i, x, v)
  PROVE  Chain!ScopesOK' /\ Len(scopes') = Len(scopes)
<1>1. scopes \in Seq(Scope) /\ Len(scopes) >= 1
  BY SMT DEF Chain!ScopesOK, Scope
<1>2. [scopes[i] EXCEPT ![x] = v] \in Scope
  BY <1>1, SMT DEF Scope
<1>3. scopes' = [scopes EXCEPT ![i] = [scopes[i] EXCEPT ![x] = v]]
  BY DEF Chain!BoundAt
<1>4. scopes' \in Seq(Scope) /\ Len(scopes') = Len(scopes)
  BY <1>1, <1>2, <1>3, ReplaceFacts
<1>5. scopes' # <<>>
  BY <1>1, <1>4, SMT
<1> QED BY <1>4, <1>5 DEF Chain!ScopesOK, Scope

-----------------------------------------------------------------------------
(***************************************************************************)
(* The inductive invariant: the types alone are not inductive, since a pop *)
(* keeps the global scope only if the frame that pops has pushed, and the  *)
(* balance alone is not, since it speaks of well-formed frames.            *)
(***************************************************************************)
Rest ==
  /\ ret \in Values \cup {Fail, Pending}
  /\ made \subseteq Lambdas
  /\ dangling \subseteq Lambdas
  /\ causes \subseteq {"error", "quoted"}

Inv == IsStack(stack) /\ Chain!ScopesOK /\ Rest /\ Balanced(stack, Len(scopes))

(* Inv says TypeOK and ScopesBalanced.                                     *)
LEMMA InvMeaning == Inv <=> TypeOK /\ ScopesBalanced
BY Zenon DEF Inv, Rest, TypeOK, ScopesBalanced, Balanced, Top

(* What the invariant says of the last frame and of the number of scopes.  *)
LEMMA InvFacts ==
  ASSUME Inv
  PROVE  /\ Len(stack) \in Nat /\ Len(stack) >= 1
         /\ FrameOK(Top) /\ Top \in Frame /\ Top.base \in Nat /\ Top.base >= 1
         /\ Top.kind # "top" => Len(stack) > 1
         /\ Len(scopes) \in Nat /\ Len(scopes) >= 1
         /\ Len(scopes) = Depth(Top)
<1>1. IsStack(stack)
  BY DEF Inv
<1>2. /\ Len(stack) \in Nat /\ Len(stack) >= 1
      /\ FrameOK(Top) /\ Top \in Frame
      /\ Top.kind # "top" => Len(stack) > 1
  BY <1>1, TopFacts
<1>3. Top.base \in Nat /\ Top.base >= 1
  BY <1>2, SMT DEF Frame
<1>4. Len(scopes) \in Nat /\ Len(scopes) >= 1
  <2>1. scopes \in Seq(Scope) /\ scopes # <<>>
    BY DEF Inv, Chain!ScopesOK, Scope
  <2> QED BY <2>1, LastFacts
<1>5. Len(scopes) = Depth(Top)
  BY DEF Inv, Balanced, Top
<1> QED BY <1>2, <1>3, <1>4, <1>5

(* A step that leaves the stack alone and the chain as long as it was.     *)
LEMMA StackKept ==
  ASSUME Inv, Rest', Chain!ScopesOK', Len(scopes') = Len(scopes), stack' = stack
  PROVE  Inv'
BY Zenon DEF Inv, Rest

(* A frame returns and leaves the chain as long as it found it.            *)
LEMMA FrameReturns ==
  ASSUME Inv, Rest', Chain!ScopesOK', Top.kind # "top", stack' = Callers,
         Len(scopes') = Top.base
  PROVE  Inv'
<1>1. Len(stack) \in Nat /\ Len(stack) > 1 /\ IsStack(stack) /\ Balanced(stack, Len(scopes))
  BY InvFacts DEF Inv
<1>2. 1 \in Nat \ {0} /\ 1 \in Nat /\ 1 < Len(stack) /\ Len(stack) - 1 + 1 = Len(stack)
  BY <1>1, SMT
<1>3. IsStack(stack')
  BY <1>1, <1>2, DropStack DEF Callers
<1>4. Balanced(SubSeq(stack, 1, Len(stack) - 1), stack[Len(stack) - 1 + 1].base)
  BY <1>1, <1>2, BalancedDrop
<1>5. Balanced(stack', Len(scopes'))
  BY <1>2, <1>4 DEF Callers, Top
<1> QED BY <1>3, <1>5 DEF Inv, Rest

(* The last frame goes on.                                                 *)
LEMMA FrameAdvances ==
  ASSUME Inv, Rest', Chain!ScopesOK', NEW f, FrameOK(f), f.kind = Top.kind,
         f.base = Top.base, stack' = ReplaceTop(f), Len(scopes') = Depth(f)
  PROVE  Inv'
<1>1. IsStack(stack) /\ Balanced(stack, Len(scopes)) /\ f \in Frame
  BY DEF Inv, FrameOK
<1>2. IsStack(stack')
  BY <1>1, AdvanceStack DEF ReplaceTop, Top
<1>3. Balanced(stack', Len(scopes'))
  BY <1>1, BalancedAdvance DEF ReplaceTop, Top
<1> QED BY <1>2, <1>3 DEF Inv, Rest

(* A new frame records the number of scopes.                               *)
LEMMA FramePushed ==
  ASSUME Inv, Rest', Chain!ScopesOK', NEW f, FrameOK(f), f.kind # "top",
         f.base = Len(scopes), stack' = Append(stack, f), Len(scopes') = Depth(f)
  PROVE  Inv'
<1>1. IsStack(stack) /\ Balanced(stack, Len(scopes)) /\ f \in Frame
  BY DEF Inv, FrameOK
<1>2. IsStack(stack')
  BY <1>1, PushStack
<1>3. Balanced(stack', Len(scopes'))
  BY <1>1, BalancedPush
<1> QED BY <1>2, <1>3 DEF Inv, Rest

(* A frame takes the place of the last k frames and records what the first *)
(* of them recorded.                                                       *)
LEMMA FrameReplaced ==
  ASSUME Inv, NEW k \in Nat \ {0}, k < Len(stack), NEW f, FrameOK(f), f.kind # "top",
         f.base = stack[Len(stack) - k + 1].base,
         Rest', Chain!ScopesOK', Len(scopes') = Depth(f),
         stack' = Append(SubSeq(stack, 1, Len(stack) - k), f)
  PROVE  Inv'
<1> DEFINE t == SubSeq(stack, 1, Len(stack) - k)
<1>1. IsStack(stack) /\ Balanced(stack, Len(scopes)) /\ f \in Frame
  BY DEF Inv, FrameOK
<1>2. IsStack(t)
  BY <1>1, DropStack
<1>3. Balanced(t, f.base)
  BY <1>1, BalancedDrop
<1> HIDE DEF t
<1>4. IsStack(Append(t, f)) /\ Balanced(Append(t, f), Depth(f))
  BY <1>1, <1>2, <1>3, PushStack, BalancedPush
<1>5. stack' = Append(t, f)
  BY DEF t
<1>6. IsStack(stack') /\ Balanced(stack', Len(scopes'))
  BY <1>4, <1>5
<1> QED BY <1>6 DEF Inv, Rest

-----------------------------------------------------------------------------
(***************************************************************************)
(* Every action keeps the invariant.                                       *)
(***************************************************************************)

(* A lambda has a body and a finite number of parameters.                  *)
LEMMA LambdaFacts ==
  ASSUME NEW l \in Lambdas
  PROVE  Arity(l) \in Nat /\ BodyLen[l] \in Nat /\ BodyLen[l] >= 1
<1>1. Params[l] \in Seq(Names) /\ BodyLen[l] \in Nat \ {0}
  BY ConstantsOK
<1> QED BY <1>1, SMT DEF Arity

(* The frame of a lambda that has just been called.                        *)
LEMMA CallFrameFacts ==
  ASSUME NEW l \in Lambdas, NEW base \in Nat \ {0}
  PROVE  /\ FrameOK(CallFrame(l, base))
         /\ CallFrame(l, base).kind = "call" /\ CallFrame(l, base).base = base
         /\ Depth(CallFrame(l, base)) = base + 1
<1>1. Arity(l) \in Nat /\ BodyLen[l] \in Nat /\ BodyLen[l] >= 1
  BY LambdaFacts
<1>2. 0 \in Nat /\ 0 < Arity(l) + BodyLen[l]
  BY <1>1, SMT
<1>3. CallFrame(l, base) \in Frame
  BY <1>2 DEF CallFrame, Frame, Kinds
<1> QED BY <1>2, <1>3 DEF CallFrame, FrameOK, Depth, HoldsScope

(* Nil is a value.                                                         *)
LEMMA NilFacts == Nil \in Values
BY ConstantsOK DEF Values

(* Expressions that need no frame.                                         *)
LEMMA AtomStep ==
  ASSUME Inv, EvalAtom
  PROVE  Inv'
<1>1. stack' = stack /\ scopes' = scopes
  BY DEF EvalAtom, EvalConstant, EvalLambda, EvalQuotedAtom, BuiltinRejects,
         EvalSymbol, EvalUndefined, BindingRefused
<1>2. Rest'
  <2>1. CASE EvalConstant
    BY <2>1 DEF Inv, Rest, EvalConstant, Values
  <2>2. CASE EvalLambda
    BY <2>2 DEF Inv, Rest, EvalLambda, Values
  <2>3. CASE EvalQuotedAtom
    BY <2>3 DEF Inv, Rest, EvalQuotedAtom
  <2>4. CASE BuiltinRejects
    BY <2>4 DEF Inv, Rest, BuiltinRejects, Error
  <2>5. ASSUME NEW x \in Names, EvalSymbol(x) PROVE Rest'
    BY <2>5 DEF Inv, Rest, EvalSymbol
  <2>6. ASSUME NEW x \in Names, EvalUndefined(x) PROVE Rest'
    BY <2>6 DEF Inv, Rest, EvalUndefined, Error
  <2>7. ASSUME NEW x \in Names, BindingRefused(x) PROVE Rest'
    BY <2>4, <2>7 DEF BindingRefused
  <2> QED BY <2>1, <2>2, <2>3, <2>4, <2>5, <2>6, <2>7 DEF EvalAtom
<1>3. Chain!ScopesOK'
  BY <1>1 DEF Inv, Chain!ScopesOK
<1>4. Len(scopes') = Len(scopes)
  BY <1>1
<1> QED BY <1>1, <1>2, <1>3, <1>4, StackKept

(* Calls of builtins.                                                      *)
LEMMA EnterStep ==
  ASSUME Inv, EnterBuiltin
  PROVE  Inv'
<1>1. \E kind \in Kinds \ {"top", "call"}, name \in Names \cup {None} :
        /\ kind \in {"let", "set"} => name \in Names
        /\ Enter(kind, name)
  BY DEF EnterBuiltin, EnterForm, EnterHead, EnterLet, EnterSet, Kinds
<1>2. PICK kind \in Kinds \ {"top", "call"}, name \in Names \cup {None} :
        /\ kind \in {"let", "set"} => name \in Names
        /\ Enter(kind, name)
  BY <1>1
<1> DEFINE f == NewFrame(kind, None, name)
<1>3. Len(scopes) \in Nat \ {0} /\ 0 \in Nat /\ 0 # 1 /\ 0 # 2
  BY InvFacts, SMT
<1>4. f \in Frame
  BY <1>3 DEF NewFrame, Frame
<1>5. FrameOK(f) /\ f.kind # "top" /\ f.base = Len(scopes) /\ Depth(f) = Len(scopes)
  BY <1>2, <1>3, <1>4 DEF NewFrame, FrameOK, Depth, HoldsScope
<1>6. stack' = Append(stack, f) /\ scopes' = scopes
  BY <1>2 DEF Enter
<1>7. Rest'
  BY <1>2 DEF Inv, Rest, Enter
<1>8. Chain!ScopesOK'
  BY <1>6 DEF Inv, Chain!ScopesOK
<1>9. Len(scopes') = Depth(f)
  BY <1>5, <1>6
<1> HIDE DEF f
<1> QED BY <1>5, <1>6, <1>7, <1>8, <1>9, FramePushed

(* A frame that has pushed a scope is not the top level: there is one to   *)
(* pop, and the frame found the chain without it.                          *)
LEMMA HolderFacts ==
  ASSUME Inv, HoldsScope(Top)
  PROVE  /\ Top.kind # "top"
         /\ Len(scopes) > 1 /\ Len(scopes) - 1 = Top.base
         /\ Len(scopes) - 1 \in Nat \ {0}
<1>1. Len(scopes) = Top.base + 1 /\ Top.base \in Nat /\ Top.base >= 1
  BY InvFacts DEF Depth
<1>2. Top.kind # "top"
  BY DEF HoldsScope
<1> QED BY <1>1, <1>2, SMT

(* The frame of a lambda activation returns, with its scope.               *)
LEMMA HolderReturns ==
  ASSUME Inv, Rest', HoldsScope(Top), stack' = Callers, scopes' = Chain!Popped
  PROVE  Inv'
<1>1. Chain!ScopesOK
  BY DEF Inv
<1>2. /\ Top.kind # "top"
      /\ Len(scopes) > 1 /\ Len(scopes) - 1 = Top.base
  BY HolderFacts
<1>3. Chain!ScopesOK' /\ Len(scopes') = Len(scopes) - 1
  BY <1>1, <1>2, PopScope
<1> QED BY <1>2, <1>3, FrameReturns

(* Any other frame returns, and the chain is as long as before.            *)
LEMMA PlainReturns ==
  ASSUME Inv, Rest', ~HoldsScope(Top), Top.kind # "top", stack' = Callers,
         Chain!ScopesOK', Len(scopes') = Len(scopes)
  PROVE  Inv'
<1>1. Len(scopes) = Top.base
  BY InvFacts DEF Depth
<1> QED BY <1>1, FrameReturns

(* The trampoline ends the activation of the lambda frame and starts l in  *)
(* its place: k frames go, the activation and what stood on it.            *)
LEMMA TrampolineStep ==
  ASSUME Inv, NEW k \in Nat \ {0}, k < Len(stack), NEW l \in Lambdas,
         NEW f \in Lambdas,
         Len(scopes) > 1, Len(scopes) - 1 = stack[Len(stack) - k + 1].base,
         Trampoline(SubSeq(stack, 1, Len(stack) - k), f, l)
  PROVE  Inv'
<1> DEFINE g == CallFrame(l, Len(scopes) - 1)
<1>1. Chain!ScopesOK /\ Rest
  BY DEF Inv
<1>2. Len(scopes) \in Nat /\ Len(scopes) - 1 \in Nat \ {0}
      /\ Len(scopes) - 1 + 1 = Len(scopes)
  BY InvFacts, SMT
<1>3. FrameOK(g) /\ g.kind = "call" /\ g.base = Len(scopes) - 1
      /\ Depth(g) = Len(scopes) - 1 + 1
  BY <1>2, CallFrameFacts
<1>4. scopes' = Chain!Recycled /\ stack' = Append(SubSeq(stack, 1, Len(stack) - k), g)
  BY DEF Trampoline
<1>5. Chain!ScopesOK' /\ Len(scopes') = Len(scopes)
  BY <1>1, <1>4, RecycleScope
<1>6. Rest'
  BY <1>1 DEF Rest, Trampoline
<1>7. Len(scopes') = Depth(g) /\ g.kind # "top" /\ g.base = stack[Len(stack) - k + 1].base
  BY <1>2, <1>3, <1>5
<1> HIDE DEF g
<1> QED BY <1>3, <1>4, <1>5, <1>6, <1>7, FrameReplaced

(* A call on top of the frames of below, the stack with its last frame     *)
(* perhaps advanced.                                                       *)
LEMMA InvokeStep ==
  ASSUME Inv, NEW l \in Lambdas, NEW below, Invoke(below, l),
         IsStack(below), Balanced(below, Len(scopes))
  PROVE  Inv'
<1> DEFINE g == CallFrame(l, Len(scopes))
<1>1. Chain!ScopesOK /\ Rest
  BY DEF Inv
<1>2. Len(scopes) \in Nat \ {0}
  BY InvFacts, SMT
<1>3. FrameOK(g) /\ g.kind = "call" /\ g.base = Len(scopes)
      /\ Depth(g) = Len(scopes) + 1 /\ g \in Frame
  BY <1>2, CallFrameFacts DEF FrameOK
<1>4. scopes' = Chain!Pushed /\ stack' = Append(below, g)
  BY DEF Invoke
<1>5. Chain!ScopesOK' /\ Len(scopes') = Len(scopes) + 1
  BY <1>1, <1>4, PushScope
<1>6. Rest'
  BY <1>1 DEF Rest, Invoke
<1> HIDE DEF g
<1>7. IsStack(stack')
  BY <1>3, <1>4, PushStack
<1>8. Balanced(stack', Len(scopes'))
  BY <1>3, <1>4, <1>5, BalancedPush
<1> QED BY <1>5, <1>6, <1>7, <1>8 DEF Inv

(* Calls of lambdas by name.                                               *)
LEMMA CallStep ==
  ASSUME Inv, Call
  PROVE  Inv'
<1>1. PICK x \in Names, l \in Lambdas :
        \/ CallLambda(x, l)
        \/ TailCallLambda(x, l)
        \/ CallWrongArity(x, l)
        \/ TailCallWrongArity(x, l)
  BY DEF Call
<1>2. CASE CallLambda(x, l)
  <2>1. Invoke(stack, l)
    BY <1>2 DEF CallLambda
  <2> QED BY <2>1, InvokeStep DEF Inv
<1>3. CASE TailCallLambda(x, l)
  <2>1. HoldsScope(Top) /\ Top.kind = "call" /\ Trampoline(Callers, Top.lam, l)
    BY <1>3 DEF TailCallLambda, TailFrame, HoldsScope
  <2>2. Top.lam \in Lambdas /\ Len(stack) \in Nat /\ 1 < Len(stack)
    BY <2>1, InvFacts, SMT DEF FrameOK
  <2>3. Len(stack) - 1 + 1 = Len(stack) /\ 1 \in Nat \ {0}
    BY <2>2, SMT
  <2>4. Len(scopes) > 1 /\ Len(scopes) - 1 = stack[Len(stack) - 1 + 1].base
    BY <2>1, <2>3, HolderFacts DEF Top
  <2>5. Trampoline(SubSeq(stack, 1, Len(stack) - 1), Top.lam, l)
    BY <2>1 DEF Callers
  <2> QED BY <2>2, <2>3, <2>4, <2>5, TrampolineStep
<1>4. CASE CallWrongArity(x, l)
  <2>1. stack' = stack /\ scopes' = scopes
    BY <1>4 DEF CallWrongArity
  <2>2. Rest'
    BY <1>4, NilFacts DEF Inv, Rest, CallWrongArity, Error
  <2>3. Chain!ScopesOK'
    BY <2>1 DEF Inv, Chain!ScopesOK
  <2> QED BY <2>1, <2>2, <2>3, StackKept
<1>5. CASE TailCallWrongArity(x, l)
  <2>1. HoldsScope(Top) /\ Top.kind = "call" /\ stack' = Callers /\ scopes' = Chain!Popped
    BY <1>5 DEF TailCallWrongArity, TailFrame, HoldsScope, Return
  <2>2. Top.lam \in Lambdas
    BY <2>1, InvFacts DEF FrameOK
  <2>3. Rest'
    BY <1>5, <2>2, NilFacts DEF Inv, Rest, TailCallWrongArity, Error, Return
  <2> QED BY <2>1, <2>3, HolderReturns
<1> QED BY <1>1, <1>2, <1>3, <1>4, <1>5

(* What the body of a lambda does with a value.                            *)
LEMMA LambdaStepInv ==
  ASSUME Inv, LambdaStep
  PROVE  Inv'
<1>1. Top.kind = "call" /\ HoldsScope(Top) /\ ret # Pending
  BY DEF LambdaStep, BindParam, BodyNext, CallReturns, CallFails, CallFailsStale,
         Waiting, HoldsScope
<1>2. /\ Top.lam \in Lambdas /\ Top.pc \in Nat /\ Top \in Frame
      /\ Top.pc < Arity(Top.lam) + BodyLen[Top.lam]
      /\ Depth(Top) = Len(scopes) /\ Len(scopes) \in Nat /\ Len(scopes) >= 1
  BY <1>1, InvFacts DEF FrameOK, Frame
<1>3. Arity(Top.lam) \in Nat /\ BodyLen[Top.lam] \in Nat /\ BodyLen[Top.lam] >= 1
  BY <1>2, LambdaFacts
<1> DEFINE f == [Top EXCEPT !.pc = Top.pc + 1]
<1>4. /\ f \in Frame /\ f.kind = "call" /\ f.lam = Top.lam /\ f.pc = Top.pc + 1
      /\ f.base = Top.base
  <2>1. Top.pc + 1 \in Nat
    BY <1>2, SMT
  <2> QED BY <1>1, <1>2, <2>1 DEF Frame
<1>5. ASSUME Top.pc + 1 < Arity(Top.lam) + BodyLen[Top.lam]
      PROVE  FrameOK(f) /\ Depth(f) = Len(scopes)
  BY <1>1, <1>2, <1>4, <1>5 DEF FrameOK, Depth, HoldsScope
<1>6. CASE BindParam
  <2>1. Top.pc < Arity(Top.lam) /\ ret \in Values /\ stack' = ReplaceTop(f)
    BY <1>6 DEF BindParam, Advance, Inv, Rest, Waiting
  <2>2. Top.pc + 1 < Arity(Top.lam) + BodyLen[Top.lam] /\ Top.pc + 1 \in 1..Arity(Top.lam)
    BY <1>2, <1>3, <2>1, SMT
  <2>3. Params[Top.lam] \in Seq(Names)
    BY <1>2, ConstantsOK
  <2>4. Params[Top.lam][Top.pc + 1] \in Names
    BY <2>2, <2>3, SMT DEF Arity
  <2>5. scopes' = Chain!BoundAt(Len(scopes), Params[Top.lam][Top.pc + 1], ret)
        /\ Len(scopes) \in 1..Len(scopes) /\ Chain!ScopesOK
    BY <1>2, <1>6, SMT DEF BindParam, Inv
  <2>6. Chain!ScopesOK' /\ Len(scopes') = Len(scopes)
    BY <2>1, <2>4, <2>5, BindScope
  <2>7. Rest'
    BY <1>6 DEF BindParam, Inv, Rest
  <2> HIDE DEF f
  <2> QED BY <1>1, <1>4, <1>5, <2>1, <2>2, <2>6, <2>7, FrameAdvances
<1>7. CASE BodyNext
  <2>1. Top.pc + 1 # Arity(Top.lam) + BodyLen[Top.lam] /\ stack' = ReplaceTop(f)
        /\ scopes' = scopes
    BY <1>1, <1>7 DEF BodyNext, Advance, TailFrame
  <2>2. Top.pc + 1 < Arity(Top.lam) + BodyLen[Top.lam]
    BY <1>2, <1>3, <2>1, SMT
  <2>3. Chain!ScopesOK' /\ Len(scopes') = Len(scopes)
    BY <2>1 DEF Inv, Chain!ScopesOK
  <2>4. Rest'
    BY <1>7 DEF BodyNext, Inv, Rest
  <2> HIDE DEF f
  <2> QED BY <1>1, <1>4, <1>5, <2>1, <2>2, <2>3, <2>4, FrameAdvances
<1>8. CASE CallReturns
  <2>1. Rest' /\ stack' = Callers /\ scopes' = Chain!Popped
    BY <1>2, <1>8 DEF CallReturns, Return, Inv, Rest
  <2> QED BY <1>1, <2>1, HolderReturns
<1>9. CASE CallFails
  <2>1. Rest' /\ stack' = Callers /\ scopes' = Chain!Popped
    BY <1>9, NilFacts DEF CallFails, Return, Inv, Rest
  <2> QED BY <1>1, <2>1, HolderReturns
<1>10. CASE CallFailsStale
  <2>1. Rest' /\ stack' = Callers /\ scopes' = Chain!Popped
    BY <1>10 DEF CallFailsStale, Return, Error, Inv, Rest, Values
  <2> QED BY <1>1, <2>1, HolderReturns
<1> QED BY <1>6, <1>7, <1>8, <1>9, <1>10 DEF LambdaStep

(* A frame without a scope of its own returns and leaves the chain alone.  *)
LEMMA FormReturns ==
  ASSUME Inv, Rest', ~HoldsScope(Top), Top.kind # "top", stack' = Callers,
         scopes' = scopes
  PROVE  Inv'
<1>1. Chain!ScopesOK' /\ Len(scopes') = Len(scopes)
  BY DEF Inv, Chain!ScopesOK
<1> QED BY <1>1, PlainReturns

(* The builtins that stop: a failure handed on, a value or an error.       *)
LEMMA FormEndStep ==
  ASSUME Inv,
         \/ FormFails \/ FormYieldsArgument
         \/ StrictReturns \/ StrictFails \/ PredicateAbsorbs
         \/ IterReturns \/ IterRefuses \/ LoopEnds \/ HeadNotCallable
  PROVE  Inv'
<1>1. stack' = Callers /\ scopes' = scopes
  BY DEF FormFails, FormYieldsArgument, StrictReturns, StrictFails, PredicateAbsorbs,
         IterReturns, IterRefuses, LoopEnds, HeadNotCallable, Return
<1>2. Top.kind # "top" /\ ~HoldsScope(Top)
  BY DEF FormFails, FormYieldsArgument, StrictReturns, StrictFails, PredicateAbsorbs,
         IterReturns, IterRefuses, LoopEnds, HeadNotCallable, Waiting, HoldsScope
<1>3. CASE FormFails
  <2>1. Rest'
    BY <1>3 DEF FormFails, Return, Inv, Rest
  <2> QED BY <1>1, <1>2, <2>1, FormReturns
<1>4. CASE FormYieldsArgument
  <2>1. Rest'
    BY <1>4 DEF FormYieldsArgument, Return, Inv, Rest
  <2> QED BY <1>1, <1>2, <2>1, FormReturns
<1>5. CASE StrictReturns \/ PredicateAbsorbs \/ IterReturns
  <2>1. Rest'
    BY <1>5 DEF StrictReturns, PredicateAbsorbs, IterReturns, Return, Inv, Rest, Values
  <2> QED BY <1>1, <1>2, <2>1, FormReturns
<1>6. CASE StrictFails \/ IterRefuses \/ HeadNotCallable
  <2>1. Rest'
    BY <1>6 DEF StrictFails, IterRefuses, HeadNotCallable, Return, Error, Inv, Rest
  <2> QED BY <1>1, <1>2, <2>1, FormReturns
<1>7. CASE LoopEnds
  <2>1. Rest'
    BY <1>7 DEF LoopEnds, Return, Inv, Rest, Values
  <2> QED BY <1>1, <1>2, <2>1, FormReturns
<1> QED BY <1>3, <1>4, <1>5, <1>6, <1>7

(* The last frame after it has advanced.                                   *)
LEMMA AdvancedFrame ==
  ASSUME Inv, NEW pc \in Nat, Top.kind # "call", Top.kind = "iter" => pc # 2
  PROVE  /\ FrameOK([Top EXCEPT !.pc = pc])
         /\ [Top EXCEPT !.pc = pc].kind = Top.kind
         /\ [Top EXCEPT !.pc = pc].base = Top.base
         /\ Depth([Top EXCEPT !.pc = pc]) =
              IF Top.kind = "loop" /\ pc = 1 THEN Top.base + 1 ELSE Top.base
<1> DEFINE f == [Top EXCEPT !.pc = pc]
<1>1. Top \in Frame /\ FrameOK(Top)
  BY InvFacts
<1>2. f \in Frame /\ f.kind = Top.kind /\ f.base = Top.base /\ f.pc = pc
      /\ f.name = Top.name
  BY <1>1 DEF Frame
<1> HIDE DEF f
<1>3. FrameOK(f)
  BY <1>1, <1>2 DEF FrameOK
<1>4. Depth(f) = IF Top.kind = "loop" /\ pc = 1 THEN Top.base + 1 ELSE Top.base
  BY <1>2 DEF Depth, HoldsScope
<1> QED BY <1>2, <1>3, <1>4 DEF f

(* A form that goes on at another step, with the scopes that step expects. *)
LEMMA FormAdvances ==
  ASSUME Inv, Rest', Chain!ScopesOK', NEW pc \in {0, 1}, Top.kind # "call",
         stack' = ReplaceTop([Top EXCEPT !.pc = pc]),
         Len(scopes') = IF Top.kind = "loop" /\ pc = 1 THEN Top.base + 1 ELSE Top.base
  PROVE  Inv'
<1> DEFINE f == [Top EXCEPT !.pc = pc]
<1>1. pc \in Nat /\ pc # 2
  OBVIOUS
<1>2. FrameOK(f) /\ f.kind = Top.kind /\ f.base = Top.base
      /\ Depth(f) = IF Top.kind = "loop" /\ pc = 1 THEN Top.base + 1 ELSE Top.base
  BY <1>1, AdvancedFrame
<1>3. stack' = ReplaceTop(f)
  OBVIOUS
<1> HIDE DEF f
<1>4. Len(scopes') = Depth(f)
  BY <1>2
<1> QED BY <1>2, <1>3, <1>4, FrameAdvances

(* The builtins that go on to another argument or to another iteration.    *)
LEMMA FormGoesOnStep ==
  ASSUME Inv,
         NextArgument \/ IterTakesValue \/ IfBranches \/ LoopIterates \/ LoopBodyNext
  PROVE  Inv'
<1>1. 0 \in Nat /\ 1 \in Nat /\ 0 # 1 /\ 1 # 2 /\ 0 # 2
  BY SMT
<1>2. ASSUME scopes' = scopes
      PROVE  Chain!ScopesOK' /\ Len(scopes') = Len(scopes)
  BY <1>2 DEF Inv, Chain!ScopesOK
<1>3. CASE NextArgument
  <2>1. Rest' /\ stack' = stack /\ scopes' = scopes
    BY <1>3 DEF NextArgument, Inv, Rest
  <2> QED BY <1>2, <2>1, StackKept
<1>4. CASE IterTakesValue
  <2>1. Rest' /\ stack' = ReplaceTop([Top EXCEPT !.pc = 1]) /\ scopes' = scopes
        /\ Top.kind = "iter" /\ ~HoldsScope(Top)
    BY <1>4 DEF IterTakesValue, Advance, Waiting, HoldsScope, Inv, Rest
  <2>2. Len(scopes') = Top.base
    BY <2>1, InvFacts DEF Depth
  <2> QED BY <1>1, <1>2, <2>1, <2>2, FormAdvances
<1>5. CASE IfBranches
  <2>1. Rest' /\ scopes' = scopes /\ Top.kind = "if" /\ ~HoldsScope(Top)
    BY <1>5, NilFacts DEF IfBranches, Advance, Return, Waiting, HoldsScope, Inv, Rest
  <2>2. Len(scopes') = Top.base
    BY <2>1, InvFacts DEF Depth
  <2>3. CASE stack' = ReplaceTop([Top EXCEPT !.pc = 1])
    BY <1>1, <1>2, <2>1, <2>2, <2>3, FormAdvances
  <2>4. CASE stack' = Callers
    BY <2>1, <2>4, FormReturns
  <2> QED BY <1>5, <2>3, <2>4 DEF IfBranches, Advance, Return
<1>6. CASE LoopIterates
  <2>1. Rest' /\ stack' = ReplaceTop([Top EXCEPT !.pc = 1]) /\ scopes' = Chain!Pushed
        /\ Top.kind = "loop" /\ Top.pc = 0 /\ Chain!ScopesOK
    BY <1>6 DEF LoopIterates, Advance, Waiting, Inv, Rest
  <2>2. Chain!ScopesOK' /\ Len(scopes') = Len(scopes) + 1
    BY <2>1, PushScope
  <2>3. Len(scopes) = Top.base
    BY <1>1, <2>1, InvFacts DEF Depth, HoldsScope
  <2> QED BY <1>1, <2>1, <2>2, <2>3, FormAdvances
<1>7. CASE LoopBodyNext
  <2>1. Rest' /\ Top.kind = "loop" /\ Top.pc = 1 /\ Chain!ScopesOK
    BY <1>7 DEF LoopBodyNext, Waiting, Inv, Rest
  <2>2. CASE stack' = stack /\ scopes' = scopes
    BY <1>2, <2>1, <2>2, StackKept
  <2>3. CASE stack' = ReplaceTop([Top EXCEPT !.pc = 0]) /\ scopes' = Chain!Popped
    <3>1. HoldsScope(Top)
      BY <2>1 DEF HoldsScope
    <3>2. Len(scopes) > 1 /\ Len(scopes) - 1 = Top.base
      BY <3>1, HolderFacts
    <3>3. Chain!ScopesOK' /\ Len(scopes') = Top.base
      BY <2>1, <2>3, <3>2, PopScope
    <3> QED BY <1>1, <2>1, <2>3, <3>3, FormAdvances
  <2> QED BY <1>7, <2>2, <2>3 DEF LoopBodyNext, Advance
<1> QED BY <1>3, <1>4, <1>5, <1>6, <1>7

(* let, set and a loop whose body fails.                                   *)
LEMMA BinderStep ==
  ASSUME Inv, LetBinds \/ SetAssigns \/ LoopBodyFails
  PROVE  Inv'
<1>1. Chain!ScopesOK /\ Len(scopes) \in Nat /\ Len(scopes) >= 1
  BY InvFacts DEF Inv
<1>2. Rest'
  BY DEF LetBinds, SetAssigns, LoopBodyFails, Return, Inv, Rest
<1>3. stack' = Callers /\ Top.kind # "top"
  BY DEF LetBinds, SetAssigns, LoopBodyFails, Return, Waiting
<1>4. ASSUME Top.kind \in {"let", "set"}, ret # Pending, ret # Fail
      PROVE  Top.name \in Names /\ ret \in Values /\ ~HoldsScope(Top)
  BY <1>4, InvFacts DEF FrameOK, Inv, Rest, HoldsScope
<1>5. CASE LetBinds
  <2>1. /\ Top.kind = "let" /\ ret # Pending /\ ret # Fail
        /\ scopes' = Chain!BoundAt(Len(scopes), Top.name, ret)
    BY <1>5 DEF LetBinds, Waiting
  <2>2. Len(scopes) \in 1..Len(scopes)
    BY <1>1, SMT
  <2>3. Chain!ScopesOK' /\ Len(scopes') = Len(scopes)
    BY <1>1, <1>4, <2>1, <2>2, BindScope
  <2> QED BY <1>2, <1>3, <1>4, <2>1, <2>3, PlainReturns
<1>6. CASE SetAssigns
  <2>1. Top.kind = "set" /\ ret # Pending /\ ret # Fail
    BY <1>6 DEF SetAssigns, Waiting
  <2>2. Chain!ScopesOK' /\ Len(scopes') = Len(scopes)
    <3>1. CASE scopes' = scopes
      BY <1>1, <3>1 DEF Chain!ScopesOK
    <3>2. ASSUME NEW i \in 1..Len(scopes), scopes' = Chain!BoundAt(i, Top.name, ret)
          PROVE  Chain!ScopesOK' /\ Len(scopes') = Len(scopes)
      BY <1>1, <1>4, <2>1, <3>2, BindScope
    <3> QED BY <1>6, <3>1, <3>2 DEF SetAssigns
  <2> QED BY <1>2, <1>3, <1>4, <2>1, <2>2, PlainReturns
<1>7. CASE LoopBodyFails
  <2>1. HoldsScope(Top) /\ scopes' = Chain!Popped
    BY <1>7 DEF LoopBodyFails, Waiting, HoldsScope
  <2> QED BY <1>2, <1>3, <2>1, HolderReturns
<1> QED BY <1>5, <1>6, <1>7

(* iter calls its lambda for an item.                                      *)
LEMMA IterStep ==
  ASSUME Inv, IterInvokes
  PROVE  Inv'
<1>1. PICK l \in Lambdas :
        LET waiting == ReplaceTop([Top EXCEPT !.pc = 2, !.lam = l]) IN
        \/ /\ Arity(l) = 1
           /\ Len(stack) < MaxStack
           /\ Invoke(waiting, l)
        \/ /\ Arity(l) # 1
           /\ Error
           /\ stack' = waiting
           /\ ret' = Nil
           /\ dangling' = dangling \ {l}
           /\ UNCHANGED <<scopes, made>>
  BY DEF IterInvokes
<1> DEFINE f == [Top EXCEPT !.pc = 2, !.lam = l]
<1>2. Top.kind = "iter" /\ ~HoldsScope(Top) /\ Top \in Frame
  BY InvFacts DEF IterInvokes, Waiting, HoldsScope
<1>3. f \in Frame /\ f.kind = "iter" /\ f.base = Top.base /\ f.lam = l
  BY <1>2 DEF Frame
<1>4. FrameOK(f) /\ Depth(f) = Top.base /\ Len(scopes) = Top.base
  <2> HIDE DEF f
  <2> QED BY <1>2, <1>3, InvFacts DEF FrameOK, Depth, HoldsScope
<1>5. CASE Invoke(ReplaceTop(f), l)
  <2>1. IsStack(stack) /\ Balanced(stack, Len(scopes)) /\ f.kind = stack[Len(stack)].kind
        /\ f.base = stack[Len(stack)].base
    BY <1>2, <1>3 DEF Inv, Top
  <2> HIDE DEF f
  <2>2. IsStack(ReplaceTop(f)) /\ Balanced(ReplaceTop(f), Len(scopes))
    BY <1>3, <1>4, <2>1, AdvanceStack, BalancedAdvance DEF ReplaceTop
  <2> QED BY <1>5, <2>2, InvokeStep
<1>6. CASE /\ Error
           /\ stack' = ReplaceTop(f)
           /\ ret' = Nil
           /\ dangling' = dangling \ {l}
           /\ UNCHANGED <<scopes, made>>
  <2>1. Rest'
    BY <1>6, NilFacts DEF Error, Inv, Rest
  <2>2. Chain!ScopesOK' /\ Len(scopes') = Len(scopes)
    BY <1>6 DEF Inv, Chain!ScopesOK
  <2>3. stack' = ReplaceTop(f)
    BY <1>6
  <2> HIDE DEF f
  <2> QED BY <1>2, <1>3, <1>4, <2>1, <2>2, <2>3, FrameAdvances
<1> QED BY <1>1, <1>5, <1>6

(* Below a head whose list is in tail position is a lambda activation.     *)
LEMMA HeadFacts ==
  ASSUME Inv, Top.kind = "head", TailFrame(stack[Len(stack) - 1])
  PROVE  /\ 2 \in Nat \ {0} /\ 2 < Len(stack) /\ Len(stack) \in Nat
         /\ stack[Len(stack) - 1].lam \in Lambdas
         /\ Len(scopes) > 1
         /\ Len(scopes) - 1 = stack[Len(stack) - 2 + 1].base
<1> DEFINE n == Len(stack) - 1
           caller == stack[Len(stack) - 1]
<1>1. /\ Len(stack) \in Nat /\ Len(stack) > 1 /\ Len(scopes) \in Nat
      /\ Len(scopes) = Top.base /\ IsStack(stack) /\ Balanced(stack, Len(scopes))
  BY InvFacts DEF Inv, Depth, HoldsScope
<1>2. n \in 1..(Len(stack) - 1) /\ n \in 1..Len(stack) /\ n + 1 = Len(stack)
      /\ Len(stack) - 2 + 1 = n
  BY <1>1, SMT
<1>3. caller.kind = "call" /\ FrameOK(caller)
  BY <1>1, <1>2 DEF TailFrame, IsStack
<1>4. n # 1
  BY <1>1, <1>3 DEF IsStack
<1>5. Top.base = caller.base + 1
  BY <1>1, <1>2, <1>3 DEF Balanced, Top, Depth, HoldsScope
<1>6. caller.lam \in Lambdas /\ caller.base \in Nat \ {0}
  BY <1>3 DEF FrameOK, Frame
<1>7. 2 < Len(stack) /\ 2 \in Nat \ {0}
  BY <1>1, <1>2, <1>4, SMT
<1>8. Len(scopes) > 1 /\ Len(scopes) - 1 = caller.base
  BY <1>1, <1>5, <1>6, SMT
<1> QED BY <1>1, <1>2, <1>6, <1>7, <1>8

(* A list whose head evaluated to a lambda.                                *)
LEMMA HeadStep ==
  ASSUME Inv, HeadInvokes \/ HeadWrongArity
  PROVE  Inv'
<1> DEFINE caller == stack[Len(stack) - 1]
<1>1. Top.kind = "head" /\ Top.pc = 0 /\ ret \in Lambdas /\ ~HoldsScope(Top)
  BY DEF HeadInvokes, HeadWrongArity, Waiting, HoldsScope
<1>2. CASE HeadInvokes /\ TailFrame(caller)
  <2>1. Trampoline(SubSeq(stack, 1, Len(stack) - 2), caller.lam, ret)
    BY <1>2 DEF HeadInvokes
  <2> QED BY <1>1, <1>2, <2>1, HeadFacts, TrampolineStep
<1>3. CASE HeadInvokes /\ ~TailFrame(caller)
  <2> DEFINE f == [Top EXCEPT !.pc = 1]
  <2>1. Invoke(ReplaceTop(f), ret)
    BY <1>3 DEF HeadInvokes
  <2>2. 1 \in Nat /\ Top.kind # "call" /\ Top.kind # "iter" /\ Top.kind # "loop"
    BY <1>1, SMT
  <2>3. FrameOK(f) /\ f.kind = Top.kind /\ f.base = Top.base /\ Depth(f) = Top.base
    BY <2>2, AdvancedFrame
  <2> HIDE DEF f
  <2>4. IsStack(stack) /\ Balanced(stack, Len(scopes)) /\ f \in Frame
        /\ f.kind = stack[Len(stack)].kind /\ f.base = stack[Len(stack)].base
        /\ Depth(f) = Len(scopes)
    BY <1>1, <2>3, InvFacts DEF Inv, Top, FrameOK, Depth
  <2>5. IsStack(ReplaceTop(f)) /\ Balanced(ReplaceTop(f), Len(scopes))
    BY <2>3, <2>4, AdvanceStack, BalancedAdvance DEF ReplaceTop
  <2> QED BY <1>1, <2>1, <2>5, InvokeStep
<1>4. CASE HeadWrongArity /\ TailFrame(caller)
  <2>1. /\ stack' = SubSeq(stack, 1, Len(stack) - 2)
        /\ scopes' = Chain!Popped
        /\ dangling' = (dangling \cup {caller.lam}) \ {ret}
        /\ ret' = Nil /\ Error /\ made' = made
    BY <1>4 DEF HeadWrongArity
  <2>2. /\ 2 \in Nat \ {0} /\ 2 \in Nat /\ 2 < Len(stack) /\ caller.lam \in Lambdas
        /\ Len(scopes) > 1 /\ Len(scopes) - 1 = stack[Len(stack) - 2 + 1].base
        /\ IsStack(stack) /\ Balanced(stack, Len(scopes)) /\ Chain!ScopesOK /\ Rest
    BY <1>1, <1>4, HeadFacts DEF Inv
  <2>3. Rest'
    BY <2>1, <2>2, NilFacts DEF Error, Rest
  <2>4. Chain!ScopesOK' /\ Len(scopes') = stack[Len(stack) - 2 + 1].base
    BY <2>1, <2>2, PopScope
  <2>5. IsStack(stack')
    BY <2>1, <2>2, DropStack
  <2>6. Balanced(stack', Len(scopes'))
    BY <2>1, <2>2, <2>4, BalancedDrop
  <2> QED BY <2>3, <2>4, <2>5, <2>6 DEF Inv
<1>5. CASE HeadWrongArity /\ ~TailFrame(caller)
  <2>1. stack' = Callers /\ scopes' = scopes
    BY <1>5 DEF HeadWrongArity
  <2>2. Rest'
    BY <1>5, NilFacts DEF HeadWrongArity, Error, Inv, Rest
  <2> QED BY <1>1, <2>1, <2>2, FormReturns
<1> QED BY <1>2, <1>3, <1>4, <1>5

-----------------------------------------------------------------------------
(***************************************************************************)
(* The theorems.                                                           *)
(***************************************************************************)

(* The evaluator starts with the global scope and an idle C stack.         *)
LEMMA InitInv == Init => Inv
<1> SUFFICES ASSUME Init PROVE Inv
  OBVIOUS
<1> DEFINE f == [kind |-> "top", lam |-> None, name |-> None, pc |-> 0, base |-> 1]
<1>1. f \in Frame /\ FrameOK(f) /\ Depth(f) = 1
  <2>1. 0 \in Nat /\ 1 \in Nat \ {0}
    BY SMT
  <2> QED BY <2>1 DEF Frame, FrameOK, Kinds, Depth, HoldsScope
<1>2. stack = <<f>> /\ f.kind = "top" /\ f.base = 1
  BY DEF Init
<1> HIDE DEF f
<1>3. stack \in Seq(Frame) /\ Len(stack) = 1 /\ stack[1] = f /\ stack # <<>>
  BY <1>1, <1>2, SMT
<1>4. IsStack(stack)
  <2>1. \A i \in 2..Len(stack) : FALSE
    BY <1>3, SMT
  <2>2. \A i \in 1..Len(stack) : i = 1
    BY <1>3, SMT
  <2> QED BY <1>1, <1>2, <1>3, <2>1, <2>2 DEF IsStack
<1>5. Chain!ScopesOK /\ Len(scopes) = 1
  <2>1. Chain!EmptyScope \in [Names -> Values \cup {Unbound}]
    BY DEF Chain!EmptyScope
  <2>2. scopes = <<Chain!EmptyScope>>
    BY DEF Init, Chain!Init
  <2> HIDE DEF Chain!EmptyScope
  <2> QED BY <2>1, <2>2, SMT DEF Chain!ScopesOK
<1>6. Balanced(stack, Len(scopes))
  <2>1. \A i \in 1..(Len(stack) - 1) : FALSE
    BY <1>3, SMT
  <2> QED BY <1>1, <1>2, <1>3, <1>5, <2>1 DEF Balanced
<1>7. Rest
  BY DEF Init, Rest
<1> QED BY <1>4, <1>5, <1>6, <1>7 DEF Inv

(* Every step keeps the invariant.                                         *)
LEMMA NextInv == Inv /\ [Next]_vars => Inv'
<1> SUFFICES ASSUME Inv, [Next]_vars PROVE Inv'
  OBVIOUS
<1>1. CASE EvalAtom
  BY <1>1, AtomStep
<1>2. CASE EnterBuiltin
  BY <1>2, EnterStep
<1>3. CASE Call
  BY <1>3, CallStep
<1>4. CASE LambdaStep
  BY <1>4, LambdaStepInv
<1>5. CASE FormStep
  BY <1>5, FormEndStep, FormGoesOnStep, BinderStep, IterStep, HeadStep DEF FormStep
<1>6. CASE NextForm
  <2>1. Rest' /\ stack' = stack /\ scopes' = scopes
    BY <1>6 DEF NextForm, Inv, Rest
  <2>2. Chain!ScopesOK' /\ Len(scopes') = Len(scopes)
    BY <2>1 DEF Inv, Chain!ScopesOK
  <2> QED BY <2>1, <2>2, StackKept
<1>7. CASE UNCHANGED vars
  BY <1>7, Zenon DEF vars, Inv, Rest, Chain!ScopesOK
<1> QED BY <1>1, <1>2, <1>3, <1>4, <1>5, <1>6, <1>7 DEF Next

(* The invariant holds of every behaviour.                                 *)
THEOREM Invariant == Spec => []Inv
<1> QED BY InitInv, NextInv, PTL DEF Spec

(* The frames of the C stack, the scopes and the returned values are well  *)
(* formed whatever expressions a program evaluates: akx_rt_eval and its    *)
(* callees never pop the global scope.                                     *)
THEOREM TypeCorrect == Spec => []TypeOK
<1>1. Inv => TypeOK
  BY InvMeaning
<1> QED BY <1>1, Invariant, PTL

(* Every C function of the evaluator leaves rt->current_context as deep as *)
(* it found it, on its error paths too.                                    *)
THEOREM ScopesAlwaysBalanced == Spec => []ScopesBalanced
<1>1. Inv => ScopesBalanced
  BY InvMeaning
<1> QED BY <1>1, Invariant, PTL

-----------------------------------------------------------------------------
(***************************************************************************)
(* What the invariant is for: failures have a cause, tail calls replace    *)
(* their caller, and the evaluator implements the discipline of            *)
(* ScopeChain.                                                             *)
(***************************************************************************)

(* The marks a frame waits with are no values.                             *)
LEMMA MarkFacts ==
  /\ Fail \notin Values /\ Pending \notin Values /\ Fail # Pending
  /\ Nil # Fail /\ Fail \notin Data
BY ConstantsOK DEF Values

-----------------------------------------------------------------------------
(***************************************************************************)
(* Failures.                                                               *)
(***************************************************************************)

(* A failure that one step hands up either was there, with its cause, or   *)
(* the step records one.                                                   *)
LEMMA CauseStep ==
  ASSUME Inv, FailuresHaveACause, [Next]_vars
  PROVE  FailuresHaveACause'
<1> USE MarkFacts
<1>1. CASE EvalAtom
  BY <1>1 DEF EvalAtom, EvalConstant, EvalLambda, EvalQuotedAtom, BuiltinRejects,
              EvalSymbol, EvalUndefined, BindingRefused, Error, FailuresHaveACause,
              Values
<1>2. CASE EnterBuiltin
  BY <1>2 DEF EnterBuiltin, EnterForm, EnterHead, EnterLet, EnterSet, Enter,
              FailuresHaveACause
<1>3. CASE Call
  BY <1>3 DEF Call, CallLambda, TailCallLambda, CallWrongArity, TailCallWrongArity,
              Invoke, Trampoline, Return, FailuresHaveACause
<1>4. CASE LambdaStep
  BY <1>4 DEF LambdaStep, BindParam, BodyNext, CallReturns, CallFails, CallFailsStale,
              Return, Error, FailuresHaveACause, Inv, Rest, Values
<1>5. CASE FormStep
  <2>1. CASE FormFails \/ NextArgument \/ FormYieldsArgument \/ StrictReturns
             \/ StrictFails \/ PredicateAbsorbs
    BY <2>1 DEF FormFails, NextArgument, FormYieldsArgument, StrictReturns,
                StrictFails, PredicateAbsorbs, Return, Error, FailuresHaveACause
  <2>2. CASE IterTakesValue \/ IterInvokes \/ IterReturns \/ IterRefuses
    BY <2>2 DEF IterTakesValue, IterInvokes, IterReturns, IterRefuses, Invoke, Return,
                Error, FailuresHaveACause
  <2>3. CASE IfBranches \/ LetBinds \/ SetAssigns
    BY <2>3 DEF IfBranches, LetBinds, SetAssigns, Return, FailuresHaveACause
  <2>4. CASE LoopIterates \/ LoopEnds \/ LoopBodyNext \/ LoopBodyFails
    BY <2>4 DEF LoopIterates, LoopEnds, LoopBodyNext, LoopBodyFails, Return,
                FailuresHaveACause, Inv, Rest, Values
  <2>5. CASE HeadInvokes \/ HeadWrongArity \/ HeadNotCallable
    BY <2>5 DEF HeadInvokes, HeadWrongArity, HeadNotCallable, Invoke, Trampoline,
                Return, Error, FailuresHaveACause
  <2> QED BY <1>5, <2>1, <2>2, <2>3, <2>4, <2>5 DEF FormStep
<1>6. CASE NextForm
  BY <1>6 DEF NextForm, FailuresHaveACause
<1>7. CASE UNCHANGED vars
  BY <1>7 DEF vars, FailuresHaveACause
<1> QED BY <1>1, <1>2, <1>3, <1>4, <1>5, <1>6, <1>7 DEF Next

(* However deep the evaluation that fails, NULL reaches the caller only    *)
(* after an error was recorded or a quoted atom was read.                  *)
THEOREM FailuresAlwaysHaveACause == Spec => []FailuresHaveACause
<1>1. Init => FailuresHaveACause
  BY MarkFacts DEF Init, FailuresHaveACause
<1>2. Inv /\ FailuresHaveACause /\ [Next]_vars => FailuresHaveACause'
  BY CauseStep
<1> QED BY <1>1, <1>2, Invariant, PTL DEF Spec

-----------------------------------------------------------------------------
(***************************************************************************)
(* Scopes.                                                                 *)
(***************************************************************************)

(* Every step of the evaluator is a step of the scope chain or leaves it   *)
(* alone.                                                                  *)
LEMMA ChainStep ==
  ASSUME Inv, [Next]_vars
  PROVE  [Chain!Next]_scopes
<1>1. CASE UNCHANGED scopes
  BY <1>1
<1>2. ASSUME HoldsScope(Top), scopes' = Chain!Popped \/ scopes' = Chain!Recycled
      PROVE  Chain!Next
  BY <1>2, HolderFacts DEF Chain!Next, Chain!Leave, Chain!Recycle
<1>3. ASSUME NEW below, NEW l, Invoke(below, l)
      PROVE  Chain!Next
  BY <1>3 DEF Invoke, Chain!Next, Chain!Enter
<1>4. ASSUME NEW f, TailFrame(f) PROVE f.kind = "call"
  BY <1>4 DEF TailFrame
<1>5. CASE EvalAtom \/ EnterBuiltin
  <2>1. UNCHANGED scopes
    BY <1>5 DEF EvalAtom, EvalConstant, EvalLambda, EvalQuotedAtom, BuiltinRejects,
                EvalSymbol, EvalUndefined, BindingRefused, EnterBuiltin, EnterForm,
                EnterHead, EnterLet, EnterSet, Enter
  <2> QED BY <1>1, <2>1
<1>6. CASE Call
  <2>1. PICK x \in Names, l \in Lambdas :
          CallLambda(x, l) \/ TailCallLambda(x, l)
          \/ CallWrongArity(x, l) \/ TailCallWrongArity(x, l)
    BY <1>6 DEF Call
  <2>2. CASE CallLambda(x, l)
    BY <1>3, <2>2 DEF CallLambda
  <2>3. CASE TailCallLambda(x, l) \/ TailCallWrongArity(x, l)
    BY <1>2, <1>4, <2>3 DEF TailCallLambda, TailCallWrongArity, Trampoline, HoldsScope
  <2>4. CASE CallWrongArity(x, l)
    BY <1>1, <2>4 DEF CallWrongArity
  <2> QED BY <2>1, <2>2, <2>3, <2>4
<1>7. CASE BindParam
  <2>1. /\ Top.kind = "call" /\ ret # Fail /\ ret # Pending /\ Top.pc < Arity(Top.lam)
        /\ scopes' = Chain!BoundAt(Len(scopes), Params[Top.lam][Top.pc + 1], ret)
    BY <1>7 DEF BindParam, Waiting
  <2>2. ret \in Values
    BY <2>1 DEF Inv, Rest
  <2>3. Top.lam \in Lambdas /\ Top.pc \in Nat
    BY <2>1, InvFacts DEF FrameOK, Frame
  <2>4. Params[Top.lam] \in Seq(Names)
    BY <2>3, ConstantsOK
  <2>5. Params[Top.lam][Top.pc + 1] \in Names
    BY <2>1, <2>3, <2>4, SMT DEF Arity
  <2> QED BY <2>1, <2>2, <2>5 DEF Chain!Next, Chain!Bind
<1>8. CASE LambdaStep /\ ~BindParam
  <2>1. CASE BodyNext
    BY <1>1, <2>1 DEF BodyNext
  <2>2. CASE CallReturns \/ CallFails \/ CallFailsStale
    BY <1>2, <2>2 DEF CallReturns, CallFails, CallFailsStale, Waiting, HoldsScope
  <2> QED BY <1>8, <2>1, <2>2 DEF LambdaStep
<1>9. CASE LetBinds \/ SetAssigns
  <2>1. Top.kind \in {"let", "set"} /\ ret # Pending /\ ret # Fail
    BY <1>9 DEF LetBinds, SetAssigns, Waiting
  <2>2. Top.name \in Names /\ ret \in Values
    BY <2>1, InvFacts DEF FrameOK, Inv, Rest
  <2>3. CASE LetBinds
    BY <2>2, <2>3 DEF LetBinds, Chain!Next, Chain!Bind
  <2>4. CASE SetAssigns
    BY <1>1, <2>2, <2>4 DEF SetAssigns, Chain!Next, Chain!Assign
  <2> QED BY <1>9, <2>3, <2>4
<1>10. CASE LoopIterates \/ LoopBodyNext \/ LoopBodyFails
  <2>1. CASE LoopIterates
    BY <2>1 DEF LoopIterates, Chain!Next, Chain!Enter
  <2>2. CASE LoopBodyNext \/ LoopBodyFails
    BY <1>1, <1>2, <2>2 DEF LoopBodyNext, LoopBodyFails, Waiting, HoldsScope
  <2> QED BY <1>10, <2>1, <2>2
<1>11. CASE IterInvokes
  BY <1>1, <1>3, <1>11 DEF IterInvokes
<1>12. CASE HeadInvokes \/ HeadWrongArity
  <2> DEFINE caller == stack[Len(stack) - 1]
  <2>1. CASE TailFrame(caller)
    <3>1. Len(scopes) > 1
      BY <1>12, <2>1, HeadFacts DEF HeadInvokes, HeadWrongArity, Waiting
    <3>2. scopes' = Chain!Popped \/ scopes' = Chain!Recycled
      BY <1>12, <2>1 DEF HeadInvokes, HeadWrongArity, Trampoline
    <3> QED BY <3>1, <3>2 DEF Chain!Next, Chain!Leave, Chain!Recycle
  <2>2. CASE ~TailFrame(caller)
    BY <1>1, <1>3, <1>12, <2>2 DEF HeadInvokes, HeadWrongArity
  <2> QED BY <2>1, <2>2
<1>13. CASE \/ FormFails \/ NextArgument \/ FormYieldsArgument \/ StrictReturns
            \/ StrictFails \/ PredicateAbsorbs \/ IterTakesValue \/ IterReturns
            \/ IterRefuses \/ IfBranches \/ LoopEnds \/ HeadNotCallable \/ NextForm
            \/ UNCHANGED vars
  BY <1>1, <1>13 DEF FormFails, NextArgument, FormYieldsArgument, StrictReturns,
       StrictFails, PredicateAbsorbs, IterTakesValue, IterReturns, IterRefuses,
       IfBranches, LoopEnds, HeadNotCallable, NextForm, vars
<1> QED
  BY <1>5, <1>6, <1>7, <1>8, <1>9, <1>10, <1>11, <1>12, <1>13 DEF Next, LambdaStep, FormStep

(* The evaluator implements the scope chain: no call, however it is made   *)
(* or however it fails, touches a scope below the current one except by an *)
(* assignment to the innermost scope that binds the name.                  *)
THEOREM ImplementsScopeChain == Spec => KeepsScopeDiscipline
<1>1. Init => Chain!Init
  BY DEF Init
<1>2. Inv /\ [Next]_vars => [Chain!Next]_scopes
  BY ChainStep
<1> QED BY <1>1, <1>2, Invariant, PTL DEF Spec, KeepsScopeDiscipline, Chain!Spec

-----------------------------------------------------------------------------
(***************************************************************************)
(* Tail calls.                                                             *)
(***************************************************************************)

(* A frame that may stand on the tail position of a lambda activation.     *)
NoCall(f) == f.kind # "call" /\ (f.kind = "head" => f.pc = 0)

NoTailCall(s) == \A i \in 1..(Len(s) - 1) : TailFrame(s[i]) => NoCall(s[i + 1])

(* Dropping frames brings no call onto a tail position.                    *)
LEMMA NoTailCallDrop ==
  ASSUME NEW s, IsStack(s), NoTailCall(s), NEW k \in Nat, k < Len(s)
  PROVE  NoTailCall(SubSeq(s, 1, Len(s) - k))
<1> DEFINE t == SubSeq(s, 1, Len(s) - k)
<1>1. s \in Seq(Frame) /\ Len(s) \in Nat
  BY LastFacts DEF IsStack
<1>2. /\ Len(t) = Len(s) - k
      /\ \A i \in 1..(Len(s) - k) : t[i] = s[i]
  BY <1>1, DropFacts
<1> HIDE DEF t
<1>3. \A i \in 1..(Len(t) - 1) : t[i] = s[i] /\ t[i + 1] = s[i + 1] /\ i \in 1..(Len(s) - 1)
  BY <1>1, <1>2, SMT
<1>4. NoTailCall(t)
  BY <1>3 DEF NoTailCall
<1> QED BY <1>4 DEF t

(* Nor does a push on a frame that is in no tail position.                 *)
LEMMA NoTailCallPush ==
  ASSUME NEW s, IsStack(s), NoTailCall(s), NEW f \in Frame,
         TailFrame(s[Len(s)]) => NoCall(f)
  PROVE  NoTailCall(Append(s, f))
<1> DEFINE t == Append(s, f)
<1>1. s \in Seq(Frame) /\ Len(s) \in Nat /\ Len(s) >= 1
  BY LastFacts DEF IsStack
<1>2. /\ Len(t) = Len(s) + 1
      /\ \A i \in 1..Len(s) : t[i] = s[i]
      /\ t[Len(s) + 1] = f
  BY <1>1, PushFacts
<1> HIDE DEF t
<1>3. ASSUME NEW i \in 1..(Len(t) - 1), TailFrame(t[i])
      PROVE  NoCall(t[i + 1])
  <2>1. CASE i = Len(s)
    <3>1. t[i] = s[Len(s)] /\ t[i + 1] = f
      BY <1>1, <1>2, <2>1, SMT
    <3> QED BY <1>3, <3>1
  <2>2. CASE i # Len(s)
    <3>1. i \in 1..(Len(s) - 1) /\ t[i] = s[i] /\ t[i + 1] = s[i + 1]
      BY <1>1, <1>2, <2>2, SMT
    <3> QED BY <1>3, <3>1 DEF NoTailCall
  <2> QED BY <2>1, <2>2
<1>4. NoTailCall(t)
  BY <1>3 DEF NoTailCall
<1> QED BY <1>4 DEF t

(* Nor does advancing a frame that stands on none.                         *)
LEMMA NoTailCallAdvance ==
  ASSUME NEW s, IsStack(s), NoTailCall(s), NEW f \in Frame,
         \/ NoCall(s[Len(s)]) => NoCall(f)
         \/ ~TailFrame(s[Len(s) - 1])
  PROVE  NoTailCall([s EXCEPT ![Len(s)] = f])
<1> DEFINE t == [s EXCEPT ![Len(s)] = f]
<1>1. s \in Seq(Frame) /\ Len(s) \in Nat /\ Len(s) \in 1..Len(s)
  BY LastFacts, SMT DEF IsStack
<1>2. /\ Len(t) = Len(s)
      /\ \A i \in 1..Len(s) : t[i] = IF i = Len(s) THEN f ELSE s[i]
  BY <1>1, ReplaceFacts
<1> HIDE DEF t
<1>3. ASSUME NEW i \in 1..(Len(t) - 1), TailFrame(t[i])
      PROVE  NoCall(t[i + 1])
  <2>1. t[i] = s[i] /\ i \in 1..(Len(s) - 1) /\ i \in Int
    BY <1>1, <1>2, SMT
  <2>2. NoCall(s[i + 1])
    BY <1>3, <2>1 DEF NoTailCall
  <2>3. CASE i + 1 = Len(s)
    <3>1. t[i + 1] = f /\ s[i + 1] = s[Len(s)] /\ s[i] = s[Len(s) - 1]
      BY <1>1, <1>2, <2>1, <2>3, SMT
    <3> QED BY <1>3, <2>1, <2>2, <3>1
  <2>4. CASE i + 1 # Len(s)
    <3>1. t[i + 1] = s[i + 1]
      BY <1>1, <1>2, <2>1, <2>4, SMT
    <3> QED BY <2>2, <3>1
  <2> QED BY <2>3, <2>4
<1>4. NoTailCall(t)
  BY <1>3 DEF NoTailCall
<1> QED BY <1>4 DEF t

(* Under a lambda activation is no frame in tail position.                 *)
LEMMA BelowCall ==
  ASSUME NEW s, IsStack(s), NoTailCall(s), NEW n \in 2..Len(s), s[n].kind = "call"
  PROVE  ~TailFrame(s[n - 1])
<1>1. Len(s) \in Nat
  BY LastFacts DEF IsStack
<1>2. n - 1 \in 1..(Len(s) - 1) /\ n - 1 + 1 = n
  BY <1>1, SMT
<1> QED BY <1>2 DEF NoTailCall, NoCall

(* The trampoline drops k frames, the lowest of them a lambda activation.  *)
LEMMA TrampolineTail ==
  ASSUME Inv, NoTailCall(stack), NEW k \in Nat \ {0}, k < Len(stack),
         stack[Len(stack) - k + 1].kind = "call", NEW f \in Frame
  PROVE  NoTailCall(Append(SubSeq(stack, 1, Len(stack) - k), f))
<1> DEFINE t == SubSeq(stack, 1, Len(stack) - k)
<1>1. Len(stack) \in Nat /\ IsStack(stack) /\ stack \in Seq(Frame)
  BY InvFacts DEF Inv, IsStack
<1>2. Len(stack) - k + 1 \in 2..Len(stack) /\ Len(stack) - k + 1 - 1 = Len(stack) - k
      /\ Len(stack) - k \in 1..(Len(stack) - k)
  BY <1>1, SMT
<1>3. ~TailFrame(stack[Len(stack) - k])
  BY <1>1, <1>2, BelowCall
<1>4. IsStack(t) /\ NoTailCall(t)
  BY <1>1, DropStack, NoTailCallDrop
<1>5. t[Len(t)] = stack[Len(stack) - k]
  BY <1>1, <1>2, DropFacts
<1> HIDE DEF t
<1>6. NoTailCall(Append(t, f))
  BY <1>3, <1>4, <1>5, NoTailCallPush
<1> QED BY <1>6 DEF t

(* A call from a frame f that replaces the last one and is itself in no    *)
(* tail position.                                                          *)
LEMMA InvokeTail ==
  ASSUME Inv, NoTailCall(stack), NEW l \in Lambdas, NEW f \in Frame,
         FrameOK(f), f.kind = Top.kind, f.base = Top.base,
         \/ NoCall(Top) => NoCall(f)
         \/ ~TailFrame(stack[Len(stack) - 1]),
         ~TailFrame(f), Invoke(ReplaceTop(f), l)
  PROVE  NoTailCall(stack')
<1>1. IsStack(stack) /\ stack \in Seq(Frame) /\ Len(stack) \in Nat
      /\ Len(stack) \in 1..Len(stack)
  BY InvFacts, SMT DEF Inv, IsStack
<1>2. IsStack(ReplaceTop(f))
  BY <1>1, AdvanceStack DEF ReplaceTop, Top
<1>3. NoTailCall(ReplaceTop(f))
  BY <1>1, NoTailCallAdvance DEF ReplaceTop, Top
<1>4. ReplaceTop(f)[Len(ReplaceTop(f))] = f
  BY <1>1, ReplaceFacts DEF ReplaceTop
<1>5. Len(scopes) \in Nat \ {0}
  BY InvFacts, SMT
<1>6. CallFrame(l, Len(scopes)) \in Frame
  BY <1>5, CallFrameFacts DEF FrameOK
<1>7. stack' = Append(ReplaceTop(f), CallFrame(l, Len(scopes)))
  BY DEF Invoke
<1> QED BY <1>2, <1>3, <1>4, <1>6, <1>7, NoTailCallPush

(* Each of the ways a step changes the stack keeps tail positions free.    *)
LEMMA TailStep ==
  ASSUME Inv, NoTailCall(stack), [Next]_vars
  PROVE  NoTailCall(stack')
<1>1. /\ IsStack(stack) /\ Len(stack) \in Nat /\ Len(stack) >= 1
      /\ Top \in Frame /\ FrameOK(Top) /\ Top.pc \in Nat /\ Len(scopes) \in Nat \ {0}
      /\ (Top.kind # "top" => Len(stack) > 1)
  BY InvFacts, SMT DEF Inv, Frame
<1>2. CASE stack' = stack
  BY <1>2
<1>3. ASSUME stack' = Callers, Top.kind # "top"
      PROVE  NoTailCall(stack')
  <2>1. 1 \in Nat /\ 1 < Len(stack)
    BY <1>1, <1>3, SMT
  <2> QED BY <1>1, <1>3, <2>1, NoTailCallDrop DEF Callers
<1>4. ASSUME NEW pc \in Nat, stack' = ReplaceTop([Top EXCEPT !.pc = pc]),
             Top.kind # "head"
      PROVE  NoTailCall(stack')
  <2>1. [Top EXCEPT !.pc = pc] \in Frame /\ [Top EXCEPT !.pc = pc].kind = Top.kind
    BY <1>1 DEF Frame
  <2>2. NoCall(Top) => NoCall([Top EXCEPT !.pc = pc])
    BY <1>4, <2>1 DEF NoCall
  <2> QED BY <1>1, <1>4, <2>1, <2>2, NoTailCallAdvance DEF ReplaceTop, Top
<1>5. CASE EvalAtom
  <2>1. stack' = stack
    BY <1>5 DEF EvalAtom, EvalConstant, EvalLambda, EvalQuotedAtom, BuiltinRejects,
                EvalSymbol, EvalUndefined, BindingRefused
  <2> QED BY <1>2, <2>1
<1>6. CASE EnterBuiltin
  <2>1. PICK kind \in Kinds \ {"top", "call"}, name \in Names \cup {None} :
          Enter(kind, name)
    BY <1>6 DEF EnterBuiltin, EnterForm, EnterHead, EnterLet, EnterSet, Kinds
  <2>2. NewFrame(kind, None, name) \in Frame /\ NoCall(NewFrame(kind, None, name))
    BY <1>1, <2>1 DEF NewFrame, Frame, NoCall
  <2>3. stack' = Append(stack, NewFrame(kind, None, name))
    BY <2>1 DEF Enter
  <2> QED BY <1>1, <2>2, <2>3, NoTailCallPush
<1>7. CASE Call
  <2>1. PICK x \in Names, l \in Lambdas :
          CallLambda(x, l) \/ TailCallLambda(x, l)
          \/ CallWrongArity(x, l) \/ TailCallWrongArity(x, l)
    BY <1>7 DEF Call
  <2>2. CallFrame(l, Len(scopes)) \in Frame
    BY <1>1, CallFrameFacts DEF FrameOK
  <2>3. CASE CallLambda(x, l)
    <3>1. ~TailFrame(Top) /\ stack' = Append(stack, CallFrame(l, Len(scopes)))
      BY <2>3 DEF CallLambda, Invoke
    <3> QED BY <1>1, <2>2, <3>1, NoTailCallPush DEF Top
  <2>4. CASE TailCallLambda(x, l)
    <3>1. /\ Top.kind = "call" /\ HoldsScope(Top)
          /\ stack' = Append(SubSeq(stack, 1, Len(stack) - 1), CallFrame(l, Len(scopes) - 1))
      BY <2>4 DEF TailCallLambda, TailFrame, Trampoline, Callers, HoldsScope
    <3>2. 1 \in Nat \ {0} /\ 1 < Len(stack) /\ Len(stack) - 1 + 1 = Len(stack)
      BY <1>1, <3>1, SMT
    <3>3. CallFrame(l, Len(scopes) - 1) \in Frame
      BY <3>1, HolderFacts, CallFrameFacts DEF FrameOK
    <3> QED BY <3>1, <3>2, <3>3, TrampolineTail DEF Top
  <2>5. CASE CallWrongArity(x, l)
    BY <1>2, <2>5 DEF CallWrongArity
  <2>6. CASE TailCallWrongArity(x, l)
    <3>1. stack' = Callers /\ Top.kind # "top"
      BY <2>6 DEF TailCallWrongArity, TailFrame, Return
    <3> QED BY <1>3, <3>1
  <2> QED BY <2>1, <2>3, <2>4, <2>5, <2>6
<1>8. CASE LambdaStep
  <2>1. CASE BindParam \/ BodyNext
    <3>1. stack' = ReplaceTop([Top EXCEPT !.pc = Top.pc + 1]) /\ Top.kind # "head"
      BY <2>1 DEF BindParam, BodyNext, Advance, Waiting
    <3>2. Top.pc + 1 \in Nat
      BY <1>1, SMT
    <3> QED BY <1>4, <3>1, <3>2
  <2>2. CASE CallReturns \/ CallFails \/ CallFailsStale
    <3>1. stack' = Callers /\ Top.kind # "top"
      BY <2>2 DEF CallReturns, CallFails, CallFailsStale, Return, Waiting
    <3> QED BY <1>3, <3>1
  <2> QED BY <1>8, <2>1, <2>2 DEF LambdaStep
<1>9. CASE FormFails \/ FormYieldsArgument \/ StrictReturns \/ StrictFails
           \/ PredicateAbsorbs \/ IterReturns \/ IterRefuses \/ LetBinds
           \/ SetAssigns \/ LoopEnds \/ LoopBodyFails \/ HeadNotCallable
  <2>1. stack' = Callers /\ Top.kind # "top"
    BY <1>9 DEF FormFails, FormYieldsArgument, StrictReturns, StrictFails,
         PredicateAbsorbs, IterReturns, IterRefuses, LetBinds, SetAssigns, LoopEnds,
         LoopBodyFails, HeadNotCallable, Return, Waiting
  <2> QED BY <1>3, <2>1
<1>10. CASE NextArgument \/ NextForm \/ UNCHANGED vars
  BY <1>2, <1>10 DEF NextArgument, NextForm, vars
<1>11. CASE IterTakesValue \/ IfBranches \/ LoopIterates \/ LoopBodyNext
  <2>1. 0 \in Nat /\ 1 \in Nat
    BY SMT
  <2>2. /\ Top.kind # "top" /\ Top.kind # "head"
        /\ \/ stack' = stack
           \/ stack' = Callers
           \/ stack' = ReplaceTop([Top EXCEPT !.pc = 0])
           \/ stack' = ReplaceTop([Top EXCEPT !.pc = 1])
    BY <1>11 DEF IterTakesValue, IfBranches, LoopIterates, LoopBodyNext, Advance,
         Return, Waiting
  <2> QED BY <1>2, <1>3, <1>4, <2>1, <2>2
<1>12. CASE IterInvokes
  <2>1. PICK l \in Lambdas :
          LET waiting == ReplaceTop([Top EXCEPT !.pc = 2, !.lam = l]) IN
          Invoke(waiting, l) \/ stack' = waiting
    BY <1>12 DEF IterInvokes
  <2> DEFINE f == [Top EXCEPT !.pc = 2, !.lam = l]
  <2>2. Top.kind = "iter"
    BY <1>12 DEF IterInvokes, Waiting
  <2>3. f \in Frame /\ f.kind = "iter" /\ f.base = Top.base /\ f.lam = l
    BY <1>1, <2>2 DEF Frame
  <2>4. Invoke(ReplaceTop(f), l) \/ stack' = ReplaceTop(f)
    BY <2>1
  <2> HIDE DEF f
  <2>5. FrameOK(f) /\ NoCall(f) /\ ~TailFrame(f)
    BY <2>3 DEF FrameOK, NoCall, TailFrame
  <2>6. CASE Invoke(ReplaceTop(f), l)
    BY <2>2, <2>3, <2>5, <2>6, InvokeTail
  <2>7. CASE stack' = ReplaceTop(f)
    BY <1>1, <2>3, <2>5, <2>7, NoTailCallAdvance DEF ReplaceTop
  <2> QED BY <2>4, <2>6, <2>7
<1>13. CASE HeadInvokes \/ HeadWrongArity
  <2> DEFINE caller == stack[Len(stack) - 1]
             f == [Top EXCEPT !.pc = 1]
  <2>1. Top.kind = "head" /\ ret \in Lambdas
    BY <1>13 DEF HeadInvokes, HeadWrongArity, Waiting
  <2>2. CASE TailFrame(caller)
    <3>1. /\ 2 \in Nat \ {0} /\ 2 \in Nat /\ 2 < Len(stack) /\ caller.kind = "call"
          /\ Len(scopes) - 1 \in Nat \ {0}
      <4>1. /\ 2 \in Nat \ {0} /\ 2 < Len(stack) /\ Len(scopes) > 1
        BY <2>1, <2>2, HeadFacts
      <4>2. 2 \in Nat /\ Len(scopes) - 1 \in Nat \ {0}
        BY <1>1, <4>1, SMT
      <4> QED BY <2>2, <4>1, <4>2 DEF TailFrame
    <3>2. CallFrame(ret, Len(scopes) - 1) \in Frame
      BY <2>1, <3>1, CallFrameFacts DEF FrameOK
    <3>3. Len(stack) - 2 + 1 = Len(stack) - 1
      BY <1>1, SMT
    <3>4. CASE HeadInvokes
      <4>1. stack' = Append(SubSeq(stack, 1, Len(stack) - 2), CallFrame(ret, Len(scopes) - 1))
        BY <2>2, <3>4 DEF HeadInvokes, Trampoline
      <4> QED BY <3>1, <3>2, <3>3, <4>1, TrampolineTail
    <3>5. CASE HeadWrongArity
      <4>1. stack' = SubSeq(stack, 1, Len(stack) - 2)
        BY <2>2, <3>5 DEF HeadWrongArity
      <4> QED BY <1>1, <3>1, <4>1, NoTailCallDrop
    <3> QED BY <1>13, <3>4, <3>5
  <2>3. CASE ~TailFrame(caller)
    <3>1. CASE HeadInvokes
      <4>1. Invoke(ReplaceTop(f), ret)
        BY <2>3, <3>1 DEF HeadInvokes
      <4>2. 1 \in Nat /\ Top.kind # "call" /\ Top.kind # "iter"
        BY <2>1, SMT
      <4>3. FrameOK(f) /\ f.kind = Top.kind /\ f.base = Top.base /\ f \in Frame
        BY <4>2, AdvancedFrame DEF FrameOK
      <4>4. ~TailFrame(f)
        BY <2>1, <4>3 DEF TailFrame
      <4> HIDE DEF f
      <4> QED BY <2>1, <2>3, <4>1, <4>3, <4>4, InvokeTail
    <3>2. CASE HeadWrongArity
      <4>1. stack' = Callers
        BY <2>3, <3>2 DEF HeadWrongArity
      <4> QED BY <1>3, <2>1, <4>1
    <3> QED BY <1>13, <3>1, <3>2
  <2> QED BY <2>2, <2>3
<1> QED BY <1>5, <1>6, <1>7, <1>8, <1>9, <1>10, <1>11, <1>12, <1>13 DEF Next, FormStep

(* A direct tail call never runs on top of the lambda activation that made *)
(* it, by name or by an expression in head position: the C stack does not  *)
(* grow with the number of such calls.                                     *)
THEOREM TailCallsAlwaysReplaceCaller == Spec => []TailCallsReplaceCaller
<1>1. Init => NoTailCall(stack)
  <2>1. ASSUME Init, NEW i \in 1..(Len(stack) - 1) PROVE FALSE
    BY <2>1, SMT DEF Init
  <2> QED BY <2>1 DEF NoTailCall
<1>2. Inv /\ NoTailCall(stack) /\ [Next]_vars => NoTailCall(stack)'
  BY TailStep
<1>3. NoTailCall(stack) => TailCallsReplaceCaller
  BY DEF NoTailCall, NoCall, TailCallsReplaceCaller
<1> QED BY <1>1, <1>2, <1>3, Invariant, PTL DEF Spec

=============================================================================
