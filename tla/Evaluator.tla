------------------------------ MODULE Evaluator ------------------------------
(***************************************************************************)
(* The evaluator of the AKX runtime: akx_rt_eval, akx_rt_eval_tail and the *)
(* trampoline akx_rt_invoke_lambda (pkg/rt/akx_rt.c) with the control      *)
(* forms of nucleus: lambda, begin, if, let, set, loop and iter.           *)
(*                                                                         *)
(* The C stack is the variable stack: one frame per C activation that is   *)
(* waiting for the value of a subexpression.  The expression an activation *)
(* evaluates next is an input, so a behaviour stands for the evaluation of *)
(* some program and the behaviours together for every program within the   *)
(* bounds.  A cell is abstracted to a lambda, to the integer 1 (the only   *)
(* value `if' and `loop' take as true) or to another datum.                *)
(***************************************************************************)
EXTENDS Naturals, Sequences

CONSTANTS
  Names,      \* the symbols that name no builtin
  Lambdas,    \* akx_lambda_context_t objects a program can create
  Params,     \* Params[l]: the sequence of parameter names of l
  BodyLen,    \* BodyLen[l]: how many expressions the body of l has
  Data,       \* values that are not lambdas
  One, Nil,   \* the integer 1 and the symbol nil, two of the Data
  Unbound,    \* a name a scope does not bind
  Fail,       \* the NULL a failed evaluation returns
  Pending,    \* no value yet: the expression is still to be evaluated
  None,       \* the lambda or the name of a frame that has none
  MaxStack    \* bound on the C stack

Values == Lambdas \cup Data

ASSUME ConstantsOK ==
  /\ Params \in [Lambdas -> Seq(Names)]
  /\ BodyLen \in [Lambdas -> Nat \ {0}]
  /\ One \in Data /\ Nil \in Data /\ One # Nil
  /\ Lambdas \cap Data = {}
  /\ Unbound \notin Values
  /\ Fail \notin Values /\ Pending \notin Values /\ Fail # Pending
  /\ None \notin Lambdas \cup Names
  /\ MaxStack \in Nat

VARIABLES
  stack,      \* the frames of the C stack, the innermost last
  scopes,     \* the chain of scopes, see ScopeChain
  ret,        \* what the evaluation the last frame waits for returned
  made,       \* the lambdas created so far
  dangling,   \* lambdas whose result field points to a cell given away
  causes      \* why something failed since the current top-level form began

vars == <<stack, scopes, ret, made, dangling, causes>>

Chain == INSTANCE ScopeChain

(***************************************************************************)
(* A frame: which C function, the lambda it runs or the name it binds, how *)
(* far it is, and base, the number of scopes when it was entered.  The     *)
(* program keeps no such number: base only serves the properties.          *)
(***************************************************************************)
Kinds == {"top", "call", "begin", "if", "let", "set", "loop", "strict", "iter",
          "head"}

Frame == [kind : Kinds, lam : Lambdas \cup {None}, name : Names \cup {None},
          pc : Nat, base : Nat \ {0}]

NewFrame(kind, lam, name) ==
  [kind |-> kind, lam |-> lam, name |-> name, pc |-> 0, base |-> Len(scopes)]

Top == stack[Len(stack)]

Callers == SubSeq(stack, 1, Len(stack) - 1)

ReplaceTop(f) == [stack EXCEPT ![Len(stack)] = f]

Advance(pc) == stack' = ReplaceTop([Top EXCEPT !.pc = pc])

Evaluating == ret = Pending

Waiting(kind) == ret # Pending /\ Top.kind = kind

Return(v) == stack' = Callers /\ ret' = v

(* akx_rt_error and its variants append to the error list of the runtime.  *)
Error == causes' = causes \cup {"error"}

Arity(l) == Len(Params[l])

(* Mutant of TailFrame: the tail position one expression too late.         *)
TailFrameTooLate(f) == f.kind = "call" /\ f.pc = Arity(f.lam) + BodyLen[f.lam]

(* The frame evaluates the last expression of a lambda body, for which     *)
(* akx_lambda_invoke_impl calls akx_rt_eval_tail instead of akx_rt_eval.   *)
TailFrame(f) == f.kind = "call" /\ f.pc + 1 = Arity(f.lam) + BodyLen[f.lam]

(* A frame that has pushed a scope of its own.                             *)
HoldsScope(f) == f.kind = "call" \/ (f.kind = "loop" /\ f.pc = 1)

(* akx_rt_scope_get finds v for x.                                         *)
Bound(x, v) == \E i \in 1..Len(scopes) : Chain!Innermost(x, i) /\ scopes[i][x] = v

Init ==
  /\ stack = <<[kind |-> "top", lam |-> None, name |-> None, pc |-> 0, base |-> 1]>>
  /\ Chain!Init
  /\ ret = Pending
  /\ made = {}
  /\ dangling = {}
  /\ causes = {}

-----------------------------------------------------------------------------
(***************************************************************************)
(* Expressions that need no frame.                                         *)
(***************************************************************************)

(* A literal, a quoted cell, the empty list or a form with no arguments to *)
(* evaluate, like (begin).                                                 *)
EvalConstant ==
  /\ Evaluating
  /\ ret' \in Data
  /\ UNCHANGED <<stack, scopes, made, dangling, causes>>

(* (lambda [...] ...): a new context, whose result field is NULL.          *)
EvalLambda ==
  /\ Evaluating
  /\ \E l \in Lambdas \ made : ret' = l /\ made' = made \cup {l}
  /\ UNCHANGED <<stack, scopes, dangling, causes>>

EvalSymbol(x) ==
  /\ Evaluating
  /\ \E v \in Values : Bound(x, v) /\ ret' = v
  /\ UNCHANGED <<stack, scopes, made, dangling, causes>>

(* Mutant of EvalUndefined: NULL without a call of akx_rt_error_at.        *)
EvalUndefinedSilent(x) ==
  /\ Evaluating
  /\ Chain!Undefined(x)
  /\ ret' = Fail
  /\ UNCHANGED <<stack, scopes, made, dangling, causes>>

(* A symbol no scope binds, or the head of a list that names neither a     *)
(* builtin nor a lambda.                                                   *)
EvalUndefined(x) ==
  /\ Evaluating
  /\ \/ Chain!Undefined(x)
     \/ \E i \in 1..Len(scopes) : Chain!Innermost(x, i) /\ scopes[i][x] \notin Lambdas
  /\ Error
  /\ ret' = Fail
  /\ UNCHANGED <<stack, scopes, made, dangling>>

(* A quoted number or string, like '5.  akx_cell_unwrap_quoted parses the  *)
(* text again as a source of its own, where an expression that is no list  *)
(* has to start with a symbol: the parser stops there without an error and *)
(* the quoted cell evaluates to NULL.                                      *)
EvalQuotedAtom ==
  /\ Evaluating
  /\ ret' = Fail
  /\ causes' = causes \cup {"quoted"}
  /\ UNCHANGED <<stack, scopes, made, dangling>>

(* A builtin that refuses its arguments before it evaluates any: a wrong   *)
(* count, a first argument that is not a symbol, a malformed lambda.       *)
BuiltinRejects ==
  /\ Evaluating
  /\ Error
  /\ ret' = Fail
  /\ UNCHANGED <<stack, scopes, made, dangling>>

-----------------------------------------------------------------------------
(***************************************************************************)
(* Calls of builtins: each pushes the frame of its C function.  Strict     *)
(* stands for the builtins that evaluate their arguments in order and      *)
(* compute a datum from them (arithmetic, comparisons, io, assertions).    *)
(* Head is akx_rt_eval itself, on a list whose head is not a symbol.       *)
(***************************************************************************)
Enter(kind, name) ==
  /\ Evaluating
  /\ Len(stack) < MaxStack
  /\ stack' = Append(stack, NewFrame(kind, None, name))
  /\ UNCHANGED <<scopes, ret, made, dangling, causes>>

EnterForm == \E kind \in {"begin", "if", "loop", "strict", "iter"} : Enter(kind, None)

(* Within the bound there must be room for the lambda the head may yield.  *)
EnterHead == Len(stack) + 1 < MaxStack /\ Enter("head", None)

EnterLet(x) ==
  /\ scopes[Len(scopes)][x] = Unbound
  /\ Enter("let", x)

EnterSet(x) ==
  /\ ~Chain!Undefined(x)
  /\ Enter("set", x)

(* let of a name the current scope has, set of a name no scope has.        *)
BindingRefused(x) ==
  /\ \/ scopes[Len(scopes)][x] # Unbound
     \/ Chain!Undefined(x)
  /\ BuiltinRejects

-----------------------------------------------------------------------------
(***************************************************************************)
(* Calls of lambdas.  Outside a tail position akx_rt_invoke_lambda pushes  *)
(* a scope and runs the body on the C stack.  In tail position             *)
(* akx_rt_eval_tail returns a continuation, which the body stores in the   *)
(* result field of its lambda; the trampoline pops the scope, frees the    *)
(* continuation and starts the next lambda in a new scope.  Either way the *)
(* argument expressions are evaluated later, in the new scope.             *)
(***************************************************************************)
CallFrame(l, base) ==
  [kind |-> "call", lam |-> l, name |-> None, pc |-> 0, base |-> base]

(* below: the frames that wait for the call.                              *)
Invoke(below, l) ==
  /\ stack' = Append(below, CallFrame(l, Len(scopes)))
  /\ scopes' = Chain!Pushed
  /\ ret' = Pending
  /\ dangling' = dangling \ {l}
  /\ UNCHANGED <<made, causes>>

(* The activation of the lambda f, which stood on below, ends and the      *)
(* trampoline starts l in its place.                                       *)
Trampoline(below, f, l) ==
  /\ stack' = Append(below, CallFrame(l, Len(scopes) - 1))
  /\ scopes' = Chain!Recycled
  /\ ret' = Pending
  /\ dangling' = (dangling \cup {f}) \ {l}
  /\ UNCHANGED <<made, causes>>

(* Mutant of CallLambda: akx_rt_eval for the last expression of a body.    *)
CallLambdaAnywhere(x, l) ==
  /\ Evaluating
  /\ Bound(x, l)
  /\ Len(stack) < MaxStack
  /\ Invoke(stack, l)

CallLambda(x, l) ==
  /\ Evaluating
  /\ ~TailFrame(Top)
  /\ Bound(x, l)
  /\ Len(stack) < MaxStack
  /\ Invoke(stack, l)

TailCallLambda(x, l) ==
  /\ Evaluating
  /\ TailFrame(Top)
  /\ Bound(x, l)
  /\ Trampoline(Callers, Top.lam, l)

(* The wrong number of arguments: an error is recorded, the result field   *)
(* stays NULL and the call yields nil.                                     *)
CallWrongArity(x, l) ==
  /\ Evaluating
  /\ ~TailFrame(Top)
  /\ Bound(x, l)
  /\ Error
  /\ ret' = Nil
  /\ dangling' = dangling \ {l}
  /\ UNCHANGED <<stack, scopes, made>>

TailCallWrongArity(x, l) ==
  /\ Evaluating
  /\ TailFrame(Top)
  /\ Bound(x, l)
  /\ Error
  /\ Return(Nil)
  /\ scopes' = Chain!Popped
  /\ dangling' = (dangling \cup {Top.lam}) \ {l}
  /\ UNCHANGED made

-----------------------------------------------------------------------------
(***************************************************************************)
(* What akx_lambda_invoke_impl does with the value of an argument or of a  *)
(* body expression.                                                        *)
(***************************************************************************)
BindParam ==
  /\ Waiting("call")
  /\ ret # Fail
  /\ Top.pc < Arity(Top.lam)
  /\ scopes' = Chain!BoundAt(Len(scopes), Params[Top.lam][Top.pc + 1], ret)
  /\ Advance(Top.pc + 1)
  /\ ret' = Pending
  /\ UNCHANGED <<made, dangling, causes>>

BodyNext ==
  /\ Waiting("call")
  /\ ret # Fail
  /\ Top.pc >= Arity(Top.lam)
  /\ ~TailFrame(Top)
  /\ Advance(Top.pc + 1)
  /\ ret' = Pending
  /\ UNCHANGED <<scopes, made, dangling, causes>>

(* The value of the last expression goes through the result field to the   *)
(* caller; the field keeps pointing to the cell the caller now owns.       *)
CallReturns ==
  /\ Waiting("call")
  /\ ret # Fail
  /\ Top.pc >= Arity(Top.lam)
  /\ TailFrame(Top)
  /\ Return(ret)
  /\ scopes' = Chain!Popped
  /\ dangling' = dangling \cup {Top.lam}
  /\ UNCHANGED <<made, causes>>

(* An argument or a body expression failed: invoke_impl returns without    *)
(* touching the result field and the trampoline reads what is there.  NULL *)
(* becomes nil.                                                            *)
CallFails ==
  /\ Waiting("call")
  /\ ret = Fail
  /\ Top.lam \notin dangling
  /\ Return(Nil)
  /\ scopes' = Chain!Popped
  /\ UNCHANGED <<made, dangling, causes>>

(* The same when an inner activation of the same lambda left its result in *)
(* the field: that cell belongs to whoever called the inner activation and *)
(* may be freed by now, so reading it may yield any value, or a            *)
(* continuation that the trampoline refuses.                               *)
CallFailsStale ==
  /\ Waiting("call")
  /\ ret = Fail
  /\ Top.lam \in dangling
  /\ scopes' = Chain!Popped
  /\ stack' = Callers
  /\ \/ ret' \in Data \cup made /\ UNCHANGED causes
     \/ ret' = Fail /\ Error
  /\ UNCHANGED <<made, dangling>>

-----------------------------------------------------------------------------
(***************************************************************************)
(* What the builtins do with the value of an argument.                     *)
(***************************************************************************)

(* Every form but a call and a loop body hands a failure on.               *)
FormFails ==
  /\ ret = Fail
  /\ \/ Top.kind \in {"begin", "if", "let", "set", "strict"}
     \/ Top.kind = "iter"
     \/ Top.kind = "loop" /\ Top.pc = 0
     \/ Top.kind = "head" /\ Top.pc = 1
  /\ Return(Fail)
  /\ UNCHANGED <<scopes, made, dangling, causes>>

(* begin and the strict builtins go on to the next argument.               *)
NextArgument ==
  /\ Top.kind \in {"begin", "strict"}
  /\ ret \notin {Fail, Pending}
  /\ ret' = Pending
  /\ UNCHANGED <<stack, scopes, made, dangling, causes>>

(* The last argument of begin, or the branch of an if, is its value.       *)
FormYieldsArgument ==
  /\ \/ Waiting("begin")
     \/ Waiting("if") /\ Top.pc = 1
     \/ Waiting("head") /\ Top.pc = 1
  /\ ret # Fail
  /\ Return(ret)
  /\ UNCHANGED <<scopes, made, dangling, causes>>

StrictReturns ==
  /\ Waiting("strict")
  /\ ret # Fail
  /\ \E v \in Data : Return(v)
  /\ UNCHANGED <<scopes, made, dangling, causes>>

(* An argument of the wrong type, a division by zero.                      *)
StrictFails ==
  /\ Waiting("strict")
  /\ ret # Fail
  /\ Error
  /\ Return(Fail)
  /\ UNCHANGED <<scopes, made, dangling>>

(* The type predicates (?nil, ?int, ...) take a failed argument for a value *)
(* of another type.                                                        *)
PredicateAbsorbs ==
  /\ Waiting("strict")
  /\ ret = Fail
  /\ \E v \in Data : Return(v)
  /\ UNCHANGED <<scopes, made, dangling, causes>>

IfBranches ==
  /\ Waiting("if")
  /\ ret # Fail
  /\ Top.pc = 0
  /\ \/ Advance(1) /\ ret' = Pending
     \/ ret # One /\ Return(Nil)
  /\ UNCHANGED <<scopes, made, dangling, causes>>

LetBinds ==
  /\ Waiting("let")
  /\ ret # Fail
  /\ scopes' = Chain!BoundAt(Len(scopes), Top.name, ret)
  /\ Return(ret)
  /\ UNCHANGED <<made, dangling, causes>>

(* Mutant of SetAssigns: the outermost scope that binds the name.          *)
SetAssignsOutermost ==
  /\ Waiting("set")
  /\ ret # Fail
  /\ \E i \in 1..Len(scopes) :
       /\ scopes[i][Top.name] # Unbound
       /\ \A j \in 1..(i - 1) : scopes[j][Top.name] = Unbound
       /\ scopes' = Chain!BoundAt(i, Top.name, ret)
  /\ Return(ret)
  /\ UNCHANGED <<made, dangling, causes>>

(* set looks the name up again after it evaluated the value.               *)
SetAssigns ==
  /\ Waiting("set")
  /\ ret # Fail
  /\ \/ \E i \in 1..Len(scopes) :
          Chain!Innermost(Top.name, i) /\ scopes' = Chain!BoundAt(i, Top.name, ret)
     \/ Chain!Undefined(Top.name) /\ UNCHANGED scopes
  /\ Return(ret)
  /\ UNCHANGED <<made, dangling, causes>>

LoopIterates ==
  /\ Waiting("loop")
  /\ Top.pc = 0
  /\ ret = One
  /\ scopes' = Chain!Pushed
  /\ Advance(1)
  /\ ret' = Pending
  /\ UNCHANGED <<made, dangling, causes>>

(* The condition is not 1: the loop yields the last value of its body, or  *)
(* nil if the body never ran.                                              *)
LoopEnds ==
  /\ Waiting("loop")
  /\ Top.pc = 0
  /\ ret \notin {One, Fail}
  /\ \E v \in Data \cup made : Return(v)
  /\ UNCHANGED <<scopes, made, dangling, causes>>

LoopBodyNext ==
  /\ Waiting("loop")
  /\ Top.pc = 1
  /\ ret # Fail
  /\ ret' = Pending
  /\ \/ UNCHANGED <<stack, scopes>>
     \/ Advance(0) /\ scopes' = Chain!Popped
  /\ UNCHANGED <<made, dangling, causes>>

(* Mutant of LoopBodyFails: the early return without akx_rt_pop_scope.     *)
LoopBodyFailsNoPop ==
  /\ Waiting("loop")
  /\ Top.pc = 1
  /\ ret = Fail
  /\ Return(Fail)
  /\ UNCHANGED <<scopes, made, dangling, causes>>

LoopBodyFails ==
  /\ Waiting("loop")
  /\ Top.pc = 1
  /\ ret = Fail
  /\ scopes' = Chain!Popped
  /\ Return(Fail)
  /\ UNCHANGED <<made, dangling, causes>>

(* iter evaluates the value (pc 0) and the lambda (pc 1), and calls the    *)
(* lambda once for each item (pc 2).  The item is the argument expression: *)
(* the lambda evaluates it again.                                          *)
IterTakesValue ==
  /\ Waiting("iter")
  /\ ret # Fail
  /\ Top.pc = 0
  /\ Advance(1)
  /\ ret' = Pending
  /\ UNCHANGED <<scopes, made, dangling, causes>>

IterInvokes ==
  /\ Waiting("iter")
  /\ ret # Fail
  /\ \E l \in Lambdas :
       /\ \/ Top.pc = 1 /\ l = ret
          \/ Top.pc = 2 /\ l = Top.lam
       /\ LET waiting == ReplaceTop([Top EXCEPT !.pc = 2, !.lam = l]) IN
          \/ /\ Arity(l) = 1
             /\ Len(stack) < MaxStack
             /\ Invoke(waiting, l)
          \/ /\ Arity(l) # 1
             /\ Error
             /\ stack' = waiting
             /\ ret' = Nil
             /\ dangling' = dangling \ {l}
             /\ UNCHANGED <<scopes, made>>

(* No item is left, or there was none.                                     *)
IterReturns ==
  /\ Waiting("iter")
  /\ ret # Fail
  /\ \/ Top.pc = 1 /\ ret \in Lambdas
     \/ Top.pc = 2
  /\ \E v \in Data : Return(v)
  /\ UNCHANGED <<scopes, made, dangling, causes>>

(* A second argument that is no lambda, a first that has no items.         *)
IterRefuses ==
  /\ Waiting("iter")
  /\ ret # Fail
  /\ Top.pc = 1
  /\ Error
  /\ Return(Fail)
  /\ UNCHANGED <<scopes, made, dangling>>

(* The head of a list evaluated to a lambda.                               *)
HeadInvokes ==
  /\ Waiting("head")
  /\ Top.pc = 0
  /\ ret \in Lambdas
  /\ LET caller == stack[Len(stack) - 1] IN
     IF TailFrame(caller)
       THEN Trampoline(SubSeq(stack, 1, Len(stack) - 2), caller.lam, ret)
       ELSE Invoke(ReplaceTop([Top EXCEPT !.pc = 1]), ret)

HeadWrongArity ==
  /\ Waiting("head")
  /\ Top.pc = 0
  /\ ret \in Lambdas
  /\ Error
  /\ ret' = Nil
  /\ LET caller == stack[Len(stack) - 1] IN
     IF TailFrame(caller)
       THEN /\ stack' = SubSeq(stack, 1, Len(stack) - 2)
            /\ scopes' = Chain!Popped
            /\ dangling' = (dangling \cup {caller.lam}) \ {ret}
       ELSE /\ stack' = Callers
            /\ UNCHANGED scopes
            /\ dangling' = dangling \ {ret}
  /\ UNCHANGED made

HeadNotCallable ==
  /\ Waiting("head")
  /\ Top.pc = 0
  /\ ret \notin Lambdas
  /\ Error
  /\ Return(Fail)
  /\ UNCHANGED <<scopes, made, dangling>>

(* akx_runtime_start frees the result of a top-level form and goes on; a   *)
(* failure ends it, and the next form is that of a later start.  The error  *)
(* list is never emptied: causes says whether this form added to it.       *)
NextForm ==
  /\ Waiting("top")
  /\ ret' = Pending
  /\ causes' = {}
  /\ UNCHANGED <<stack, scopes, made, dangling>>

-----------------------------------------------------------------------------

EvalAtom ==
  \/ EvalConstant
  \/ EvalLambda
  \/ EvalQuotedAtom
  \/ BuiltinRejects
  \/ \E x \in Names : EvalSymbol(x) \/ EvalUndefined(x) \/ BindingRefused(x)

EnterBuiltin ==
  \/ EnterForm
  \/ EnterHead
  \/ \E x \in Names : EnterLet(x) \/ EnterSet(x)

Call ==
  \E x \in Names, l \in Lambdas :
    \/ CallLambda(x, l)
    \/ TailCallLambda(x, l)
    \/ CallWrongArity(x, l)
    \/ TailCallWrongArity(x, l)

LambdaStep == BindParam \/ BodyNext \/ CallReturns \/ CallFails \/ CallFailsStale

FormStep ==
  \/ FormFails \/ NextArgument \/ FormYieldsArgument
  \/ StrictReturns \/ StrictFails \/ PredicateAbsorbs
  \/ IterTakesValue \/ IterInvokes \/ IterReturns \/ IterRefuses
  \/ IfBranches \/ LetBinds \/ SetAssigns
  \/ LoopIterates \/ LoopEnds \/ LoopBodyNext \/ LoopBodyFails
  \/ HeadInvokes \/ HeadWrongArity \/ HeadNotCallable

Next == EvalAtom \/ EnterBuiltin \/ Call \/ LambdaStep \/ FormStep \/ NextForm

Spec == Init /\ [][Next]_vars

-----------------------------------------------------------------------------
(***************************************************************************)
(* Properties.                                                             *)
(***************************************************************************)

FrameOK(f) ==
  /\ f \in Frame
  /\ f.kind = "call" => f.lam \in Lambdas /\ f.pc < Arity(f.lam) + BodyLen[f.lam]
  /\ f.kind = "iter" /\ f.pc = 2 => f.lam \in Lambdas
  /\ f.kind \in {"let", "set"} => f.name \in Names

IsStack(s) ==
  /\ s \in Seq(Frame)
  /\ s # <<>>
  /\ s[1].kind = "top"
  /\ \A i \in 2..Len(s) : s[i].kind # "top"
  /\ \A i \in 1..Len(s) : FrameOK(s[i])

(* Every variable has its type; the stack has the top level at its bottom. *)
TypeOK ==
  /\ IsStack(stack)
  /\ Chain!ScopesOK
  /\ ret \in Values \cup {Fail, Pending}
  /\ made \subseteq Lambdas
  /\ dangling \subseteq Lambdas
  /\ causes \subseteq {"error", "quoted"}

(* How many scopes there are when the frame f is the last one.             *)
Depth(f) == IF HoldsScope(f) THEN f.base + 1 ELSE f.base

(* Whatever path a C function takes, early returns included, it leaves     *)
(* rt->current_context as deep as it found it: the chain holds the global  *)
(* scope and one scope for each lambda activation and running loop body.   *)
ScopesBalanced ==
  /\ stack[1].base = 1
  /\ \A i \in 1..(Len(stack) - 1) : stack[i + 1].base = Depth(stack[i])
  /\ Len(scopes) = Depth(Top)

(* Whenever NULL is handed up the C stack, through whatever frames, a      *)
(* cause lies in the same top-level form: an error was recorded or a       *)
(* quoted atom was read.  No other path of the evaluator fails silently.   *)
FailuresHaveACause == ret = Fail => causes # {}

(* A call that is the last expression of a lambda body never runs on top   *)
(* of that lambda's activation: the trampoline has replaced it.            *)
TailCallsReplaceCaller ==
  \A i \in 1..(Len(stack) - 1) :
    TailFrame(stack[i]) =>
      /\ stack[i + 1].kind # "call"
      /\ stack[i + 1].kind = "head" => stack[i + 1].pc = 0

(* Every step of the evaluator keeps the discipline of the scope chain: a  *)
(* call cannot introduce a name in its caller's scope or below, and an     *)
(* assignment never passes over a binding that shadows the one it changes. *)
KeepsScopeDiscipline == Chain!Spec

(* A tail call inside the branch of an if that is itself the last          *)
(* expression of a body, the countdown of the README, does not grow the C  *)
(* stack either.                                                           *)
TailCallsInIfReplaceCaller ==
  \A i \in 1..(Len(stack) - 2) :
    TailFrame(stack[i]) /\ stack[i + 1].kind = "if" /\ stack[i + 1].pc = 1
      => stack[i + 2].kind # "call"

(* An argument expression takes the names it mentions from the scopes of   *)
(* the caller, never from the scope of the lambda that is being called.    *)
ArgumentsSeeCallerNames ==
  Evaluating /\ Top.kind = "call" /\ Top.pc < Arity(Top.lam)
    => \A x \in Names : ~ Chain!Innermost(x, Len(scopes))

(* The trampoline reads the result of the activation that just ended: when *)
(* that one failed, no earlier activation's cell is in the result field.   *)
TrampolineReadsOwnResult ==
  Waiting("call") /\ ret = Fail => Top.lam \notin dangling

=============================================================================
