--------------------------- MODULE BuiltinRegistry ---------------------------
(***************************************************************************)
(* The table of builtins of a runtime (rt->builtins) and its life cycle:   *)
(* dispatch in akx_rt_eval, loading and hot reloading through the builtin  *)
(* cjit-load-builtin, the hooks of a module, the state a module keeps      *)
(* (module_data), and the shutdown in akx_runtime_deinit.                  *)
(*                                                                         *)
(* The code of a module is compiled into a unit; a unit exports the        *)
(* builtin function and some of three hooks.  Functions and hooks are      *)
(* written by users: they may evaluate expressions, which dispatches other *)
(* builtins, the loader included, and they may set the state of the module *)
(* the runtime says is current.  What code does once its unit was freed is *)
(* undefined: the model lets it take no further step.                      *)
(***************************************************************************)
EXTENDS Naturals, Sequences

CONSTANTS
  Modules,    \* names of builtins a program may load
  Compiled,   \* those linked into the executable
  Units,      \* compilations: each yields a new unit
  Hooks,      \* Hooks[u]: the hooks unit u exports
  Loader,     \* the name cjit-load-builtin
  None,       \* NULL
  MaxStack    \* bound on the nesting of C functions

ASSUME RegistryConstants ==
  /\ Compiled \subseteq Modules
  /\ Hooks \in [Units -> SUBSET {"init", "deinit", "reload"}]
  /\ None \notin Modules \cup Units
  /\ Loader \notin Modules \cup {None}
  /\ MaxStack \in Nat

VARIABLES
  table,      \* rt->builtins: unit and state of every registered module
  stack,      \* the C functions at work, the innermost last
  current,    \* rt->current_module_name
  loaded,     \* the units compiled so far
  freed,      \* the units given to ak_cjit_unit_free
  stopping,   \* akx_runtime_deinit has begun
  closed,     \* history: the units whose deinit hook was called
  handed,     \* history: those whose state a reload hook was given
  elders      \* history: elders[u], the units compiled before u was

history == <<closed, handed, elders>>

vars == <<table, stack, current, loaded, freed, stopping, history>>

Absent == [unit |-> None, data |-> None, there |-> FALSE]

Entry(unit, data) == [unit |-> unit, data |-> data, there |-> TRUE]

Registered == {m \in Modules : table[m].there}

HooksOf(u) == IF u = None THEN {} ELSE Hooks[u]

(* A C function at work.  A loader is at "args" while it evaluates its     *)
(* arguments, at "swap" while it holds a new unit for a registered name    *)
(* and at "done" after it stored the unit; other functions stay at "args". *)
Frame == [kind : {"call", "load", "init", "deinit", "reload"},
          name : Modules, unit : Units \cup {None}, pc : {"args", "swap", "done"}]

NewFrame(kind, m, u) == [kind |-> kind, name |-> m, unit |-> u, pc |-> "args"]

Top == stack[Len(stack)]

Callers == SubSeq(stack, 1, Len(stack) - 1)

IsLoader == stack # <<>> /\ Top.kind = "load"

(* The innermost function is code of a module whose unit is not freed.     *)
ModuleRuns == stack # <<>> /\ Top.kind # "load" /\ Top.unit \notin freed

(* akx_rt_eval may be called: by the program at the top level, by a loader *)
(* for its keyword values, by a function or a hook.                        *)
CanEvaluate ==
  /\ ~stopping
  /\ Len(stack) < MaxStack
  /\ \/ stack = <<>>
     \/ ModuleRuns
     \/ IsLoader /\ Top.pc = "args"

Init ==
  /\ table = [m \in Modules |-> IF m \in Compiled THEN Entry(None, None) ELSE Absent]
  /\ stack = <<>>
  /\ current = None
  /\ loaded = {} /\ freed = {}
  /\ stopping = FALSE
  /\ closed = {} /\ handed = {} /\ elders = [u \in Units |-> {}]

-----------------------------------------------------------------------------
(***************************************************************************)
(* Dispatch and the state of a module.                                     *)
(***************************************************************************)
Dispatch(m) ==
  /\ CanEvaluate
  /\ m \in Registered
  /\ current' = m
  /\ stack' = Append(stack, NewFrame("call", m, table[m].unit))
  /\ UNCHANGED <<table, loaded, freed, stopping, history>>

(* A (cjit-load-builtin m ...) form.                                       *)
DispatchLoader(m) ==
  /\ CanEvaluate
  /\ current' = Loader
  /\ stack' = Append(stack, NewFrame("load", m, None))
  /\ UNCHANGED <<table, loaded, freed, stopping, history>>

(* A loader gives up before it has a unit: a bad keyword, a file that      *)
(* cannot be read or compiled, a missing symbol.  The unit it tried to     *)
(* compile is freed there and then.                                        *)
LoadFails == Top.pc = "args"

(* Mutant of Return: the name is left as it is.                            *)
ReturnKeepsName ==
  /\ \/ ModuleRuns /\ Top.kind = "call"
     \/ IsLoader /\ (Top.pc = "done" \/ LoadFails)
  /\ stack' = Callers
  /\ UNCHANGED <<table, current, loaded, freed, stopping, history>>

(* A builtin returns to akx_rt_eval, which clears the name and does not    *)
(* restore the one of the caller.                                          *)
Return ==
  /\ \/ ModuleRuns /\ Top.kind = "call"
     \/ IsLoader /\ (Top.pc = "done" \/ LoadFails)
  /\ stack' = Callers
  /\ current' = None
  /\ UNCHANGED <<table, loaded, freed, stopping, history>>

(* akx_rt_module_set_data from a function or a hook: the state of the      *)
(* current module, whoever calls.  A state is abstracted to its writer.    *)
SetData ==
  /\ ModuleRuns
  /\ current \in Registered
  /\ \E d \in {Top.name, None} : table' = [table EXCEPT ![current].data = d]
  /\ UNCHANGED <<stack, current, loaded, freed, stopping, history>>

-----------------------------------------------------------------------------
(***************************************************************************)
(* akx_rt_register_builtin, with a new unit u for the name m.              *)
(***************************************************************************)

(* The loader's frame at its next step, with a hook on top if there is one. *)
Proceed(pc, u, hooks) ==
  stack' = Append(Callers, [Top EXCEPT !.pc = pc, !.unit = u]) \o hooks

CallHook(kind, m, u) == <<NewFrame(kind, m, u)>>

NoHook == <<>>

(* Mutant of TakesOver: a module without reload hook keeps its state too.  *)
TakesOverAlways(u, old) == TRUE

(* The new unit u has a reload hook, or the old version nothing to end.    *)
TakesOver(u, old) == "reload" \in Hooks[u] \/ "deinit" \notin HooksOf(old)

(* Mutants of Discarded: the unit is forgotten; a NULL unit is freed.      *)
DiscardedNever(m) == {}

DiscardedUnchecked(m) == {table[m].unit}

(* The unit freed when the entry of m changes.  Compiled-in modules have   *)
(* none.                                                                   *)
Discarded(m) == {table[m].unit} \ {None}

(* Mutant of Replaced: the entry is built like that of a new name.         *)
ReplacedAfresh(m, u) == [table EXCEPT ![m] = Entry(u, None)]

(* The entry of m gets the functions of u; its state stays.                *)
Replaced(m, u) == [table EXCEPT ![m].unit = u]

(* The loader has evaluated its arguments and compiled them to a new unit. *)
Compile(u) ==
  /\ IsLoader /\ Top.pc = "args"
  /\ u \notin loaded
  /\ loaded' = loaded \cup {u}
  /\ elders' = [elders EXCEPT ![u] = loaded]

(* A name the table does not have.                                         *)
RegisterNew(u) ==
  /\ Compile(u)
  /\ Top.name \notin Registered
  /\ table' = [table EXCEPT ![Top.name] = Entry(u, None)]
  /\ IF "init" \in Hooks[u]
       THEN /\ current' = Top.name
            /\ Proceed("done", u, CallHook("init", Top.name, u))
       ELSE /\ UNCHANGED current
            /\ Proceed("done", u, NoHook)
  /\ UNCHANGED <<freed, stopping, closed, handed>>

(* A name the table has.  The reload hook of the new unit takes over the   *)
(* state; without one the deinit hook of the old unit, if any, ends it.    *)
BeginReload(u) ==
  /\ Compile(u)
  /\ Top.name \in Registered
  /\ current' = Top.name
  /\ LET m == Top.name
         old == table[m].unit
     IN IF TakesOver(u, old)
          THEN /\ Proceed("swap", u, IF "reload" \in Hooks[u]
                                       THEN CallHook("reload", m, u)
                                       ELSE NoHook)
               /\ handed' = IF "reload" \in Hooks[u] THEN handed \cup ({old} \ {None})
                                                     ELSE handed
               /\ UNCHANGED closed
          ELSE /\ Proceed("swap", u, CallHook("deinit", m, old))
               /\ closed' = closed \cup {old}
               /\ UNCHANGED handed
  /\ UNCHANGED <<table, freed, stopping>>

(* The hook has returned: the unit now in the table, which need not be the *)
(* one whose hook ran, is freed, and the new one is stored.  Its init hook *)
(* runs only if it has no reload hook.  The name is not set again.         *)
Swap ==
  /\ IsLoader /\ Top.pc = "swap"
  /\ freed' = freed \cup Discarded(Top.name)
  /\ table' = Replaced(Top.name, Top.unit)
  /\ LET u == Top.unit
         initialises == "init" \in Hooks[u] /\ "reload" \notin Hooks[u]
     IN Proceed("done", u, IF initialises THEN CallHook("init", Top.name, u) ELSE NoHook)
  /\ UNCHANGED <<current, loaded, stopping, history>>

HookReturns ==
  /\ ~stopping
  /\ ModuleRuns /\ Top.kind # "call"
  /\ stack' = Callers
  /\ UNCHANGED <<table, current, loaded, freed, stopping, history>>

-----------------------------------------------------------------------------
(***************************************************************************)
(* akx_runtime_deinit, with no C function of a module left on the stack.   *)
(* The deinit hooks may set their state but are assumed to evaluate        *)
(* nothing: the entries of the modules already visited are gone.           *)
(***************************************************************************)
Release(m) ==
  /\ table' = [table EXCEPT ![m] = Absent]
  /\ freed' = freed \cup Discarded(m)

StopModule(m) ==
  /\ stack = <<>>
  /\ m \in Registered
  /\ stopping' = TRUE
  /\ LET u == table[m].unit IN
     \/ /\ "deinit" \in HooksOf(u)
        /\ stack' = CallHook("deinit", m, u)
        /\ current' = m
        /\ closed' = closed \cup {u}
        /\ UNCHANGED <<table, freed>>
     \/ /\ "deinit" \notin HooksOf(u)
        /\ Release(m)
        /\ UNCHANGED <<stack, current, closed>>
  /\ UNCHANGED <<loaded, handed, elders>>

StopHookReturns ==
  /\ stopping
  /\ stack # <<>>
  /\ Release(Top.name)
  /\ stack' = <<>>
  /\ current' = None
  /\ UNCHANGED <<loaded, stopping, history>>

-----------------------------------------------------------------------------

Load == Swap \/ \E u \in Units : RegisterNew(u) \/ BeginReload(u)

Next ==
  \/ \E m \in Modules : Dispatch(m) \/ DispatchLoader(m) \/ StopModule(m)
  \/ Return \/ SetData \/ Load \/ HookReturns \/ StopHookReturns

Spec == Init /\ [][Next]_vars

-----------------------------------------------------------------------------
(***************************************************************************)
(* Properties.                                                             *)
(***************************************************************************)

(* Every variable has its type.                                            *)
TypeOK ==
  /\ table \in [Modules -> [unit : Units \cup {None}, data : Modules \cup {None},
                            there : BOOLEAN]]
  /\ stack \in Seq(Frame)
  /\ current \in Modules \cup {Loader, None}
  /\ loaded \subseteq Units
  /\ freed \subseteq loaded
  /\ stopping \in BOOLEAN
  /\ closed \subseteq loaded /\ handed \subseteq loaded
  /\ elders \in [Units -> SUBSET Units]

(* Unit u waits in the i-th frame for its place in the table.              *)
Waits(u, i) == stack[i].kind = "load" /\ stack[i].pc = "swap" /\ stack[i].unit = u

Stored(u, m) == m \in Registered /\ table[m].unit = u

(* A compiled unit is in the table under one name, or waits in one loader, *)
(* or was freed: never two of these, so nothing is freed twice or called   *)
(* after it was freed, and never none, so nothing leaks.  Reloads nest     *)
(* when a hook loads a module, even the one being reloaded.                *)
UnitsHaveOneOwner ==
  \A u \in loaded :
    /\ u \in freed \/ (\E m \in Modules : Stored(u, m))
                   \/ (\E i \in 1..Len(stack) : Waits(u, i))
    /\ \A m \in Modules : Stored(u, m) =>
         /\ u \notin freed
         /\ \A n \in Modules : Stored(u, n) => n = m
    /\ \A i \in 1..Len(stack) : Waits(u, i) =>
         /\ u \notin freed
         /\ \A m \in Modules : ~Stored(u, m)
         /\ \A j \in 1..Len(stack) : Waits(u, j) => j = i

(* The state of a module was written by code of that module, although      *)
(* set_data takes the module from a variable every nested dispatch moves.  *)
StatesArePrivate == \A m \in Modules : table[m].data \in {m, None}

(* The current module is never another one than that of the C code at work. *)
CurrentIsRunning ==
  \/ current = None
  \/ current \in Modules /\ stack # <<>> /\ Top.name = current
  \/ current = Loader /\ IsLoader

(* A reload keeps the state: while a module is registered only a step of   *)
(* its own code changes its slot.                                          *)
ReloadKeepsState ==
  [][\A m \in Registered :
       m \in Registered' /\ table'[m].data # table[m].data
         => ModuleRuns /\ Top.name = m]_vars

(* No version is dropped for a newer one before its deinit hook was called *)
(* or a reload hook was given its state, however reloads nest.  A reload   *)
(* that ends late may also put an older version in the place of a newer    *)
(* one, which a hook of that very reload has loaded: such a version may be *)
(* dropped with its state, as neither hook is called again (akx_rt.c:892). *)
VersionsHandOver ==
  [][\A u \in freed' \ freed :
       "deinit" \in Hooks[u] =>
         u \in closed \cup handed \/ (IsLoader /\ Top.unit \in elders[u])]_vars

(* Builtins can be updated while they run: no C function at work belongs   *)
(* to a unit that was freed.                                               *)
RunningCodeStays ==
  \A i \in 1..Len(stack) : stack[i].kind # "load" => stack[i].unit \notin freed

=============================================================================
