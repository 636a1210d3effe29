# Verification of the AKX runtime

AKX is a Lisp-like language runtime in C: programs are linked cells, evaluated by a small
interpreter, and every builtin is a C function that is either linked in or compiled and
loaded while the program runs. This directory holds TLA+ models of its core, the TLC
configurations that check them, and theorems checked by TLAPS.

    tlc -config MCEvaluator.cfg MCEvaluator      # likewise every .cfg, see "Runs"
    tlapm ReaderProofs.tla                       # likewise StackFacts and every *Proofs

## 1. The system

| Component | Source | State | Operations |
|---|---|---|---|
| Evaluator and control forms | `pkg/rt/akx_rt.c`, `nucleus/core`, `nucleus/iter` | the C stack, `lambda_ctx->result`, the error list | `akx_rt_eval`, `akx_rt_eval_tail`, `akx_rt_invoke_lambda` (trampoline), `lambda`, `begin`, `if`, `let`, `set`, `loop`, `iter` |
| Scope chain | `pkg/rt/akx_rt.c` on `ak_context` of ak24 | `rt->current_context` | push, pop, set, get |
| Builtin registry and loader | `pkg/rt/akx_rt.c`, `akx_rt_builtins.c`, `akx_rt_compiler.c` | `rt->builtins`, `current_module_name`, compiled units, `module_data` | dispatch, `cjit-load-builtin`, hooks, reload, shutdown |
| Open files | `nucleus/fs` | handles bound in scopes, `global_next_fid` | `fs/open`, `close`, `read`, `write`, `seek`, `tell` |
| Program and prompt | `cmd/akx`, `pkg/repl`, `pkg/core` | `keep_running`, `signal_count`, `g_core`, `g_runtime`, the line buffer | start, script, loop, signal handlers, shutdown |
| Reader | `pkg/cell/akx_cell.c` | none (a scanner position) | `akx_cell_parse_buffer` and its parts, `akx_cell_unwrap_quoted` |
| Cells | `pkg/cell`, `nucleus/core/{cons,car,cdr}.c` | the heap of cells | alloc, clone, free, list operations |
| Nested scripts | `nucleus/akx/exec.c`, `nucleus/core/import.c`, `nucleus/os/args.c` | `script_argc`, `script_argv` | `akx/exec`, `import`, `os/args` |
| Strict builtins | `nucleus/{math,cmp,logic,str,types,assert}` | none | evaluate the arguments, compute |
| I/O and commands | `nucleus/{io,os}`, rest of `nucleus/fs`, `pkg/sv`, `cmd/akx/nucleus_*.c` | none | one library call each, or printing |
| ak24 (external) | not in the repository | contexts, lambdas, maps, scanner, JIT | used through its headers |

How they interact. The program reads a file or an entry with the reader and gives each cell to
`akx_rt_eval`. That looks the head up in the registry and calls a C function, which calls
`akx_rt_eval` for the arguments it wants: evaluator, registry and builtins call each other on
one C stack. Scopes are shared state: lambdas and loops push and pop them, `let` and `set`
write them, and `fs` keeps its handles in them. `current_module_name` is shared by everything
that runs. Signals interleave with the main thread and share `keep_running` and
`signal_count`; nothing else is concurrent and nothing is persisted, so there are no messages,
no locks and no crash recovery.

What is hard, and what has to hold:

* **Early returns.** Any builtin may fail between a push and a pop, below any other. Scopes
  must be balanced (`ScopesBalanced`), failures must have a cause (`FailuresHaveACause`).
* **The trampoline.** A tail call returns a continuation through a field of the lambda, pops
  the scope and starts over. Direct tail calls must not use the C stack
  (`TailCallsReplaceCaller`), and the chain must see only legal operations
  (`KeepsScopeDiscipline`).
* **Reentrancy of the registry.** Hooks and arguments load modules while older versions are at
  work. A unit must have one owner (`UnitsHaveOneOwner`), the state of a module must be its own
  (`StatesArePrivate`, `CurrentIsRunning`) and survive a reload (`ReloadKeepsState`,
  `VersionsHandOver`).
* **Handles in scopes.** An ID crosses scopes, its binding does not
  (`FidNamesItsFile`, `CloseWhereOpenedIsFinal`).
* **One position, many readers.** Reads by line, by bytes, writes and seeks share the position
  of a file; lines are collected in a buffer that grows (`ReadsAskedLines`, `ResultFits`).
* **Chains behind values.** A clone carries the rest of its list along, and builtins have to
  cut it where one value is meant (`ImplementsListValues`, and `IterMapsItems`, which fails).
* **Signals at any point** of start, prompt and shutdown (`LateLinesAreDropped`,
  `EvaluatesEntriesOnce`, `RuntimeWithinCore`, `EndOfInputEndsProgram`, `StopEndsLoop`).
* **Files inside files.** `akx/exec` swaps the script arguments of the runtime, at any depth
  and with many exits (`ScriptSeesItsArguments`, `ArgumentsHeldExactly`).
* **Two views of brackets.** The prompt counts them, the reader nests them
  (`LoopWaitsForLists`), and a list is read as a text of its own
  (`ReadsWhatIsMeant`, `NothingIsLostSilently`, `QuotesReadBack`).

`PROJECT.json` lists every hazard with its line.

## 2. The modules

| Module | Models | |
|---|---|---|
| `ScopeChain` | what the runtime promises about scopes | abstract specification, instantiated by `Evaluator` and `FsHandles` |
| `Evaluator` | the evaluator, the trampoline, the control forms | implements `ScopeChain` |
| `BuiltinRegistry` | dispatch, loader, hooks, module state, shutdown | |
| `FsHandles` | the operations on open files: handles, IDs, bindings | keeps its handles in a `ScopeChain` |
| `FileReads` | the same operations on one file: text, position, line buffer | |
| `Scripts` | `akx/exec`, `import`, `os/args` | its actions are steps of an evaluation in `Session` |
| `Session` | program, signals, prompt | EXTENDS `Scripts` |
| `ListValues` | what a program may expect of values, names and lists | abstract specification |
| `CellChains` | the cells behind them, with what follows each | implements `ListValues` |
| `Reader` | the parser, the balance test of the prompt | |
| `MCEvaluator`, `MCBuiltinRegistry`, `MCCellChains` | constants for TLC | |
| `StackFacts` | lemmas on sequences, and what stands in for induction on numbers | |
| `EvaluatorProofs`, `BuiltinRegistryProofs`, `FsHandlesProofs`, `FileReadsProofs`, `SessionProofs`, `CellChainsProofs`, `ReaderProofs` | theorems | |

**Evaluator.** `stack` is the C stack: one frame per activation that waits for the value of a
subexpression, with its kind (`call` is `akx_lambda_invoke_impl` under the trampoline, `head`
is `akx_rt_eval` on a list whose head is no symbol, `strict` any builtin that evaluates its
arguments in order, the rest are the forms) and how far it is. `ret` is the value handed up:
`Pending` while an expression has yet to be evaluated, `Fail` for NULL. The expression is an
input: in state `Pending` every action for every kind of expression is enabled, so the
behaviours together are those of all programs. `TailFrame` says when `akx_rt_eval_tail` is
used. `dangling` holds the lambdas whose `result` field points to a cell given away: the
trampoline may then read anything (`CallFailsStale`). `causes` is a history variable, emptied
at each top-level form, and `base` in a frame is one too; neither is in the code. A cell is a
lambda, the integer 1 (what `if` and `loop` take for true) or another datum; the data a strict
builtin computes is any datum. Actions are named after what the code does at that point:
`BindParam`, `BodyNext`, `CallReturns`, `CallFails` are the parts of
`akx_lambda_invoke_impl`; `LoopIterates`, `LoopBodyNext`, `LoopBodyFails`, `LoopEnds` those of
`loop_impl`, and so on.

**BuiltinRegistry.** `table` is `rt->builtins` with the unit and `module_data` of each entry;
a frame is a builtin, a loader or a hook at work. The code in units is written by users: it may
dispatch, load and set state whenever it runs. `BeginReload` is `akx_rt_register_builtin` up
to the hook, `Swap` from there on; between them anything may happen that a hook can do.
Functions whose unit is freed take no further step, since what they do is undefined.
`Compile` is the part of `akx_compiler_load_builtin_ex` that yields a unit; where it gives up,
it frees what it began (`LoadFails`). Three variables are history: `closed` and `handed`, the
units whose deinit hook was called or whose state a reload hook was given, and `elders`, the
units each unit was compiled after. Assumptions: at shutdown deinit hooks evaluate nothing; the
loader itself is not replaced.

**FsHandles.** A handle stands for its file; `fid[h]` is the ID a program keeps for it. `last`
is the file the last operation meant and the handle it got. The counter starts anew when the
unit of `fs/open` is reloaded. A lookup stops at the innermost scope that binds the key, even
if it binds it to NULL. After a use of freed memory no step is taken. `inside` is a history
variable: the handles closed while another scope than theirs was current.

**FileReads.** `text` and `pos` are the file behind one handle. A step is one call of a builtin
or one turn of a loop of `fs/read`: `Begins` is what comes before the loop, `LinesTurn` and
`RangeTurn` the two loops with their tests, `Takes` and `Grown` the copying into `result_str`.
`fgets` (`PieceEnd`, `Piece`), `fread` and `fwrite` are external. `read` remembers what was
asked until the next operation that changes the text; after a finished read `got` is its
result. `BufferSize` is `READ_BUFFER_SIZE`.

**Session and Scripts.** The main thread is a program counter; signal handlers are actions
enabled once they are registered. An evaluation is any number of steps, and any of them may be
one of `Scripts`: `work` is the stack of files at work, each `akx/exec` with the stage it is at
(evaluating its path, its arguments, the forms of the file), the array it has built and the
arguments it will put back. A file may start another at every stage. `strings` is the set of
allocated arguments, and says nothing of their text. An array is an address taken from
`Arrays`, free when none of its slots is allocated. The two stores with which the loop resets
its flags are two steps, `ResetCount` and `ResetFlag`. Of the lines typed at the prompt one,
any, is the marked one, and `text` says which kinds of lines the buffer holds. What the balance
test answers after a line (`balanced`) is left open, so what is checked holds whatever the test
is; the test itself is in `Reader`. `late` is a history variable, and so is `fate`, what became
of the marked line.

**CellChains.** A chain is a cell and those its `next` leads to. Programs are stack machines:
each action is an expression or a builtin after its arguments were evaluated, so `stack` holds
the chains that C functions hold in local variables, and a frame of `iter_list` lies there
while a lambda works on an item. `EvalLiteral` is where chains come from: the clone of a
literal has the arguments written after it in tow. `SplitParts`, `ScriptArguments` and
`DirectoryEntries` are the builtins that return a row of cells. The refinement takes the first
cell of each chain; for a frame of `iter_list`, the cells up to `result_tail`. Quoted text,
atoms and lists of other brackets are members of `Items`.

**Reader.** Texts are sequences of tokens. The parse functions are operators named after the C
functions, and return what these leave: cell, scanner position and errors. `Parser` ties the
recursion: for each position and end of the buffer it holds what `parse_argument` and the three
loops (items of a list, arguments of a line, expressions of a buffer) return there.
`ak_scanner_find_group` and `skip_whitespace_and_comments` are external and modelled from
their use. What a text *means* is defined independently, by a reader that takes one token
after the other with a stack of open lists. Texts grow as they are typed: by a token (`Write`),
by the closing quote of a string that was open (`"str..."`, `EndString`), or by a comment with a
bracket in it (`Comment`), of which `noted` keeps the bracket and `text` the line break, since the
reader skips comments and the prompt does not. Comments with brackets stand where no group is
open, and brackets inside strings and quotes in comments are left out: whether the scanner skips
them when it looks for the end of a group is decided in ak24, not here.

## 3. Runs

Passing runs:

| Run | Bounds | States | Shows |
|---|---|---|---|
| `MCEvaluator` | lambdas `f` (one parameter, one expression) and `g` (none, two), one name, C stack of 4 | 2,472,908 | `TypeOK`, `ScopesBalanced`, `FailuresHaveACause`, `TailCallsReplaceCaller`; refinement `KeepsScopeDiscipline` |
| `MCBuiltinRegistry` | a linked-in and a loadable module, three units with no hooks, init and deinit, or all; nesting of 4 | 326,836 | `TypeOK`, `UnitsHaveOneOwner`, `StatesArePrivate`, `CurrentIsRunning`, `ReloadKeepsState`, `VersionsHandOver` |
| `MCFsHandles` | 3 files, 3 scopes, one reload | 276,237 | `TypeOK`, `FidNamesItsFile`, `CloseWhereOpenedIsFinal` |
| `MCFileReads` | all texts of up to 6 characters, `fgets` with a buffer of 3, numbers up to 3 | 123,279 | `TypeOK`, `ResultFits`, `ReadsAskedLines` |
| `MCSession` | 3 interrupts, 3 files at work, 2 arguments each | 517,833 | `TypeOK`, `EvaluatesEntriesOnce`, `LateLinesAreDropped`, `RuntimeWithinCore`, `ScriptSeesItsArguments`, `ArgumentsHeldExactly`, `EndOfInputEndsProgram`, `StopEndsLoop` |
| `MCReader` | all texts of up to 6 of 10 tokens, up to 2 comments with a bracket | 1,259,989 | `ReadsWhatIsMeant`, `NothingIsLostSilently`, `LoopWaitsForLists`, `QuotesReadBack` |
| `MCCellChains` | one name, items: an atom, nil, a list; lists of 2, stack of 3 | 1,986,114 | `TypeOK`; refinement `ImplementsListValues` |

Runs that find what a document or comment of the repository rules out:

| Run | Property | What the code does |
|---|---|---|
| `EvalTailIf` | `TailCallsInIfReplaceCaller` | `if` evaluates its branch with `akx_rt_eval` (`nucleus/core/if.c:31`): the countdown of the README grows the C stack |
| `EvalArguments` | `ArgumentsSeeCallerNames` | arguments are evaluated in the scope of the callee, one after the other (`nucleus/core/lambda.c:33`); `tests/42_tail_call_optimization.expect` records the wrong sum 499475 for 500525 |
| `EvalStaleResult` | `TrampolineReadsOwnResult` | after a failure the trampoline reads the result field of an earlier activation (`akx_rt.c:791`) |
| `RegistryRunningCode` | `RunningCodeStays` | a reload frees the unit of a function that is at work (`akx_rt.c:892`) |
| `ChainsIter` | `IterMapsItems` | `iter` keeps the cells that follow the last result (`nucleus/iter/iter.c:44`): `(iter '(1) (lambda [n] (if 1 2 3)))` gives `(2 3)` |

Met while modelling, in the models, and not given a run of their own:

* `global_next_fid` is static in each unit (`fs_handles_internal.h:13`), so after a reload of
  `fs/open` IDs are given out again, although `nucleus/fs/module.md:142-143` says they are
  never reused. `FidNamesItsFile` is therefore stated for `reloads = 0`.
* `fs/close` unbinds the key in the current scope only (`nucleus/fs/close.c:67`): after a close
  in an inner scope the freed handle is found again. `CloseWhereOpenedIsFinal` speaks of the
  other files.
* SIGTERM announces a shutdown (`cmd/akx/main.c:33-34`), but an evaluation never looks at
  `keep_running`, and script mode never does. `StopEndsLoop` assumes that evaluations end.
* `fs/read` counts pieces of 4095 characters as lines; `ReadsAskedLines` asks for shorter ones.
* A file `akx/exec` cannot read counts as one without forms, and so as a success
  (`akx_cell.c:650`, `exec.c:172`).
* `os/args` returns the first of a row of cells, not the list of `README.md:291`.
* A reload hook may load the very module it is called for. When it returns, the outer reload
  stores its own, older unit and frees the newer one (`akx_rt.c:892`), whose deinit hook is not
  called; what it left in `module_data` falls to a version that was given an earlier state.
  `VersionsHandOver` names this case, which the run reaches, and covers every other one.
* `repl_buffer_is_balanced` keeps track of strings but ignores at the end that one is open
  (`repl_buffer.c:131`): `println "abc` is submitted at once, and the reader complains of an
  unterminated string (`akx_cell.c:222`). And it counts the brackets in comments: a complete
  entry with `; :(` behind it waits. No document speaks of either; `LoopWaitsForLists` says
  exactly when the loop submits.

Why the bounds are enough. *Evaluator*: a stack of four holds the top level, a lambda, a form
or another activation of the same lambda inside it, and a failing or tail calling expression
in that: every pair and triple of kinds nests. Two lambdas are needed for tail calls between
different ones, one name for shadowing between two scopes; `EvalArguments` uses two
parameters, since it is about the second. The stack bound only limits pushes; replacing and
popping is never blocked. *Registry*: a reload nested in a hook of a reload of the same name
takes two frames for each, and every unit can be the old, the new or the intermediate version.
*Files*: two scopes below the global one let a handle be opened, used and closed in three
different places; a third file lets one be opened between the two operations on another. *FileReads*: a
buffer of three makes pieces of two, so a text of six is one line of three pieces, or several
shorter lines, and the buffer doubles once and then again. *Session*: the second interrupt is
the last that changes anything, and a third may come before the flags are reset; with three files one is started by an argument of another that
is inside a third, and three arrays are the most they can hold. *CellChains*: three entries
are a frame of `iter` below the two arguments of `cons`; a list of two in which one item is a
list again has every shape `cons`, `car` and `cdr` tell apart.
*Reader*: six tokens suffice for two kinds of brackets to nest, follow each other and cross,
with a quote, a line break or an open string at every place; with two comments, one can make up
for the bracket of the other.
`CHECK_DEADLOCK FALSE` is set where the system stops: the program exits, all units or files
are used up, undefined behaviour was reached, or the text has its full length. The evaluator,
the file reads and the cell chains never stop within their bounds, and their runs check for
deadlock.

**Fairness.** Only `Session` has liveness properties. `WF_vars(Main)` says that the main
thread is scheduled; it is one thread and always has a step of its own except at the prompt.
No fairness is assumed of `ReadLine` (the user), of signals, or of the end of an evaluation:
`EvalWorks` satisfies the fairness for ever. So `EndOfInputEndsProgram` starts where linenoise
has returned, and `StopEndsLoop` says in its own text what it needs: that the loop leaves
evaluations and the prompt again and again.

**Mutants.** Each property of a passing run has a mutated definition next to the original (for
example `LoopBodyFailsNoPop`, the early return without `akx_rt_pop_scope`) under which TLC
finds the property violated.

## 4. Proofs

TLAPS proves the following for all values of the constants, under the named assumptions of the
modules alone (`ConstantsOK`, `RegistryConstants`, `FsConstants`, `ReadConstants`,
`ScriptConstants`, `SessionConstants`, `ChainConstants`; TLC evaluates each in a run). No bound
of section 3 is used but as a natural number. `StackFacts` holds what the proofs need about
sequences, and `Least`, `Upward` and `Downward`, by which a fact passes along an interval of
numbers: they stand in for the induction theorems of the library, which no installed prover can
instantiate.

**The evaluator** (`EvaluatorProofs`), for all sets of names, lambdas and
data, all parameter lists and bodies, and every `MaxStack`:

* `Invariant`: `Spec => []Inv`. `Inv` is `TypeOK` and `ScopesBalanced`. Neither is inductive
  alone: that a pop leaves at least the global scope (`TypeOK`: the chain is not empty) follows
  from the balance, and the balance needs the types of frames. Balance is stated over
  neighbouring frames: the base of a frame is the depth its caller had reached. A step
  therefore only has to be checked against the frame at the top. The proof first classifies
  what a step does to the stack (keep, pop, push, replace the last frame), and then has one
  case for each group of actions. `TypeCorrect` and `ScopesAlwaysBalanced` are its two halves.
* `FailuresAlwaysHaveACause`: by induction over steps with `Inv`.
* `TailCallsAlwaysReplaceCaller`: a frame above a tail frame is never a call. It needs the
  types, since `TailFrame` compares the counter of a frame with the length of a body.
* `ImplementsScopeChain`: initial states map to initial states of `ScopeChain`, and each
  action to a step or a stutter of it; a pop maps to `Leave` because balance keeps two scopes
  whenever a frame holds one.

**The registry** (`BuiltinRegistryProofs`), for all modules, units and hooks and every depth:

* `Invariant`. `Inv` adds to the checked invariants what lies between the frames: a hook sits on
  the loader that called it (`FrameOK`), entries and waiting loaders hold compiled units, at
  shutdown one deinit hook runs at a time (`Stops`), the loader is current only outside of a
  reload. The heart is `SwapReady`: of a loader that waits, the unit it will replace has
  no deinit hook, had it called or its state given to a reload hook, or is younger than the unit
  the loader brings. Hooks may load the same module while the loader waits, so this has to be
  kept by every load above it, which needs `Ages`: of two loaders that wait, the one further
  down brings the older unit. Owners are restated as two relations, `Stored` and `Waiting`,
  so that each step only says which pair it takes away and which it adds.
* `TypeCorrect`, `OneOwner`, `CurrentModule`, `PrivateStates`: the parts of `Inv` that runs check.
* `StateSurvivesReload`, `HandOver`: the two action properties, from `Inv` in the state before.

**Open files** (`FsHandlesProofs`), for any number of files, scopes and reloads:

* `Invariant`. `Inv` adds to the checked invariants that a scope binds a handle under its own ID
  only (`Bindings`), that no handle is bound in two scopes (`BoundOnce`), so closing it in the
  scope that binds it is final, and that without a reload the counter is past every ID given
  out and no two are the same (`Counted`), so what a key leads to is the file meant.
* `TypeCorrect`, `IdsNameTheirFile`, `ClosedWhereOpened` follow.

**File reads** (`FileReadsProofs`), for every text, every buffer size above one and every
sequence of operations: `Invariant` is `TypeOK`, `ResultFits` and that the capacity never falls
below `BufferSize`. One doubling is enough because a piece is shorter than `BufferSize`
(`PieceEndFacts`, which also shows that the `CHOOSE` of `PieceEnd` has a witness) and the buffer
was at least that large. `TypeCorrect`, `BufferSuffices` follow. `AskedLinesAreRead`:
`ReadsAskedLines` speaks of a finished read only; its invariant `Progress` says at every turn
of a loop that `got` is, in order, what was asked for of the text between the start of the read
and `pos`, that a line begins at `pos`, and that the loop's counter is the number of this line.
The step is `TurnProgresses`: since no line is longer than a piece, a piece is one line, and
all of it was asked for or none. `Holds` counts positions, so the proof is about cardinalities
of sets of positions.

**The program** (`SessionProofs`), for every number of arguments, arrays, nested files and
interrupts, and whatever the balance test answers:

* `InductiveInvariant` has two parts. `MainThread` says for each place of the main thread what the
  flags, the buffer, the runtime and the core may be: `LateLinesAreDropped`, for instance,
  needs that a line that reached the balance test was not late, and `EvaluatesEntriesOnce`
  (`Marked`) that a submitted line is in the buffer only while its entry is evaluated. `FilesAtWork` says of the files
  at work that each `akx/exec` that runs its forms has saved exactly what was in force below it
  (`Restores`), that no two share an array (`Distinct`), and that what is allocated is what they
  hold (`Keeps`); it is shown of the steps of `Scripts` alone, whatever the evaluation began with.
* `TypeInvariant`, `EntriesOnce`, `LateLines`, `OwnersNest`, `OwnArguments`, `ArgumentsHeld` follow.

**Cells** (`CellChainsProofs`), for all items, names, arguments and bounds: `TypeInvariant`, which
is inductive (`result_tail` is among the cells linked), and `Refinement`, `Spec =>
ImplementsListValues`: with the invariant every action maps to the action of `ListValues` of the
same name or, for the ways to write an expression, to `Write`.

**The reader** (`ReaderProofs`), for texts of every length over any of the tokens. The state is
a text and the brackets of its comments, so the four theorems are about functions of a text, and the work is to relate
two recursive definitions: the calls of the parser, which find a group by counting brackets of
one kind and read it as a text of its own, and the meaning `OpenLists`, which takes one token
after the other and keeps a stack of open lists.

* `ParserIs`, `OpenListsIs`: both recursions have a solution. A call of the parser at a place
  depends on later places only, because the scanner never goes back and goes on with every
  cell (`Goes`).
* `Balance`: as long as nothing below some depth is closed, the brackets of a kind that lack
  their partner are as many as the open lists of this kind above the depth. Hence `GroupClosed`:
  where counting finds the end of a group, the list that the group began is the innermost one,
  whatever other brackets stand between, if every token has a place.
* `AllReads`: a call of `parse_argument` that sees the text up to place `e` ends in one of four
  ways: it returns a cell where the meaning has added this very cell to the innermost list
  (`Completes`), it complains and something is unfinished at `e` (`Breaks`), there was nothing
  but line breaks (`FindsNone`), or a closing bracket (`FindsClosing`); the items of a bracket are the
  cells of its list. `AllLines` and `AllTexts` say the same of lines and whole texts, where a
  text that is complained about is not well formed (`Broken`).
* `TextsAreReadAsMeant`, `TextIsNotLostSilently` follow. `LoopSubmitsClosedLists` adds
  `OpenBrackets`: at every place the brackets of a kind that lack their partner are the open
  lists of that kind. That a text with no open list misses no bracket, and is complained about
  exactly for an open string, is part of `AllReads` again: a call that stops with "unterminated"
  leaves a bracket open, and nothing is read behind an open string, which is the last token.
* `QuotesAreReadBack` needs no meaning: `AllEndEarly` says that a cell stays the same when the
  text is cut off behind it, `AllShift` that a part of a text is read the same where it stands
  alone.

Only model-checked: the liveness properties `EndOfInputEndsProgram` and `StopEndsLoop`, since the
prover has no rule for fairness here, and the violations. Every other property of a passing
run is stated by a theorem.

## 5. Not modelled, and why

* Ownership of cells: which cell is freed when, leaks, and the aliasing of lambda cells, which
  are shared where other cells are cloned. `CellChains` has values and their neighbours but no
  addresses; a heap in which any C function may free any cell would be as long as the code.
  Hazards at `let.c:11`, `akx_rt.c:506` and `akx_rt.c:654` stay without a property.
* Integer width, truncation in `atoi`, undefined arithmetic: single operations without state.
* In `FileReads`: positions behind the end of a file, NUL characters, modes that forbid reading
  or writing, and switching between the two without a seek, which C leaves undefined.
* Options of the compiler (`akx_rt_compiler.c` hands them to ak24), `io/putf` and `io/scanf`,
  history, colours, source locations, `nucleus` commands, error display: formatting, and no
  state that a property is about.
* Failing allocations: every path for them frees and returns, and no test build can take them
  one by one; the double free of `g_core` after a failed `akx_runtime_init` (`main.c:88`) is
  noted as a hazard only.

## 6. What could follow

1. A heap of lambda cells and their owners, for the three hazards above, restricted to the
   calls that pass lambdas around: `let`, `set`, `cons`, a call by name and of an anonymous head.
2. `Evaluator` and `Scripts` together: `akx/exec` as a form of the evaluator, so that the
   arguments are restored when a failure unwinds several files at once.
