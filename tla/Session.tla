------------------------------- MODULE Session -------------------------------
(***************************************************************************)
(* The akx program: app_main and the signal handlers of cmd/akx/main.c,    *)
(* the interpreter of a file (cmd/akx/akx.c) and the read-eval-print loop  *)
(* of pkg/repl.  The main thread is a sequence of steps; a signal may be   *)
(* handled between any two of them once the handlers are registered, and   *)
(* all a handler shares with the loop are keep_running and signal_count.   *)
(*                                                                         *)
(* Evaluating a program or an entry takes any number of steps, perhaps     *)
(* without end.  Of the lines typed at the prompt one, any, is marked, and *)
(* what the balance test says of the buffer after a line is left open: the *)
(* test itself is in Reader.  Failures to allocate memory are left out.    *)
(***************************************************************************)
EXTENDS Scripts

CONSTANT
  MaxSignals   \* bound on signal_count

ASSUME SessionConstants == MaxSignals \in Nat

VARIABLES
  pc,            \* where the main thread is
  keepRunning,   \* keep_running
  signalCount,   \* signal_count
  line,          \* what linenoise returned last
  late,          \* keep_running was already 0 when it returned
  text,          \* the lines in the buffer: the marked one, others
  balanced,      \* what repl_buffer_is_balanced says of the buffer
  fate,          \* history: what became of the marked line
  busy,          \* flips while the evaluator works
  runtime, core  \* g_runtime and g_core

vars == <<pc, keepRunning, signalCount, line, late, text, balanced, fate, busy,
          runtime, core, scripts>>

buffer == <<text, balanced>>

entry == <<line, late, buffer, fate>>

flags == <<keepRunning, signalCount>>

owned == <<runtime, core>>

Places == {"core", "runtime", "handlers", "mode", "repl", "repl_flag", "prelude",
           "check", "prompt", "line", "balance", "eval", "leave", "script", "shutdown",
           "core_left", "down", "aborted"}

(* A line may be empty; the end of the input is NULL.                      *)
Lines == {"text", "blank"}

Goto(p) == pc' = p

Init ==
  /\ pc = "core"
  /\ keepRunning = 1 /\ signalCount = 0
  /\ line = "blank" /\ late = FALSE
  /\ text = {} /\ balanced = TRUE /\ fate = "untyped"
  /\ busy = FALSE
  /\ runtime = "none" /\ core = "none"
  /\ NoScripts

-----------------------------------------------------------------------------
(***************************************************************************)
(* Start and end of the program.                                           *)
(***************************************************************************)

(* Mutant of InitCore: the program goes on when the self-test failed.      *)
InitCoreUnchecked ==
  /\ pc = "core"
  /\ core' \in {"live", "none"}
  /\ Goto("runtime")
  /\ UNCHANGED <<runtime, scripts, flags, entry, busy>>

(* The self-test of the JIT compiler in akx_core_init may fail.            *)
InitCore ==
  /\ pc = "core"
  /\ \/ core' = "live" /\ Goto("runtime")
     \/ core' = "none" /\ Goto("shutdown")
  /\ UNCHANGED <<runtime, scripts, flags, entry, busy>>

InitRuntime ==
  /\ pc = "runtime"
  /\ runtime' = "live"
  /\ Goto("handlers")
  /\ UNCHANGED <<core, scripts, flags, entry, busy>>

RegisterHandlers ==
  /\ pc = "handlers"
  /\ Goto("mode")
  /\ UNCHANGED <<owned, scripts, flags, entry, busy>>

(* No argument starts the loop, a file name the interpreter, and anything  *)
(* else a command that only prints.                                        *)
ChooseMode ==
  /\ pc = "mode"
  /\ \/ \E p \in {"repl", "shutdown"} : Goto(p) /\ UNCHANGED scripts
     \/ Goto("script") /\ SetMainArgs
  /\ UNCHANGED <<owned, flags, entry, busy>>

DeinitRuntime ==
  /\ pc = "shutdown"
  /\ runtime' = IF runtime = "live" THEN "freed" ELSE runtime
  /\ Goto("core_left")
  /\ UNCHANGED <<core, scripts, flags, entry, busy>>

DeinitCore ==
  /\ pc = "core_left"
  /\ core' = IF core = "live" THEN "freed" ELSE core
  /\ Goto("down")
  /\ UNCHANGED <<runtime, scripts, flags, entry, busy>>

-----------------------------------------------------------------------------
(***************************************************************************)
(* The evaluator at work, on a file, on ~/.akx/repl.akx or on an entry.    *)
(***************************************************************************)
Evaluating == pc \in {"script", "prelude", "eval"}

EvalWorks ==
  /\ Evaluating
  /\ \/ busy' = ~busy /\ UNCHANGED scripts
     \/ ScriptStep /\ UNCHANGED busy
  /\ UNCHANGED <<pc, owned, flags, entry>>

(* The file was evaluated, or could not be read or parsed.  The runtime    *)
(* keeps the pointer to the array of the program, which is freed.          *)
ScriptEnds ==
  /\ pc = "script" /\ work = <<>>
  /\ FreeMainArgs
  /\ Goto("shutdown")
  /\ UNCHANGED <<owned, flags, entry, busy>>

PreludeEnds ==
  /\ pc = "prelude" /\ work = <<>>
  /\ Goto("check")
  /\ UNCHANGED <<owned, scripts, flags, entry, busy>>

(* Mutant of Cleared: the buffer keeps the text it handed to the parser.   *)
ClearedNever == UNCHANGED buffer

(* repl_buffer_clear.                                                      *)
Cleared == text' = {} /\ balanced' = TRUE

(* Mutant of EntryEnds: a stop meant for the entry goes with it.           *)
EntryEndsForgiving ==
  /\ pc = "eval" /\ work = <<>>
  /\ Cleared
  /\ keepRunning' = 1
  /\ Goto("check")
  /\ UNCHANGED <<owned, scripts, signalCount, line, late, fate, busy>>

(* The entry was evaluated, or had a parse error.                          *)
EntryEnds ==
  /\ pc = "eval" /\ work = <<>>
  /\ Cleared
  /\ Goto("check")
  /\ UNCHANGED <<owned, scripts, flags, line, late, fate, busy>>

-----------------------------------------------------------------------------
(***************************************************************************)
(* The loop of akx_repl_start.                                             *)
(***************************************************************************)

(* Interrupts counted since the handlers were registered are forgotten,    *)
(* and then a stop request: two stores, a signal may come between them.    *)
ResetCount ==
  /\ pc = "repl"
  /\ signalCount' = 0
  /\ Goto("repl_flag")
  /\ UNCHANGED <<keepRunning, owned, scripts, entry, busy>>

ResetFlag ==
  /\ pc = "repl_flag"
  /\ keepRunning' = 1
  /\ Goto("prelude")
  /\ UNCHANGED <<signalCount, owned, scripts, entry, busy>>

CheckRunning ==
  /\ pc = "check"
  /\ Goto(IF keepRunning = 1 THEN "prompt" ELSE "leave")
  /\ UNCHANGED <<owned, scripts, flags, entry, busy>>

(* linenoise returns a line or, at the end of the input, NULL.             *)
ReadLine ==
  /\ pc = "prompt"
  /\ line' \in Lines \cup {"eof"}
  /\ late' = (keepRunning = 0)
  /\ Goto("line")
  /\ UNCHANGED <<owned, scripts, flags, buffer, fate, busy>>

(* Mutants of Breaks: keep_running is not looked at again, or the end of   *)
(* the input is taken for a line.                                          *)
BreaksAtEof == line = "eof"

BreaksWhenStopped == keepRunning = 0

Breaks == line = "eof" \/ keepRunning = 0

LeaveLoop ==
  /\ pc = "line"
  /\ Breaks
  /\ Goto("leave")
  /\ UNCHANGED <<owned, scripts, flags, entry, busy>>

SkipLine ==
  /\ pc = "line"
  /\ ~Breaks
  /\ line = "blank" /\ text = {}
  /\ Goto("check")
  /\ UNCHANGED <<owned, scripts, flags, entry, busy>>

(* A line is added to the buffer, with an end of line; it is the marked    *)
(* one or another.                                                         *)
AppendLine(l) ==
  /\ l = "marked" => fate = "untyped"
  /\ fate' = IF l = "marked" THEN "typed" ELSE fate
  /\ text' = text \cup {l}
  /\ balanced' \in BOOLEAN

(* A blank line adds nothing to the buffer but is checked like any other.  *)
TakeLine ==
  /\ pc = "line"
  /\ ~Breaks
  /\ \/ line = "blank" /\ text # {} /\ UNCHANGED <<buffer, fate>>
     \/ line = "text" /\ \E l \in {"marked", "other"} : AppendLine(l)
  /\ Goto("balance")
  /\ UNCHANGED <<owned, scripts, flags, line, late, busy>>

(* The whole buffer is handed to the parser, and the marked line with it.  *)
Submit ==
  /\ Goto("eval")
  /\ fate' = CASE "marked" \notin text -> fate
               [] fate = "typed" -> "submitted"
               [] OTHER -> "again"

CheckBalance ==
  /\ pc = "balance"
  /\ \/ balanced /\ text # {} /\ Submit
     \/ ~(balanced /\ text # {}) /\ Goto("check") /\ UNCHANGED fate
  /\ UNCHANGED <<owned, scripts, flags, line, late, buffer, busy>>

(* The history is saved and the buffer freed, with what was not submitted. *)
LeaveRepl ==
  /\ pc = "leave"
  /\ Cleared
  /\ Goto("shutdown")
  /\ UNCHANGED <<owned, scripts, flags, line, late, fate, busy>>

-----------------------------------------------------------------------------
(***************************************************************************)
(* Signals.                                                                *)
(***************************************************************************)
Handled == pc \notin {"core", "runtime", "handlers", "down", "aborted"}

(* Mutant of HandleSigint: the second interrupt takes one off the flag.    *)
HandleSigintCounts ==
  /\ Handled
  /\ signalCount < MaxSignals
  /\ signalCount' = signalCount + 1
  /\ keepRunning' = IF signalCount' >= 2 THEN keepRunning - 1 ELSE keepRunning
  /\ UNCHANGED <<pc, owned, scripts, entry, busy>>

HandleSigint ==
  /\ Handled
  /\ signalCount < MaxSignals
  /\ signalCount' = signalCount + 1
  /\ keepRunning' = IF signalCount' >= 2 THEN 0 ELSE keepRunning
  /\ UNCHANGED <<pc, owned, scripts, entry, busy>>

HandleSigterm ==
  /\ Handled
  /\ keepRunning' = 0
  /\ UNCHANGED <<pc, signalCount, owned, scripts, entry, busy>>

(* _exit: nothing is shut down.                                            *)
HandleSigabrt ==
  /\ Handled
  /\ Goto("aborted")
  /\ UNCHANGED <<owned, scripts, flags, entry, busy>>

-----------------------------------------------------------------------------

(* The steps of the main thread that need no user.                         *)
Main ==
  \/ InitCore \/ InitRuntime \/ RegisterHandlers \/ ChooseMode
  \/ EvalWorks \/ ScriptEnds \/ PreludeEnds \/ EntryEnds
  \/ ResetCount \/ ResetFlag \/ CheckRunning \/ LeaveLoop \/ SkipLine \/ TakeLine
  \/ CheckBalance \/ LeaveRepl
  \/ DeinitRuntime \/ DeinitCore

Next == Main \/ ReadLine \/ HandleSigint \/ HandleSigterm \/ HandleSigabrt

(* The main thread is not starved.  Nothing is assumed of the user, of     *)
(* signals or of the length of an evaluation.                              *)
Spec == Init /\ [][Next]_vars /\ WF_vars(Main)

-----------------------------------------------------------------------------
(***************************************************************************)
(* Properties.                                                             *)
(***************************************************************************)

(* Every variable has its type.                                            *)
TypeOK ==
  /\ pc \in Places
  /\ keepRunning \in {0, 1} /\ signalCount \in 0..MaxSignals
  /\ late \in BOOLEAN /\ busy \in BOOLEAN
  /\ line \in Lines \cup {"eof"}
  /\ text \subseteq {"marked", "other"} /\ balanced \in BOOLEAN
  /\ fate \in {"untyped", "typed", "submitted", "again"}
  /\ runtime \in {"none", "live", "freed"} /\ core \in {"none", "live", "freed"}
  /\ ScriptsTypeOK

(* The loop was started and not left.                                      *)
InLoop == pc \in {"check", "prompt", "line", "balance", "eval", "prelude"}

(* A line the loop took is submitted with its entry and never again, and   *)
(* it waits in the buffer until then: whatever is typed, evaluated or      *)
(* signalled in between, only leaving the loop drops it.                   *)
EvaluatesEntriesOnce ==
  /\ fate # "again"
  /\ InLoop /\ fate = "typed" => "marked" \in text

(* A line that came after the program was told to stop is not evaluated,   *)
(* not even to complete an entry begun before.                             *)
LateLinesAreDropped == pc = "eval" => ~late

(* The evaluator never works without its runtime, and the runtime never    *)
(* outlives the core, on any way through start and shutdown.               *)
RuntimeWithinCore ==
  /\ Evaluating => runtime = "live"
  /\ runtime = "live" => core = "live"
  /\ pc = "down" => runtime # "live" /\ core # "live"

(* The arguments an evaluation began with: those of the program when it    *)
(* interprets a file, none in the loop.                                    *)
Base == IF pc = "script" THEN <<MainArgs, "main">> ELSE <<0, "none">>

(* os/args gives a file the arguments it was started with: those of the    *)
(* innermost akx/exec whose forms are evaluated, however the files it      *)
(* started before ended, and those of the program outside of any.          *)
ScriptSeesItsArguments == Evaluating => ArgumentsAt(work, Len(work), argc, argv, Base)

(* The arguments allocated are those of the files at work and of the       *)
(* program: nothing os/args reads was freed, and no exit of akx/exec and   *)
(* of the program forgets one.                                             *)
ArgumentsHeldExactly ==
  pc # "aborted" =>
    strings = Held(work) \cup (IF pc = "script" THEN Strings("main", MainArgs) ELSE {})

(* The end of the input, or a stop request that linenoise returns to,      *)
(* brings the program down: no path of the loop goes back to the prompt.   *)
EndOfInputEndsProgram ==
  (pc = "line" /\ (line = "eof" \/ keepRunning = 0)) ~> (pc \in {"down", "aborted"})

(* A stop requested while the loop runs ends the program, unless it waits  *)
(* for a line or evaluates for ever: neither the entry it is evaluating    *)
(* nor anything typed later makes it forget the request.                   *)
StopEndsLoop ==
  []<>(pc # "prompt" /\ ~Evaluating)
    => ((InLoop /\ keepRunning = 0) ~> (pc \in {"down", "aborted"}))

=============================================================================
