------------------------------- MODULE Scripts -------------------------------
(***************************************************************************)
(* Files evaluated from within a program: akx/exec and import, and the     *)
(* script arguments that os/args reads.  A file may start others while its *)
(* path, its arguments or its forms are evaluated.  akx/exec builds an     *)
(* argv array of its own, puts it into the runtime while the file is       *)
(* evaluated, and puts back what it found there.                           *)
(*                                                                         *)
(* What the forms of a file do beside this is left to Session.  Failures   *)
(* to allocate memory are left out.                                        *)
(***************************************************************************)
EXTENDS Integers, Sequences

CONSTANTS
  Arrays,      \* addresses of the argv arrays of akx/exec
  MainArgs,    \* the number of arguments of the program
  MaxArgs,     \* bound on script_argc
  MaxNesting   \* bound on the files at work

(* "none" is NULL, "main" the argv array of app_main.                      *)
ASSUME ScriptConstants ==
  /\ "none" \notin Arrays /\ "main" \notin Arrays
  /\ MaxArgs \in Nat \ {0} /\ MainArgs \in 1..MaxArgs /\ MaxNesting \in Nat

VARIABLES
  argc, argv,  \* script_argc and script_argv of the runtime
  strings,     \* the arguments allocated, <<array, index>>
  work         \* the files at work, the innermost last

scripts == <<argc, argv, strings, work>>

NoScripts == argc = 0 /\ argv = "none" /\ strings = {} /\ work = <<>>

Strings(a, n) == {<<a, i>> : i \in 0..(n - 1)}

(* app_main sets the arguments of the program, and frees the array when    *)
(* the program was interpreted.                                            *)
SetMainArgs ==
  /\ argc' = MainArgs /\ argv' = "main"
  /\ strings' = strings \cup Strings("main", MainArgs)
  /\ UNCHANGED work

FreeMainArgs ==
  /\ strings' = strings \ Strings("main", MainArgs)
  /\ UNCHANGED <<argc, argv, work>>

-----------------------------------------------------------------------------

(* A file at work: which builtin, how far it is, its argv array, how many  *)
(* arguments there will be and how many there are, and what to restore.    *)
File(kind) ==
  [kind |-> kind, stage |-> "path", argv |-> "none", argc |-> 0, filled |-> 0,
   savedArgc |-> 0, savedArgv |-> "none"]

Top == work[Len(work)]

Below == SubSeq(work, 1, Len(work) - 1)

At(kind, stage) == work # <<>> /\ Top.kind = kind /\ Top.stage = stage

Enter(kind) ==
  /\ Len(work) < MaxNesting
  /\ work' = Append(work, File(kind))
  /\ UNCHANGED <<argc, argv, strings>>

(* The path does not evaluate to a string.                                 *)
PathFails ==
  /\ At("exec", "path") \/ At("import", "path")
  /\ work' = Below
  /\ UNCHANGED <<argc, argv, strings>>

(* The array is made for the path and as many arguments as there are.      *)
ExecTakesPath ==
  /\ At("exec", "path")
  /\ \E a \in Arrays, n \in 1..MaxArgs :
       /\ \A i \in 0..(MaxArgs - 1) : <<a, i>> \notin strings
       /\ work' = [work EXCEPT ![Len(work)].stage = "args", ![Len(work)].argv = a,
                               ![Len(work)].argc = n, ![Len(work)].filled = 1]
       /\ strings' = strings \cup Strings(a, 1)
  /\ UNCHANGED <<argc, argv>>

ExecTakesArgument ==
  /\ At("exec", "args")
  /\ Top.filled < Top.argc
  /\ work' = [work EXCEPT ![Len(work)].filled = Top.filled + 1]
  /\ strings' = strings \cup {<<Top.argv, Top.filled>>}
  /\ UNCHANGED <<argc, argv>>

(* The arguments evaluated so far are freed.                               *)
ExecArgumentFails ==
  /\ At("exec", "args")
  /\ Top.filled < Top.argc
  /\ strings' = strings \ Strings(Top.argv, Top.filled)
  /\ work' = Below
  /\ UNCHANGED <<argc, argv>>

(* The file has forms to evaluate: the array becomes the script arguments. *)
ExecStarts ==
  /\ At("exec", "args")
  /\ Top.filled = Top.argc
  /\ work' = [work EXCEPT ![Len(work)].stage = "body", ![Len(work)].savedArgc = argc,
                          ![Len(work)].savedArgv = argv]
  /\ argc' = Top.argc /\ argv' = Top.argv
  /\ UNCHANGED strings

(* The file has parse errors, or no forms; a file that cannot be read      *)
(* counts as one without forms.  The arguments were set and set back.      *)
ExecHasNoForms ==
  /\ At("exec", "args")
  /\ Top.filled = Top.argc
  /\ strings' = strings \ Strings(Top.argv, Top.argc)
  /\ work' = Below
  /\ UNCHANGED <<argc, argv>>

(* Mutants of ExecEnds: an exit that forgets to restore the arguments, and *)
(* one that frees the arguments and not the path.                          *)
ExecEndsUnrestored ==
  /\ At("exec", "body")
  /\ strings' = strings \ Strings(Top.argv, Top.argc)
  /\ work' = Below
  /\ UNCHANGED <<argc, argv>>

ExecEndsLeaking ==
  /\ At("exec", "body")
  /\ argc' = Top.savedArgc /\ argv' = Top.savedArgv
  /\ strings' = strings \ (Strings(Top.argv, Top.argc) \ Strings(Top.argv, 1))
  /\ work' = Below

(* All forms were evaluated, or one failed.                                *)
ExecEnds ==
  /\ At("exec", "body")
  /\ argc' = Top.savedArgc /\ argv' = Top.savedArgv
  /\ strings' = strings \ Strings(Top.argv, Top.argc)
  /\ work' = Below

(* import evaluates a file with the arguments of the file it is in.        *)
ImportStarts ==
  /\ At("import", "path")
  /\ work' = [work EXCEPT ![Len(work)].stage = "body"]
  /\ UNCHANGED <<argc, argv, strings>>

ImportEnds ==
  /\ At("import", "body")
  /\ work' = Below
  /\ UNCHANGED <<argc, argv, strings>>

ScriptStep ==
  \/ \E kind \in {"exec", "import"} : Enter(kind)
  \/ PathFails
  \/ ExecTakesPath \/ ExecTakesArgument \/ ExecArgumentFails
  \/ ExecStarts \/ ExecHasNoForms \/ ExecEnds
  \/ ImportStarts \/ ImportEnds

-----------------------------------------------------------------------------

(* The type of the variables of this module.                               *)
Files ==
  [kind : {"exec", "import"}, stage : {"path", "args", "body"},
   argv : Arrays \cup {"none"}, argc : 0..MaxArgs, filled : 0..MaxArgs,
   savedArgc : 0..MaxArgs, savedArgv : Arrays \cup {"none", "main"}]

ScriptsTypeOK ==
  /\ argc \in 0..MaxArgs
  /\ argv \in Arrays \cup {"none", "main"}
  /\ strings \subseteq ((Arrays \cup {"main"}) \X (0..(MaxArgs - 1)))
  /\ work \in Seq(Files)

(* The files among the first n whose forms are evaluated with arguments of *)
(* their own.                                                              *)
Running(w, n) == {k \in 1..n : w[k].kind = "exec" /\ w[k].stage = "body"}

(* The arguments c, v are those of the innermost of these files; when      *)
(* there is none, they are those the evaluation began with.                *)
ArgumentsAt(w, n, c, v, base) ==
  \/ Running(w, n) = {} /\ <<c, v>> = base
  \/ \E k \in Running(w, n) :
       /\ \A j \in Running(w, n) : j <= k
       /\ <<c, v>> = <<w[k].argc, w[k].argv>>

(* The arguments that the files at work have allocated.                    *)
Held(w) == UNION {Strings(w[k].argv, w[k].filled) : k \in 1..Len(w)}

=============================================================================
