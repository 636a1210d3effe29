-------------------------- MODULE MCBuiltinRegistry --------------------------
(***************************************************************************)
(* A small instance of BuiltinRegistry: one compiled-in and one loadable   *)
(* module, and units with every combination of hooks that matters.         *)
(***************************************************************************)
EXTENDS BuiltinRegistry

CONSTANTS counter, cond, plain, full, handing

(* full has init and deinit hooks, handing a reload hook as well.          *)
MCHooks == [u \in Units |->
  CASE u = plain -> {}
    [] u = full -> {"init", "deinit"}
    [] u = handing -> {"init", "deinit", "reload"}]

(* Units that export nothing but the builtin function.                     *)
MCNoHooks == [u \in Units |-> {}]

=============================================================================
