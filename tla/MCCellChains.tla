---------------------------- MODULE MCCellChains ----------------------------
(***************************************************************************)
(* Constants of CellChains for TLC: an atom beside nil, and a list as an   *)
(* item of lists.                                                          *)
(***************************************************************************)
EXTENDS CellChains

CONSTANTS a, x

MCItems == {a, Nil, [items |-> <<a>>]}

MCArguments == {<<>>, <<a>>}

=============================================================================
