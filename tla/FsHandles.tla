----------------------------- MODULE FsHandles -----------------------------
(***************************************************************************)
(* The open files of the fs module (nucleus/fs).  fs/open allocates a      *)
(* handle and binds it, under a key made from a fresh file ID, in the      *)
(* current scope; fs/read, fs/write, fs/seek and fs/tell find the handle   *)
(* of an ID through the chain of scopes; fs/close finds it, frees it and   *)
(* binds the key to NULL, again in the current scope.                      *)
(*                                                                         *)
(* A handle stands for its file.  A program keeps the ID each fs/open      *)
(* returned and uses it to mean that file.  Working with a freed handle    *)
(* is undefined: the model takes no further step.                          *)
(***************************************************************************)
EXTENDS Naturals, Sequences, FiniteSets

CONSTANTS
  Handles,     \* file_handle_t objects
  Null,        \* NULL
  Unbound,     \* a key a scope does not bind
  MaxDepth,    \* bound on the number of scopes
  MaxReloads   \* bound on the hot reloads of fs/open

ASSUME FsConstants ==
  /\ IsFiniteSet(Handles)
  /\ Null \notin Handles /\ Unbound \notin Handles \cup {Null}
  /\ MaxDepth \in Nat /\ MaxReloads \in Nat

VARIABLES
  scopes,      \* the chain of scopes, restricted to the keys of handles
  nextFid,     \* global_next_fid of the unit fs/open comes from
  fid,         \* fid[h]: the ID fs/open returned for h, 0 before
  freed,       \* the handles fs/close freed
  inside,      \* those freed while another scope than theirs was current
  last,        \* the file the last operation meant, and what it worked with
  reloads      \* how often fs/open was reloaded

vars == <<scopes, nextFid, fid, freed, inside, last, reloads>>

(* One ID for each handle the bounds allow.                                *)
Fids == 1..Cardinality(Handles)

Chain == INSTANCE ScopeChain WITH Names <- Fids, Values <- Handles \cup {Null}

Opened == {h \in Handles : fid[h] # 0}

(* akx_rt_scope_get(rt, fid_to_key(id)).                                   *)
Lookup(id) ==
  IF Chain!Undefined(id)
    THEN Null
    ELSE scopes[CHOOSE i \in 1..Len(scopes) : Chain!Innermost(id, i)][id]

NoOperation == [meant |-> Null, with |-> Null, live |-> TRUE]

(* The memory of the runtime is intact.                                    *)
Intact == last.live

Init ==
  /\ Chain!Init
  /\ nextFid = 1
  /\ fid = [h \in Handles |-> 0]
  /\ freed = {} /\ inside = {}
  /\ last = NoOperation
  /\ reloads = 0

-----------------------------------------------------------------------------

(* Mutant of Open: the counter is not advanced.                            *)
OpenKeepsCounter(h) ==
  /\ Intact
  /\ h \notin Opened
  /\ nextFid \in Fids
  /\ fid' = [fid EXCEPT ![h] = nextFid]
  /\ scopes' = Chain!BoundAt(Len(scopes), nextFid, h)
  /\ last' = NoOperation
  /\ UNCHANGED <<nextFid, freed, inside, reloads>>

Open(h) ==
  /\ Intact
  /\ h \notin Opened
  /\ nextFid \in Fids
  /\ fid' = [fid EXCEPT ![h] = nextFid]
  /\ scopes' = Chain!BoundAt(Len(scopes), nextFid, h)
  /\ nextFid' = nextFid + 1
  /\ last' = NoOperation
  /\ UNCHANGED <<freed, inside, reloads>>

(* The operation works with the handle it found for the ID of h, or        *)
(* reports an invalid ID.                                                  *)
WorkWith(h) ==
  LET found == Lookup(fid[h]) IN
  last' = [meant |-> h, with |-> found, live |-> found \notin freed]

(* Contents and positions of files are left out: the four operations only  *)
(* differ in what they do with the file they found.                        *)
Work(h) ==
  /\ Intact
  /\ h \in Opened
  /\ WorkWith(h)
  /\ UNCHANGED <<scopes, nextFid, fid, freed, inside, reloads>>

Read(h) == Work(h)

Write(h) == Work(h)

Seek(h) == Work(h)

Tell(h) == Work(h)

(* Mutant of Unbind: the key is left bound to the freed handle.            *)
UnbindNothing(id) == UNCHANGED scopes

(* akx_rt_scope_set(rt, fid_to_key(id), NULL).                             *)
Unbind(id) == scopes' = Chain!BoundAt(Len(scopes), id, Null)

Close(h) ==
  /\ Intact
  /\ h \in Opened
  /\ WorkWith(h)
  /\ LET found == Lookup(fid[h]) IN
     IF found = Null
       THEN UNCHANGED <<scopes, freed, inside>>
       ELSE /\ freed' = freed \cup {found}
            /\ inside' = IF scopes[Len(scopes)][fid[h]] = found
                           THEN inside ELSE inside \cup {found}
            /\ Unbind(fid[h])
  /\ UNCHANGED <<nextFid, fid, reloads>>

(* A lambda is called or a loop body begins; it ends.                      *)
EnterScope ==
  /\ Intact
  /\ Len(scopes) < MaxDepth
  /\ scopes' = Chain!Pushed
  /\ last' = NoOperation
  /\ UNCHANGED <<nextFid, fid, freed, inside, reloads>>

(* Mutant of LeaveScope: the global scope can be left.                     *)
LeaveScopeUnchecked ==
  /\ Intact
  /\ scopes # <<>>
  /\ scopes' = Chain!Popped
  /\ last' = NoOperation
  /\ UNCHANGED <<nextFid, fid, freed, inside, reloads>>

LeaveScope ==
  /\ Intact
  /\ Len(scopes) > 1
  /\ scopes' = Chain!Popped
  /\ last' = NoOperation
  /\ UNCHANGED <<nextFid, fid, freed, inside, reloads>>

(* cjit-load-builtin of fs/open: the new unit has a counter of its own.    *)
ReloadOpen ==
  /\ Intact
  /\ reloads < MaxReloads
  /\ reloads' = reloads + 1
  /\ nextFid' = 1
  /\ last' = NoOperation
  /\ UNCHANGED <<scopes, fid, freed, inside>>

Operation(h) == Open(h) \/ Read(h) \/ Write(h) \/ Seek(h) \/ Tell(h) \/ Close(h)

Next ==
  \/ \E h \in Handles : Operation(h)
  \/ EnterScope \/ LeaveScope \/ ReloadOpen

Spec == Init /\ [][Next]_vars

-----------------------------------------------------------------------------
(***************************************************************************)
(* Properties.                                                             *)
(***************************************************************************)

(* Every variable has its type.                                            *)
TypeOK ==
  /\ Chain!ScopesOK
  /\ nextFid \in Nat \ {0}
  /\ fid \in [Handles -> Fids \cup {0}]
  /\ inside \subseteq freed /\ freed \subseteq Opened
  /\ last \in [meant : Handles \cup {Null}, with : Handles \cup {Null}, live : BOOLEAN]
  /\ reloads \in 0..MaxReloads

(* An operation works with the file its ID was returned for, or with none, *)
(* wherever the ID was passed to and whatever was closed in between.       *)
FidNamesItsFile == reloads = 0 => last.with \in {last.meant, Null}

(* A file closed in the scope that opened it is gone from every scope.     *)
CloseWhereOpenedIsFinal ==
  \A h \in freed \ inside :
    \A i \in 1..Len(scopes), id \in Fids : scopes[i][id] # h

=============================================================================
