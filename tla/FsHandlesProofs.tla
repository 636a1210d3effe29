--------------------------- MODULE FsHandlesProofs ---------------------------
(***************************************************************************)
(* The invariants of FsHandles.  They rest on where handles are bound: a   *)
(* handle is bound under its own ID only, and in one scope at most.        *)
(***************************************************************************)
EXTENDS FsHandles, StackFacts, WellFoundedInduction

(* A scope that binds a handle binds it under its ID.                      *)
Bindings ==
  \A i \in 1..Len(scopes), id \in Fids :
    scopes[i][id] \in Handles => fid[scopes[i][id]] = id

BoundOnce ==
  \A i, j \in 1..Len(scopes), id \in Fids :
    scopes[i][id] \in Handles /\ scopes[j][id] = scopes[i][id] => i = j

(* As long as the counter has not been started anew, IDs are fresh.        *)
Counted ==
  reloads = 0 =>
    /\ \A h \in Opened : fid[h] < nextFid
    /\ \A g, h \in Opened : fid[g] = fid[h] => g = h

Inv ==
  TypeOK /\ Bindings /\ BoundOnce /\ Counted /\ FidNamesItsFile /\ CloseWhereOpenedIsFinal

Scope == [Fids -> (Handles \cup {Null}) \cup {Unbound}]

-----------------------------------------------------------------------------
(***************************************************************************)
(* The chain of scopes.                                                    *)
(***************************************************************************)

(* A nonempty set of numbers up to n has a greatest element.               *)
LEMMA Greatest ==
  ASSUME NEW n \in Nat, NEW S \in SUBSET (1..n), S # {}
  PROVE  \E m \in S : \A k \in S : k <= m
<1> DEFINE T == {n - k : k \in S}
<1>1. T \subseteq Nat /\ T # {}
  <2>1. \A k \in 1..n : n - k \in Nat
    BY SMT
  <2>2. \A k \in S : n - k \in Nat
    BY <2>1
  <2> QED BY <2>2
<1>2. PICK t \in T : \A u \in T : ~(<<u, t>> \in OpToRel(<, Nat))
  BY <1>1, NatLessThanWellFounded, WFMin
<1>3. \A u \in T : ~(u < t)
  BY <1>1, <1>2 DEF OpToRel
<1>4. PICK m \in S : t = n - m
  OBVIOUS
<1>5. ASSUME NEW k \in S PROVE k <= m
  <2>1. ~(n - k < n - m)
    BY <1>3, <1>4
  <2> QED BY <2>1, SMT
<1> QED BY <1>5

(* A lookup finds what the innermost scope that binds the ID holds.        *)
LEMMA LookupFacts ==
  ASSUME Chain!ScopesOK, NEW id \in Fids
  PROVE  \/ Lookup(id) = Null
         \/ \E i \in 1..Len(scopes) : Lookup(id) = scopes[i][id] /\ scopes[i][id] \in Handles
<1>1. CASE Chain!Undefined(id)
  BY <1>1 DEF Lookup
<1>2. CASE ~Chain!Undefined(id)
  <2> DEFINE S == {i \in 1..Len(scopes) : scopes[i][id] # Unbound}
             C == CHOOSE i \in 1..Len(scopes) : Chain!Innermost(id, i)
  <2>1. Len(scopes) \in Nat /\ scopes \in Seq(Scope)
    BY DEF Chain!ScopesOK, Scope
  <2>2. S \in SUBSET (1..Len(scopes)) /\ S # {}
    BY <1>2 DEF Chain!Undefined
  <2>3. PICK m \in S : \A k \in S : k <= m
    BY <2>1, <2>2, Greatest
  <2>4. \A j \in (m + 1)..Len(scopes) : j \in 1..Len(scopes) /\ ~(j <= m)
    BY <2>1, <2>2, SMT
  <2>5. Chain!Innermost(id, m)
    BY <2>2, <2>3, <2>4 DEF Chain!Innermost
  <2>6. C \in 1..Len(scopes) /\ Chain!Innermost(id, C)
    BY <2>2, <2>3, <2>5
  <2>7. Lookup(id) = scopes[C][id]
    BY <1>2 DEF Lookup
  <2> HIDE DEF C
  <2>8. scopes[C] \in Scope
    BY <2>1, <2>6
  <2>9. scopes[C][id] # Unbound
    BY <2>6 DEF Chain!Innermost
  <2> QED BY <2>6, <2>7, <2>8, <2>9 DEF Scope
<1> QED BY <1>1, <1>2

(* Binding an ID in the current scope changes that binding only.           *)
LEMMA BoundFacts ==
  ASSUME Chain!ScopesOK, NEW x \in Fids, NEW v \in Handles \cup {Null},
         NEW s, s = Chain!BoundAt(Len(scopes), x, v)
  PROVE  /\ s \in Seq(Scope) /\ s # <<>> /\ Len(s) = Len(scopes)
         /\ Len(scopes) \in 1..Len(scopes)
         /\ \A i \in 1..Len(scopes), id \in Fids :
              s[i][id] = IF i = Len(scopes) /\ id = x THEN v ELSE scopes[i][id]
<1>1. scopes \in Seq(Scope) /\ scopes # <<>>
  BY DEF Chain!ScopesOK, Scope
<1>2. Len(scopes) \in 1..Len(scopes) /\ Len(scopes) \in Nat
  BY <1>1
<1> DEFINE e == [scopes[Len(scopes)] EXCEPT ![x] = v]
<1>3. e \in Scope /\ \A id \in Fids :
        e[id] = IF id = x THEN v ELSE scopes[Len(scopes)][id]
  BY <1>1, <1>2 DEF Scope
<1>4. s = [scopes EXCEPT ![Len(scopes)] = e]
  BY <1>1, <1>2 DEF Chain!BoundAt
<1> HIDE DEF e
<1>5. /\ s \in Seq(Scope) /\ Len(s) = Len(scopes)
      /\ \A i \in 1..Len(scopes) : s[i] = IF i = Len(scopes) THEN e ELSE scopes[i]
  BY <1>1, <1>2, <1>3, <1>4, ReplaceFacts
<1>6. s # <<>>
  BY <1>2, <1>5
<1> QED BY <1>2, <1>3, <1>5, <1>6

(* No handle is bound where it was not bound before.                       *)
NothingNew(s) ==
  \A i \in 1..Len(s), id \in Fids :
    s[i][id] \in Handles => i \in 1..Len(scopes) /\ s[i][id] = scopes[i][id]

LEMMA PushedFacts ==
  ASSUME Chain!ScopesOK, NEW s, s = Chain!Pushed
  PROVE  s \in Seq(Scope) /\ s # <<>> /\ NothingNew(s)
<1> DEFINE n == Len(scopes)
<1>1. scopes \in Seq(Scope) /\ n \in Nat
  BY DEF Chain!ScopesOK, Scope
<1>2. Chain!EmptyScope \in Scope /\ \A id \in Fids : Chain!EmptyScope[id] \notin Handles
  BY FsConstants DEF Chain!EmptyScope, Scope
<1>3. /\ s \in Seq(Scope) /\ Len(s) = n + 1 /\ s[n + 1] = Chain!EmptyScope
      /\ \A i \in 1..n : s[i] = scopes[i]
  BY <1>1, <1>2, PushFacts DEF Chain!Pushed
<1> HIDE DEF n
<1>4. \A i \in 1..(n + 1) : i \in 1..n \/ i = n + 1
  BY <1>1, SMT
<1>5. s # <<>>
  BY <1>1, <1>3
<1> QED BY <1>2, <1>3, <1>4, <1>5 DEF NothingNew, n

LEMMA PoppedFacts ==
  ASSUME Chain!ScopesOK, Len(scopes) > 1, NEW s, s = Chain!Popped
  PROVE  s \in Seq(Scope) /\ s # <<>> /\ NothingNew(s)
<1> DEFINE n == Len(scopes)
<1>1. scopes \in Seq(Scope) /\ n \in Nat /\ 1 \in Nat /\ 1 <= n /\ n > 1
  BY DEF Chain!ScopesOK, Scope
<1>2. s \in Seq(Scope) /\ Len(s) = n - 1 /\ \A i \in 1..(n - 1) : s[i] = scopes[i]
  BY <1>1, DropFacts DEF Chain!Popped
<1> HIDE DEF n
<1>3. \A i \in 1..(n - 1) : i \in 1..n
  BY <1>1, SMT
<1>4. s # <<>>
  BY <1>1, <1>2
<1> QED BY <1>2, <1>3, <1>4 DEF NothingNew, n

-----------------------------------------------------------------------------
(***************************************************************************)
(* The steps.                                                              *)
(***************************************************************************)

(* A step that opens and closes no file.                                   *)
LEMMA NothingNewKeeps ==
  ASSUME Inv, UNCHANGED <<fid, freed, inside>>,
         scopes' \in Seq(Scope), scopes' # <<>>, NothingNew(scopes')
  PROVE  Bindings' /\ BoundOnce' /\ CloseWhereOpenedIsFinal' /\ Chain!ScopesOK'
<1> USE DEF Inv, NothingNew
<1>1. Bindings'
  BY DEF Bindings
<1>2. BoundOnce'
  BY DEF BoundOnce
<1>3. CloseWhereOpenedIsFinal'
  <2>1. freed \subseteq Handles
    BY DEF TypeOK, Opened
  <2> QED BY <2>1 DEF CloseWhereOpenedIsFinal
<1>4. Chain!ScopesOK'
  BY DEF Chain!ScopesOK, Scope
<1> QED BY <1>1, <1>2, <1>3, <1>4

LEMMA OpenKeeps ==
  ASSUME Inv, NEW h \in Handles, Open(h)
  PROVE  Inv'
<1> DEFINE n == Len(scopes)
<1>1. /\ nextFid \in Fids /\ nextFid \in Nat \ {0} /\ fid[h] = 0 /\ h \notin freed
      /\ freed' = freed /\ inside' = inside /\ reloads' = reloads
      /\ fid' = [fid EXCEPT ![h] = nextFid] /\ nextFid' = nextFid + 1
      /\ last' = NoOperation /\ scopes' = Chain!BoundAt(n, nextFid, h)
  BY DEF Inv, TypeOK, Open, Opened
<1>2. Chain!ScopesOK
  BY DEF Inv, TypeOK
<1>3. /\ scopes' \in Seq(Scope) /\ scopes' # <<>> /\ Len(scopes') = n /\ n \in 1..n
      /\ \A i \in 1..n, id \in Fids :
           scopes'[i][id] = IF i = n /\ id = nextFid THEN h ELSE scopes[i][id]
  BY <1>1, <1>2, BoundFacts
<1> HIDE DEF n
<1>4. fid \in [Handles -> Fids \cup {0}] /\ fid'[h] = nextFid
      /\ \A g \in Handles : g # h => fid'[g] = fid[g]
  BY <1>1 DEF Inv, TypeOK
<1>5. 0 \notin Fids
  BY SMT DEF Fids
<1>6. Opened' = Opened \cup {h} /\ h \notin Opened
  BY <1>1, <1>4, <1>5 DEF Opened
<1>7. \A i \in 1..n, id \in Fids : scopes[i][id] # h
  BY <1>1, <1>5 DEF Inv, Bindings, n
<1>8. Bindings'
  BY <1>1, <1>3, <1>4, <1>7 DEF Inv, Bindings, n
<1>9. BoundOnce'
  BY <1>3, <1>7 DEF Inv, BoundOnce, n
<1>10. Counted'
  <2> SUFFICES ASSUME reloads = 0
               PROVE  /\ \A g \in Opened' : fid'[g] < nextFid'
                      /\ \A g, k \in Opened' : fid'[g] = fid'[k] => g = k
    BY <1>1 DEF Counted
  <2>1. \A g \in Opened : g # h /\ g \in Handles /\ fid'[g] = fid[g]
    BY <1>4, <1>6 DEF Opened
  <2>2. \A g \in Opened : fid[g] < nextFid /\ fid[g] \in Int
    BY <1>4, <2>1 DEF Inv, Counted, Fids
  <2>3. \A g \in Opened : fid[g] < nextFid + 1 /\ fid[g] # nextFid
    BY <1>1, <2>2
  <2>4. \A g, k \in Opened : fid[g] = fid[k] => g = k
    BY DEF Inv, Counted
  <2> QED BY <1>1, <1>4, <1>6, <2>1, <2>3, <2>4
<1>11. CloseWhereOpenedIsFinal'
  BY <1>1, <1>3 DEF Inv, CloseWhereOpenedIsFinal, n
<1>12. FidNamesItsFile'
  BY <1>1 DEF FidNamesItsFile, NoOperation
<1>13. TypeOK'
  <2>1. Chain!ScopesOK'
    BY <1>3 DEF Chain!ScopesOK, Scope
  <2>2. fid' \in [Handles -> Fids \cup {0}]
    BY <1>1, <1>4
  <2>3. nextFid' \in Nat \ {0}
    BY <1>1
  <2> QED BY <1>1, <1>6, <2>1, <2>2, <2>3 DEF Inv, TypeOK, NoOperation
<1> QED BY <1>8, <1>9, <1>10, <1>11, <1>12, <1>13 DEF Inv

(* An operation works with the file it means, or with none.                *)
LEMMA WorkWithFacts ==
  ASSUME Inv, NEW h \in Opened, NEW found, found = Lookup(fid[h])
  PROVE  /\ fid[h] \in Fids /\ found \in Handles \cup {Null}
         /\ reloads = 0 => found \in {h, Null}
         /\ found # Null => \E i \in 1..Len(scopes) : found = scopes[i][fid[h]]
         /\ found # Null => found \in Opened /\ fid[found] = fid[h]
<1>1. h \in Handles /\ fid[h] \in Fids /\ Chain!ScopesOK
  BY DEF Inv, TypeOK, Opened
<1>2. CASE found = Null
  BY <1>1, <1>2
<1>3. CASE found # Null
  <2>1. PICK i \in 1..Len(scopes) : found = scopes[i][fid[h]] /\ found \in Handles
    BY <1>1, <1>3, LookupFacts
  <2>2. fid[found] = fid[h]
    BY <1>1, <2>1 DEF Inv, Bindings
  <2>3. found \in Opened
    BY <2>1, <2>2 DEF Opened
  <2>4. reloads = 0 => found = h
    BY <2>2, <2>3 DEF Inv, Counted
  <2> QED BY <1>1, <2>1, <2>2, <2>3, <2>4
<1> QED BY <1>2, <1>3

LEMMA WorkKeeps ==
  ASSUME Inv, NEW h \in Handles, Work(h)
  PROVE  Inv'
<1> DEFINE found == Lookup(fid[h])
<1>1. /\ h \in Opened /\ UNCHANGED <<scopes, nextFid, fid, freed, inside, reloads>>
      /\ last' = [meant |-> h, with |-> found, live |-> found \notin freed]
  BY DEF Work, WorkWith
<1>2. found \in Handles \cup {Null} /\ (reloads = 0 => found \in {h, Null})
  BY <1>1, WorkWithFacts
<1> HIDE DEF found
<1>3. FidNamesItsFile'
  BY <1>1, <1>2 DEF FidNamesItsFile
<1>4. TypeOK'
  BY <1>1, <1>2 DEF Inv, TypeOK, Opened, Chain!ScopesOK
<1>5. Bindings' /\ BoundOnce' /\ Counted' /\ CloseWhereOpenedIsFinal'
  BY <1>1 DEF Inv, Bindings, BoundOnce, Counted, CloseWhereOpenedIsFinal, Opened
<1> QED BY <1>3, <1>4, <1>5 DEF Inv

LEMMA CloseKeeps ==
  ASSUME Inv, NEW h \in Handles, Close(h)
  PROVE  Inv'
<1> DEFINE found == Lookup(fid[h])
           n == Len(scopes)
<1>1. CASE found = Null
  <2>1. Work(h)
    BY <1>1 DEF Close, Work
  <2> QED BY <2>1, WorkKeeps
<1>2. CASE found # Null
  <2>1. /\ h \in Opened /\ UNCHANGED <<nextFid, fid, reloads>>
        /\ last' = [meant |-> h, with |-> found, live |-> found \notin freed]
        /\ freed' = freed \cup {found}
        /\ inside' = IF scopes[n][fid[h]] = found THEN inside ELSE inside \cup {found}
        /\ scopes' = Chain!BoundAt(n, fid[h], Null)
    BY <1>2 DEF Close, WorkWith, Unbind
  <2>2. /\ fid[h] \in Fids /\ found \in Handles
        /\ (reloads = 0 => found \in {h, Null})
        /\ (\E i \in 1..n : found = scopes[i][fid[h]])
        /\ found \in Opened /\ fid[found] = fid[h]
    BY <1>2, <2>1, WorkWithFacts
  <2>3. Chain!ScopesOK
    BY DEF Inv, TypeOK
  <2>4. /\ scopes' \in Seq(Scope) /\ scopes' # <<>> /\ Len(scopes') = n /\ n \in 1..n
        /\ \A i \in 1..n, id \in Fids :
             scopes'[i][id] = IF i = n /\ id = fid[h] THEN Null ELSE scopes[i][id]
    BY <2>1, <2>2, <2>3, BoundFacts
  <2> HIDE DEF found, n
  <2>5. Bindings'
    BY <2>1, <2>4, FsConstants DEF Inv, Bindings, n
  <2>6. BoundOnce'
    BY <2>4, FsConstants DEF Inv, BoundOnce, n
  <2>7. CloseWhereOpenedIsFinal'
    <3>1. ASSUME NEW g \in freed' \ inside', NEW i \in 1..n, NEW id \in Fids,
                 scopes'[i][id] = g
          PROVE  FALSE
      <4>1. freed \subseteq Handles /\ g \in Handles
        BY <2>1, <2>2 DEF Inv, TypeOK, Opened
      <4>2. scopes[i][id] = g /\ ~(i = n /\ id = fid[h])
        BY <2>4, <3>1, <4>1, FsConstants
      <4>3. g = found /\ scopes[n][fid[h]] = found
        BY <2>1, <3>1, <4>2 DEF Inv, CloseWhereOpenedIsFinal, n
      <4>4. id = fid[h]
        BY <2>2, <4>1, <4>2, <4>3 DEF Inv, Bindings, n
      <4>5. i = n
        BY <2>2, <2>4, <4>1, <4>2, <4>3, <4>4 DEF Inv, BoundOnce, n
      <4> QED BY <4>2, <4>4, <4>5
    <3> QED BY <2>4, <3>1 DEF CloseWhereOpenedIsFinal
  <2>8. FidNamesItsFile'
    BY <2>1, <2>2 DEF FidNamesItsFile
  <2>9. TypeOK'
    <3>1. Chain!ScopesOK'
      BY <2>4 DEF Chain!ScopesOK, Scope
    <3> QED BY <2>1, <2>2, <3>1 DEF Inv, TypeOK, Opened
  <2>10. Counted'
    BY <2>1 DEF Inv, Counted, Opened
  <2> QED BY <2>5, <2>6, <2>7, <2>8, <2>9, <2>10 DEF Inv
<1> QED BY <1>1, <1>2

LEMMA ScopeKeeps ==
  ASSUME Inv, EnterScope \/ LeaveScope \/ ReloadOpen
  PROVE  Inv'
<1>1. UNCHANGED <<fid, freed, inside>> /\ last' = NoOperation
  BY DEF EnterScope, LeaveScope, ReloadOpen
<1>2. Chain!ScopesOK
  BY DEF Inv, TypeOK
<1>3. scopes' \in Seq(Scope) /\ scopes' # <<>> /\ NothingNew(scopes')
  <2>1. CASE EnterScope
    BY <1>2, <2>1, PushedFacts DEF EnterScope
  <2>2. CASE LeaveScope
    BY <1>2, <2>2, PoppedFacts DEF LeaveScope
  <2>3. CASE ReloadOpen
    BY <1>2, <2>3 DEF ReloadOpen, NothingNew, Chain!ScopesOK, Scope
  <2> QED BY <2>1, <2>2, <2>3
<1>4. Bindings' /\ BoundOnce' /\ CloseWhereOpenedIsFinal' /\ Chain!ScopesOK'
  BY <1>1, <1>3, NothingNewKeeps
<1>5. FidNamesItsFile'
  BY <1>1 DEF FidNamesItsFile, NoOperation
<1>6. /\ nextFid' \in Nat \ {0} /\ reloads' \in 0..MaxReloads
      /\ reloads' # 0 \/ (nextFid' = nextFid /\ reloads' = reloads)
  BY FsConstants DEF EnterScope, LeaveScope, ReloadOpen, Inv, TypeOK
<1>7. Counted'
  BY <1>1, <1>6 DEF Inv, Counted, Opened
<1>8. TypeOK'
  BY <1>1, <1>4, <1>6 DEF Inv, TypeOK, Opened, NoOperation
<1> QED BY <1>4, <1>5, <1>7, <1>8 DEF Inv

-----------------------------------------------------------------------------

(* The invariant of the open files.                                        *)
THEOREM Invariant == Spec => []Inv
<1>1. Init => Inv
  <2> SUFFICES ASSUME Init PROVE Inv
    OBVIOUS
  <2>1. /\ scopes = <<Chain!EmptyScope>> /\ nextFid = 1 /\ fid = [h \in Handles |-> 0]
        /\ freed = {} /\ inside = {} /\ last = NoOperation /\ reloads = 0
    BY DEF Init, Chain!Init
  <2>2. Chain!EmptyScope \in Scope /\ \A id \in Fids : Chain!EmptyScope[id] = Unbound
    BY DEF Chain!EmptyScope, Scope
  <2>3. scopes \in Seq(Scope) /\ Len(scopes) = 1 /\ scopes[1] = Chain!EmptyScope
    BY <2>1, <2>2
  <2>4. \A i \in 1..Len(scopes), id \in Fids : scopes[i][id] \notin Handles
    BY <2>2, <2>3, FsConstants
  <2>5. Bindings /\ BoundOnce
    BY <2>4 DEF Bindings, BoundOnce
  <2>6. Opened = {}
    BY <2>1 DEF Opened
  <2>7. TypeOK
    BY <2>1, <2>3, <2>6, FsConstants DEF TypeOK, Chain!ScopesOK, Scope, NoOperation
  <2> QED BY <2>1, <2>5, <2>6, <2>7 DEF Inv, Counted, FidNamesItsFile,
         CloseWhereOpenedIsFinal, NoOperation
<1>2. Inv /\ [Next]_vars => Inv'
  <2> SUFFICES ASSUME Inv, [Next]_vars PROVE Inv'
    OBVIOUS
  <2>1. ASSUME NEW h \in Handles, Operation(h) PROVE Inv'
    BY <2>1, OpenKeeps, WorkKeeps, CloseKeeps DEF Operation, Read, Write, Seek, Tell
  <2>2. CASE EnterScope \/ LeaveScope \/ ReloadOpen
    BY <2>2, ScopeKeeps
  <2>3. CASE UNCHANGED vars
    <3>1. TypeOK'
      BY <2>3 DEF vars, Inv, TypeOK, Opened, Chain!ScopesOK
    <3>2. Bindings' /\ BoundOnce' /\ Counted'
      BY <2>3 DEF vars, Inv, Bindings, BoundOnce, Counted, Opened
    <3>3. FidNamesItsFile' /\ CloseWhereOpenedIsFinal'
      BY <2>3 DEF vars, Inv, FidNamesItsFile, CloseWhereOpenedIsFinal
    <3> QED BY <3>1, <3>2, <3>3 DEF Inv
  <2> QED BY <2>1, <2>2, <2>3 DEF Next
<1> QED BY <1>1, <1>2, PTL DEF Spec

(* The variables of the fs module keep their types.                        *)
THEOREM TypeCorrect == Spec => []TypeOK
<1>1. Inv => TypeOK
  BY DEF Inv
<1> QED BY <1>1, Invariant, PTL

(* fs/read and the others reach the file their ID was returned for.        *)
THEOREM IdsNameTheirFile == Spec => []FidNamesItsFile
<1>1. Inv => FidNamesItsFile
  BY DEF Inv
<1> QED BY <1>1, Invariant, PTL

(* fs/close in the scope of fs/open leaves no binding of the handle.       *)
THEOREM ClosedWhereOpened == Spec => []CloseWhereOpenedIsFinal
<1>1. Inv => CloseWhereOpenedIsFinal
  BY DEF Inv
<1> QED BY <1>1, Invariant, PTL

=============================================================================
