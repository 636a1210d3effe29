------------------------ MODULE BuiltinRegistryProofs ------------------------
(***************************************************************************)
(* The invariants of BuiltinRegistry, whatever modules, units and hooks    *)
(* there are and however deep reloads nest.  A step touches the frame at   *)
(* the top and the entry of its module; the frames below keep what they    *)
(* had, and a loader that waits holds an older unit than one above it.     *)
(***************************************************************************)
EXTENDS BuiltinRegistry, StackFacts

(* A version that may be freed: its deinit hook, if any, was called, or a  *)
(* reload hook was given its state.                                        *)
Handed(v) == v \in closed \cup handed \/ "deinit" \notin HooksOf(v)

(* The loader in the i-th frame holds a unit.  The one it will replace was *)
(* handed over, or is younger: a hook of the reload itself has loaded it.  *)
SwapReady(i) ==
  \/ Handed(table[stack[i].name].unit)
  \/ stack[i].unit \in elders[table[stack[i].name].unit]

Swaps(i) == stack[i].kind = "load" /\ stack[i].pc = "swap"

(* A hook runs on top of the loader that called it.                        *)
OnLoader(i) ==
  i > 1 /\ stack[i - 1].kind = "load" /\ stack[i - 1].name = stack[i].name

FrameOK(i) ==
  /\ stack[i].unit \in loaded \cup {None}
  /\ Swaps(i) => stack[i].unit \in loaded /\ stack[i].name \in Registered /\ SwapReady(i)
  /\ stack[i].kind \notin {"call", "load"} /\ ~stopping => OnLoader(i)

Frames == \A i \in 1..Len(stack) : FrameOK(i)

Waiting(u, i) == i \in 1..Len(stack) /\ Waits(u, i)

(* Of two loaders that wait the inner one has compiled its unit later.     *)
Ages == \A u, v, i, j : Waiting(u, i) /\ Waiting(v, j) /\ i < j => u \in elders[v]

Entries ==
  \A m \in Modules :
    table[m].unit \in loaded \cup {None} /\ (m \notin Registered => table[m].unit = None)

(* At shutdown one deinit hook runs at a time, that of an entry.           *)
Stops ==
  stopping /\ stack # <<>> =>
    /\ Len(stack) = 1 /\ Top.kind = "deinit"
    /\ Top.unit \in closed /\ table[Top.name].unit = Top.unit

(* The loader is current only outside of a reload.                         *)
LoaderIsCurrent == current = Loader => IsLoader /\ Top.pc # "swap"

Inv ==
  /\ TypeOK /\ Frames /\ Ages /\ Entries /\ Stops /\ LoaderIsCurrent
  /\ CurrentIsRunning /\ StatesArePrivate /\ UnitsHaveOneOwner

EntryType == [unit : Units \cup {None}, data : Modules \cup {None}, there : BOOLEAN]

-----------------------------------------------------------------------------
(***************************************************************************)
(* What steps do to the stack.                                             *)
(***************************************************************************)

(* The frame at the top.                                                   *)
LEMMA TopFacts ==
  ASSUME stack \in Seq(Frame), stack # <<>>
  PROVE  /\ Len(stack) \in Nat /\ Len(stack) >= 1 /\ Len(stack) \in 1..Len(stack)
         /\ Top \in Frame /\ Top = stack[Len(stack)]
BY LastFacts DEF Top

LEMMA PushShape ==
  ASSUME stack \in Seq(Frame), NEW f \in Frame, stack' = Append(stack, f), NEW n, n = Len(stack)
  PROVE  /\ n \in Nat /\ stack' \in Seq(Frame) /\ Len(stack') = n + 1
         /\ stack'[n + 1] = f /\ \A i \in 1..n : stack'[i] = stack[i]
BY PushFacts, LenProperties

LEMMA PopShape ==
  ASSUME stack \in Seq(Frame), stack # <<>>, stack' = Callers, NEW n, n = Len(stack)
  PROVE  /\ n \in Nat /\ stack' \in Seq(Frame) /\ Len(stack') = n - 1
         /\ \A i \in 1..(n - 1) : stack'[i] = stack[i]
<1>1. n \in Nat /\ n >= 1 /\ 1 \in Nat /\ 1 <= n
  BY TopFacts
<1> QED BY <1>1, DropFacts DEF Callers

(* A loader goes on; if it calls a hook, h is the frame on top of it.       *)
GoesOn(pc, u, h, calls) ==
  /\ IsLoader /\ pc \in {"args", "swap", "done"} /\ u \in Units
  /\ h \in Frame /\ calls \in BOOLEAN
  /\ Proceed(pc, u, IF calls THEN <<h>> ELSE <<>>)

(* The stack it leaves, where it had n frames.                             *)
Leaves(n, pc, u, h, calls) ==
  /\ n \in Nat /\ n \in 1..n /\ stack' \in Seq(Frame)
  /\ stack'[n] = [Top EXCEPT !.pc = pc, !.unit = u]
  /\ \A i \in 1..(n - 1) : stack'[i] = stack[i]
  /\ ~calls => Len(stack') = n
  /\ calls => Len(stack') = n + 1 /\ stack'[n + 1] = h

LEMMA ProceedShape ==
  ASSUME stack \in Seq(Frame), NEW pc, NEW u, NEW h, NEW calls,
         GoesOn(pc, u, h, calls), NEW n, n = Len(stack)
  PROVE  Leaves(n, pc, u, h, calls)
<1>0. stack # <<>> /\ Top.kind = "load"
  BY DEF GoesOn, IsLoader
<1> DEFINE t == [Top EXCEPT !.pc = pc, !.unit = u]
           s == Append(Callers, t)
<1>1. n \in Nat /\ n >= 1 /\ n \in 1..n /\ 1 \in Nat /\ 1 <= n /\ Top \in Frame
  BY <1>0, TopFacts
<1>2. t \in Frame
  BY <1>1 DEF Frame, GoesOn
<1>3. Callers \in Seq(Frame) /\ Len(Callers) = n - 1
      /\ \A i \in 1..(n - 1) : Callers[i] = stack[i]
  BY <1>1, DropFacts DEF Callers
<1> HIDE DEF t
<1>4. /\ s \in Seq(Frame) /\ Len(s) = n - 1 + 1 /\ s[n - 1 + 1] = t
      /\ \A i \in 1..(n - 1) : s[i] = Callers[i]
  BY <1>2, <1>3, PushFacts
<1>5. n - 1 + 1 = n
  BY <1>1
<1> HIDE DEF s
<1>6. stack' = s \o (IF calls THEN <<h>> ELSE <<>>)
  BY DEF GoesOn, Proceed, s, t
<1> h \in Frame /\ calls \in BOOLEAN
  BY DEF GoesOn
<1>7. CASE ~calls
  <2>1. stack' = s
    BY <1>4, <1>6, <1>7, ConcatEmptySeq
  <2> QED BY <1>1, <1>3, <1>4, <1>5, <1>7, <2>1 DEF t, Leaves
<1>8. CASE calls
  <2>1. stack' = Append(s, h)
    BY <1>4, <1>6, <1>8, AppendIsConcat
  <2>2. /\ stack' \in Seq(Frame) /\ Len(stack') = n + 1 /\ stack'[n + 1] = h
        /\ \A i \in 1..n : stack'[i] = s[i]
    BY <1>4, <1>5, <2>1, PushFacts
  <2>3. \A i \in 1..(n - 1) : i \in 1..n
    BY <1>1, SMT
  <2> QED BY <1>1, <1>3, <1>4, <1>5, <1>8, <2>2, <2>3 DEF t, Leaves
<1> QED BY <1>7, <1>8

(* Places in a stack of n frames.                                          *)
LEMMA Places ==
  ASSUME NEW n \in Nat
  PROVE  /\ \A i \in 1..n : /\ i # n => i + 1 \in 1..n /\ i \in 1..(n - 1)
                            /\ i > 1 => i - 1 \in 1..n /\ i - 1 # n /\ i - 1 \in 1..(n - 1)
                            /\ i \in 1..(n + 1) /\ i # n + 1
         /\ \A i \in 1..(n - 1) : i \in 1..n /\ i # n
         /\ \A i \in 1..(n + 1) : i \in 1..n \/ i = n + 1
BY SMT

-----------------------------------------------------------------------------
(***************************************************************************)
(* Frames that a step leaves where they are.                               *)
(***************************************************************************)
LEMMA FrameKept ==
  ASSUME TypeOK, Entries, NEW i \in 1..Len(stack), FrameOK(i), stack'[i] = stack[i],
         i > 1 => stack'[i - 1].kind = stack[i - 1].kind
                  /\ stack'[i - 1].name = stack[i - 1].name,
         loaded \subseteq loaded', closed \subseteq closed', handed \subseteq handed',
         \A v \in loaded : elders'[v] = elders[v],
         Registered \subseteq Registered', stopping' = stopping,
         Swaps(i) => \/ table'[stack[i].name].unit = table[stack[i].name].unit
                     \/ stack[i].unit \in elders'[table'[stack[i].name].unit]
  PROVE  FrameOK(i)'
<1>1. Swaps(i)' <=> Swaps(i)
  BY DEF Swaps
<1>2. stack'[i].unit \in loaded' \cup {None}
  BY DEF FrameOK
<1>3. stack'[i].kind \notin {"call", "load"} /\ ~stopping' => OnLoader(i)'
  BY DEF FrameOK, OnLoader
<1>4. ASSUME Swaps(i)
      PROVE  stack'[i].unit \in loaded' /\ stack'[i].name \in Registered' /\ SwapReady(i)'
  <2>1. stack[i].unit \in loaded /\ stack[i].name \in Registered /\ SwapReady(i)
    BY <1>4 DEF FrameOK
  <2>2. CASE stack[i].unit \in elders'[table'[stack[i].name].unit]
    BY <2>1, <2>2 DEF SwapReady
  <2>3. CASE table'[stack[i].name].unit = table[stack[i].name].unit
    <3>1. table[stack[i].name].unit \in loaded \cup {None}
      BY <2>1 DEF Entries, Registered
    <3>2. CASE Handed(table[stack[i].name].unit)
      BY <2>1, <2>3, <3>2 DEF SwapReady, Handed, HooksOf
    <3>3. CASE table[stack[i].name].unit = None
      BY <2>1, <2>3, <3>3 DEF SwapReady, Handed, HooksOf
    <3>4. CASE /\ table[stack[i].name].unit \in loaded
               /\ stack[i].unit \in elders[table[stack[i].name].unit]
      BY <2>1, <2>3, <3>4 DEF SwapReady
    <3> QED BY <2>1, <3>1, <3>2, <3>3, <3>4 DEF SwapReady
  <2> QED BY <1>4, <2>1, <2>2, <2>3
<1> QED BY <1>1, <1>2, <1>3, <1>4 DEF FrameOK

(* The frames below one that goes on or returns.                           *)
LEMMA LowerKept ==
  ASSUME TypeOK, Frames, Entries, NEW n, n = Len(stack),
         \A i \in 1..(n - 1) : stack'[i] = stack[i],
         loaded \subseteq loaded', closed \subseteq closed', handed \subseteq handed',
         \A v \in loaded : elders'[v] = elders[v],
         Registered \subseteq Registered', stopping' = stopping,
         \A i \in 1..(n - 1) : Swaps(i) =>
           \/ table'[stack[i].name].unit = table[stack[i].name].unit
           \/ stack[i].unit \in elders'[table'[stack[i].name].unit]
  PROVE  \A i \in 1..(n - 1) : FrameOK(i)'
<1> SUFFICES ASSUME NEW i \in 1..(n - 1) PROVE FrameOK(i)'
  OBVIOUS
<1>1. n \in Nat
  BY LenProperties DEF TypeOK
<1>2. i \in 1..n /\ (i > 1 => i - 1 \in 1..(n - 1))
  BY <1>1, Places
<1>3. FrameOK(i)
  BY <1>2 DEF Frames
<1> QED BY <1>2, <1>3, FrameKept

-----------------------------------------------------------------------------
(***************************************************************************)
(* Owners of units.                                                        *)
(***************************************************************************)

(* Who stores and who waits stays the same.                                *)
LEMMA OwnersKept ==
  ASSUME UnitsHaveOneOwner, loaded' = loaded, freed' = freed,
         \A u, m : Stored(u, m)' <=> Stored(u, m),
         \A u, i : Waiting(u, i)' <=> Waiting(u, i)
  PROVE  UnitsHaveOneOwner'
BY DEF UnitsHaveOneOwner, Waiting

(* A unit that is stored or waits was compiled.                            *)
LEMMA OwnedIsLoaded ==
  ASSUME TypeOK, Frames, Entries
  PROVE  /\ \A u \in Units : \A m : Stored(u, m) => u \in loaded /\ m \in Modules
         /\ \A u, i : Waiting(u, i) => u \in loaded
BY RegistryConstants
   DEF Entries, Stored, Registered, Frames, FrameOK, Waiting, Waits, Swaps

(* No loader begins to wait.                                               *)
LEMMA AgesKept ==
  ASSUME TypeOK, Frames, Entries, Ages, \A u, i : Waiting(u, i)' => Waiting(u, i),
         \A v \in loaded : elders'[v] = elders[v]
  PROVE  Ages'
BY OwnedIsLoaded DEF Ages

-----------------------------------------------------------------------------
(***************************************************************************)
(* Calls: a builtin is dispatched, returns, sets state.                    *)
(***************************************************************************)
LEMMA CallKeeps ==
  ASSUME Inv, NEW f \in Frame, CanEvaluate, f.kind \in {"call", "load"}, f.pc = "args",
         f.unit \in loaded \cup {None}, stack' = Append(stack, f),
         UNCHANGED <<table, loaded, freed, stopping, closed, handed, elders>>,
         \/ f.kind = "call" /\ current' = f.name
         \/ f.kind = "load" /\ current' = Loader
  PROVE  Inv'
<1> DEFINE n == Len(stack)
<1>1. TypeOK /\ Frames /\ Entries /\ stack \in Seq(Frame) /\ ~stopping
  BY DEF Inv, TypeOK, CanEvaluate
<1>2. /\ n \in Nat /\ stack' \in Seq(Frame) /\ Len(stack') = n + 1
      /\ stack'[n + 1] = f /\ \A i \in 1..n : stack'[i] = stack[i]
  BY <1>1, PushShape
<1>4. /\ stack' # <<>> /\ Top' = f /\ n + 1 \in 1..(n + 1)
  BY <1>2 DEF Top
<1> HIDE DEF n
<1>5. Registered' = Registered
  BY DEF Registered
<1>6. TypeOK'
  BY <1>1, <1>2, RegistryConstants DEF TypeOK, Frame
<1>7. Frames'
  <2>1. ASSUME NEW i \in 1..n PROVE FrameOK(i)'
    <3>1. i > 1 => i - 1 \in 1..n
      BY <1>2, Places
    <3>2. FrameOK(i) /\ i \in 1..Len(stack)
      BY <1>1 DEF Frames, n
    <3> QED BY <1>1, <1>2, <1>5, <3>1, <3>2, FrameKept
  <2>2. ASSUME NEW i, i = n + 1 PROVE FrameOK(i)'
    BY <1>2, <2>2 DEF FrameOK, Swaps
  <2>3. \A i \in 1..(n + 1) : i \in 1..n \/ i = n + 1
    BY <1>2, Places
  <2> QED BY <1>2, <2>1, <2>2, <2>3 DEF Frames
<1>8. Entries' /\ StatesArePrivate'
  BY <1>1, <1>5 DEF Inv, Entries, StatesArePrivate
<1>9. Stops'
  BY <1>1 DEF Stops
<1>10. LoaderIsCurrent' /\ CurrentIsRunning'
  BY <1>4, RegistryConstants DEF LoaderIsCurrent, CurrentIsRunning, IsLoader, Frame
<1>11. UnitsHaveOneOwner' /\ Ages'
  <2>1. \A u, m : Stored(u, m)' <=> Stored(u, m)
    BY <1>5 DEF Stored
  <2>2. \A u, i : Waiting(u, i)' <=> Waiting(u, i)
    <3>1. \A i : i \in 1..(n + 1) <=> i \in 1..n \/ i = n + 1
      BY <1>2, Places, SMT
    <3> QED BY <1>2, <3>1 DEF Waiting, Waits, n
  <2> QED BY <1>1, <2>1, <2>2, OwnersKept, AgesKept DEF Inv
<1> QED BY <1>6, <1>7, <1>8, <1>9, <1>10, <1>11 DEF Inv

(* A function or a loader returns, or a hook does.                         *)
LEMMA PopKeeps ==
  ASSUME Inv, stack # <<>>, ~stopping, stack' = Callers,
         UNCHANGED <<table, loaded, freed, stopping, closed, handed, elders>>,
         \/ current' = None /\ Top.kind \in {"call", "load"} /\ ~Swaps(Len(stack))
         \/ current' = current /\ Top.kind \notin {"call", "load"} /\ Top.unit \notin freed
  PROVE  Inv'
<1> DEFINE n == Len(stack)
<1>1. TypeOK /\ Frames /\ Entries /\ stack \in Seq(Frame)
  BY DEF Inv, TypeOK
<1>2. /\ n \in Nat /\ stack' \in Seq(Frame) /\ Len(stack') = n - 1
      /\ \A i \in 1..(n - 1) : stack'[i] = stack[i]
  BY <1>1, PopShape
<1>3. n \in 1..n /\ stack[n] = Top /\ Top \in Frame
  BY <1>1, TopFacts
<1>4. Registered' = Registered
  BY DEF Registered
<1>5. ~Swaps(n)
  BY <1>3 DEF Swaps
<1> HIDE DEF n
<1>6. TypeOK'
  BY <1>1, <1>2, RegistryConstants DEF TypeOK
<1>7. Frames'
  <2>1. \A i \in 1..(n - 1) : FrameOK(i)'
    BY <1>1, <1>2, <1>4, LowerKept DEF n
  <2> QED BY <1>2, <2>1 DEF Frames
<1>8. Entries' /\ StatesArePrivate'
  BY <1>1, <1>4 DEF Inv, Entries, StatesArePrivate
<1>9. Stops'
  BY DEF Stops
<1>10. LoaderIsCurrent' /\ CurrentIsRunning'
  <2>1. CASE current' = None
    BY <2>1, RegistryConstants DEF LoaderIsCurrent, CurrentIsRunning
  <2>2. CASE current' = current /\ Top.kind \notin {"call", "load"}
    <3>1. OnLoader(n)
      BY <1>1, <1>3, <2>2 DEF Frames, FrameOK, n
    <3>2. n - 1 \in 1..(n - 1) /\ stack' # <<>> /\ Top' = stack[n - 1]
      BY <1>2, <1>3, <3>1, Places DEF OnLoader, Top
    <3>3. Top'.name = Top.name
      BY <1>3, <3>1, <3>2 DEF OnLoader
    <3>4. current # Loader
      BY <2>2 DEF Inv, LoaderIsCurrent, IsLoader
    <3> QED BY <2>2, <3>2, <3>3, <3>4 DEF Inv, LoaderIsCurrent, CurrentIsRunning
  <2> QED BY <2>1, <2>2
<1>11. UnitsHaveOneOwner' /\ Ages'
  <2>1. \A u, m : Stored(u, m)' <=> Stored(u, m)
    BY <1>4 DEF Stored
  <2>2. \A u, i : Waiting(u, i)' <=> Waiting(u, i)
    <3>1. \A i : i \in 1..n <=> i \in 1..(n - 1) \/ i = n
      BY <1>2, <1>3, SMT
    <3>2. \A u : ~Waits(u, n)
      BY <1>5 DEF Waits, Swaps
    <3> QED BY <1>2, <3>1, <3>2 DEF Waiting, Waits, n
  <2> QED BY <1>1, <2>1, <2>2, OwnersKept, AgesKept DEF Inv
<1> QED BY <1>6, <1>7, <1>8, <1>9, <1>10, <1>11 DEF Inv

LEMMA SetDataKeeps ==
  ASSUME Inv, SetData
  PROVE  Inv'
<1>1. PICK d \in {Top.name, None} : table' = [table EXCEPT ![current].data = d]
  BY DEF SetData
<1>2. /\ UNCHANGED <<stack, current, loaded, freed, stopping, closed, handed, elders>>
      /\ current \in Registered /\ stack # <<>> /\ Top.kind # "load"
  BY DEF SetData, ModuleRuns, history
<1>3. current \in Modules /\ Top.name = current
  BY <1>2, RegistryConstants DEF Inv, CurrentIsRunning, IsLoader, Registered
<1>4. table \in [Modules -> EntryType]
  BY DEF Inv, TypeOK, EntryType
<1>5. /\ table' \in [Modules -> EntryType]
      /\ \A m \in Modules : /\ table'[m].unit = table[m].unit
                            /\ table'[m].there = table[m].there
                            /\ table'[m].data = IF m = current THEN d ELSE table[m].data
  BY <1>1, <1>3, <1>4 DEF EntryType
<1>6. Registered' = Registered
  BY <1>5 DEF Registered
<1>7. TypeOK' /\ StatesArePrivate'
  BY <1>2, <1>3, <1>5 DEF Inv, TypeOK, EntryType, StatesArePrivate
<1>8. Entries'
  BY <1>2, <1>5, <1>6 DEF Inv, Entries
<1>9. Frames'
  <2> SUFFICES ASSUME NEW i \in 1..Len(stack) PROVE FrameOK(i)'
    BY <1>2 DEF Frames
  <2>1. FrameOK(i)
    BY DEF Inv, Frames
  <2>2. Swaps(i) => table'[stack[i].name].unit = table[stack[i].name].unit
    BY <1>5, <2>1 DEF FrameOK, Registered
  <2> QED BY <1>2, <1>6, <2>1, <2>2 DEF FrameOK, Swaps, SwapReady, Handed, OnLoader, HooksOf
<1>10. Stops'
  <2>1. stack # <<>> => Top.name \in Modules
    BY <1>3
  <2> QED BY <1>2, <1>5, <2>1 DEF Inv, Stops, Top
<1>11. LoaderIsCurrent' /\ CurrentIsRunning'
  BY <1>2 DEF Inv, LoaderIsCurrent, CurrentIsRunning, IsLoader, Top
<1>12. UnitsHaveOneOwner' /\ Ages'
  <2>1. \A u, m : Stored(u, m)' <=> Stored(u, m)
    BY <1>5, <1>6 DEF Stored, Registered
  <2>2. \A u, i : Waiting(u, i)' <=> Waiting(u, i)
    BY <1>2 DEF Waiting, Waits
  <2> QED BY <1>2, <2>1, <2>2, OwnersKept, AgesKept DEF Inv
<1> QED BY <1>7, <1>8, <1>9, <1>10, <1>11, <1>12 DEF Inv

-----------------------------------------------------------------------------
(***************************************************************************)
(* A loader registers a unit.                                              *)
(***************************************************************************)

(* What stays when a loader goes on: the frames below, and its name.       *)
WentOn(n, pc, u, h, calls) ==
  /\ n \in Nat /\ n \in 1..n /\ stack' \in Seq(Frame) /\ stack' # <<>>
  /\ n <= Len(stack') /\ Len(stack') \in Nat
  /\ \A i \in 1..(n - 1) : stack'[i] = stack[i]
  /\ stack'[n].kind = "load" /\ stack'[n].name = Top.name
  /\ stack'[n].pc = pc /\ stack'[n].unit = u
  /\ ~calls => Len(stack') = n /\ Top' = stack'[n]
  /\ calls => Len(stack') = n + 1 /\ stack'[n + 1] = h /\ Top' = h
  /\ \A i : i \in 1..Len(stack') <=> \/ i \in 1..(n - 1) \/ i = n
                                     \/ calls /\ i = n + 1
  /\ \A i : i \in 1..n <=> i \in 1..(n - 1) \/ i = n
  /\ Top \in Frame /\ stack[n] = Top /\ ~stopping

LEMMA LoaderShape ==
  ASSUME Inv, NEW pc, NEW u, NEW h, NEW calls, GoesOn(pc, u, h, calls),
         NEW n, n = Len(stack)
  PROVE  WentOn(n, pc, u, h, calls)
<1>1. stack \in Seq(Frame) /\ stack # <<>> /\ Top.kind = "load" /\ calls \in BOOLEAN
  BY DEF Inv, TypeOK, GoesOn, IsLoader
<1>a. Leaves(n, pc, u, h, calls)
  BY <1>1, ProceedShape
<1>2. /\ n \in Nat /\ n \in 1..n /\ stack' \in Seq(Frame)
      /\ stack'[n] = [Top EXCEPT !.pc = pc, !.unit = u]
      /\ \A i \in 1..(n - 1) : stack'[i] = stack[i]
      /\ ~calls => Len(stack') = n
      /\ calls => Len(stack') = n + 1 /\ stack'[n + 1] = h
  BY <1>a DEF Leaves
<1>3. Top \in Frame /\ stack[n] = Top
  BY <1>1, TopFacts
<1>4. /\ stack'[n].kind = "load" /\ stack'[n].name = Top.name
      /\ stack'[n].pc = pc /\ stack'[n].unit = u
  BY <1>1, <1>2, <1>3 DEF Frame
<1>5. \A i : i \in 1..n <=> i \in 1..(n - 1) \/ i = n
  BY <1>2, SMT
<1>6. \A i : i \in 1..(n + 1) <=> i \in 1..(n - 1) \/ i = n \/ i = n + 1
  BY <1>2, SMT
<1>7. n <= Len(stack') /\ Len(stack') \in Nat /\ Len(stack') # 0
  <2>1. n <= n /\ n <= n + 1 /\ n \in Nat /\ n + 1 \in Nat /\ n # 0 /\ n + 1 # 0
    BY <1>2, SMT
  <2> QED BY <1>1, <1>2, <2>1
<1>8. stack' # <<>>
  BY <1>7
<1>9. ~stopping
  BY <1>1 DEF Inv, Stops
<1>10. \A i : i \in 1..Len(stack') <=> \/ i \in 1..(n - 1) \/ i = n
                                       \/ calls /\ i = n + 1
  <2>1. CASE ~calls
    BY <1>2, <1>5, <2>1
  <2>2. CASE calls
    BY <1>2, <1>6, <2>2
  <2> QED BY <1>1, <2>1, <2>2
<1> QED BY <1>2, <1>3, <1>4, <1>5, <1>7, <1>8, <1>9, <1>10 DEF Top, WentOn

(* The frame of the hook it calls.                                         *)
LEMMA HookOK ==
  ASSUME NEW n, NEW pc, NEW u, NEW h, WentOn(n, pc, u, h, TRUE), NEW i, i = n + 1,
         h.kind \notin {"call", "load"}, h.name = Top.name, h.unit \in loaded' \cup {None}
  PROVE  FrameOK(i)'
<1>1. n \in Nat /\ n \in 1..n
  BY DEF WentOn
<1>2. i > 1 /\ i - 1 = n
  BY <1>1, SMT
<1>3. stack'[i] = h /\ stack'[n].kind = "load" /\ stack'[n].name = Top.name
  BY DEF WentOn
<1>4. OnLoader(i)'
  BY <1>2, <1>3 DEF OnLoader
<1> QED BY <1>3, <1>4 DEF FrameOK, Swaps

(* All frames: those below, the loader, the hook.                          *)
LEMMA FramesAfter ==
  ASSUME Inv, NEW n, n = Len(stack), NEW pc, NEW u, NEW h, NEW calls \in BOOLEAN,
         GoesOn(pc, u, h, calls), stopping' = stopping,
         h.kind \notin {"call", "load"}, h.name = Top.name, h.unit \in loaded' \cup {None},
         loaded \subseteq loaded', closed \subseteq closed', handed \subseteq handed',
         \A v \in loaded : elders'[v] = elders[v], Registered \subseteq Registered',
         \A i \in 1..(n - 1) : Swaps(i) =>
           \/ table'[stack[i].name].unit = table[stack[i].name].unit
           \/ stack[i].unit \in elders'[table'[stack[i].name].unit],
         \A i : i = n => FrameOK(i)'
  PROVE  Frames'
<1>1. WentOn(n, pc, u, h, calls)
  BY LoaderShape
<1>2. \A i \in 1..(n - 1) : FrameOK(i)'
  <2>1. \A i \in 1..(n - 1) : stack'[i] = stack[i]
    BY <1>1 DEF WentOn
  <2>2. TypeOK /\ Frames /\ Entries
    BY DEF Inv
  <2> QED BY <2>1, <2>2, LowerKept
<1>3. ASSUME calls, NEW i, i = n + 1 PROVE FrameOK(i)'
  <2>1. WentOn(n, pc, u, h, TRUE)
    BY <1>1, <1>3
  <2> QED BY <1>3, <2>1, HookOK
<1>4. \A i : i \in 1..Len(stack') <=> \/ i \in 1..(n - 1) \/ i = n
                                      \/ calls /\ i = n + 1
  BY <1>1 DEF WentOn
<1> QED BY <1>2, <1>3, <1>4 DEF Frames

(* Who waits then.                                                         *)
LEMMA WaitingAfter ==
  ASSUME NEW n, n = Len(stack), NEW pc, NEW u, NEW h, NEW calls \in BOOLEAN,
         WentOn(n, pc, u, h, calls), h.kind # "load"
  PROVE  \A v, i : Waiting(v, i)' <=> IF i = n THEN pc = "swap" /\ v = u
                                               ELSE Waiting(v, i)
<1> TAKE v, i
<1>1. /\ i \in 1..Len(stack') <=> i \in 1..(n - 1) \/ i = n \/ (calls /\ i = n + 1)
      /\ i \in 1..n <=> i \in 1..(n - 1) \/ i = n
  BY DEF WentOn
<1>2. n \in Nat /\ n \in 1..n
  BY DEF WentOn
<1>3. CASE i = n
  BY <1>1, <1>3 DEF WentOn, Waiting, Waits
<1>4. CASE i # n /\ i \in 1..(n - 1)
  BY <1>1, <1>4 DEF WentOn, Waiting, Waits
<1>5. CASE i # n /\ i \notin 1..(n - 1)
  <2>1. ~Waiting(v, i)
    BY <1>1, <1>5 DEF Waiting
  <2>2. calls /\ i = n + 1 => stack'[i].kind # "load"
    BY DEF WentOn
  <2> QED BY <1>1, <1>5, <2>1, <2>2 DEF Waiting, Waits
<1> QED BY <1>3, <1>4, <1>5

(* UnitsHaveOneOwner, by who stores and who waits.                         *)
Owners ==
  \A u \in loaded :
    /\ u \in freed \/ (\E m \in Modules : Stored(u, m)) \/ (\E i : Waiting(u, i))
    /\ \A m \in Modules : Stored(u, m) =>
         u \notin freed /\ \A k \in Modules : Stored(u, k) => k = m
    /\ \A i : Waiting(u, i) =>
         /\ u \notin freed /\ \A m \in Modules : ~Stored(u, m)
         /\ \A j : Waiting(u, j) => j = i

LEMMA OwnersForm == (UnitsHaveOneOwner <=> Owners) /\ (UnitsHaveOneOwner <=> Owners)'
<1>1. UnitsHaveOneOwner <=> Owners
  BY DEF UnitsHaveOneOwner, Owners, Waiting
<1>2. (UnitsHaveOneOwner <=> Owners)'
  BY DEF UnitsHaveOneOwner, Owners, Waiting
<1> QED BY <1>1, <1>2

LEMMA NewKeeps ==
  ASSUME Inv, NEW u \in Units, RegisterNew(u)
  PROVE  Inv'
<1> DEFINE n == Len(stack)
           m == Top.name
           h == NewFrame("init", m, u)
           calls == "init" \in Hooks[u]
<1>1. /\ IsLoader /\ Top.pc = "args" /\ u \notin loaded /\ m \notin Registered
      /\ loaded' = loaded \cup {u} /\ table' = [table EXCEPT ![m] = Entry(u, None)]
      /\ elders' = [elders EXCEPT ![u] = loaded]
      /\ current' = IF calls THEN m ELSE current
      /\ Proceed("done", u, IF calls THEN <<h>> ELSE <<>>)
      /\ UNCHANGED <<freed, stopping, closed, handed>>
  BY DEF RegisterNew, Compile, CallHook, NoHook
<1>2. TypeOK /\ Frames /\ Ages /\ Entries /\ UnitsHaveOneOwner
  BY DEF Inv
<1>a. elders' \in [Units -> SUBSET Units] /\ \A v \in loaded : elders'[v] = elders[v]
  BY <1>1, <1>2 DEF TypeOK
<1>3. m \in Modules
  BY <1>1, <1>2, TopFacts DEF TypeOK, IsLoader, Frame
<1>4. h \in Frame /\ h.kind = "init" /\ h.name = m /\ h.unit = u /\ h.pc = "args"
  BY <1>3 DEF NewFrame, Frame
<1>6. /\ table' \in [Modules -> EntryType] /\ table \in [Modules -> EntryType]
      /\ \A k \in Modules : table'[k] = IF k = m THEN Entry(u, None) ELSE table[k]
  BY <1>1, <1>2, <1>3 DEF TypeOK, Entry, EntryType
<1>7. Registered' = Registered \cup {m} /\ table[m].unit = None
  BY <1>1, <1>2, <1>3, <1>6 DEF Registered, Entry, Entries
<1> n = Len(stack) /\ calls \in BOOLEAN /\ m = Top.name
  OBVIOUS
<1> HIDE DEF n, m, h, calls
<1>5. GoesOn("done", u, h, calls) /\ WentOn(n, "done", u, h, calls)
  <2>1. GoesOn("done", u, h, calls)
    BY <1>1, <1>4 DEF GoesOn
  <2> QED BY <2>1, LoaderShape
<1>8. TypeOK'
  <2>1. stack' \in Seq(Frame)
    BY <1>5 DEF WentOn
  <2> QED BY <1>1, <1>2, <1>3, <1>a, <1>6, <2>1 DEF TypeOK, EntryType
<1>9. Frames'
  <2>1. ASSUME NEW i, i = n PROVE FrameOK(i)'
    BY <1>1, <1>5, <2>1 DEF FrameOK, Swaps, WentOn
  <2>2. \A i \in 1..(n - 1) : Swaps(i) => table'[stack[i].name].unit = table[stack[i].name].unit
    <3>1. \A i \in 1..(n - 1) : FrameOK(i)
      BY <1>2, <1>5 DEF Frames, WentOn
    <3> QED BY <1>1, <1>6, <3>1 DEF FrameOK, Registered
  <2>3. /\ loaded \subseteq loaded' /\ closed \subseteq closed' /\ handed \subseteq handed'
        /\ Registered \subseteq Registered' /\ stopping' = stopping
        /\ h.kind \notin {"call", "load"} /\ h.unit \in loaded' \cup {None}
    BY <1>1, <1>4, <1>7
  <2> QED BY <1>a, <1>4, <1>5, <2>1, <2>2, <2>3, FramesAfter
<1>10. Entries' /\ StatesArePrivate'
  BY <1>1, <1>2, <1>6, <1>7 DEF Inv, Entries, StatesArePrivate, Entry
<1>11. Stops'
  BY <1>1, <1>5 DEF Stops, WentOn
<1>12. LoaderIsCurrent' /\ CurrentIsRunning'
  <2>1. CASE calls
    <3>1. current' = m /\ stack' # <<>> /\ Top'.name = m
      BY <1>1, <1>4, <1>5, <2>1 DEF WentOn
    <3> QED BY <1>3, <3>1, RegistryConstants DEF LoaderIsCurrent, CurrentIsRunning
  <2>2. CASE ~calls
    <3>1. /\ current' = current /\ stack' # <<>> /\ Top'.name = m
          /\ Top'.kind = "load" /\ Top'.pc = "done"
      BY <1>1, <1>5, <2>2 DEF WentOn
    <3> QED BY <1>1, <3>1 DEF Inv, LoaderIsCurrent, CurrentIsRunning, IsLoader
  <2> QED BY <2>1, <2>2
<1>13. UnitsHaveOneOwner' /\ Ages'
  <2>1. \A v \in Units, k \in Modules :
          Stored(v, k)' <=> IF k = m THEN v = u ELSE Stored(v, k)
    BY <1>6, <1>7 DEF Stored, Entry
  <2>2. \A v, i : Waiting(v, i) => Waiting(v, i)' /\ i # n
    BY <1>1, <1>4, <1>5, TopFacts, WaitingAfter DEF Waiting, Waits, WentOn
  <2>3. \A v, i : Waiting(v, i)' => Waiting(v, i)
    BY <1>4, <1>5, WaitingAfter
  <2>4. (\A k : ~Stored(u, k)) /\ \A i : ~Waiting(u, i)
    BY <1>1, <1>2, OwnedIsLoaded
  <2>5. loaded \subseteq Units /\ freed \subseteq loaded /\ \A v : ~Stored(v, m)
    BY <1>1, <1>2 DEF TypeOK, Stored
  <2>6. Owners
    BY <1>2, OwnersForm
  <2>7. Owners'
    BY <1>1, <1>3, <2>1, <2>2, <2>3, <2>4, <2>5, <2>6 DEF Owners
  <2> QED BY <1>2, <1>a, <2>3, <2>7, OwnersForm, AgesKept
<1> QED BY <1>8, <1>9, <1>10, <1>11, <1>12, <1>13 DEF Inv

LEMMA ReloadKeeps ==
  ASSUME Inv, NEW u \in Units, BeginReload(u)
  PROVE  Inv'
<1> DEFINE n == Len(stack)
           m == Top.name
           old == table[m].unit
           reloads == "reload" \in Hooks[u]
           ends == ~TakesOver(u, old)
           h == IF reloads THEN NewFrame("reload", m, u) ELSE NewFrame("deinit", m, old)
           calls == reloads \/ ends
<1>1. /\ IsLoader /\ Top.pc = "args" /\ u \notin loaded /\ m \in Registered
      /\ loaded' = loaded \cup {u} /\ current' = m
      /\ closed' = IF ends THEN closed \cup {old} ELSE closed
      /\ handed' = IF reloads THEN handed \cup ({old} \ {None}) ELSE handed
      /\ elders' = [elders EXCEPT ![u] = loaded]
      /\ Proceed("swap", u, IF calls THEN <<h>> ELSE <<>>)
      /\ UNCHANGED <<table, freed, stopping>>
  BY DEF BeginReload, Compile, TakesOver, CallHook, NoHook
<1>2. TypeOK /\ Frames /\ Ages /\ Entries /\ UnitsHaveOneOwner
  BY DEF Inv
<1>a. /\ elders' \in [Units -> SUBSET Units] /\ elders'[u] = loaded
      /\ \A v \in loaded : elders'[v] = elders[v]
  BY <1>1, <1>2 DEF TypeOK
<1>3. m \in Modules /\ old \in loaded \cup {None} /\ (ends => old \in loaded /\ ~reloads)
      /\ (~ends => reloads \/ "deinit" \notin HooksOf(old))
  BY <1>1, <1>2, RegistryConstants
     DEF Registered, Entries, TakesOver, HooksOf, TypeOK
<1>4. /\ h \in Frame /\ h.kind \in {"reload", "deinit"} /\ h.name = m
      /\ h.unit = IF reloads THEN u ELSE old
      /\ ~reloads => h.kind = "deinit"
  BY <1>2, <1>3 DEF NewFrame, Frame, TypeOK
<1>5. Registered' = Registered
  BY <1>1 DEF Registered
<1> n = Len(stack) /\ calls \in BOOLEAN /\ m = Top.name /\ ends \in BOOLEAN
    /\ (calls <=> reloads \/ ends) /\ old = table[m].unit
    /\ (reloads <=> "reload" \in Hooks[u])
  BY DEF TakesOver
<1> HIDE DEF n, m, h, calls, ends, old, reloads
<1>6. GoesOn("swap", u, h, calls) /\ WentOn(n, "swap", u, h, calls)
  <2>1. GoesOn("swap", u, h, calls)
    BY <1>1, <1>4 DEF GoesOn
  <2> QED BY <2>1, LoaderShape
<1>7. TypeOK'
  <2>1. stack' \in Seq(Frame)
    BY <1>6 DEF WentOn
  <2> QED BY <1>1, <1>2, <1>3, <1>a, <2>1 DEF TypeOK
<1>8. Frames'
  <2>1. ASSUME NEW i, i = n PROVE FrameOK(i)'
    <3>1. /\ stack'[i].kind = "load" /\ stack'[i].name = m /\ stack'[i].unit = u
          /\ u \in loaded' /\ m \in Registered'
      BY <1>1, <1>5, <1>6, <2>1 DEF WentOn
    <3>2. table'[m].unit = old
      BY <1>1
    <3>3. \/ table'[m].unit \in closed' \cup handed'
          \/ "deinit" \notin HooksOf(table'[m].unit)
      BY <1>1, <1>3, <3>2 DEF HooksOf
    <3>4. SwapReady(i)'
      BY <3>1, <3>3 DEF SwapReady, Handed, HooksOf
    <3> QED BY <3>1, <3>4 DEF FrameOK, Swaps
  <2>3. /\ loaded \subseteq loaded' /\ closed \subseteq closed' /\ handed \subseteq handed'
        /\ Registered \subseteq Registered' /\ stopping' = stopping
        /\ h.kind \notin {"call", "load"} /\ h.unit \in loaded' \cup {None}
    BY <1>1, <1>3, <1>4, <1>5
  <2> QED BY <1>1, <1>a, <1>4, <1>6, <2>1, <2>3, FramesAfter
<1>9. Entries' /\ StatesArePrivate'
  BY <1>1, <1>2, <1>5 DEF Inv, Entries, StatesArePrivate
<1>10. Stops'
  BY <1>1, <1>6 DEF Stops, WentOn
<1>11. LoaderIsCurrent' /\ CurrentIsRunning'
  <2>1. stack' # <<>> /\ Top'.name = m
    BY <1>4, <1>6 DEF WentOn
  <2> QED BY <1>1, <1>3, <2>1, RegistryConstants DEF LoaderIsCurrent, CurrentIsRunning
<1>12. UnitsHaveOneOwner'
  <2>1. \A v, k : Stored(v, k)' <=> Stored(v, k)
    BY <1>1, <1>5 DEF Stored
  <2>2. \A v : ~Waiting(v, n)
    BY <1>1, <1>6 DEF Waiting, Waits, WentOn
  <2>3. \A v, i : Waiting(v, i)' <=> Waiting(v, i) \/ (v = u /\ i = n)
    BY <1>4, <1>6, <2>2, WaitingAfter
  <2>4. (\A k : ~Stored(u, k)) /\ \A i : ~Waiting(u, i)
    BY <1>1, <1>2, OwnedIsLoaded
  <2>5. u \notin freed
    BY <1>1, <1>2 DEF TypeOK
  <2>6. Owners
    BY <1>2, OwnersForm
  <2>7. Owners'
    BY <1>1, <2>1, <2>2, <2>3, <2>4, <2>5, <2>6 DEF Owners
  <2> QED BY <2>7, OwnersForm
<1>13. Ages'
  <2> SUFFICES ASSUME NEW v, NEW w, NEW i, NEW j, Waiting(v, i)', Waiting(w, j)', i < j
               PROVE  v \in elders'[w]
    BY DEF Ages
  <2>1. \A x, k : Waiting(x, k)' => Waiting(x, k) \/ (x = u /\ k = n)
    BY <1>4, <1>6, WaitingAfter
  <2>2. \A x, k : Waiting(x, k) => x \in loaded /\ k \in 1..n
    BY <1>2, OwnedIsLoaded DEF Waiting, n
  <2>3. CASE Waiting(v, i) /\ Waiting(w, j)
    BY <1>2, <1>a, <2>2, <2>3 DEF Ages
  <2>4. CASE Waiting(v, i) /\ w = u
    BY <1>a, <2>2, <2>4
  <2>5. CASE i = n
    <3>1. j \in 1..n /\ n \in Nat
      BY <1>6, <2>1, <2>2 DEF WentOn
    <3> QED BY <2>5, <3>1, SMT
  <2> QED BY <2>1, <2>3, <2>4, <2>5
<1> QED BY <1>7, <1>8, <1>9, <1>10, <1>11, <1>12, <1>13 DEF Inv

(* What the loader at the top knows when its hook has returned.            *)
LEMMA SwapFacts ==
  ASSUME Inv, Swap
  PROVE  /\ IsLoader /\ Top.name \in Modules /\ Top.name \in Registered
         /\ Top.unit \in loaded /\ Top.unit \in Units
         /\ \/ Handed(table[Top.name].unit)
            \/ Top.unit \in elders[table[Top.name].unit]
         /\ Waiting(Top.unit, Len(stack))
<1>1. TypeOK /\ Frames /\ IsLoader /\ Top.pc = "swap"
  BY DEF Inv, Swap
<1>2. Len(stack) \in 1..Len(stack) /\ Top = stack[Len(stack)] /\ Top \in Frame
  BY <1>1, TopFacts DEF TypeOK, IsLoader
<1>3. FrameOK(Len(stack)) /\ Swaps(Len(stack))
  BY <1>1, <1>2 DEF Frames, IsLoader, Swaps
<1>4. /\ Top.unit \in loaded /\ Top.name \in Registered /\ SwapReady(Len(stack))
  BY <1>2, <1>3 DEF FrameOK
<1> QED BY <1>1, <1>2, <1>3, <1>4 DEF SwapReady, TypeOK, Frame, Waiting, Waits, Swaps

LEMMA SwapKeeps ==
  ASSUME Inv, Swap
  PROVE  Inv'
<1> DEFINE n == Len(stack)
           m == Top.name
           u == Top.unit
           h == NewFrame("init", m, u)
           calls == "init" \in Hooks[u] /\ "reload" \notin Hooks[u]
<1>1. /\ IsLoader /\ Top.pc = "swap"
      /\ freed' = freed \cup ({table[m].unit} \ {None})
      /\ table' = [table EXCEPT ![m].unit = u]
      /\ Proceed("done", u, IF calls THEN <<h>> ELSE <<>>)
      /\ UNCHANGED <<current, loaded, stopping, closed, handed, elders>>
  BY DEF Swap, CallHook, NoHook, Discarded, Replaced, history
<1>2. TypeOK /\ Frames /\ Ages /\ Entries /\ UnitsHaveOneOwner
  BY DEF Inv
<1>3. /\ m \in Modules /\ m \in Registered /\ u \in loaded /\ u \in Units
      /\ Waiting(u, n)
  BY SwapFacts
<1>4. h \in Frame /\ h.kind = "init" /\ h.name = m /\ h.unit = u
  BY <1>3 DEF NewFrame, Frame
<1>5. /\ table' \in [Modules -> EntryType] /\ table \in [Modules -> EntryType]
      /\ \A k \in Modules : /\ table'[k].unit = IF k = m THEN u ELSE table[k].unit
                            /\ table'[k].there = table[k].there
                            /\ table'[k].data = table[k].data
  BY <1>1, <1>2, <1>3 DEF TypeOK, EntryType
<1>6. Registered' = Registered
  BY <1>5 DEF Registered
<1> n = Len(stack) /\ calls \in BOOLEAN /\ m = Top.name
  OBVIOUS
<1> HIDE DEF n, m, u, h, calls
<1>7. GoesOn("done", u, h, calls) /\ WentOn(n, "done", u, h, calls)
  <2>1. GoesOn("done", u, h, calls)
    BY <1>1, <1>3, <1>4 DEF GoesOn
  <2> QED BY <2>1, LoaderShape
<1>8. TypeOK'
  <2>1. stack' \in Seq(Frame)
    BY <1>7 DEF WentOn
  <2>2. freed' \subseteq loaded'
    BY <1>1, <1>2, <1>3 DEF Entries, TypeOK
  <2> QED BY <1>1, <1>2, <1>5, <2>1, <2>2 DEF TypeOK, EntryType
<1>9. Frames'
  <2>1. ASSUME NEW i, i = n PROVE FrameOK(i)'
    BY <1>1, <1>3, <1>7, <2>1 DEF FrameOK, Swaps, WentOn
  <2>2. ASSUME NEW i \in 1..(n - 1), Swaps(i)
        PROVE  \/ table'[stack[i].name].unit = table[stack[i].name].unit
               \/ stack[i].unit \in elders'[table'[stack[i].name].unit]
    <3>1. i \in 1..Len(stack) /\ i < n
      BY <1>7, SMT DEF WentOn, n
    <3>2. stack[i].name \in Modules
      BY <1>2, <2>2, <3>1 DEF Frames, FrameOK, Registered
    <3>3. Waiting(stack[i].unit, i)
      BY <2>2, <3>1 DEF Waiting, Waits, Swaps
    <3>4. stack[i].unit \in elders[u]
      BY <1>2, <1>3, <3>1, <3>3 DEF Ages
    <3> QED BY <1>1, <1>5, <3>2, <3>4
  <2>3. /\ loaded \subseteq loaded' /\ closed \subseteq closed' /\ handed \subseteq handed'
        /\ Registered \subseteq Registered' /\ stopping' = stopping
        /\ h.kind \notin {"call", "load"} /\ h.unit \in loaded' \cup {None}
    BY <1>1, <1>3, <1>4, <1>6
  <2> QED BY <1>1, <1>4, <1>7, <2>1, <2>2, <2>3, FramesAfter
<1>10. Entries' /\ StatesArePrivate'
  BY <1>1, <1>2, <1>3, <1>5, <1>6 DEF Inv, Entries, StatesArePrivate
<1>11. Stops'
  BY <1>1, <1>7 DEF Stops, WentOn
<1>12. LoaderIsCurrent' /\ CurrentIsRunning'
  <2>1. stack' # <<>> /\ Top'.name = m
    BY <1>4, <1>7 DEF WentOn
  <2>2. current # Loader
    BY <1>1 DEF Inv, LoaderIsCurrent
  <2> QED BY <1>1, <2>1, <2>2 DEF Inv, LoaderIsCurrent, CurrentIsRunning
<1>13. UnitsHaveOneOwner' /\ Ages'
  <2>1. \A v \in Units, k \in Modules :
          Stored(v, k)' <=> IF k = m THEN v = u ELSE Stored(v, k)
    BY <1>3, <1>5, <1>6 DEF Stored
  <2>2. \A v, i : Waiting(v, i)' <=> i # n /\ Waiting(v, i)
    BY <1>4, <1>7, WaitingAfter
  <2>3. loaded \subseteq Units /\ None \notin Units
    BY <1>2, RegistryConstants DEF TypeOK
  <2>4. \A v \in Units : v \in freed' <=> v \in freed \/ Stored(v, m)
    BY <1>1, <1>3, <2>3 DEF Stored
  <2>6. Owners
    BY <1>2, OwnersForm
  <2>5. /\ u \notin freed /\ (\A k \in Modules : ~Stored(u, k))
        /\ \A i : Waiting(u, i) => i = n
    BY <1>3, <2>6 DEF Owners
  <2>7. /\ \A v \in loaded, k \in Modules : Stored(v, k) =>
             v \notin freed /\ (\A j \in Modules : Stored(v, j) => j = k)
        /\ \A v \in loaded : \A i : Waiting(v, i) =>
             /\ v \notin freed /\ (\A k \in Modules : ~Stored(v, k))
             /\ (\A j : Waiting(v, j) => j = i)
        /\ \A v \in loaded : v \in freed \/ (\E k \in Modules : Stored(v, k))
                              \/ (\E i : Waiting(v, i))
    BY <2>6 DEF Owners
  <2>8. \A v \in loaded : v \in Units
    BY <2>3
  <2>9. ASSUME NEW v \in loaded
        PROVE  v \in freed' \/ (\E k \in Modules : Stored(v, k)') \/ (\E i : Waiting(v, i)')
    <3>1. CASE v = u
      BY <1>3, <2>1, <3>1
    <3>2. CASE v # u /\ v \in freed
      BY <2>4, <2>8, <3>2
    <3>3. ASSUME v # u, NEW k \in Modules, Stored(v, k)
          PROVE  v \in freed' \/ Stored(v, k)'
      BY <2>1, <2>4, <2>8, <3>3
    <3>4. ASSUME v # u, NEW i, Waiting(v, i) PROVE Waiting(v, i)'
      BY <1>3, <2>2, <2>7, <3>4 DEF Waiting, Waits
    <3> QED BY <2>7, <3>1, <3>2, <3>3, <3>4
  <2>10. ASSUME NEW v \in loaded, NEW k \in Modules, Stored(v, k)'
         PROVE  v \notin freed' /\ \A j \in Modules : Stored(v, j)' => j = k
    <3>1. CASE v = u
      BY <1>3, <2>1, <2>4, <2>5, <2>8, <2>10, <3>1
    <3>2. CASE v # u
      <4>1. k # m /\ Stored(v, k)
        BY <2>1, <2>8, <2>10, <3>2
      <4>2. ~Stored(v, m) /\ v \notin freed
        BY <1>3, <2>7, <4>1
      <4> QED BY <2>1, <2>4, <2>7, <2>8, <3>2, <4>1, <4>2
    <3> QED BY <3>1, <3>2
  <2>11. ASSUME NEW v \in loaded, NEW i, Waiting(v, i)'
         PROVE  /\ v \notin freed' /\ (\A k \in Modules : ~Stored(v, k)')
                /\ \A j : Waiting(v, j)' => j = i
    <3>1. i # n /\ Waiting(v, i)
      BY <2>2, <2>11
    <3>2. v # u
      BY <2>5, <3>1
    <3> QED BY <1>3, <2>1, <2>2, <2>4, <2>7, <2>8, <3>1, <3>2
  <2>12. Owners'
    BY <1>1, <2>9, <2>10, <2>11 DEF Owners
  <2> QED BY <1>1, <1>2, <2>2, <2>12, OwnersForm, AgesKept
<1> QED BY <1>8, <1>9, <1>10, <1>11, <1>12, <1>13 DEF Inv

-----------------------------------------------------------------------------
(***************************************************************************)
(* Shutdown.                                                               *)
(***************************************************************************)

(* The entry of m goes, with its unit; nothing is left on the stack.       *)
LEMMA ReleaseKeeps ==
  ASSUME Inv, NEW m \in Modules, Release(m), stack' = <<>>, current' = None,
         UNCHANGED <<loaded, closed, handed, elders>>, stopping' \in BOOLEAN,
         \A u, i : ~Waiting(u, i)
  PROVE  Inv'
<1>1. /\ TypeOK /\ Entries /\ UnitsHaveOneOwner
      /\ table \in [Modules -> EntryType] /\ table' = [table EXCEPT ![m] = Absent]
      /\ freed' = freed \cup ({table[m].unit} \ {None})
  BY DEF Inv, TypeOK, EntryType, Release, Discarded
<1>2. \A k \in Modules : table'[k] = IF k = m THEN Absent ELSE table[k]
  BY <1>1
<1>3. table' \in [Modules -> EntryType] /\ Registered' = Registered \ {m}
  BY <1>1, <1>2 DEF Absent, EntryType, Registered
<1>4. TypeOK'
  BY <1>1, <1>3, RegistryConstants DEF TypeOK, EntryType, Entries, Frame
<1>5. Frames' /\ Ages' /\ Stops' /\ LoaderIsCurrent' /\ CurrentIsRunning'
  BY RegistryConstants DEF Frames, Ages, Waiting, Stops, LoaderIsCurrent, CurrentIsRunning
<1>6. Entries' /\ StatesArePrivate'
  BY <1>1, <1>2, <1>3 DEF Inv, Entries, StatesArePrivate, Absent
<1>7. UnitsHaveOneOwner'
  <2>1. \A v \in Units, k \in Modules : Stored(v, k)' <=> k # m /\ Stored(v, k)
    BY <1>2, <1>3 DEF Stored
  <2>2. \A u, i : ~Waiting(u, i)'
    BY DEF Waiting
  <2>3. loaded \subseteq Units /\ None \notin Units
    BY <1>1, RegistryConstants DEF TypeOK
  <2>4. \A v \in Units : Stored(v, m) => v \in freed'
    BY <1>1, <2>3 DEF Stored
  <2>5. \A v \in Units : v \in freed' => v \in freed \/ Stored(v, m)
    BY <1>1, <2>3 DEF Stored, Entries
  <2>6. freed \subseteq freed'
    BY <1>1
  <2>7. Owners
    BY <1>1, OwnersForm
  <2>8. Owners'
    BY <2>1, <2>2, <2>3, <2>4, <2>5, <2>6, <2>7 DEF Owners
  <2> QED BY <2>8, OwnersForm
<1> QED BY <1>4, <1>5, <1>6, <1>7 DEF Inv

LEMMA StopModuleKeeps ==
  ASSUME Inv, NEW m \in Modules, StopModule(m)
  PROVE  Inv'
<1> DEFINE u == table[m].unit
           h == NewFrame("deinit", m, u)
<1>1. /\ stack = <<>> /\ m \in Registered /\ stopping' = TRUE
      /\ UNCHANGED <<loaded, handed, elders>>
  BY DEF StopModule
<1>2. TypeOK /\ Entries /\ UnitsHaveOneOwner /\ current = None
  BY <1>1 DEF Inv, CurrentIsRunning, IsLoader
<1>3. CASE "deinit" \notin HooksOf(u)
  <2>1. /\ Release(m) /\ UNCHANGED <<stack, current, closed>>
    BY <1>3 DEF StopModule
  <2>2. \A v, i : ~Waiting(v, i)
    BY <1>1 DEF Waiting
  <2> QED BY <1>1, <1>2, <2>1, <2>2, ReleaseKeeps
<1>4. CASE "deinit" \in HooksOf(u)
  <2>1. /\ stack' = <<h>> /\ current' = m /\ closed' = closed \cup {u}
        /\ UNCHANGED <<table, freed>>
    BY <1>4 DEF StopModule, CallHook
  <2>2. u \in loaded
    BY <1>2, <1>4 DEF HooksOf, Entries
  <2>3. h \in Frame /\ h.kind = "deinit" /\ h.name = m /\ h.unit = u
    BY <1>2, <2>2 DEF NewFrame, Frame, TypeOK
  <2> HIDE DEF h
  <2>4. stack' \in Seq(Frame) /\ Len(stack') = 1 /\ stack'[1] = h /\ stack' # <<>> /\ Top' = h
    BY <2>1, <2>3 DEF Top
  <2>5. Registered' = Registered
    BY <2>1 DEF Registered
  <2>6. TypeOK'
    BY <1>1, <1>2, <2>1, <2>2, <2>4 DEF TypeOK
  <2>7. Frames'
    <3>1. ASSUME NEW i, i = 1 PROVE FrameOK(i)'
      BY <1>1, <2>2, <2>3, <2>4, <3>1 DEF FrameOK, Swaps
    <3>2. \A i \in 1..1 : i = 1
      OBVIOUS
    <3> QED BY <2>4, <3>1, <3>2 DEF Frames
  <2>8. Entries' /\ StatesArePrivate'
    BY <1>1, <1>2, <2>1, <2>5 DEF Inv, Entries, StatesArePrivate
  <2>9. Stops'
    BY <2>1, <2>3, <2>4 DEF Stops
  <2>10. LoaderIsCurrent' /\ CurrentIsRunning'
    BY <2>1, <2>3, <2>4, RegistryConstants DEF LoaderIsCurrent, CurrentIsRunning
  <2>11. UnitsHaveOneOwner' /\ Ages'
    <3>1. \A v, k : Stored(v, k)' <=> Stored(v, k)
      BY <2>1, <2>5 DEF Stored
    <3>2. \A v, i : ~Waiting(v, i)
      BY <1>1 DEF Waiting
    <3>3. \A v, i : ~Waiting(v, i)'
      <4>1. \A i \in 1..1 : i = 1
        OBVIOUS
      <4> QED BY <2>3, <2>4, <4>1 DEF Waiting, Waits
    <3>4. Ages'
      BY <3>3 DEF Ages
    <3> QED BY <1>1, <1>2, <2>1, <3>1, <3>2, <3>3, <3>4, OwnersKept
  <2> QED BY <2>6, <2>7, <2>8, <2>9, <2>10, <2>11 DEF Inv
<1> QED BY <1>3, <1>4

(* The hook at work belongs to an entry.                                   *)
LEMMA StopHookFacts ==
  ASSUME Inv, StopHookReturns
  PROVE  /\ Top.name \in Modules /\ Len(stack) = 1 /\ stack[1].kind = "deinit"
         /\ Top.unit \in closed /\ table[Top.name].unit = Top.unit
<1>1. TypeOK /\ stack # <<>> /\ stopping /\ Stops
  BY DEF Inv, StopHookReturns
<1>2. Top \in Frame /\ Top = stack[Len(stack)]
  BY <1>1, TopFacts DEF TypeOK
<1> QED BY <1>1, <1>2 DEF Stops, Frame

LEMMA StopHookKeeps ==
  ASSUME Inv, StopHookReturns
  PROVE  Inv'
<1>1. /\ Release(Top.name) /\ stack' = <<>> /\ current' = None
      /\ UNCHANGED <<loaded, stopping, closed, handed, elders>> /\ stopping
  BY DEF StopHookReturns, history
<1>2. \A u, i : ~Waiting(u, i)
  <2>1. \A i \in 1..1 : i = 1
    OBVIOUS
  <2> QED BY <2>1, StopHookFacts DEF Waiting, Waits
<1> QED BY <1>1, <1>2, StopHookFacts, ReleaseKeeps

-----------------------------------------------------------------------------
(***************************************************************************)
(* The theorems.                                                           *)
(***************************************************************************)
LEMMA InitEstablishes ==
  ASSUME Init
  PROVE  Inv
<1>1. /\ stack = <<>> /\ current = None /\ loaded = {} /\ freed = {}
      /\ stopping = FALSE /\ closed = {} /\ handed = {}
      /\ elders = [u \in Units |-> {}]
      /\ \A m \in Modules : table[m].unit = None /\ table[m].data = None
                            /\ table[m].there \in BOOLEAN
  BY RegistryConstants DEF Init, Entry, Absent
<1>2. TypeOK
  <2>1. Entry(None, None) \in EntryType /\ Absent \in EntryType
    BY DEF Entry, Absent, EntryType
  <2>2. table \in [Modules -> EntryType]
    BY <2>1 DEF Init
  <2>3. stack \in Seq(Frame)
    BY <1>1
  <2> QED BY <1>1, <2>2, <2>3 DEF TypeOK, EntryType
<1>3. Frames /\ Entries /\ Stops /\ LoaderIsCurrent /\ CurrentIsRunning /\ StatesArePrivate
  BY <1>1, RegistryConstants
     DEF Frames, Entries, Stops, LoaderIsCurrent, CurrentIsRunning, StatesArePrivate
<1>4. UnitsHaveOneOwner /\ Ages
  BY <1>1 DEF UnitsHaveOneOwner, Ages, Waiting
<1> QED BY <1>2, <1>3, <1>4 DEF Inv

LEMMA StepKeeps ==
  ASSUME Inv, [Next]_vars
  PROVE  Inv'
<1>1. ASSUME NEW m \in Modules, Dispatch(m) PROVE Inv'
  <2> DEFINE f == NewFrame("call", m, table[m].unit)
  <2>1. /\ f \in Frame /\ f.kind = "call" /\ f.pc = "args" /\ f.name = m
        /\ f.unit \in loaded \cup {None}
    BY DEF Inv, TypeOK, Entries, NewFrame, Frame
  <2>2. /\ CanEvaluate /\ stack' = Append(stack, f) /\ current' = m
        /\ UNCHANGED <<table, loaded, freed, stopping, closed, handed, elders>>
    BY <1>1 DEF Dispatch, history
  <2> HIDE DEF f
  <2> QED BY <2>1, <2>2, CallKeeps
<1>2. ASSUME NEW m \in Modules, DispatchLoader(m) PROVE Inv'
  <2> DEFINE f == NewFrame("load", m, None)
  <2>1. /\ f \in Frame /\ f.kind = "load" /\ f.pc = "args"
        /\ f.unit \in loaded \cup {None}
    BY DEF NewFrame, Frame
  <2>2. /\ CanEvaluate /\ stack' = Append(stack, f) /\ current' = Loader
        /\ UNCHANGED <<table, loaded, freed, stopping, closed, handed, elders>>
    BY <1>2 DEF DispatchLoader, history
  <2> HIDE DEF f
  <2> QED BY <2>1, <2>2, CallKeeps
<1>3. ASSUME Return PROVE Inv'
  <2>1. /\ stack # <<>> /\ Top.kind \in {"call", "load"} /\ stack' = Callers /\ current' = None
        /\ UNCHANGED <<table, loaded, freed, stopping, closed, handed, elders>>
    BY <1>3 DEF Return, ModuleRuns, IsLoader, history
  <2>2. ~Swaps(Len(stack))
    BY <1>3, <2>1, TopFacts DEF Inv, TypeOK, Return, LoadFails, Swaps, IsLoader
  <2>3. ~stopping
    BY <2>1 DEF Inv, Stops
  <2> QED BY <2>1, <2>2, <2>3, PopKeeps
<1>4. ASSUME HookReturns PROVE Inv'
  <2>1. /\ stack # <<>> /\ Top.kind \notin {"call", "load"} /\ Top.unit \notin freed
        /\ ~stopping /\ stack' = Callers /\ current' = current
        /\ UNCHANGED <<table, loaded, freed, stopping, closed, handed, elders>>
    BY <1>4 DEF HookReturns, ModuleRuns, history
  <2> QED BY <2>1, PopKeeps
<1>5. CASE UNCHANGED vars
  BY <1>5 DEF vars, history, Inv, TypeOK, Frames, Ages, Waiting, FrameOK, Swaps, SwapReady, Handed, HooksOf, OnLoader,
              Entries, Registered, Stops, Top, LoaderIsCurrent, IsLoader, CurrentIsRunning,
              StatesArePrivate, UnitsHaveOneOwner, Stored, Waits
<1> QED BY <1>1, <1>2, <1>3, <1>4, <1>5, SetDataKeeps, NewKeeps, ReloadKeeps, SwapKeeps,
           StopModuleKeeps, StopHookKeeps DEF Next, Load

(* The inductive invariant.                                                *)
THEOREM Invariant == Spec => []Inv
<1>1. Init => Inv
  BY InitEstablishes
<1>2. Inv /\ [Next]_vars => Inv'
  BY StepKeeps
<1> QED BY <1>1, <1>2, PTL DEF Spec

(* Every variable keeps its type, however deep loaders, builtins and hooks *)
(* call each other; only compiled units are freed or closed.               *)
THEOREM TypeCorrect == Spec => []TypeOK
<1>1. Inv => TypeOK
  BY DEF Inv
<1> QED BY <1>1, Invariant, PTL

(* A compiled unit is stored under one name, waits in one loader or was    *)
(* freed: akx_rt_register_builtin and akx_runtime_deinit free none twice,  *)
(* leave none in the table that was freed, and lose none.                  *)
THEOREM OneOwner == Spec => []UnitsHaveOneOwner
<1>1. Inv => UnitsHaveOneOwner
  BY DEF Inv
<1> QED BY <1>1, Invariant, PTL

(* rt->current_module_name never names another module than the one at      *)
(* work, after any nesting of dispatches, hooks and reloads.               *)
THEOREM CurrentModule == Spec => []CurrentIsRunning
<1>1. Inv => CurrentIsRunning
  BY DEF Inv
<1> QED BY <1>1, Invariant, PTL

(* akx_rt_module_set_data writes the slot of the module whose code called  *)
(* it, wherever that code runs: no module ever gets the state of another.  *)
THEOREM PrivateStates == Spec => []StatesArePrivate
<1>1. Inv => StatesArePrivate
  BY DEF Inv
<1> QED BY <1>1, Invariant, PTL

(* The slots of registered modules that stay registered, in a step.        *)
SlotsKept ==
  \A m \in Registered :
    m \in Registered' /\ table'[m].data # table[m].data => ModuleRuns /\ Top.name = m

(* Hot reloading keeps the state of a module: while the name stays         *)
(* registered its module_data changes only when its own code sets it.      *)
THEOREM StateSurvivesReload == Spec => ReloadKeepsState
<1>1. Inv /\ [Next]_vars => SlotsKept
  <2> SUFFICES ASSUME Inv, [Next]_vars, NEW m \in Registered, m \in Registered',
                      table'[m].data # table[m].data
               PROVE  ModuleRuns /\ Top.name = m
    BY DEF SlotsKept
  <2>1. table \in [Modules -> EntryType] /\ m \in Modules
    BY DEF Inv, TypeOK, EntryType, Registered
  <2>2. CASE SetData
    <3>1. PICK d : table' = [table EXCEPT ![current].data = d]
      BY <2>2 DEF SetData
    <3>2. ModuleRuns /\ current \in Modules /\ current # None /\ current # Loader
      BY <2>2, RegistryConstants DEF SetData, Registered
    <3>3. m = current
      BY <2>1, <3>1 DEF EntryType
    <3> QED BY <3>2, <3>3 DEF Inv, CurrentIsRunning
  <2>3. ASSUME NEW u \in Units, RegisterNew(u) PROVE FALSE
    <3>1. Top.name \notin Registered /\ table' = [table EXCEPT ![Top.name] = Entry(u, None)]
      BY <2>3 DEF RegisterNew
    <3> QED BY <2>1, <3>1
  <2>4. CASE Swap
    <3>1. table' = [table EXCEPT ![Top.name].unit = Top.unit]
      BY <2>4 DEF Swap, Replaced
    <3> QED BY <2>1, <3>1 DEF EntryType
  <2>5. ASSUME NEW k \in Modules, Release(k) PROVE FALSE
    <3>1. table' = [table EXCEPT ![k] = Absent]
      BY <2>5 DEF Release
    <3>2. m # k
      BY <2>1, <3>1 DEF Registered, Absent
    <3> QED BY <2>1, <3>1, <3>2
  <2>6. table' = table => FALSE
    OBVIOUS
  <2>7. CASE StopHookReturns
    BY <2>5, <2>7, StopHookFacts DEF StopHookReturns
  <2>8. ASSUME NEW k \in Modules, StopModule(k) PROVE FALSE
    BY <2>5, <2>6, <2>8 DEF StopModule
  <2>9. ASSUME NEW k \in Modules, Dispatch(k) \/ DispatchLoader(k) PROVE FALSE
    BY <2>6, <2>9 DEF Dispatch, DispatchLoader
  <2>10. ASSUME NEW u \in Units, BeginReload(u) PROVE FALSE
    BY <2>6, <2>10 DEF BeginReload
  <2>11. ASSUME Return \/ HookReturns \/ UNCHANGED vars PROVE FALSE
    BY <2>6, <2>11 DEF Return, HookReturns, vars
  <2> QED BY <2>2, <2>3, <2>4, <2>7, <2>8, <2>9, <2>10, <2>11 DEF Next, Load
<1>2. Spec => [][SlotsKept]_vars
  BY <1>1, Invariant, PTL DEF Spec
<1> QED BY <1>2 DEF ReloadKeepsState, SlotsKept

(* The units freed by a step.                                              *)
HandedOver ==
  \A u \in freed' \ freed :
    "deinit" \in Hooks[u] =>
      u \in closed \cup handed \/ (IsLoader /\ Top.unit \in elders[u])

(* No version with a deinit hook makes room for a newer one before the     *)
(* hook was called or a reload hook was given its state, whatever modules  *)
(* the hooks load; the versions that may be lost are those a reload that   *)
(* ends late replaces by an older one.                                     *)
THEOREM HandOver == Spec => VersionsHandOver
<1>1. Inv /\ [Next]_vars => HandedOver
  <2> SUFFICES ASSUME Inv, [Next]_vars, NEW u \in freed' \ freed, "deinit" \in Hooks[u]
               PROVE  u \in closed \cup handed \/ (IsLoader /\ Top.unit \in elders[u])
    BY DEF HandedOver
  <2>1. CASE Swap
    <3>1. u = table[Top.name].unit /\ u # None
      BY <2>1 DEF Swap, Discarded
    <3>2. Handed(u) => u \in closed \cup handed
      BY <3>1 DEF Handed, HooksOf
    <3> QED BY <2>1, <3>1, <3>2, SwapFacts
  <2>2. CASE StopHookReturns
    <3>1. u = table[Top.name].unit
      BY <2>2 DEF StopHookReturns, Release, Discarded
    <3> QED BY <2>2, <3>1, StopHookFacts
  <2>3. ASSUME NEW m \in Modules, StopModule(m) PROVE FALSE
    <3>1. u = table[m].unit /\ u # None /\ "deinit" \notin HooksOf(u)
      BY <2>3 DEF StopModule, Release, Discarded
    <3> QED BY <3>1 DEF HooksOf
  <2>4. freed' = freed => FALSE
    OBVIOUS
  <2>5. ASSUME NEW m \in Modules, Dispatch(m) \/ DispatchLoader(m) PROVE FALSE
    BY <2>4, <2>5 DEF Dispatch, DispatchLoader
  <2>6. ASSUME NEW v \in Units, RegisterNew(v) \/ BeginReload(v) PROVE FALSE
    BY <2>4, <2>6 DEF RegisterNew, BeginReload
  <2>7. ASSUME Return \/ SetData \/ HookReturns \/ UNCHANGED vars PROVE FALSE
    BY <2>4, <2>7 DEF Return, SetData, HookReturns, vars
  <2> QED BY <2>1, <2>2, <2>3, <2>5, <2>6, <2>7 DEF Next, Load
<1>2. Spec => [][HandedOver]_vars
  BY <1>1, Invariant, PTL DEF Spec
<1> QED BY <1>2 DEF VersionsHandOver, HandedOver

=============================================================================
