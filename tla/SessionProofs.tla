---------------------------- MODULE SessionProofs ----------------------------
(***************************************************************************)
(* The invariants of Session.  The part about the main thread follows the  *)
(* places of the loop; the part about the files at work is an invariant of *)
(* the steps of Scripts, whatever the evaluation began with.               *)
(***************************************************************************)
EXTENDS Session, StackFacts

(* How far a file is tells what it holds.                                  *)
FileOK(f) ==
  /\ f \in Files
  /\ IF f.kind = "exec" /\ f.stage # "path"
       THEN f.argv \in Arrays /\ f.filled \in 1..f.argc
            /\ (f.stage = "body" => f.filled = f.argc)
       ELSE f.argv = "none" /\ f.filled = 0

SoundFiles == {f \in Files : FileOK(f)}

(* No two files share an array.                                            *)
Distinct(w) ==
  \A j, k \in 1..Len(w) : w[j].argv = w[k].argv /\ w[j].argv # "none" => j = k

(* Each file that put its arguments into the runtime remembers those of    *)
(* the file it was started from, so ending it brings them back.            *)
RestoresAt(w, m, base) ==
  w[m + 1].kind = "exec" /\ w[m + 1].stage = "body"
    => ArgumentsAt(w, m, w[m + 1].savedArgc, w[m + 1].savedArgv, base)

Restores(w, base) == \A m \in Nat : m < Len(w) => RestoresAt(w, m, base)

Arguments(c, v) == c \in 0..MaxArgs /\ v \in Arrays \cup {"none", "main"}

WorkOK(w, c, v, base) ==
  /\ w \in Seq(SoundFiles)
  /\ Distinct(w)
  /\ Restores(w, base)
  /\ ArgumentsAt(w, Len(w), c, v, base)
  /\ Arguments(c, v)

-----------------------------------------------------------------------------
(***************************************************************************)
(* The files at work.                                                      *)
(***************************************************************************)

(* The arguments in force after n files depend on these files only.        *)
LEMMA SamePrefix ==
  ASSUME NEW w, NEW x, NEW n \in Nat, NEW c, NEW v, NEW base,
         \A k \in 1..n : x[k] = w[k]
  PROVE  /\ Running(x, n) = Running(w, n)
         /\ ArgumentsAt(x, n, c, v, base) <=> ArgumentsAt(w, n, c, v, base)
<1>1. Running(x, n) = Running(w, n)
  BY DEF Running
<1>2. \A k \in Running(w, n) : x[k] = w[k]
  BY DEF Running
<1> QED BY <1>1, <1>2 DEF ArgumentsAt

(* A file that is not running its forms adds nothing.                      *)
LEMMA IdleFile ==
  ASSUME NEW w, NEW n \in Nat, NEW c, NEW v, NEW base,
         ~(w[n + 1].kind = "exec" /\ w[n + 1].stage = "body")
  PROVE  /\ Running(w, n + 1) = Running(w, n)
         /\ ArgumentsAt(w, n + 1, c, v, base) <=> ArgumentsAt(w, n, c, v, base)
<1>1. Running(w, n + 1) = Running(w, n)
  <2>1. \A k : k \in 1..(n + 1) <=> k \in 1..n \/ k = n + 1
    BY SMT
  <2> QED BY <2>1 DEF Running
<1> QED BY <1>1 DEF ArgumentsAt

(* A running file is the innermost.                                        *)
LEMMA RunningFile ==
  ASSUME NEW w, NEW n \in Nat, NEW base,
         w[n + 1].kind = "exec", w[n + 1].stage = "body"
  PROVE  /\ n + 1 \in Running(w, n + 1)
         /\ ArgumentsAt(w, n + 1, w[n + 1].argc, w[n + 1].argv, base)
<1>1. n + 1 \in Running(w, n + 1)
  BY DEF Running
<1>2. \A j \in Running(w, n + 1) : j <= n + 1
  BY DEF Running
<1> QED BY <1>1, <1>2 DEF ArgumentsAt

(* What was to be restored stays so, as far as the files stay.             *)
LEMMA RestoresPrefix ==
  ASSUME NEW w \in Seq(SoundFiles), NEW x, NEW n \in Nat, n <= Len(w), NEW base,
         Restores(w, base), \A k \in 1..n : x[k] = w[k]
  PROVE  \A m \in Nat : m < n => RestoresAt(x, m, base)
<1> SUFFICES ASSUME NEW m \in Nat, m < n PROVE RestoresAt(x, m, base)
  OBVIOUS
<1>1. m < Len(w) /\ m + 1 \in 1..n /\ \A k \in 1..m : k \in 1..n
  <2>1. Len(w) \in Nat
    BY LenProperties
  <2> QED BY <2>1, SMT
<1>2. RestoresAt(w, m, base)
  BY <1>1 DEF Restores
<1>3. x[m + 1] = w[m + 1] /\ \A k \in 1..m : x[k] = w[k]
  BY <1>1
<1>4. \A c, v : ArgumentsAt(x, m, c, v, base) <=> ArgumentsAt(w, m, c, v, base)
  BY <1>3, SamePrefix
<1> QED BY <1>2, <1>3, <1>4 DEF RestoresAt

(* One more file.                                                          *)
LEMMA RestoresOneMore ==
  ASSUME NEW x, NEW n \in Nat, Len(x) = n + 1, NEW base,
         \A m \in Nat : m < n => RestoresAt(x, m, base), RestoresAt(x, n, base)
  PROVE  Restores(x, base)
<1>1. \A m \in Nat : m < n + 1 => m < n \/ m = n
  BY SMT
<1> QED BY <1>1 DEF Restores

(* A file is entered.                                                      *)
LEMMA PushFile ==
  ASSUME NEW w, NEW c, NEW v, NEW base, WorkOK(w, c, v, base),
         NEW f \in SoundFiles, f.stage = "path", f.argv = "none"
  PROVE  WorkOK(Append(w, f), c, v, base)
<1> DEFINE x == Append(w, f)
           n == Len(w)
<1>1. w \in Seq(SoundFiles) /\ n \in Nat
  BY DEF WorkOK
<1>2. /\ x \in Seq(SoundFiles) /\ Len(x) = n + 1 /\ x[n + 1] = f
      /\ \A k \in 1..n : x[k] = w[k]
  BY <1>1, PushFacts
<1> HIDE DEF x, n
<1>3. \A k \in 1..(n + 1) : k \in 1..n \/ k = n + 1
  BY <1>1, SMT
<1>4. Distinct(x)
  BY <1>1, <1>2, <1>3 DEF Distinct, WorkOK, n
<1>5. /\ Running(x, n + 1) = Running(x, n)
      /\ ArgumentsAt(x, n + 1, c, v, base) <=> ArgumentsAt(x, n, c, v, base)
  BY <1>1, <1>2, IdleFile
<1>6. ArgumentsAt(x, Len(x), c, v, base)
  BY <1>1, <1>2, <1>5, SamePrefix DEF WorkOK, n
<1>7. Restores(x, base)
  <2>1. n <= Len(w)
    BY <1>1 DEF n
  <2>2. \A m \in Nat : m < n => RestoresAt(x, m, base)
    BY <1>1, <1>2, <2>1, RestoresPrefix DEF WorkOK
  <2>3. RestoresAt(x, n, base)
    BY <1>2 DEF RestoresAt
  <2> QED BY <1>1, <1>2, <2>2, <2>3, RestoresOneMore
<1> QED BY <1>2, <1>4, <1>6, <1>7 DEF WorkOK, x

(* The file at the top goes on: it takes an argument, or starts to run.    *)
LEMMA ChangeFile ==
  ASSUME NEW w, NEW c, NEW v, NEW base, WorkOK(w, c, v, base), w # <<>>,
         NEW f \in SoundFiles, NEW d, NEW u, Arguments(d, u),
         ~(w[Len(w)].kind = "exec" /\ w[Len(w)].stage = "body"),
         \A k \in 1..(Len(w) - 1) : f.argv # "none" => w[k].argv # f.argv,
         IF f.kind = "exec" /\ f.stage = "body"
           THEN f.savedArgc = c /\ f.savedArgv = v /\ d = f.argc /\ u = f.argv
           ELSE d = c /\ u = v
  PROVE  WorkOK([w EXCEPT ![Len(w)] = f], d, u, base)
<1> DEFINE x == [w EXCEPT ![Len(w)] = f]
           n == Len(w) - 1
<1>1. w \in Seq(SoundFiles) /\ n \in Nat /\ Len(w) = n + 1 /\ Len(w) \in 1..Len(w)
  BY DEF WorkOK
<1>2. /\ x \in Seq(SoundFiles) /\ Len(x) = n + 1 /\ x[n + 1] = f
      /\ \A k \in 1..n : x[k] = w[k] /\ k \in 1..Len(w)
  BY <1>1, ReplaceFacts
<1> HIDE DEF x, n
<1>3. \A k \in 1..(n + 1) : k \in 1..n \/ k = n + 1
  BY <1>1, SMT
<1>4. Distinct(x)
  <2>1. \A k \in 1..n : f.argv # "none" => x[k].argv # f.argv
    BY <1>2 DEF n
  <2>2. \A j, k \in 1..n : x[j].argv = x[k].argv /\ x[j].argv # "none" => j = k
    BY <1>2 DEF Distinct, WorkOK
  <2> QED BY <1>2, <1>3, <2>1, <2>2 DEF Distinct
<1>5. ArgumentsAt(x, n, c, v, base)
  <2>1. ArgumentsAt(w, n, c, v, base)
    BY <1>1, IdleFile DEF WorkOK
  <2> QED BY <1>1, <1>2, <2>1, SamePrefix
<1>6. \A m \in Nat : m < n => RestoresAt(x, m, base)
  <2>1. n <= Len(w)
    BY <1>1, SMT
  <2> QED BY <1>1, <1>2, <2>1, RestoresPrefix DEF WorkOK
<1>7. CASE f.kind = "exec" /\ f.stage = "body"
  <2>1. ArgumentsAt(x, n + 1, d, u, base)
    BY <1>1, <1>2, <1>7, RunningFile
  <2>2. RestoresAt(x, n, base)
    BY <1>2, <1>5, <1>7 DEF RestoresAt
  <2>3. Restores(x, base)
    BY <1>1, <1>2, <1>6, <2>2, RestoresOneMore
  <2> QED BY <1>2, <1>4, <2>1, <2>3 DEF WorkOK, x
<1>8. CASE ~(f.kind = "exec" /\ f.stage = "body")
  <2>1. ArgumentsAt(x, n + 1, c, v, base)
    BY <1>1, <1>2, <1>5, <1>8, IdleFile
  <2>2. RestoresAt(x, n, base)
    BY <1>2, <1>8 DEF RestoresAt
  <2>3. Restores(x, base)
    BY <1>1, <1>2, <1>6, <2>2, RestoresOneMore
  <2> QED BY <1>2, <1>4, <1>8, <2>1, <2>3 DEF WorkOK, x
<1> QED BY <1>7, <1>8

(* The file at the top ends, and what it put aside comes back.             *)
LEMMA PopFile ==
  ASSUME NEW w, NEW c, NEW v, NEW base, WorkOK(w, c, v, base), w # <<>>, NEW d, NEW u,
         IF w[Len(w)].kind = "exec" /\ w[Len(w)].stage = "body"
           THEN d = w[Len(w)].savedArgc /\ u = w[Len(w)].savedArgv
           ELSE d = c /\ u = v
  PROVE  WorkOK(SubSeq(w, 1, Len(w) - 1), d, u, base)
<1> DEFINE x == SubSeq(w, 1, Len(w) - 1)
           n == Len(w) - 1
<1>1. w \in Seq(SoundFiles) /\ n \in Nat /\ Len(w) = n + 1 /\ Len(w) \in 1..Len(w)
      /\ 1 \in Nat /\ 1 <= Len(w)
  BY DEF WorkOK
<1>2. /\ x \in Seq(SoundFiles) /\ Len(x) = n
      /\ \A k \in 1..n : x[k] = w[k]
  BY <1>1, DropFacts
<1> HIDE DEF x, n
<1>3. \A k \in 1..n : k \in 1..Len(w)
  BY <1>1, SMT
<1>4. Distinct(x)
  BY <1>2, <1>3 DEF Distinct, WorkOK
<1>5. Restores(x, base)
  <2>1. n <= Len(w)
    BY <1>1, SMT
  <2>2. \A m \in Nat : m < n => RestoresAt(x, m, base)
    BY <1>1, <1>2, <2>1, RestoresPrefix DEF WorkOK
  <2> QED BY <1>2, <2>2 DEF Restores
<1>6. w[n + 1] \in Files
  BY <1>1 DEF SoundFiles
<1>7. CASE w[n + 1].kind = "exec" /\ w[n + 1].stage = "body"
  <2> USE <1>7
  <2>0. d = w[n + 1].savedArgc /\ u = w[n + 1].savedArgv
    BY <1>1
  <2>1. ArgumentsAt(w, n, d, u, base)
    <3>1. n < Len(w)
      BY <1>1, SMT
    <3>2. RestoresAt(w, n, base)
      BY <1>1, <3>1 DEF WorkOK, Restores
    <3> QED BY <2>0, <3>2 DEF RestoresAt
  <2>2. Arguments(d, u)
    BY <1>6, <2>0 DEF Arguments, Files
  <2>3. ArgumentsAt(x, n, d, u, base)
    BY <1>1, <1>2, <2>1, SamePrefix
  <2> QED BY <1>2, <1>4, <1>5, <2>2, <2>3 DEF WorkOK, x
<1>8. CASE ~(w[n + 1].kind = "exec" /\ w[n + 1].stage = "body")
  <2>1. d = c /\ u = v
    BY <1>1, <1>8
  <2>2. ArgumentsAt(w, n + 1, c, v, base) /\ Arguments(c, v)
    BY <1>1 DEF WorkOK
  <2>3. ArgumentsAt(w, n, c, v, base)
    BY <1>1, <1>8, <2>2, IdleFile
  <2>4. ArgumentsAt(x, n, c, v, base)
    BY <1>1, <1>2, <2>3, SamePrefix
  <2> QED BY <1>2, <1>4, <1>5, <2>1, <2>2, <2>4 DEF WorkOK, x
<1> QED BY <1>7, <1>8

-----------------------------------------------------------------------------
(***************************************************************************)
(* What the files hold.                                                    *)
(***************************************************************************)

LEMMA StringsFacts ==
  ASSUME NEW a
  PROVE  /\ Strings(a, 0) = {}
         /\ \A n \in Nat : Strings(a, n + 1) = Strings(a, n) \cup {<<a, n>>}
<1>1. Strings(a, 0) = {}
  BY SMT DEF Strings
<1>2. ASSUME NEW n \in Nat
      PROVE  Strings(a, n + 1) = Strings(a, n) \cup {<<a, n>>}
  <2>1. \A i : i \in 0..(n + 1 - 1) <=> i \in 0..(n - 1) \/ i = n
    BY SMT
  <2> QED BY <2>1 DEF Strings
<1> QED BY <1>1, <1>2

(* The sequence w is x and, after it, t.                                   *)
OneMore(w, x, t) ==
  \E n \in Nat :
    Len(w) = n + 1 /\ Len(x) = n /\ t = w[n + 1] /\ \A k \in 1..n : x[k] = w[k]

(* What a sequence of files holds is what all but the last hold, and what  *)
(* the last holds.                                                         *)
LEMMA HeldSplit ==
  ASSUME NEW w, NEW x, NEW t, OneMore(w, x, t)
  PROVE  Held(w) = Held(x) \cup Strings(t.argv, t.filled)
<1> PICK n \in Nat :
      Len(w) = n + 1 /\ Len(x) = n /\ t = w[n + 1] /\ \A k \in 1..n : x[k] = w[k]
  BY DEF OneMore
<1>1. \A k : k \in 1..(n + 1) <=> k \in 1..n \/ k = n + 1
  BY SMT
<1> QED BY <1>1 DEF Held

(* The strings of the last file are its own.                               *)
LEMMA HeldApart ==
  ASSUME NEW w \in Seq(SoundFiles), NEW x, NEW t, OneMore(w, x, t), Distinct(w)
  PROVE  Held(x) \cap Strings(t.argv, t.filled) = {}
<1> PICK n \in Nat :
      Len(w) = n + 1 /\ Len(x) = n /\ t = w[n + 1] /\ \A k \in 1..n : x[k] = w[k]
  BY DEF OneMore
<1> DEFINE a == t.argv
           S == Strings(a, t.filled)
<1>2. n + 1 \in 1..(n + 1) /\ \A k \in 1..n : k \in 1..(n + 1) /\ k # n + 1
  BY SMT
<1>3. t \in SoundFiles
  BY <1>2
<1>4. CASE a = "none"
  <2>1. t.filled = 0
    BY <1>3, <1>4, ScriptConstants DEF SoundFiles, FileOK
  <2>2. S = {}
    BY <2>1, StringsFacts
  <2> QED BY <2>2
<1>5. CASE a # "none"
  <2>1. \A k \in 1..n : x[k].argv # a
    BY <1>2, <1>5 DEF Distinct
  <2>2. \A s \in S : s[1] = a
    BY DEF Strings
  <2>3. \A s \in Held(x) : \E k \in 1..n : s[1] = x[k].argv
    BY DEF Held, Strings
  <2> QED BY <2>1, <2>2, <2>3
<1> QED BY <1>4, <1>5

(* The places before the last.                                             *)
LEMMA Earlier ==
  ASSUME NEW l \in Nat
  PROVE  \A k \in 1..(l - 1) : k \in 1..l /\ k # l
BY SMT

(* The file at the top, the files below it, and what they hold.            *)
LEMMA TopFacts ==
  ASSUME NEW w \in Seq(SoundFiles), w # <<>>, Distinct(w),
         NEW x, x = SubSeq(w, 1, Len(w) - 1), NEW t, t = w[Len(w)]
  PROVE  /\ t \in SoundFiles
         /\ Held(w) = Held(x) \cup Strings(t.argv, t.filled)
         /\ Held(x) \cap Strings(t.argv, t.filled) = {}
<1> DEFINE n == Len(w) - 1
<1>1. /\ n \in Nat /\ Len(w) = n + 1
      /\ 1 \in Nat /\ 1 <= Len(w) /\ t \in SoundFiles
  BY LastFacts
<1>2. Len(x) = n /\ \A k \in 1..n : x[k] = w[k]
  BY <1>1, DropFacts
<1> HIDE DEF n
<1>3. OneMore(w, x, t)
  BY <1>1, <1>2 DEF OneMore
<1> QED BY <1>1, <1>3, HeldSplit, HeldApart

(* Another file takes the place at the top.                                *)
LEMMA HeldReplaced ==
  ASSUME NEW w \in Seq(SoundFiles), w # <<>>,
         NEW x, x = SubSeq(w, 1, Len(w) - 1), NEW f \in SoundFiles
  PROVE  Held([w EXCEPT ![Len(w)] = f]) = Held(x) \cup Strings(f.argv, f.filled)
<1> DEFINE n == Len(w) - 1
<1>1. /\ n \in Nat /\ Len(w) = n + 1 /\ Len(w) \in 1..Len(w) /\ Len(w) \in Nat
      /\ 1 \in Nat /\ 1 <= Len(w)
  BY LastFacts
<1>2. Len(x) = n /\ \A k \in 1..n : x[k] = w[k]
  BY <1>1, DropFacts
<1>3. \A k \in 1..n : k \in 1..Len(w) /\ k # Len(w)
  BY <1>1, Earlier
<1> HIDE DEF n
<1>4. OneMore([w EXCEPT ![Len(w)] = f], x, f)
  BY <1>1, <1>2, <1>3, ReplaceFacts DEF OneMore
<1> QED BY <1>4, HeldSplit

(* A file that has an array holds its first string.                        *)
LEMMA HoldsFirst ==
  ASSUME NEW w \in Seq(SoundFiles), NEW k \in 1..Len(w), w[k].argv # "none"
  PROVE  <<w[k].argv, 0>> \in Held(w)
<1>1. w[k] \in SoundFiles
  OBVIOUS
<1>2. w[k].filled \in 1..w[k].argc /\ w[k].argc \in 0..MaxArgs
  BY <1>1 DEF SoundFiles, FileOK, Files
<1>3. 0 \in 0..(w[k].filled - 1)
  BY <1>2, SMT
<1> QED BY <1>3 DEF Held, Strings

(* What is not of the files is none of their arrays.                       *)
Foreign(E) == \A s \in E : s[1] \notin Arrays \cup {"none"}

Keeps(w, c, v, base, s, E) == WorkOK(w, c, v, base) /\ s = Held(w) \cup E

(* Ending the file at the top frees what it holds.                         *)
LEMMA PopKeeps ==
  ASSUME NEW w, NEW c, NEW v, NEW base, NEW s, NEW E, Keeps(w, c, v, base, s, E),
         Foreign(E), w # <<>>, NEW d, NEW u, NEW t, t = w[Len(w)],
         IF t.kind = "exec" /\ t.stage = "body"
           THEN d = t.savedArgc /\ u = t.savedArgv
           ELSE d = c /\ u = v
  PROVE  Keeps(SubSeq(w, 1, Len(w) - 1), d, u, base,
               s \ Strings(t.argv, t.filled), E)
<1> DEFINE x == SubSeq(w, 1, Len(w) - 1)
           S == Strings(t.argv, t.filled)
<1>1. WorkOK(x, d, u, base)
  BY PopFile DEF Keeps
<1>2. w \in Seq(SoundFiles) /\ Distinct(w)
  BY DEF Keeps, WorkOK
<1>3. t \in SoundFiles /\ Held(w) = Held(x) \cup S /\ Held(x) \cap S = {}
  <2>1. x = SubSeq(w, 1, Len(w) - 1)
    OBVIOUS
  <2> HIDE DEF x
  <2> QED BY <1>2, <2>1, TopFacts
<1>4. E \cap S = {}
  <2>1. t.argv \in Arrays \cup {"none"}
    BY <1>3 DEF SoundFiles, Files
  <2>2. \A e \in S : e[1] = t.argv
    BY DEF Strings
  <2> QED BY <2>1, <2>2 DEF Foreign
<1>5. s = Held(w) \cup E
  BY DEF Keeps
<1> HIDE DEF x, S
<1>6. s \ S = Held(x) \cup E
  BY <1>3, <1>4, <1>5
<1> QED BY <1>1, <1>6 DEF Keeps, x, S

(* How the file t at the top may become f, and the arguments d, u.         *)
GoesOn(t, f, c, v, d, u, s) ==
  /\ ~(t.kind = "exec" /\ t.stage = "body")
  /\ Arguments(d, u)
  /\ Strings(t.argv, t.filled) \subseteq Strings(f.argv, f.filled)
  /\ f.argv = t.argv \/ (<<f.argv, 0>> \notin s /\ f.argv # "none")
  /\ IF f.kind = "exec" /\ f.stage = "body"
       THEN f.savedArgc = c /\ f.savedArgv = v /\ d = f.argc /\ u = f.argv
       ELSE d = c /\ u = v

(* The file at the top goes on, and may hold more.                         *)
LEMMA ChangeKeeps ==
  ASSUME NEW w, NEW c, NEW v, NEW base, NEW s, NEW E, Keeps(w, c, v, base, s, E),
         w # <<>>, NEW t, t = w[Len(w)], NEW f \in SoundFiles, NEW d, NEW u,
         GoesOn(t, f, c, v, d, u, s)
  PROVE  Keeps([w EXCEPT ![Len(w)] = f], d, u, base,
               s \cup Strings(f.argv, f.filled), E)
<1> DEFINE y == [w EXCEPT ![Len(w)] = f]
           x == SubSeq(w, 1, Len(w) - 1)
           S == Strings(t.argv, t.filled)
           F == Strings(f.argv, f.filled)
<1>1. w \in Seq(SoundFiles) /\ Distinct(w) /\ s = Held(w) \cup E
  BY DEF Keeps, WorkOK
<1>2. Held(w) = Held(x) \cup S /\ Held(y) = Held(x) \cup F
  <2>1. x = SubSeq(w, 1, Len(w) - 1)
    OBVIOUS
  <2> HIDE DEF x, y, S, F
  <2>2. w \in Seq(SoundFiles) /\ Distinct(w)
    BY <1>1
  <2>4. t \in SoundFiles /\ Held(w) = Held(x) \cup Strings(t.argv, t.filled)
    BY <2>1, <2>2, TopFacts
  <2>3. Held([w EXCEPT ![Len(w)] = f]) = Held(x) \cup Strings(f.argv, f.filled)
    BY <1>1, <2>1, HeldReplaced
  <2> QED BY <2>3, <2>4 DEF y, S, F
<1>3. \A k \in 1..(Len(w) - 1) : f.argv # "none" => w[k].argv # f.argv
  <2>1. \A k \in 1..(Len(w) - 1) : k \in 1..Len(w) /\ k # Len(w)
    <3>1. Len(w) \in Nat
      BY <1>1, LenProperties
    <3> QED BY <3>1, Earlier
  <2>2. Len(w) \in 1..Len(w)
    BY <1>1
  <2>3. CASE f.argv = t.argv
    BY <1>1, <2>1, <2>2, <2>3 DEF Distinct
  <2>4. CASE <<f.argv, 0>> \notin s
    BY <1>1, <2>1, <2>4, HoldsFirst
  <2> QED BY <2>3, <2>4 DEF GoesOn
<1>4. WorkOK(y, d, u, base)
  BY <1>3, ChangeFile DEF Keeps, GoesOn
<1> HIDE DEF x, y, S, F
<1>5. S \subseteq F
  BY DEF S, F, GoesOn
<1>6. s \cup F = Held(y) \cup E
  BY <1>1, <1>2, <1>5
<1> QED BY <1>4, <1>6 DEF Keeps, y, F

-----------------------------------------------------------------------------
(***************************************************************************)
(* The steps of Scripts.                                                   *)
(***************************************************************************)

(* The file at the top, from the invariant.                                *)
LEMMA TopKept ==
  ASSUME NEW base, NEW E, Keeps(work, argc, argv, base, strings, E), work # <<>>
  PROVE  /\ Top \in SoundFiles /\ Top \in Files /\ FileOK(Top)
         /\ Arguments(argc, argv) /\ Strings(Top.argv, Top.filled) \subseteq strings
<1> DEFINE t == Top
           x == SubSeq(work, 1, Len(work) - 1)
<1>1. work \in Seq(SoundFiles) /\ Distinct(work)
  BY DEF Keeps, WorkOK
<1>2. t = work[Len(work)] /\ x = SubSeq(work, 1, Len(work) - 1)
  BY DEF Top
<1>3. strings = Held(work) \cup E
  BY DEF Keeps
<1> HIDE DEF t, x
<1>4. t \in SoundFiles /\ Held(work) = Held(x) \cup Strings(t.argv, t.filled)
  BY <1>1, <1>2, TopFacts
<1> QED BY <1>3, <1>4 DEF t, SoundFiles, Keeps, WorkOK

(* A new file changes neither the arguments nor what is held.              *)
LEMMA EnterKeeps ==
  ASSUME NEW base, NEW E, Keeps(work, argc, argv, base, strings, E),
         NEW kind \in {"exec", "import"}, Enter(kind)
  PROVE  Keeps(work', argc', argv', base, strings', E)
<1> DEFINE f == File(kind)
           y == Append(work, f)
<1>1. f \in SoundFiles /\ f.stage = "path" /\ f.argv = "none" /\ f.filled = 0
  BY ScriptConstants DEF File, SoundFiles, Files, FileOK
<1>2. work \in Seq(SoundFiles) /\ strings = Held(work) \cup E
  BY DEF Keeps, WorkOK
<1>3. work' = y /\ UNCHANGED <<argc, argv, strings>>
  BY DEF Enter
<1> HIDE DEF f
<1>4. OneMore(y, work, f)
  BY <1>1, <1>2, PushFacts, LenProperties DEF OneMore
<1>5. WorkOK(y, argc, argv, base)
  BY <1>1, PushFile DEF Keeps
<1> HIDE DEF y
<1>6. Held(y) = Held(work) \cup Strings(f.argv, f.filled)
  BY <1>4, HeldSplit
<1>7. Strings(f.argv, f.filled) = {}
  BY <1>1, StringsFacts
<1> QED BY <1>2, <1>3, <1>5, <1>6, <1>7 DEF Keeps

(* The steps that end the file at the top free what it holds.              *)
LEMMA EndKeeps ==
  ASSUME NEW base, NEW E, Keeps(work, argc, argv, base, strings, E), Foreign(E),
         \/ PathFails \/ ExecArgumentFails \/ ExecHasNoForms
         \/ ExecEnds \/ ImportEnds
  PROVE  Keeps(work', argc', argv', base, strings', E)
<1> DEFINE t == Top
<1>1. work # <<>> /\ t = work[Len(work)] /\ work' = Below
  BY DEF Top, At, PathFails, ExecArgumentFails, ExecHasNoForms, ExecEnds, ImportEnds
<1>2. t \in Files /\ FileOK(t)
  BY <1>1, TopKept
<1>3. IF t.kind = "exec" /\ t.stage = "body"
        THEN argc' = t.savedArgc /\ argv' = t.savedArgv
        ELSE argc' = argc /\ argv' = argv
  BY DEF At, PathFails, ExecArgumentFails, ExecHasNoForms, ExecEnds, ImportEnds
<1>4. strings' = strings \ Strings(t.argv, t.filled)
  <2>1. CASE PathFails \/ ImportEnds
    <3>1. t.filled = 0 /\ strings' = strings
      BY <1>2, <2>1 DEF FileOK, At, PathFails, ImportEnds
    <3> QED BY <3>1, StringsFacts
  <2>2. CASE ExecArgumentFails
    BY <2>2 DEF ExecArgumentFails
  <2>3. CASE ExecHasNoForms
    BY <2>3 DEF ExecHasNoForms
  <2>4. CASE ExecEnds
    <3>1. t.filled = t.argc
      BY <1>2, <2>4 DEF FileOK, At, ExecEnds
    <3> QED BY <2>4, <3>1 DEF ExecEnds
  <2> QED BY <2>1, <2>2, <2>3, <2>4
<1> HIDE DEF t
<1> QED BY <1>1, <1>3, <1>4, PopKeeps DEF Below

(* The steps with which the file at the top goes on.                       *)
LEMMA GoOnKeeps ==
  ASSUME NEW base, NEW E, Keeps(work, argc, argv, base, strings, E), Foreign(E),
         ExecTakesPath \/ ExecTakesArgument \/ ExecStarts \/ ImportStarts
  PROVE  Keeps(work', argc', argv', base, strings', E)
<1> DEFINE t == Top
<1>1. work # <<>> /\ t = work[Len(work)]
  BY DEF Top, At, ExecTakesPath, ExecTakesArgument, ExecStarts, ImportStarts
<1>2. t \in Files /\ FileOK(t) /\ Arguments(argc, argv)
      /\ Strings(t.argv, t.filled) \subseteq strings
  BY <1>1, TopKept
<1>3. work \in Seq(SoundFiles)
  BY DEF Keeps, WorkOK
<1>4. SUFFICES \E f \in SoundFiles :
                  /\ work' = [work EXCEPT ![Len(work)] = f]
                  /\ strings' = strings \cup Strings(f.argv, f.filled)
                  /\ GoesOn(t, f, argc, argv, argc', argv', strings)
  <2> SUFFICES ASSUME NEW f \in SoundFiles,
                      work' = [work EXCEPT ![Len(work)] = f],
                      strings' = strings \cup Strings(f.argv, f.filled),
                      GoesOn(t, f, argc, argv, argc', argv', strings)
               PROVE  Keeps(work', argc', argv', base, strings', E)
    OBVIOUS
  <2> HIDE DEF t
  <2>1. Keeps([work EXCEPT ![Len(work)] = f], argc', argv', base,
              strings \cup Strings(f.argv, f.filled), E)
    BY <1>1, ChangeKeeps
  <2> QED BY <2>1
<1>5. CASE ExecTakesPath
  <2>1. PICK a \in Arrays, n \in 1..MaxArgs :
          /\ \A i \in 0..(MaxArgs - 1) : <<a, i>> \notin strings
          /\ work' = [work EXCEPT ![Len(work)].stage = "args", ![Len(work)].argv = a,
                                  ![Len(work)].argc = n, ![Len(work)].filled = 1]
          /\ strings' = strings \cup Strings(a, 1)
          /\ UNCHANGED <<argc, argv>>
    BY <1>5 DEF ExecTakesPath
  <2> DEFINE f == [t EXCEPT !.stage = "args", !.argv = a, !.argc = n, !.filled = 1]
  <2>2. work' = [work EXCEPT ![Len(work)] = f]
    BY <1>1, <1>3, <2>1
  <2>3. t.kind = "exec" /\ t.stage = "path"
    BY <1>5 DEF ExecTakesPath, At
  <2>9. n \in 0..MaxArgs /\ 1 \in 0..MaxArgs
    BY ScriptConstants, SMT
  <2>4. /\ f \in Files /\ f.kind = "exec" /\ f.stage = "args" /\ f.argv = a
        /\ f.filled = 1 /\ f.argc = n
    BY <1>2, <2>3, <2>9 DEF Files
  <2> HIDE DEF f, t
  <2>5. f \in SoundFiles
    BY <2>4 DEF SoundFiles, FileOK
  <2>6. Strings(t.argv, t.filled) = {}
    BY <1>2, <2>3, StringsFacts DEF FileOK
  <2>7. 0 \in 0..(MaxArgs - 1)
    BY ScriptConstants, SMT
  <2>8. GoesOn(t, f, argc, argv, argc', argv', strings)
    BY <1>2, <2>1, <2>3, <2>4, <2>6, <2>7, ScriptConstants DEF GoesOn
  <2> QED BY <2>1, <2>2, <2>4, <2>5, <2>8
<1>6. CASE ExecTakesArgument
  <2> DEFINE f == [t EXCEPT !.filled = t.filled + 1]
  <2>1. t.kind = "exec" /\ t.stage = "args" /\ t.filled < t.argc
    BY <1>6 DEF ExecTakesArgument, At
  <2>2. work' = [work EXCEPT ![Len(work)] = f]
    BY <1>1, <1>3, <1>6 DEF ExecTakesArgument
  <2>3. strings' = strings \cup {<<t.argv, t.filled>>} /\ UNCHANGED <<argc, argv>>
    BY <1>6 DEF ExecTakesArgument
  <2>4. t.argc \in 0..MaxArgs /\ t.filled \in 1..t.argc /\ t.argv \in Arrays
    BY <1>2, <2>1 DEF Files, FileOK
  <2>5. t.filled \in Nat /\ t.filled + 1 \in 0..MaxArgs /\ t.filled + 1 \in 1..t.argc
    BY <2>1, <2>4, ScriptConstants, SMT
  <2>6. /\ f \in Files /\ f.kind = "exec" /\ f.stage = "args" /\ f.argv = t.argv
        /\ f.filled = t.filled + 1 /\ f.argc = t.argc
    BY <1>2, <2>1, <2>5 DEF Files
  <2> HIDE DEF f, t
  <2>7. f \in SoundFiles
    BY <2>4, <2>5, <2>6 DEF SoundFiles, FileOK
  <2>8. Strings(f.argv, f.filled) = Strings(t.argv, t.filled) \cup {<<t.argv, t.filled>>}
    BY <2>5, <2>6, StringsFacts
  <2>9. GoesOn(t, f, argc, argv, argc', argv', strings)
    BY <1>2, <2>1, <2>3, <2>6, <2>8 DEF GoesOn
  <2>10. strings' = strings \cup Strings(f.argv, f.filled)
    BY <1>2, <2>3, <2>8
  <2> QED BY <2>2, <2>7, <2>9, <2>10
<1>7. CASE ExecStarts
  <2> DEFINE f == [t EXCEPT !.stage = "body", !.savedArgc = argc, !.savedArgv = argv]
  <2>1. t.kind = "exec" /\ t.stage = "args" /\ t.filled = t.argc
    BY <1>7 DEF ExecStarts, At
  <2>2. work' = [work EXCEPT ![Len(work)] = f]
    BY <1>1, <1>3, <1>7 DEF ExecStarts
  <2>3. argc' = t.argc /\ argv' = t.argv /\ strings' = strings
    BY <1>7 DEF ExecStarts
  <2>4. /\ f \in Files /\ f.kind = "exec" /\ f.stage = "body" /\ f.argv = t.argv
        /\ f.filled = t.filled /\ f.argc = t.argc /\ f.savedArgc = argc
        /\ f.savedArgv = argv
    BY <1>2, <2>1 DEF Files, Arguments
  <2> HIDE DEF f, t
  <2>5. t.argc \in 0..MaxArgs /\ t.filled \in 1..t.argc /\ t.argv \in Arrays
    BY <1>2, <2>1 DEF Files, FileOK
  <2>6. f \in SoundFiles
    BY <2>1, <2>4, <2>5 DEF SoundFiles, FileOK
  <2>7. GoesOn(t, f, argc, argv, argc', argv', strings)
    BY <2>1, <2>3, <2>4, <2>5 DEF GoesOn, Arguments
  <2>8. strings' = strings \cup Strings(f.argv, f.filled)
    BY <1>2, <2>3, <2>4
  <2> QED BY <2>2, <2>6, <2>7, <2>8
<1>8. CASE ImportStarts
  <2> DEFINE f == [t EXCEPT !.stage = "body"]
  <2>1. t.kind = "import" /\ t.stage = "path"
    BY <1>8 DEF ImportStarts, At
  <2>2. work' = [work EXCEPT ![Len(work)] = f]
    BY <1>1, <1>3, <1>8 DEF ImportStarts
  <2>3. UNCHANGED <<argc, argv, strings>>
    BY <1>8 DEF ImportStarts
  <2>4. /\ f \in Files /\ f.kind = "import" /\ f.argv = t.argv /\ f.filled = t.filled
    BY <1>2, <2>1 DEF Files
  <2> HIDE DEF f, t
  <2>5. f \in SoundFiles
    BY <1>2, <2>1, <2>4 DEF SoundFiles, FileOK
  <2>6. GoesOn(t, f, argc, argv, argc', argv', strings)
    BY <1>2, <2>1, <2>3, <2>4 DEF GoesOn
  <2>7. strings' = strings \cup Strings(f.argv, f.filled)
    BY <1>2, <2>3, <2>4
  <2> QED BY <2>2, <2>5, <2>6, <2>7
<1> QED BY <1>5, <1>6, <1>7, <1>8

LEMMA ScriptStepKeeps ==
  ASSUME NEW base, NEW E, Keeps(work, argc, argv, base, strings, E), Foreign(E),
         ScriptStep
  PROVE  Keeps(work', argc', argv', base, strings', E)
<1>1. CASE \E kind \in {"exec", "import"} : Enter(kind)
  BY <1>1, EnterKeeps
<1>2. CASE PathFails \/ ExecArgumentFails \/ ExecHasNoForms \/ ExecEnds \/ ImportEnds
  BY <1>2, EndKeeps
<1>3. CASE ExecTakesPath \/ ExecTakesArgument \/ ExecStarts \/ ImportStarts
  BY <1>3, GoOnKeeps
<1> QED BY <1>1, <1>2, <1>3 DEF ScriptStep

-----------------------------------------------------------------------------
(***************************************************************************)
(* The main thread.                                                        *)
(***************************************************************************)

(* Before the prompt is shown for the first time.                         *)
BeforeLoop == {"core", "runtime", "handlers", "mode", "repl", "repl_flag", "prelude"}

(* Where the marked line may be: in the buffer from when it was typed      *)
(* until it was submitted and the entry has ended.                         *)
Marked ==
  /\ fate \in {"untyped", "typed", "submitted"}
  /\ fate = "untyped" => "marked" \notin text
  /\ fate = "submitted" /\ "marked" \in text => pc \in {"eval", "aborted"}
  /\ fate = "typed" /\ InLoop => "marked" \in text /\ pc # "eval"
  /\ pc \in BeforeLoop => fate = "untyped"

(* What the buffer holds, and that a line read after the stop still finds  *)
(* the flag down.                                                          *)
Buffer ==
  /\ text \subseteq {"marked", "other"} /\ balanced \in BOOLEAN
  /\ pc \in {"balance", "eval"} => ~late
  /\ pc = "line" /\ late => keepRunning = 0

(* Which of runtime and core there are at each place.                      *)
Inside == {"handlers", "mode", "repl", "repl_flag", "prelude", "check", "prompt", "line",
           "balance", "eval", "leave", "script"}

Owners ==
  /\ pc = "core" => runtime = "none" /\ core = "none"
  /\ pc = "runtime" => runtime = "none" /\ core = "live"
  /\ pc \in Inside => runtime = "live" /\ core = "live"
  /\ pc = "shutdown" => (runtime = "live" <=> core = "live")
  /\ pc \in {"core_left", "down"} => runtime # "live"
  /\ pc = "down" => core # "live"
  /\ runtime = "live" => core = "live"

ControlTypeOK ==
  /\ pc \in Places
  /\ keepRunning \in {0, 1} /\ signalCount \in 0..MaxSignals
  /\ late \in BOOLEAN /\ busy \in BOOLEAN
  /\ line \in Lines \cup {"eof"}
  /\ runtime \in {"none", "live", "freed"} /\ core \in {"none", "live", "freed"}

MainThread == ControlTypeOK /\ Marked /\ Buffer /\ Owners

LEMMA MainThreadKept ==
  ASSUME MainThread, [Next]_vars
  PROVE  MainThread'
<1> USE SessionConstants
    DEF MainThread, ControlTypeOK, Places, Marked, BeforeLoop, InLoop, Buffer, Owners,
        Inside, entry, buffer, flags, owned
<1>1. CASE InitCore
  BY <1>1 DEF InitCore, Goto
<1>2. CASE InitRuntime
  BY <1>2 DEF InitRuntime, Goto
<1>3. CASE RegisterHandlers
  BY <1>3 DEF RegisterHandlers, Goto
<1>4. CASE ChooseMode
  BY <1>4 DEF ChooseMode, Goto, SetMainArgs
<1>5. CASE EvalWorks
  <2>1. busy' \in BOOLEAN
    BY <1>5 DEF EvalWorks
  <2>2. UNCHANGED <<pc, owned, flags, entry>>
    BY <1>5 DEF EvalWorks
  <2> QED BY <2>1, <2>2
<1>6. CASE ScriptEnds
  BY <1>6 DEF ScriptEnds, Goto, FreeMainArgs
<1>7. CASE PreludeEnds
  BY <1>7 DEF PreludeEnds, Goto
<1>8. CASE EntryEnds
  BY <1>8 DEF EntryEnds, Goto, Cleared
<1>9. CASE ResetCount
  BY <1>9 DEF ResetCount, Goto
<1>9a. CASE ResetFlag
  BY <1>9a DEF ResetFlag, Goto
<1>10. CASE CheckRunning
  BY <1>10 DEF CheckRunning, Goto
<1>11. CASE LeaveLoop
  BY <1>11 DEF LeaveLoop, Goto
<1>12. CASE SkipLine
  BY <1>12 DEF SkipLine, Goto
<1>13. CASE TakeLine
  BY <1>13 DEF TakeLine, AppendLine, Goto, Breaks
<1>14. CASE CheckBalance
  BY <1>14 DEF CheckBalance, Submit, Goto
<1>15. CASE LeaveRepl
  BY <1>15 DEF LeaveRepl, Cleared, Goto
<1>16. CASE DeinitRuntime
  BY <1>16 DEF DeinitRuntime, Goto
<1>17. CASE DeinitCore
  BY <1>17 DEF DeinitCore, Goto
<1>18. CASE ReadLine
  BY <1>18 DEF ReadLine, Goto, Lines
<1>19. CASE HandleSigint
  BY <1>19 DEF HandleSigint, Goto, Handled
<1>20. CASE HandleSigterm
  BY <1>20 DEF HandleSigterm, Goto, Handled
<1>21. CASE HandleSigabrt
  BY <1>21 DEF HandleSigabrt, Goto, Handled
<1>22. CASE UNCHANGED vars
  BY <1>22 DEF vars
<1> QED
  BY <1>1, <1>2, <1>3, <1>4, <1>5, <1>6, <1>7, <1>8, <1>9, <1>9a, <1>10, <1>11, <1>12,
     <1>13, <1>14, <1>15, <1>16, <1>17, <1>18, <1>19, <1>20, <1>21, <1>22
  DEF Next, Main

-----------------------------------------------------------------------------
(***************************************************************************)
(* The files at work, at each place of the main thread.                    *)
(***************************************************************************)

(* The arguments of the program, while it interprets a file.               *)
Extra == IF pc = "script" THEN Strings("main", MainArgs) ELSE {}

(* Until something is evaluated the runtime has no arguments; afterwards   *)
(* the pointer to those of the program may stay.                           *)
Fresh == {"core", "runtime", "handlers", "mode", "repl", "repl_flag", "check", "prompt", "line",
          "balance"}

FilesAtWork ==
  /\ Evaluating => Keeps(work, argc, argv, Base, strings, Extra)
  /\ pc \in Fresh => NoScripts
  /\ ~Evaluating /\ pc # "aborted" => work = <<>> /\ strings = {}
  /\ ScriptsTypeOK

LEMMA NoFiles ==
  ASSUME NEW w, w = <<>>
  PROVE  /\ w \in Seq(SoundFiles) /\ Distinct(w) /\ Held(w) = {} /\ Len(w) = 0
         /\ \A base : Restores(w, base)
         /\ \A c, v, base : ArgumentsAt(w, 0, c, v, base) <=> <<c, v>> = base
<1>1. w \in Seq(SoundFiles) /\ Len(w) = 0
  OBVIOUS
<1>2. \A k : k \notin 1..0
  BY SMT
<1>3. Distinct(w) /\ Held(w) = {} /\ Running(w, 0) = {}
  BY <1>1, <1>2 DEF Distinct, Held, Running
<1>4. \A m \in Nat : ~(m < 0)
  BY SMT
<1> QED BY <1>1, <1>3, <1>4 DEF Restores, ArgumentsAt

(* Nothing at work keeps the arguments it begins with.                     *)
LEMMA BeginsKept ==
  ASSUME NEW w, w = <<>>, NEW c, NEW v, Arguments(c, v), NEW E
  PROVE  Keeps(w, c, v, <<c, v>>, E, E)
BY NoFiles DEF Keeps, WorkOK

(* What is kept has its type.                                              *)
LEMMA KeptTypes ==
  ASSUME NEW w, NEW c, NEW v, NEW base, NEW s, NEW E, Keeps(w, c, v, base, s, E)
  PROVE  /\ c \in 0..MaxArgs /\ v \in Arrays \cup {"none", "main"} /\ w \in Seq(Files)
         /\ \A p \in Held(w) : p \in (Arrays \cup {"main"}) \X (0..(MaxArgs - 1))
<1>1. w \in Seq(SoundFiles) /\ Arguments(c, v)
  BY DEF Keeps, WorkOK
<1>2. w \in Seq(Files)
  BY <1>1 DEF SoundFiles
<1>3. ASSUME NEW k \in 1..Len(w), NEW p \in Strings(w[k].argv, w[k].filled)
      PROVE  p \in (Arrays \cup {"main"}) \X (0..(MaxArgs - 1))
  <2>1. w[k] \in Files /\ FileOK(w[k])
    BY <1>1 DEF SoundFiles
  <2>2. PICK i \in 0..(w[k].filled - 1) : p = <<w[k].argv, i>>
    BY DEF Strings
  <2>3. w[k].filled \in 0..MaxArgs
    BY <2>1 DEF Files
  <2>4. i \in 0..(MaxArgs - 1) /\ w[k].filled # 0
    BY <2>3, ScriptConstants, SMT
  <2>5. w[k].argv \in Arrays
    BY <2>1, <2>4 DEF FileOK
  <2> QED BY <2>2, <2>4, <2>5
<1> QED BY <1>1, <1>2, <1>3 DEF Arguments, Held

LEMMA MainStrings ==
  /\ Foreign(Strings("main", MainArgs)) /\ Foreign({})
  /\ Strings("main", MainArgs)
       \subseteq ((Arrays \cup {"main"}) \X (0..(MaxArgs - 1)))
<1>1. \A i \in 0..(MainArgs - 1) : i \in 0..(MaxArgs - 1)
  BY ScriptConstants, SMT
<1> QED BY <1>1, ScriptConstants DEF Foreign, Strings

LEMMA FilesInit ==
  ASSUME Init
  PROVE  FilesAtWork
BY ScriptConstants DEF Init, FilesAtWork, Evaluating, NoScripts, ScriptsTypeOK, Fresh

LEMMA FilesKept ==
  ASSUME FilesAtWork, Next
  PROVE  FilesAtWork'
<1> USE DEF Goto, entry, flags, owned, scripts, Evaluating
<1>1. ASSUME Keeps(work', argc', argv', Base', strings', Extra')
      PROVE  ScriptsTypeOK'
  <2>1. \A q \in Extra' : q \in ((Arrays \cup {"main"}) \X (0..(MaxArgs - 1)))
    BY MainStrings DEF Extra
  <2>2. strings' = Held(work') \cup Extra'
    BY <1>1 DEF Keeps
  <2>3. /\ argc' \in 0..MaxArgs /\ argv' \in Arrays \cup {"none", "main"}
        /\ work' \in Seq(Files)
        /\ \A q \in Held(work') : q \in (Arrays \cup {"main"}) \X (0..(MaxArgs - 1))
    BY <1>1, KeptTypes
  <2> QED BY <2>1, <2>2, <2>3 DEF ScriptsTypeOK
<1>2. CASE ~Evaluating /\ pc' \notin {"script", "prelude", "eval"} /\ UNCHANGED scripts
           /\ (pc' \in Fresh => pc \in Fresh) /\ pc # "aborted"
  BY <1>2 DEF FilesAtWork, ScriptsTypeOK, NoScripts
<1>3. CASE \/ InitCore \/ InitRuntime \/ RegisterHandlers \/ ResetCount \/ CheckRunning \/ ReadLine
              \/ LeaveLoop \/ SkipLine \/ TakeLine \/ LeaveRepl \/ DeinitRuntime
              \/ DeinitCore
  BY <1>2, <1>3 DEF InitCore, InitRuntime, RegisterHandlers, ResetCount, CheckRunning, ReadLine,
     LeaveLoop, SkipLine, TakeLine, LeaveRepl, DeinitRuntime, DeinitCore, Fresh
<1>4. CASE ChooseMode
  <2>1. NoScripts
    BY <1>4 DEF FilesAtWork, ChooseMode, Fresh
  <2>2. CASE pc' \in {"repl", "shutdown"} /\ UNCHANGED scripts
    BY <1>2, <1>4, <2>2 DEF ChooseMode, Fresh
  <2>3. CASE pc' = "script" /\ SetMainArgs
    <3>1. Keeps(work', argc', argv', Base', strings', Extra')
      <4>1. Arguments(argc', argv')
        BY <2>3, ScriptConstants DEF SetMainArgs, Arguments
      <4>2. /\ Base' = <<argc', argv'>> /\ Extra' = strings' /\ work' = <<>>
        BY <2>1, <2>3 DEF Base, Extra, SetMainArgs, NoScripts
      <4> QED BY <4>1, <4>2, BeginsKept
    <3> QED BY <1>1, <2>3, <3>1 DEF FilesAtWork, Fresh
  <2> QED BY <1>4, <2>2, <2>3 DEF ChooseMode
<1>5. CASE EvalWorks
  <2>1. Evaluating /\ pc' = pc /\ Base' = Base /\ Extra' = Extra /\ Foreign(Extra)
    BY <1>5, MainStrings DEF EvalWorks, Base, Extra
  <2>2. Keeps(work, argc, argv, Base, strings, Extra)
    BY <2>1 DEF FilesAtWork
  <2>3. Keeps(work', argc', argv', Base, strings', Extra)
    <3>1. CASE UNCHANGED scripts
      BY <2>2, <3>1
    <3>2. CASE ScriptStep
      BY <2>1, <2>2, <3>2, ScriptStepKeeps
    <3> QED BY <1>5, <3>1, <3>2 DEF EvalWorks
  <2>4. Keeps(work', argc', argv', Base', strings', Extra')
    BY <2>1, <2>3
  <2> QED BY <1>1, <2>1, <2>4 DEF FilesAtWork, Fresh
<1>6. CASE ScriptEnds \/ PreludeEnds \/ EntryEnds
  <2>1. Keeps(work, argc, argv, Base, strings, Extra) /\ work = <<>>
    BY <1>6 DEF ScriptEnds, PreludeEnds, EntryEnds, FilesAtWork
  <2>2. strings = Extra /\ <<argc, argv>> = Base
    BY <2>1, NoFiles DEF Keeps, WorkOK
  <2>3. CASE ScriptEnds
    BY <2>1, <2>2, <2>3 DEF ScriptEnds, FreeMainArgs, FilesAtWork, ScriptsTypeOK, Extra,
       Fresh
  <2>4. CASE PreludeEnds \/ EntryEnds
    <3>1. argc = 0 /\ argv = "none" /\ strings = {}
      BY <2>2, <2>4 DEF PreludeEnds, EntryEnds, Base, Extra
    <3> QED BY <2>1, <2>4, <3>1 DEF PreludeEnds, EntryEnds, FilesAtWork, ScriptsTypeOK,
            NoScripts
  <2> QED BY <1>6, <2>3, <2>4
<1>7. CASE ResetFlag \/ CheckBalance
  <2>1. NoScripts /\ pc' # "script" /\ UNCHANGED scripts
    BY <1>7 DEF ResetFlag, CheckBalance, Submit, FilesAtWork, Fresh
  <2>2. CASE pc' \in {"prelude", "eval"}
    <3>1. Keeps(work', argc', argv', Base', strings', Extra')
      <4>1. Arguments(argc', argv') /\ Base' = <<argc', argv'>> /\ work' = <<>>
        BY <2>1, ScriptConstants DEF Arguments, Base, NoScripts
      <4>2. Extra' = strings'
        BY <2>1 DEF Extra, NoScripts
      <4> QED BY <4>1, <4>2, BeginsKept
    <3> QED BY <1>1, <2>2, <3>1 DEF FilesAtWork, Fresh
  <2>3. CASE pc' \notin {"prelude", "eval"}
    BY <1>2, <1>7, <2>1, <2>3 DEF ResetFlag, CheckBalance, Submit, Fresh
  <2> QED BY <2>2, <2>3
<1>8. CASE HandleSigint \/ HandleSigterm
  BY <1>8 DEF HandleSigint, HandleSigterm, FilesAtWork, ScriptsTypeOK, NoScripts,
     Base, Extra
<1>9. CASE HandleSigabrt
  BY <1>9 DEF HandleSigabrt, FilesAtWork, ScriptsTypeOK, Fresh
<1> QED BY <1>3, <1>4, <1>5, <1>6, <1>7, <1>8, <1>9 DEF Next, Main

-----------------------------------------------------------------------------

IInv == MainThread /\ FilesAtWork

(* The invariant holds at the start and after every step.                  *)
THEOREM InductiveInvariant == Spec => []IInv
<1>1. Init => IInv
  <2> SUFFICES ASSUME Init PROVE IInv
    OBVIOUS
  <2>1. 0 \in 0..MaxSignals
    BY SessionConstants, SMT
  <2>2. ControlTypeOK
    BY <2>1 DEF Init, ControlTypeOK, Places, Lines
  <2>3. Marked /\ Buffer /\ Owners
    BY DEF Init, Marked, BeforeLoop, InLoop, Buffer, Owners, Inside
  <2> QED BY <2>2, <2>3, FilesInit DEF IInv, MainThread
<1>2. IInv /\ [Next]_vars => IInv'
  <2> SUFFICES ASSUME IInv, [Next]_vars PROVE IInv'
    OBVIOUS
  <2>1. MainThread'
    BY MainThreadKept DEF IInv
  <2>2. FilesAtWork'
    <3>1. CASE Next
      BY <3>1, FilesKept DEF IInv
    <3>2. CASE UNCHANGED vars
      BY <3>2 DEF IInv, vars, scripts, FilesAtWork, ScriptsTypeOK, NoScripts, Base, Extra,
         Evaluating
    <3> QED BY <3>1, <3>2
  <2> QED BY <2>1, <2>2 DEF IInv
<1> QED BY <1>1, <1>2, PTL DEF Spec

(* Every variable of the program has its type: main.c, repl.c, exec.c.     *)
THEOREM TypeInvariant == Spec => []TypeOK
<1>1. IInv => TypeOK
  BY DEF IInv, MainThread, ControlTypeOK, Marked, Buffer, FilesAtWork, TypeOK
<1> QED BY <1>1, InductiveInvariant, PTL

(* The loop of akx_repl_start submits every line it takes at most once,    *)
(* and keeps it until then: repl_buffer_clear follows each submission, and *)
(* nothing else before the end of the loop.                                *)
THEOREM EntriesOnce == Spec => []EvaluatesEntriesOnce
<1>1. IInv => EvaluatesEntriesOnce
  BY DEF IInv, MainThread, Marked, EvaluatesEntriesOnce
<1> QED BY <1>1, InductiveInvariant, PTL

(* A line that linenoise returns after the stop is never evaluated.        *)
THEOREM LateLines == Spec => []LateLinesAreDropped
<1>1. IInv => LateLinesAreDropped
  BY DEF IInv, MainThread, Buffer, LateLinesAreDropped
<1> QED BY <1>1, InductiveInvariant, PTL

(* Whatever way app_main takes, the evaluator has a runtime and the        *)
(* runtime a core, and both are gone at the end.                           *)
THEOREM OwnersNest == Spec => []RuntimeWithinCore
<1>1. IInv => RuntimeWithinCore
  BY DEF IInv, MainThread, Owners, Inside, Evaluating, RuntimeWithinCore
<1> QED BY <1>1, InductiveInvariant, PTL

(* Every file reads the arguments it was started with, at any nesting of   *)
(* akx/exec and import and after any failure in them.                      *)
THEOREM OwnArguments == Spec => []ScriptSeesItsArguments
<1>1. IInv => ScriptSeesItsArguments
  BY DEF IInv, FilesAtWork, Keeps, WorkOK, ScriptSeesItsArguments
<1> QED BY <1>1, InductiveInvariant, PTL

(* No exit of akx/exec frees an argument still in use or forgets one.      *)
THEOREM ArgumentsHeld == Spec => []ArgumentsHeldExactly
<1>1. IInv => ArgumentsHeldExactly
  <2> SUFFICES ASSUME IInv, pc # "aborted"
               PROVE  strings = Held(work) \cup Extra
    BY DEF ArgumentsHeldExactly, Extra
  <2>1. CASE Evaluating
    BY <2>1 DEF IInv, FilesAtWork, Keeps
  <2>2. CASE ~Evaluating
    BY <2>2, NoFiles DEF IInv, FilesAtWork, Extra, Evaluating
  <2> QED BY <2>1, <2>2
<1> QED BY <1>1, InductiveInvariant, PTL

=============================================================================
