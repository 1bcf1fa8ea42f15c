------------------------- MODULE SchedulerRefsProofs ------------------------
(***************************************************************************)
(* Theorems about the pool of scripts of Scheduler: the reference counts   *)
(* of the containers, and that what is staged can be run.                  *)
(*                                                                         *)
(* The proof keeps books. A container is used by the fields and lists that *)
(* name it (UsesOf), and has a surplus: its references beyond these uses.  *)
(* In the middle of a handler a surplus is held by whoever compiled the    *)
(* script or took it off a list. Each operator of Scheduler has a lemma    *)
(* that says which surplus it adds or takes, so that a handler that takes  *)
(* what it adds is Balanced. Orderly is the inductive invariant: the books *)
(* of the pool are in order (Kept), no surplus is negative (Solvent), and  *)
(* what is compiled can be stepped (Fit).                                  *)
(***************************************************************************)
EXTENDS SchedulerProofs, FunctionTheorems

-----------------------------------------------------------------------------
(* How often a script is entered in a list.                                *)

(* How often script c is entered in the list q.                            *)
Times(q, c) == Cardinality({i \in DOMAIN q : q[i] = c})

Same(a, b) == IF a = b THEN 1 ELSE 0

LEMMA TimesType ==
  ASSUME NEW q \in Seq(Script), NEW c
  PROVE  /\ IsFiniteSet({i \in DOMAIN q : q[i] = c})
         /\ Times(q, c) \in Nat
<1> DEFINE E == {i \in DOMAIN q : q[i] = c}
<1>1. DOMAIN q = 1 .. Len(q) /\ Len(q) \in Nat
  BY LenProperties
<1>2. IsFiniteSet(1 .. Len(q))
  BY <1>1, FS_Interval
<1>3. E \in SUBSET (1 .. Len(q))
  BY <1>1
<1> HIDE DEF E
<1>4. IsFiniteSet(E)
  BY <1>2, <1>3, FS_Subset
<1> QED
  BY <1>4, FS_CardinalityType DEF E, Times

LEMMA TimesEmpty == \A c : Times(<< >>, c) = 0
<1> SUFFICES ASSUME NEW c
             PROVE  Times(<< >>, c) = 0
  OBVIOUS
<1>1. {i \in DOMAIN << >> : << >>[i] = c} = {}
  BY EmptySeq
<1> QED
  BY <1>1, FS_EmptySet DEF Times

LEMMA TimesDelete ==
  ASSUME NEW q \in Seq(Script), NEW n \in 0 .. Len(q) - 1, NEW c
  PROVE  Times(q, c) = Times(ListDelete(q, n), c) + Same(q[n + 1], c)
<1> DEFINE l == ListDelete(q, n)
           E == {i \in DOMAIN q : q[i] = c}
           F == {i \in DOMAIN l : l[i] = c}
           D == E \ {n + 1}
           f == [i \in F |-> IF i <= n THEN i ELSE i + 1]
<1>1. DOMAIN q = 1 .. Len(q) /\ Len(q) \in Nat
  BY LenProperties
<1>2. l \in Seq(Script) /\ Len(l) = Len(q) - 1
  BY ListDeleteType
<1>3. \A i \in 1 .. Len(q) - 1 : l[i] = IF i <= n THEN q[i] ELSE q[i + 1]
  BY ListDeleteEntries
<1>4. DOMAIN l = 1 .. Len(q) - 1
  BY <1>2, LenProperties
<1> HIDE DEF l
<1>5. IsFiniteSet(E) /\ IsFiniteSet(F) /\ Times(q, c) \in Nat /\ Times(l, c) \in Nat
  BY <1>2, TimesType
<1>6. f \in [F -> D]
  <2> SUFFICES ASSUME NEW i \in F
               PROVE  (IF i <= n THEN i ELSE i + 1) \in D
    OBVIOUS
  <2>1. i \in 1 .. Len(q) - 1 /\ l[i] = c
    BY <1>4
  <2>2. CASE i <= n
    <3>1. q[i] = c /\ i \in 1 .. Len(q) /\ i # n + 1
      BY <1>1, <1>3, <2>1, <2>2
    <3> QED
      BY <1>1, <2>2, <3>1
  <2>3. CASE ~(i <= n)
    <3>1. q[i + 1] = c /\ i + 1 \in 1 .. Len(q) /\ i + 1 # n + 1
      BY <1>1, <1>3, <2>1, <2>3
    <3> QED
      BY <1>1, <2>3, <3>1
  <2> QED
    BY <2>2, <2>3
<1>7. \A a, b \in F : f[a] = f[b] => a = b
  <2> SUFFICES ASSUME NEW a \in F, NEW b \in F, f[a] = f[b]
               PROVE  a = b
    OBVIOUS
  <2>1. a \in Int /\ b \in Int
    BY <1>4
  <2>2. f[a] = (IF a <= n THEN a ELSE a + 1) /\ f[b] = (IF b <= n THEN b ELSE b + 1)
    OBVIOUS
  <2> QED
    BY <2>1, <2>2
<1>8. \A t \in D : \E s \in F : f[s] = t
  <2> SUFFICES ASSUME NEW t \in D
               PROVE  \E s \in F : f[s] = t
    OBVIOUS
  <2>1. t \in 1 .. Len(q) /\ q[t] = c /\ t # n + 1
    BY <1>1
  <2>2. CASE t <= n
    <3>1. t \in 1 .. Len(q) - 1
      BY <1>1, <2>1, <2>2
    <3>2. l[t] = c
      BY <1>3, <2>1, <2>2, <3>1
    <3>3. t \in F
      BY <1>4, <3>1, <3>2
    <3> QED
      BY <2>2, <3>3
  <2>3. CASE ~(t <= n)
    <3>1. t - 1 \in 1 .. Len(q) - 1 /\ ~(t - 1 <= n) /\ (t - 1) + 1 = t
      BY <1>1, <2>1, <2>3
    <3>2. l[t - 1] = c
      BY <1>3, <2>1, <3>1
    <3>3. t - 1 \in F
      BY <1>4, <3>1, <3>2
    <3>4. f[t - 1] = t
      BY <3>1, <3>3
    <3> QED
      BY <3>3, <3>4
  <2> QED
    BY <2>2, <2>3
<1>9. Cardinality(D) = Cardinality(F)
  <2> HIDE DEF f, F, D
  <2>1. f \in Bijection(F, D)
    BY <1>6, <1>7, <1>8, Fun_IsBij
  <2>2. ExistsBijection(F, D)
    BY <2>1 DEF ExistsBijection
  <2> QED
    BY <1>5, <2>2, FS_Bijection
<1>10. /\ n + 1 \in E <=> q[n + 1] = c
       /\ Cardinality(D) = IF n + 1 \in E THEN Cardinality(E) - 1 ELSE Cardinality(E)
  <2>1. n + 1 \in 1 .. Len(q)
    BY <1>1
  <2>2. n + 1 \in E <=> q[n + 1] = c
    BY <1>1, <2>1
  <2> HIDE DEF E
  <2> QED
    BY <1>5, <2>2, FS_RemoveElement
<1>11. Times(q, c) = Cardinality(E) /\ Times(l, c) = Cardinality(F)
  BY DEF Times
<1> HIDE DEF E, F, D, f
<1>12. /\ Cardinality(E) \in Nat /\ Cardinality(F) \in Nat
       /\ Cardinality(F) = IF q[n + 1] = c THEN Cardinality(E) - 1 ELSE Cardinality(E)
  <2>1. Cardinality(E) \in Nat /\ Cardinality(F) \in Nat
    BY <1>5, <1>11
  <2>2. Cardinality(D) = IF q[n + 1] = c THEN Cardinality(E) - 1 ELSE Cardinality(E)
    BY <1>10
  <2> QED
    BY <1>9, <2>1, <2>2
<1>13. Cardinality(E) = Cardinality(F) + Same(q[n + 1], c)
  BY <1>12 DEF Same
<1> QED
  BY <1>11, <1>13 DEF l

LEMMA TimesInsert ==
  ASSUME NEW q \in Seq(Script), NEW n \in 0 .. Len(q), NEW d \in Script, NEW c
  PROVE  Times(ListInsert(q, n, d), c) = Times(q, c) + Same(d, c)
<1> DEFINE l == ListInsert(q, n, d)
<1>0. Len(q) \in Nat
  BY LenProperties
<1>1. l \in Seq(Script) /\ Len(l) = Len(q) + 1 /\ ListDelete(l, n) = q
  BY ListInsertType, DeleteInserted
<1>2. n + 1 \in 1 .. Len(q) + 1 /\ ~(n + 1 <= n)
  BY <1>0
<1>3. l[n + 1] = d
  BY <1>2, ListInsertEntries
<1> HIDE DEF l
<1>4. n \in 0 .. Len(l) - 1
  BY <1>0, <1>1
<1>5. Times(l, c) = Times(ListDelete(l, n), c) + Same(l[n + 1], c)
  BY <1>1, <1>4, TimesDelete
<1> QED
  BY <1>1, <1>3, <1>5 DEF l

LEMMA TimesTail ==
  ASSUME NEW q \in Seq(Script), q # << >>, NEW c
  PROVE  Times(q, c) = Times(Tail(q), c) + Same(Head(q), c)
<1>1. /\ 0 \in 0 .. Len(q) - 1
      /\ Head(q) = q[1]
      /\ Tail(q) = ListDelete(q, 0)
  BY TailIsDelete
<1>2. Times(q, c) = Times(ListDelete(q, 0), c) + Same(q[0 + 1], c)
  BY <1>1, TimesDelete
<1>3. 0 + 1 = 1
  OBVIOUS
<1> QED
  BY <1>1, <1>2, <1>3

LEMMA TimesAppend ==
  ASSUME NEW q \in Seq(Script), NEW d \in Script, NEW c
  PROVE  Times(Append(q, d), c) = Times(q, c) + Same(d, c)
<1>1. Len(q) \in 0 .. Len(q)
  BY LenProperties
<1> QED
  BY <1>1, AppendIsInsert, TimesInsert

LEMMA TimesFront ==
  ASSUME NEW q \in Seq(Script), NEW d \in Script, NEW c
  PROVE  Times(<<d>> \o q, c) = Times(q, c) + Same(d, c)
<1>1. 0 \in 0 .. Len(q)
  BY LenProperties
<1> QED
  BY <1>1, FrontIsInsert, TimesInsert

LEMMA TimesEntry ==
  ASSUME NEW q \in Seq(Script), NEW i \in DOMAIN q
  PROVE  q[i] \in Script /\ Times(q, q[i]) > 0
<1> DEFINE E == {j \in DOMAIN q : q[j] = q[i]}
<1>1. q[i] \in Script
  BY LenProperties, ElementOfSeq
<1>2. i \in E /\ IsFiniteSet(E) /\ Times(q, q[i]) \in Nat
  BY TimesType
<1>3. Cardinality(E) # 0
  BY <1>2, FS_EmptySet
<1>4. Times(q, q[i]) = Cardinality(E)
  BY DEF Times
<1> QED
  BY <1>1, <1>2, <1>3, <1>4

-----------------------------------------------------------------------------
(* The books of the pool.                                                  *)

(* The uses of a container in a state, and the references beyond them.     *)
ArgUses(S, c) == IF \E p \in Script : c \in S.args[p] THEN 1 ELSE 0

UsesOf(S, c) == Same(S.schedule, c) + Same(S.initialize, c) + Same(S.startup, c)
                  + Times(S.queue, c) + ArgUses(S, c)

Surplus(S, c) == S.ref[c] - UsesOf(S, c)

(* The arguments of scripts: one level deep, each of one script, and of    *)
(* compiled ones only.                                                     *)
Trees(S) ==
  /\ \A p \in Script : \A c \in S.args[p] : S.args[c] = {}
  /\ \A p, q \in Script : \A c \in Script : c \in S.args[p] /\ c \in S.args[q] => p = q
  /\ \A p \in Script : S.state[p] = "EMPTY" => S.args[p] = {}

(* The accounts of the pool are in order: a container is in the pool just  *)
(* when nothing refers to it.                                              *)
Kept(S) == /\ S \in SchedulerState
           /\ Trees(S)
           /\ \A c \in Script : S.ref[c] = 0 <=> S.state[c] = "EMPTY"

Solvent(S) == \A c \in Script : Surplus(S, c) >= 0

(* Each script, but e, can be stepped when it is compiled, while the pipe  *)
(* of the RTC takes the report of the end of the initialization script.    *)
Fit(S, e) ==
  "rtcpipe" \notin Environment =>
     \A c \in Script \ {e} : S.state[c] \in {"EMPTY", "ACTIVE", "EXITING"}

(* T is a state of the thread with the containers and uses of S ...        *)
SameBooks(S, T) ==
  /\ T \in SchedulerState
  /\ T.ref = S.ref /\ T.state = S.state /\ T.args = S.args
  /\ T.schedule = S.schedule /\ T.initialize = S.initialize
  /\ T.startup = S.startup /\ T.queue = S.queue

(* ... or one in which each container has the surplus it has in S.         *)
Balanced(S, T) == /\ Kept(T)
                  /\ \A x \in Script : Surplus(T, x) = Surplus(S, x)

LEMMA UsesType ==
  ASSUME NEW S \in SchedulerState, NEW c \in Script
  PROVE  /\ S.ref[c] \in Int
         /\ Same(S.schedule, c) \in {0, 1}
         /\ Same(S.initialize, c) \in {0, 1}
         /\ Same(S.startup, c) \in {0, 1}
         /\ Times(S.queue, c) \in Nat
         /\ ArgUses(S, c) \in {0, 1}
         /\ UsesOf(S, c) \in Nat
         /\ Surplus(S, c) \in Int
<1>1. S.ref[c] \in Int /\ S.queue \in Seq(Script)
  BY DEF SchedulerState
<1>2. Times(S.queue, c) \in Nat
  BY <1>1, TimesType
<1>3. /\ Same(S.schedule, c) \in {0, 1}
      /\ Same(S.initialize, c) \in {0, 1}
      /\ Same(S.startup, c) \in {0, 1}
  BY DEF Same
<1>4. ArgUses(S, c) \in {0, 1}
  BY DEF ArgUses
<1>5. UsesOf(S, c) \in Nat
  BY <1>2, <1>3, <1>4 DEF UsesOf
<1> QED
  BY <1>1, <1>2, <1>3, <1>4, <1>5 DEF Surplus

(* What is used is referred to, and so is compiled.                        *)
LEMMA UsedIsCompiled ==
  ASSUME NEW S, Kept(S), Solvent(S), NEW c \in Script
  PROVE  /\ UsesOf(S, c) > 0 => S.ref[c] >= 1
         /\ S.ref[c] >= UsesOf(S, c)
         /\ S.ref[c] >= 1 => S.state[c] # "EMPTY"
         /\ S.schedule = c => UsesOf(S, c) > 0
         /\ S.initialize = c => UsesOf(S, c) > 0
         /\ S.startup = c => UsesOf(S, c) > 0
         /\ ArgUses(S, c) = 1 => UsesOf(S, c) > 0
         /\ Times(S.queue, c) > 0 => UsesOf(S, c) > 0
<1>1. S \in SchedulerState /\ Surplus(S, c) >= 0
  BY DEF Kept, Solvent
<1>2. /\ S.ref[c] \in Int
      /\ Same(S.schedule, c) \in {0, 1}
      /\ Same(S.initialize, c) \in {0, 1}
      /\ Same(S.startup, c) \in {0, 1}
      /\ Times(S.queue, c) \in Nat
      /\ ArgUses(S, c) \in {0, 1}
      /\ UsesOf(S, c) \in Nat
  BY <1>1, UsesType
<1>3. S.ref[c] >= UsesOf(S, c)
  BY <1>1, <1>2 DEF Surplus
<1>4. S.ref[c] = 0 <=> S.state[c] = "EMPTY"
  BY DEF Kept
<1>5. /\ S.schedule = c => UsesOf(S, c) > 0
      /\ S.initialize = c => UsesOf(S, c) > 0
      /\ S.startup = c => UsesOf(S, c) > 0
  <2>1. /\ S.schedule = c => Same(S.schedule, c) = 1
        /\ S.initialize = c => Same(S.initialize, c) = 1
        /\ S.startup = c => Same(S.startup, c) = 1
    BY DEF Same
  <2> QED
    BY <1>2, <2>1 DEF UsesOf
<1>6. /\ ArgUses(S, c) = 1 => UsesOf(S, c) > 0
      /\ Times(S.queue, c) > 0 => UsesOf(S, c) > 0
  BY <1>2 DEF UsesOf
<1> QED
  BY <1>2, <1>3, <1>4, <1>5, <1>6

LEMMA SameBooksKeeps ==
  ASSUME NEW S, NEW T, Kept(S), SameBooks(S, T)
  PROVE  /\ Balanced(S, T)
         /\ \A e : Fit(S, e) => Fit(T, e)
<1>1. Kept(T)
  BY DEF Kept, Trees, SameBooks
<1>2. \A x \in Script : Surplus(T, x) = Surplus(S, x)
  BY DEF SameBooks, Surplus, UsesOf, ArgUses
<1>3. \A e : Fit(S, e) => Fit(T, e)
  BY DEF SameBooks, Fit
<1> QED
  BY <1>1, <1>2, <1>3 DEF Balanced

LEMMA BalancedSolvent ==
  ASSUME NEW S, NEW T, Solvent(S), Balanced(S, T)
  PROVE  Kept(T) /\ Solvent(T)
<1> QED
  BY DEF Solvent, Balanced

LEMMA BalancedTwice ==
  ASSUME NEW S, NEW T, NEW U, Balanced(S, T), Balanced(T, U)
  PROVE  Balanced(S, U)
<1> QED
  BY DEF Balanced

LEMMA SameBooksTwice ==
  ASSUME NEW S, NEW T, NEW U, SameBooks(S, T), SameBooks(T, U)
  PROVE  SameBooks(S, U)
<1> QED
  BY DEF SameBooks

-----------------------------------------------------------------------------
LEMMA ReportBooks ==
  ASSUME NEW S \in SchedulerState, NEW r \in ScriptOrNone, NEW q \in Seq(Script)
  PROVE  SameBooks(S, Report(S, r, q))
<1>1. Report(S, r, q) \in SchedulerState
  BY ReportType DEF Quiet
<1>2. CASE S.client = "full"
  BY <1>1, <1>2 DEF Report, Mislead, SameBooks, SchedulerState
<1>3. CASE S.client # "full"
  BY <1>1, <1>3 DEF Report, SameBooks, SchedulerState
<1> QED
  BY <1>2, <1>3

LEMMA ReportRmBooks ==
  ASSUME NEW S \in SchedulerState, NEW n \in Nat
  PROVE  SameBooks(S, ReportRm(S, n))
<1> DEFINE t == IF n >= Len(S.viewQueue) THEN S.viewQueue ELSE ListDelete(S.viewQueue, n)
<1>1. S.viewRun \in ScriptOrNone /\ S.viewQueue \in Seq(Script) /\ Len(S.viewQueue) \in Nat
  BY LenProperties DEF SchedulerState
<1>2. t \in Seq(Script)
  <2>1. CASE n >= Len(S.viewQueue)
    BY <1>1, <2>1
  <2>2. CASE ~(n >= Len(S.viewQueue))
    <3>1. n \in 0 .. Len(S.viewQueue) - 1
      BY <1>1, <2>2
    <3> QED
      BY <1>1, <2>2, <3>1, ListDeleteType
  <2> QED
    BY <2>1, <2>2
<1>3. ReportRm(S, n) = Report(S, S.viewRun, t)
  BY DEF ReportRm
<1> HIDE DEF t
<1> QED
  BY <1>1, <1>2, <1>3, ReportBooks

LEMMA ReportMvBooks ==
  ASSUME NEW S \in SchedulerState, NEW n \in Nat, NEW m \in Int
  PROVE  SameBooks(S, ReportMv(S, n, m))
<1>1. ReportMv(S, n, m) \in SchedulerState
  BY ReportMvType DEF Quiet
<1>2. \A q : /\ Report(S, S.viewRun, q).ref = S.ref
             /\ Report(S, S.viewRun, q).state = S.state
             /\ Report(S, S.viewRun, q).args = S.args
             /\ Report(S, S.viewRun, q).schedule = S.schedule
             /\ Report(S, S.viewRun, q).initialize = S.initialize
             /\ Report(S, S.viewRun, q).startup = S.startup
             /\ Report(S, S.viewRun, q).queue = S.queue
  <2> TAKE q
  <2>1. CASE S.client = "full"
    BY <2>1 DEF Report, Mislead, SchedulerState
  <2>2. CASE S.client # "full"
    BY <2>2 DEF Report, SchedulerState
  <2> QED
    BY <2>1, <2>2
<1>3. \E q : ReportMv(S, n, m) = Report(S, S.viewRun, q)
  BY DEF ReportMv
<1> QED
  BY <1>1, <1>2, <1>3 DEF SameBooks

LEMMA SmallBooks ==
  ASSUME NEW S \in SchedulerState
  PROVE  /\ SameBooks(S, Mislead(S))
         /\ SameBooks(S, RemovePendingFile(S))
         /\ SameBooks(S, ReportInitEnded(S))
         /\ SameBooks(S, ResumeSchedule(S))
         /\ SameBooks(S, SuspendSchedule(S))
<1>1. SameBooks(S, Mislead(S))
  BY MisleadType DEF Quiet, Mislead, SameBooks, SchedulerState
<1>2. SameBooks(S, RemovePendingFile(S))
  <2>1. RemovePendingFile(S) \in SchedulerState
    BY RemovePendingFileType DEF Quiet
  <2> QED
    BY <2>1 DEF RemovePendingFile, SameBooks, SchedulerState
<1>3. SameBooks(S, ReportInitEnded(S))
  <2>1. ReportInitEnded(S) \in SchedulerState
    BY ReportInitEndedType DEF Quiet
  <2>2. CASE S.schedule # None /\ S.schedule = S.initialize
    <3>1. ReportInitEnded(S) = [S EXCEPT !.awaiting = FALSE]
      BY <2>2 DEF ReportInitEnded
    <3> QED
      BY <2>1, <3>1 DEF SameBooks, SchedulerState
  <2>3. CASE ~(S.schedule # None /\ S.schedule = S.initialize)
    BY <2>3 DEF ReportInitEnded, SameBooks
  <2> QED
    BY <2>2, <2>3
<1>4. SameBooks(S, ResumeSchedule(S))
  BY DEF ResumeSchedule, SameBooks, SchedulerState
<1>5. SameBooks(S, SuspendSchedule(S))
  <2>1. CASE S.schedule = None
    BY <2>1 DEF SuspendSchedule, SameBooks
  <2>2. CASE S.schedule # None
    <3>1. SuspendSchedule(S) = [S EXCEPT !.suspend = TRUE]
      BY <2>2 DEF SuspendSchedule
    <3> QED
      BY <3>1 DEF SameBooks, SchedulerState
  <2> QED
    BY <2>1, <2>2
<1> QED
  BY <1>1, <1>2, <1>3, <1>4, <1>5

-----------------------------------------------------------------------------
LEMMA RewindBooks ==
  ASSUME NEW S, Kept(S), NEW c \in Script
  PROVE  /\ Balanced(S, Rewind(S, c))
         /\ \A e : Fit(S, e) => Fit(Rewind(S, c), e)
         /\ Fit(S, c) => Fit(Rewind(S, c), None)
         /\ Rewind(S, c).ref = S.ref /\ Rewind(S, c).args = S.args
         /\ Rewind(S, c).schedule = S.schedule /\ Rewind(S, c).queue = S.queue
         /\ Rewind(S, c).initialize = S.initialize /\ Rewind(S, c).startup = S.startup
<1> DEFINE R == Rewind(S, c)
<1>0. S \in SchedulerState
  BY DEF Kept
<1>1. R \in SchedulerState
  BY <1>0, RewindType DEF Quiet
<1>2. /\ R.ref = S.ref /\ R.args = S.args
      /\ R.schedule = S.schedule /\ R.initialize = S.initialize
      /\ R.startup = S.startup /\ R.queue = S.queue
  BY <1>0 DEF Rewind, SchedulerState
<1>3. \A x \in Script : R.state[x] = IF x = c /\ S.state[c] # "EMPTY" THEN "ACTIVE"
                                     ELSE S.state[x]
  BY <1>0 DEF Rewind, SchedulerState
<1> HIDE DEF R
<1>4. \A x \in Script : R.state[x] = "EMPTY" <=> S.state[x] = "EMPTY"
  BY <1>3
<1>5. Kept(R)
  BY <1>1, <1>2, <1>4 DEF Kept, Trees
<1>6. \A x \in Script : Surplus(R, x) = Surplus(S, x)
  BY <1>2 DEF Surplus, UsesOf, ArgUses
<1>7. \A e : Fit(S, e) => Fit(R, e)
  BY <1>3 DEF Fit
<1>8. Fit(S, c) => Fit(R, None)
  BY <1>3 DEF Fit
<1> QED
  BY <1>2, <1>5, <1>6, <1>7, <1>8 DEF Balanced, R

LEMMA ReferenceBooks ==
  ASSUME NEW S, Kept(S), NEW c \in Script, S.ref[c] >= 1
  PROVE  /\ Kept(Reference(S, c))
         /\ \A x \in Script : Surplus(Reference(S, c), x) = Surplus(S, x) + Same(c, x)
         /\ \A e : Fit(S, e) => Fit(Reference(S, c), e)
         /\ Reference(S, c).schedule = S.schedule /\ Reference(S, c).queue = S.queue
         /\ Reference(S, c).initialize = S.initialize
         /\ Reference(S, c).startup = S.startup
         /\ Reference(S, c).args = S.args /\ Reference(S, c).state = S.state
<1> DEFINE R == Reference(S, c)
<1>0. S \in SchedulerState
  BY DEF Kept
<1>1. R \in SchedulerState
  BY <1>0, ReferenceType DEF Quiet
<1>2. /\ R.state = S.state /\ R.args = S.args
      /\ R.schedule = S.schedule /\ R.initialize = S.initialize
      /\ R.startup = S.startup /\ R.queue = S.queue
  BY <1>0 DEF Reference, SchedulerState
<1>3. \A x \in Script : R.ref[x] = S.ref[x] + Same(c, x)
  BY <1>0 DEF Reference, SchedulerState, Same
<1>4. \A x \in Script : S.ref[x] \in Int
  BY <1>0 DEF SchedulerState
<1> HIDE DEF R
<1>5. \A x \in Script : R.ref[x] = 0 <=> S.ref[x] = 0
  BY <1>3, <1>4 DEF Same
<1>6. Kept(R)
  BY <1>1, <1>2, <1>5 DEF Kept, Trees
<1>7. ASSUME NEW x \in Script
      PROVE  Surplus(R, x) = Surplus(S, x) + Same(c, x)
  <2>1. UsesOf(R, x) = UsesOf(S, x) /\ UsesOf(S, x) \in Nat
    BY <1>0, <1>2, UsesType DEF UsesOf, ArgUses
  <2>2. Same(c, x) \in Int
    BY DEF Same
  <2> QED
    BY <1>3, <1>4, <2>1, <2>2 DEF Surplus
<1>8. \A e : Fit(S, e) => Fit(R, e)
  BY <1>2 DEF Fit
<1> QED
  BY <1>2, <1>6, <1>7, <1>8 DEF R

-----------------------------------------------------------------------------
(* Discarding a script, with the arguments it used.                        *)

LEMMA UnreferenceIs ==
  ASSUME NEW S \in SchedulerState, NEW K \in SUBSET Script
  PROVE  LET U == Unreference(S, K)
         IN  /\ U \in SchedulerState
             /\ U.schedule = S.schedule /\ U.initialize = S.initialize
             /\ U.startup = S.startup /\ U.queue = S.queue
             /\ \A x \in Script :
                  /\ U.ref[x] = IF x \in K THEN S.ref[x] - 1 ELSE S.ref[x]
                  /\ U.args[x] = IF x \in K /\ S.ref[x] = 1 THEN {} ELSE S.args[x]
                  /\ U.state[x] = IF x \in K /\ S.ref[x] = 1 THEN "EMPTY"
                                  ELSE IF x \in K /\ S.state[x] # "EMPTY" THEN "ACTIVE"
                                  ELSE S.state[x]
<1> DEFINE U == Unreference(S, K)
<1>1. U \in SchedulerState
  BY UnreferenceType DEF Quiet
<1>2. /\ U.schedule = S.schedule /\ U.initialize = S.initialize
      /\ U.startup = S.startup /\ U.queue = S.queue
  BY DEF Unreference, SchedulerState
<1>3. \A x \in Script :
         /\ U.ref[x] = IF x \in K THEN S.ref[x] - 1 ELSE S.ref[x]
         /\ U.args[x] = IF x \in K /\ S.ref[x] = 1 THEN {} ELSE S.args[x]
  BY DEF Unreference, SchedulerState
<1>4. \A x \in Script :
         U.state[x] = IF x \in K /\ S.ref[x] = 1 THEN "EMPTY"
                      ELSE IF x \in K /\ S.state[x] # "EMPTY" THEN "ACTIVE"
                      ELSE S.state[x]
  BY DEF Unreference, SchedulerState
<1> QED
  BY <1>1, <1>2, <1>3, <1>4

(* The containers that lose a reference when c is discarded.               *)
Dropped(S, c) == {c} \cup (IF S.ref[c] = 1 THEN S.args[c] ELSE {})

LEMMA DiscardIs ==
  ASSUME NEW S, Kept(S), NEW c \in Script, S.ref[c] >= 1,
         \A a \in S.args[c] : S.ref[a] >= 1
  PROVE  LET D == Discard(S, c)
         IN  /\ D \in SchedulerState
             /\ D.schedule = S.schedule /\ D.initialize = S.initialize
             /\ D.startup = S.startup /\ D.queue = S.queue
             /\ \A x \in Script :
                  /\ D.ref[x] = IF x \in Dropped(S, c) THEN S.ref[x] - 1 ELSE S.ref[x]
                  /\ D.args[x] = IF D.ref[x] = 0 THEN {} ELSE S.args[x]
                  /\ D.state[x] = IF D.ref[x] = 0 THEN "EMPTY"
                                  ELSE IF x \in Dropped(S, c) THEN "ACTIVE"
                                  ELSE S.state[x]
<1> DEFINE U == Unreference(S, {c})
           K == IF S.ref[c] = 1 THEN S.args[c] ELSE {}
           D == Unreference(U, K)
<1>0. /\ S \in SchedulerState
      /\ S.args[c] \in SUBSET Script
      /\ \A x \in Script : S.ref[x] \in Int
      /\ \A x \in Script : S.ref[x] = 0 <=> S.state[x] = "EMPTY"
      /\ \A x \in Script : S.ref[x] = 0 => S.args[x] = {}
      /\ \A a \in S.args[c] : S.args[a] = {}
      /\ c \notin S.args[c]
  BY DEF Kept, SchedulerState, Trees
<1>1. c # None
  BY NoneAssumption
<1>2. Discard(S, c) = D
  BY <1>1 DEF Discard
<1>3. /\ U \in SchedulerState
      /\ U.schedule = S.schedule /\ U.initialize = S.initialize
      /\ U.startup = S.startup /\ U.queue = S.queue
      /\ \A x \in Script :
           /\ U.ref[x] = IF x = c THEN S.ref[x] - 1 ELSE S.ref[x]
           /\ U.args[x] = IF x = c /\ S.ref[x] = 1 THEN {} ELSE S.args[x]
           /\ U.state[x] = IF x = c /\ S.ref[x] = 1 THEN "EMPTY"
                           ELSE IF x = c /\ S.state[x] # "EMPTY" THEN "ACTIVE"
                           ELSE S.state[x]
  BY <1>0, UnreferenceIs
<1> HIDE DEF U
<1>4. K \in SUBSET Script /\ c \notin K /\ \A x \in K : S.ref[x] >= 1
  BY <1>0
<1>5. Dropped(S, c) = {c} \cup K
  BY DEF Dropped
<1> HIDE DEF K
<1>6. /\ D \in SchedulerState
      /\ D.schedule = U.schedule /\ D.initialize = U.initialize
      /\ D.startup = U.startup /\ D.queue = U.queue
      /\ \A x \in Script :
           /\ D.ref[x] = IF x \in K THEN U.ref[x] - 1 ELSE U.ref[x]
           /\ D.args[x] = IF x \in K /\ U.ref[x] = 1 THEN {} ELSE U.args[x]
           /\ D.state[x] = IF x \in K /\ U.ref[x] = 1 THEN "EMPTY"
                           ELSE IF x \in K /\ U.state[x] # "EMPTY" THEN "ACTIVE"
                           ELSE U.state[x]
  BY <1>3, <1>4, UnreferenceIs
<1> HIDE DEF D
<1>7. ASSUME NEW x \in Script
      PROVE  /\ D.ref[x] = IF x \in {c} \cup K THEN S.ref[x] - 1 ELSE S.ref[x]
             /\ D.args[x] = IF D.ref[x] = 0 THEN {} ELSE S.args[x]
             /\ D.state[x] = IF D.ref[x] = 0 THEN "EMPTY"
                             ELSE IF x \in {c} \cup K THEN "ACTIVE" ELSE S.state[x]
  <2>1. CASE x = c
    BY <1>0, <1>3, <1>4, <1>6, <2>1
  <2>2. CASE x \in K
    <3>1. x # c /\ S.ref[x] >= 1 /\ S.ref[x] \in Int /\ S.state[x] # "EMPTY"
      BY <1>0, <1>4, <2>2
    <3>2. U.ref[x] = S.ref[x] /\ U.args[x] = S.args[x] /\ U.state[x] = S.state[x]
      BY <1>3, <3>1
    <3> QED
      BY <1>6, <2>2, <3>1, <3>2
  <2>3. CASE x # c /\ x \notin K
    <3>1. U.ref[x] = S.ref[x] /\ U.args[x] = S.args[x] /\ U.state[x] = S.state[x]
      BY <1>3, <2>3
    <3>2. D.ref[x] = S.ref[x] /\ D.args[x] = S.args[x] /\ D.state[x] = S.state[x]
      BY <1>6, <2>3, <3>1
    <3> QED
      BY <1>0, <2>3, <3>2
  <2> QED
    BY <2>1, <2>2, <2>3
<1> QED
  BY <1>2, <1>3, <1>5, <1>6, <1>7

(* To discard a script takes one reference of it, and none beyond the uses *)
(* of another: the arguments that are released are used no more.           *)
LEMMA DiscardBooks ==
  ASSUME NEW S, Kept(S), Solvent(S), NEW c \in Script, S.ref[c] >= 1
  PROVE  /\ Kept(Discard(S, c))
         /\ \A x \in Script : Surplus(Discard(S, c), x) = Surplus(S, x) - Same(c, x)
         /\ \A e : Fit(S, e) => Fit(Discard(S, c), e)
         /\ Fit(S, c) => Fit(Discard(S, c), None)
         /\ Discard(S, c).schedule = S.schedule /\ Discard(S, c).queue = S.queue
         /\ Discard(S, c).initialize = S.initialize
         /\ Discard(S, c).startup = S.startup
         /\ \A x \in Script : Discard(S, c).ref[x] # 0 =>
                                 Discard(S, c).args[x] = S.args[x]
<1> DEFINE D == Discard(S, c)
           K == Dropped(S, c)
<1>0. /\ S \in SchedulerState
      /\ \A x \in Script : S.ref[x] \in Int /\ S.args[x] \in SUBSET Script
      /\ \A x \in Script : S.ref[x] = 0 <=> S.state[x] = "EMPTY"
      /\ \A x \in Script : S.ref[x] = 0 => S.args[x] = {}
      /\ \A p \in Script : \A a \in S.args[p] : S.args[a] = {}
      /\ \A p, q \in Script : \A a \in Script : a \in S.args[p] /\ a \in S.args[q] => p = q
  BY DEF Kept, SchedulerState, Trees
<1>1. \A p \in Script : \A a \in S.args[p] : a \in Script /\ S.ref[a] >= 1
  <2> SUFFICES ASSUME NEW p \in Script, NEW a \in S.args[p]
               PROVE  a \in Script /\ S.ref[a] >= 1
    OBVIOUS
  <2>1. a \in Script
    BY <1>0
  <2>2. ArgUses(S, a) = 1
    BY DEF ArgUses
  <2> QED
    BY <2>1, <2>2, UsedIsCompiled
<1>2. /\ D \in SchedulerState
      /\ D.schedule = S.schedule /\ D.initialize = S.initialize
      /\ D.startup = S.startup /\ D.queue = S.queue
      /\ \A x \in Script :
           /\ D.ref[x] = IF x \in K THEN S.ref[x] - 1 ELSE S.ref[x]
           /\ D.args[x] = IF D.ref[x] = 0 THEN {} ELSE S.args[x]
           /\ D.state[x] = IF D.ref[x] = 0 THEN "EMPTY"
                           ELSE IF x \in K THEN "ACTIVE" ELSE S.state[x]
  BY <1>1, DiscardIs
<1>3. /\ c \in K
      /\ \A x \in Script : x \in K /\ x # c => S.ref[c] = 1 /\ x \in S.args[c]
      /\ S.ref[c] = 1 => \A x \in S.args[c] : x \in K
  BY DEF Dropped
<1> HIDE DEF D, K
<1>4. Kept(D)
  <2>1. \A x \in Script : D.ref[x] = 0 <=> D.state[x] = "EMPTY"
    BY <1>0, <1>2
  <2>2. Trees(D)
    <3>1. \A x \in Script : D.args[x] = {} \/ D.args[x] = S.args[x]
      BY <1>2
    <3>2. \A x \in Script : D.state[x] = "EMPTY" => D.args[x] = {}
      BY <1>2, <2>1
    <3>3. \A p \in Script : \A a \in D.args[p] : a \in Script /\ D.args[a] = {}
      BY <1>0, <3>1
    <3> QED
      BY <1>0, <3>1, <3>2, <3>3 DEF Trees
  <2> QED
    BY <1>2, <2>1, <2>2 DEF Kept
<1>5. ASSUME NEW x \in Script
      PROVE  Surplus(D, x) = Surplus(S, x) - Same(c, x)
  <2> DEFINE other == Same(S.schedule, x) + Same(S.initialize, x) + Same(S.startup, x)
                        + Times(S.queue, x)
  <2>1. UsesOf(S, x) = other + ArgUses(S, x) /\ UsesOf(D, x) = other + ArgUses(D, x)
    BY <1>2 DEF UsesOf
  <2>2. other \in Int
    <3>1. /\ Same(S.schedule, x) \in {0, 1} /\ Same(S.initialize, x) \in {0, 1}
          /\ Same(S.startup, x) \in {0, 1} /\ Times(S.queue, x) \in Nat
      BY <1>0, UsesType
    <3> QED
      BY <3>1
  <2> HIDE DEF other
  <2>3. S.ref[x] \in Int /\ S.ref[c] \in Int /\ ArgUses(S, x) \in {0, 1}
    BY <1>0, UsesType
  <2>4. CASE S.ref[c] = 1 /\ x \in S.args[c]
    <3>1. x # c /\ D.ref[x] = S.ref[x] - 1
      BY <1>0, <1>2, <1>3, <2>4
    <3>2. ArgUses(S, x) = 1
      BY <2>4 DEF ArgUses
    <3>3. D.ref[c] = 0
      BY <1>2, <1>3, <2>4
    <3>4. \A p \in Script : x \notin D.args[p]
      BY <1>0, <1>2, <2>4, <3>3
    <3>5. ArgUses(D, x) = 0
      BY <3>4 DEF ArgUses
    <3> QED
      BY <2>1, <2>2, <2>3, <3>1, <3>2, <3>5 DEF Surplus, Same
  <2>5. CASE ~(S.ref[c] = 1 /\ x \in S.args[c])
    <3>1. D.ref[x] = S.ref[x] - Same(c, x)
      BY <1>2, <1>3, <2>3, <2>5 DEF Same
    <3>2. \A p \in Script : x \in D.args[p] <=> x \in S.args[p]
      <4> SUFFICES ASSUME NEW p \in Script, x \in S.args[p]
                   PROVE  x \in D.args[p]
        BY <1>2
      <4>1. D.ref[p] # 0
        <5>1. S.ref[p] \in Int /\ S.ref[p] # 0
          BY <1>0
        <5>2. CASE p = c
          BY <1>2, <1>3, <2>5, <5>1, <5>2
        <5>3. CASE p # c
          <6>1. p \notin K
            BY <1>0, <1>3, <5>3
          <6> QED
            BY <1>2, <5>1, <6>1
        <5> QED
          BY <5>2, <5>3
      <4> QED
        BY <1>2, <4>1
    <3>3. ArgUses(D, x) = ArgUses(S, x)
      BY <3>2 DEF ArgUses
    <3>4. Same(c, x) \in {0, 1}
      BY DEF Same
    <3> QED
      BY <2>1, <2>2, <2>3, <3>1, <3>3, <3>4 DEF Surplus
  <2> QED
    BY <2>4, <2>5
<1>6. \A e : Fit(S, e) => Fit(D, e)
  BY <1>2 DEF Fit
<1>7. Fit(S, c) => Fit(D, None)
  BY <1>2, <1>3 DEF Fit
<1> QED
  BY <1>2, <1>4, <1>5, <1>6, <1>7 DEF D

(* Discard(S, None) does nothing.                                          *)
LEMMA DiscardNone ==
  ASSUME NEW S
  PROVE  Discard(S, None) = S
<1> QED
  BY DEF Discard

-----------------------------------------------------------------------------
(* Compiling a script, and staging it in a field.                          *)

(* A compiled script starts with the reference of who compiled it, and its *)
(* arguments with the one of their use as arguments.                       *)
LEMMA CompileBooks ==
  ASSUME NEW S, Kept(S), Solvent(S), NEW w \in Compilations(S), NEW f \in FileOrNone
  PROVE  /\ w.script \in Script
         /\ Kept(Compile(S, w, f))
         /\ \A x \in Script :
               Surplus(Compile(S, w, f), x) = Surplus(S, x) + Same(w.script, x)
         /\ \A e : Fit(S, e) => Fit(Compile(S, w, f), e)
         /\ Compile(S, w, f).schedule = S.schedule
         /\ Compile(S, w, f).queue = S.queue
         /\ Compile(S, w, f).initialize = S.initialize
         /\ Compile(S, w, f).startup = S.startup
<1> DEFINE C == Compile(S, w, f)
           s == w.script
           A == w.args
<1>0. /\ S \in SchedulerState
      /\ \A x \in Script : S.ref[x] \in Int /\ S.args[x] \in SUBSET Script
      /\ \A x \in Script : S.ref[x] = 0 <=> S.state[x] = "EMPTY"
      /\ \A x \in Script : S.state[x] = "EMPTY" => S.args[x] = {}
      /\ \A p \in Script : \A a \in S.args[p] : S.args[a] = {}
      /\ \A p, q \in Script : \A a \in Script : a \in S.args[p] /\ a \in S.args[q] => p = q
  BY DEF Kept, SchedulerState, Trees
<1>1. /\ s \in Script /\ S.state[s] = "EMPTY"
      /\ A \in SUBSET Script /\ \A a \in A : S.state[a] = "EMPTY"
      /\ s \notin A
  BY DEF Compilations, Pool
<1>2. /\ C \in SchedulerState
      /\ C.schedule = S.schedule /\ C.initialize = S.initialize
      /\ C.startup = S.startup /\ C.queue = S.queue
  <2>1. C \in SchedulerState
    BY <1>0, CompileType DEF Quiet
  <2> QED
    BY <1>0, <2>1 DEF Compile, SchedulerState
<1>3. \A x \in Script :
         /\ C.ref[x] = IF x = s \/ x \in A THEN 1 ELSE S.ref[x]
         /\ C.state[x] = IF x = s \/ x \in A THEN "ACTIVE" ELSE S.state[x]
         /\ C.args[x] = IF x = s THEN A ELSE S.args[x]
  BY <1>0 DEF Compile, SchedulerState
<1> HIDE DEF C, s, A
<1>4. ASSUME NEW x \in Script, S.state[x] = "EMPTY"
      PROVE  /\ UsesOf(S, x) = 0 /\ S.ref[x] = 0
             /\ \A p \in Script : x \notin S.args[p]
  <2>1. S.ref[x] = 0 /\ UsesOf(S, x) \in Nat
    BY <1>0, <1>4, UsesType
  <2>2. UsesOf(S, x) = 0
    BY <2>1, UsedIsCompiled
  <2>3. ArgUses(S, x) # 1
    BY <2>2, UsedIsCompiled
  <2> QED
    BY <2>1, <2>2, <2>3 DEF ArgUses
<1>5. Kept(C)
  <2>1. \A x \in Script : C.ref[x] = 0 <=> C.state[x] = "EMPTY"
    BY <1>0, <1>3
  <2>2. \A p \in Script : \A a \in C.args[p] : C.args[a] = {}
    <3> SUFFICES ASSUME NEW p \in Script, NEW a \in C.args[p]
                 PROVE  C.args[a] = {}
      OBVIOUS
    <3>1. CASE p = s
      BY <1>0, <1>1, <1>3, <3>1
    <3>2. CASE p # s
      <4>1. a \in S.args[p] /\ a \in Script
        BY <1>0, <1>3, <3>2
      <4>2. a # s
        BY <1>1, <1>4, <4>1
      <4> QED
        BY <1>0, <1>3, <4>1, <4>2
    <3> QED
      BY <3>1, <3>2
  <2>3. \A p, q \in Script : \A a \in Script : a \in C.args[p] /\ a \in C.args[q] => p = q
    <3>1. \A a \in A : \A p \in Script : a \notin S.args[p]
      BY <1>1, <1>4
    <3> QED
      BY <1>0, <1>3, <3>1
  <2>4. \A p \in Script : C.state[p] = "EMPTY" => C.args[p] = {}
    BY <1>0, <1>3
  <2> QED
    BY <1>2, <2>1, <2>2, <2>3, <2>4 DEF Kept, Trees
<1>6. ASSUME NEW x \in Script
      PROVE  Surplus(C, x) = Surplus(S, x) + Same(s, x)
  <2> DEFINE other == Same(S.schedule, x) + Same(S.initialize, x) + Same(S.startup, x)
                        + Times(S.queue, x)
  <2>1. UsesOf(S, x) = other + ArgUses(S, x) /\ UsesOf(C, x) = other + ArgUses(C, x)
    BY <1>2 DEF UsesOf
  <2>2. other \in Int
    <3>1. /\ Same(S.schedule, x) \in {0, 1} /\ Same(S.initialize, x) \in {0, 1}
          /\ Same(S.startup, x) \in {0, 1} /\ Times(S.queue, x) \in Nat
      BY <1>0, UsesType
    <3> QED
      BY <3>1
  <2> HIDE DEF other
  <2>3. S.ref[x] \in Int /\ ArgUses(S, x) \in {0, 1}
    BY <1>0, UsesType
  <2>4. CASE x \in A
    <3>1. S.ref[x] = 0 /\ UsesOf(S, x) = 0 /\ ArgUses(S, x) = 0 /\ x # s
      BY <1>1, <1>4, <2>4 DEF ArgUses
    <3>2. C.ref[x] = 1 /\ x \in C.args[s]
      BY <1>1, <1>3, <2>4
    <3>3. ArgUses(C, x) = 1
      BY <1>1, <3>2 DEF ArgUses
    <3>4. Same(s, x) = 0 /\ other = 0
      BY <2>1, <2>2, <3>1 DEF Same
    <3> QED
      BY <2>1, <3>1, <3>2, <3>3, <3>4 DEF Surplus
  <2>5. CASE x \notin A
    <3>1. \A p \in Script : x \in C.args[p] <=> x \in S.args[p]
      BY <1>0, <1>1, <1>3, <2>5
    <3>2. ArgUses(C, x) = ArgUses(S, x)
      BY <3>1 DEF ArgUses
    <3>3. C.ref[x] = S.ref[x] + Same(s, x)
      BY <1>1, <1>3, <1>4, <2>3, <2>5 DEF Same
    <3>4. Same(s, x) \in {0, 1}
      BY DEF Same
    <3> QED
      BY <2>1, <2>2, <2>3, <3>2, <3>3, <3>4 DEF Surplus
  <2> QED
    BY <2>4, <2>5
<1>7. \A e : Fit(S, e) => Fit(C, e)
  BY <1>3 DEF Fit
<1> QED
  BY <1>1, <1>2, <1>5, <1>6, <1>7 DEF C, s

(* Taking what a field S.schedule, S.startup or S.initialize holds out of  *)
(* it, or setting it to another script.                                    *)
LEMMA FieldBooks ==
  ASSUME NEW S, Kept(S), NEW T \in SchedulerState,
         T.ref = S.ref, T.state = S.state, T.args = S.args
  PROVE  /\ Kept(T)
         /\ \A e : Fit(S, e) => Fit(T, e)
         /\ \A x \in Script :
              /\ Surplus(T, x) = Surplus(S, x)
                   + (Same(S.schedule, x) - Same(T.schedule, x))
                   + (Same(S.initialize, x) - Same(T.initialize, x))
                   + (Same(S.startup, x) - Same(T.startup, x))
                   + (Times(S.queue, x) - Times(T.queue, x))
              /\ Surplus(S, x) \in Int
              /\ Same(S.schedule, x) \in {0, 1} /\ Same(T.schedule, x) \in {0, 1}
              /\ Same(S.initialize, x) \in {0, 1} /\ Same(T.initialize, x) \in {0, 1}
              /\ Same(S.startup, x) \in {0, 1} /\ Same(T.startup, x) \in {0, 1}
              /\ Times(S.queue, x) \in Nat /\ Times(T.queue, x) \in Nat
<1>1. Kept(T)
  BY DEF Kept, Trees
<1>2. \A e : Fit(S, e) => Fit(T, e)
  BY DEF Fit
<1>3. ASSUME NEW x \in Script
      PROVE  /\ Surplus(T, x) = Surplus(S, x)
                  + (Same(S.schedule, x) - Same(T.schedule, x))
                  + (Same(S.initialize, x) - Same(T.initialize, x))
                  + (Same(S.startup, x) - Same(T.startup, x))
                  + (Times(S.queue, x) - Times(T.queue, x))
             /\ Surplus(S, x) \in Int
             /\ Same(S.schedule, x) \in {0, 1} /\ Same(T.schedule, x) \in {0, 1}
             /\ Same(S.initialize, x) \in {0, 1} /\ Same(T.initialize, x) \in {0, 1}
             /\ Same(S.startup, x) \in {0, 1} /\ Same(T.startup, x) \in {0, 1}
             /\ Times(S.queue, x) \in Nat /\ Times(T.queue, x) \in Nat
  <2>1. ArgUses(T, x) = ArgUses(S, x)
    BY DEF ArgUses
  <2>2. /\ S.ref[x] \in Int /\ Same(S.schedule, x) \in {0, 1}
        /\ Same(S.initialize, x) \in {0, 1} /\ Same(S.startup, x) \in {0, 1}
        /\ Times(S.queue, x) \in Nat /\ ArgUses(S, x) \in {0, 1}
        /\ Surplus(S, x) \in Int
    BY UsesType DEF Kept
  <2>3. /\ Same(T.schedule, x) \in {0, 1}
        /\ Same(T.initialize, x) \in {0, 1} /\ Same(T.startup, x) \in {0, 1}
        /\ Times(T.queue, x) \in Nat
    BY UsesType
  <2>4. Surplus(T, x) = Surplus(S, x)
                  + (Same(S.schedule, x) - Same(T.schedule, x))
                  + (Same(S.initialize, x) - Same(T.initialize, x))
                  + (Same(S.startup, x) - Same(T.startup, x))
                  + (Times(S.queue, x) - Times(T.queue, x))
    BY <2>1, <2>2, <2>3 DEF Surplus, UsesOf
  <2> QED
    BY <2>2, <2>3, <2>4
<1> QED
  BY <1>1, <1>2, <1>3

LEMMA StageBooks ==
  ASSUME NEW S, Kept(S), NEW c \in ScriptOrNone
  PROVE  /\ Kept(Stage(S, c))
         /\ \A x \in Script : Surplus(Stage(S, c), x)
                                = Surplus(S, x) + Same(S.schedule, x) - Same(c, x)
         /\ \A e : Fit(S, e) => Fit(Stage(S, c), e)
         /\ Stage(S, c).schedule = c /\ Stage(S, c).queue = S.queue
         /\ Stage(S, c).initialize = S.initialize
         /\ Stage(S, c).startup = S.startup
<1> DEFINE T == IF c = None THEN S ELSE Rewind(S, c)
           U == Report(T, c, T.viewQueue)
           V == [U EXCEPT !.schedule = c]
<1>0. S \in SchedulerState
  BY DEF Kept
<1>1. /\ Balanced(S, T)
      /\ \A e : Fit(S, e) => Fit(T, e)
      /\ T.schedule = S.schedule /\ T.queue = S.queue
      /\ T.initialize = S.initialize /\ T.startup = S.startup
  <2>1. CASE c = None
    BY <2>1 DEF Balanced
  <2>2. CASE c # None
    <3>1. c \in Script
      BY <2>2 DEF ScriptOrNone
    <3> QED
      BY <2>2, <3>1, RewindBooks
  <2> QED
    BY <2>1, <2>2
<1>2. Stage(S, c) = ResumeSchedule(V)
  BY DEF Stage, ReportRun
<1> HIDE DEF T
<1>3. Kept(T) /\ T \in SchedulerState /\ T.viewQueue \in Seq(Script)
  BY <1>1 DEF Balanced, Kept, SchedulerState
<1>4. SameBooks(T, U)
  BY <1>3, ReportBooks
<1> HIDE DEF U
<1>5. U \in SchedulerState
  BY <1>4 DEF SameBooks
<1>6. /\ V \in SchedulerState
      /\ V.schedule = c /\ V.queue = U.queue /\ V.initialize = U.initialize
      /\ V.startup = U.startup /\ V.ref = U.ref /\ V.state = U.state /\ V.args = U.args
  BY <1>5 DEF SchedulerState
<1> HIDE DEF V
<1>7. SameBooks(V, Stage(S, c))
  BY <1>2, <1>6, SmallBooks
<1>8. Kept(U) /\ Balanced(T, U) /\ \A e : Fit(T, e) => Fit(U, e)
  BY <1>3, <1>4, SameBooksKeeps DEF Balanced
<1>9. /\ Kept(V)
      /\ \A e : Fit(U, e) => Fit(V, e)
      /\ \A x \in Script :
            Surplus(V, x) = Surplus(U, x) + Same(U.schedule, x) - Same(c, x)
  BY <1>6, <1>8, FieldBooks
<1>10. Balanced(V, Stage(S, c)) /\ \A e : Fit(V, e) => Fit(Stage(S, c), e)
  BY <1>7, <1>9, SameBooksKeeps
<1>11. U.schedule = S.schedule
  BY <1>1, <1>4 DEF SameBooks
<1>12. \A x \in Script : Surplus(U, x) = Surplus(S, x)
  BY <1>1, <1>8 DEF Balanced
<1>13. \A x \in Script : Surplus(Stage(S, c), x)
                           = Surplus(S, x) + Same(S.schedule, x) - Same(c, x)
  BY <1>9, <1>10, <1>11, <1>12 DEF Balanced
<1>14. /\ Stage(S, c).schedule = c /\ Stage(S, c).queue = S.queue
       /\ Stage(S, c).initialize = S.initialize
       /\ Stage(S, c).startup = S.startup
  BY <1>1, <1>4, <1>6, <1>7 DEF SameBooks
<1>15. \A e : Fit(S, e) => Fit(Stage(S, c), e)
  BY <1>1, <1>8, <1>9, <1>10
<1> QED
  BY <1>10, <1>13, <1>14, <1>15 DEF Balanced

-----------------------------------------------------------------------------
(* The schedule that runs next, and the move of a schedule.                *)

(* The schedule that is dropped loses the reference of running, the next   *)
(* one exchanges that of the queue for that of running.                    *)
LEMMA StartNextBooks ==
  ASSUME NEW S, Kept(S), Solvent(S)
  PROVE  /\ Balanced(S, StartNext(S))
         /\ Fit(S, S.schedule) => Fit(StartNext(S), None)
         /\ StartNext(S).initialize = S.initialize
         /\ StartNext(S).startup = S.startup
         /\ IF S.queue = << >>
            THEN StartNext(S).schedule = None /\ StartNext(S).queue = << >>
            ELSE /\ StartNext(S).schedule = Head(S.queue)
                 /\ StartNext(S).queue = Tail(S.queue)
<1> DEFINE c  == S.schedule
           R  == ReportInitEnded(S)
           D  == Discard(R, c)
           S1 == [D EXCEPT !.schedule = None]
           S2 == IF S1.pending THEN RemovePendingFile(S1) ELSE S1
           P  == ReportRm(S2, 0)
           S3 == [P EXCEPT !.queue = Tail(S2.queue)]
           N  == StartNext(S)
<1>0. S \in SchedulerState /\ c \in ScriptOrNone /\ None \in ScriptOrNone
  BY DEF Kept, SchedulerState, ScriptOrNone
<1>1. N = IF S2.queue = << >> THEN Stage(S2, None) ELSE Stage(S3, Head(S2.queue))
  BY DEF StartNext
<1> HIDE DEF N
<1>2. SameBooks(S, R) /\ Kept(R) /\ Solvent(R) /\ Balanced(S, R)
      /\ \A e : Fit(S, e) => Fit(R, e)
  BY <1>0, SmallBooks, SameBooksKeeps, BalancedSolvent
<1> HIDE DEF R
<1>3. /\ Kept(D)
      /\ \A x \in Script : Surplus(D, x) = Surplus(R, x) - Same(c, x)
      /\ Fit(R, c) => Fit(D, None)
      /\ D.schedule = R.schedule /\ D.queue = R.queue
      /\ D.initialize = R.initialize /\ D.startup = R.startup
  <2>1. CASE c = None
    <3>1. \A x \in Script : Same(c, x) = 0 /\ Surplus(R, x) \in Int
      BY <1>2, <2>1, NoneAssumption, UsesType DEF Same, SameBooks
    <3>2. D = R
      BY <2>1, DiscardNone
    <3> HIDE DEF D
    <3> QED
      BY <1>2, <2>1, <3>1, <3>2
  <2>2. CASE c # None
    <3>1. c \in Script /\ R.schedule = c
      BY <1>0, <1>2, <2>2 DEF ScriptOrNone, SameBooks
    <3>2. R.ref[c] >= 1
      BY <1>2, <3>1, UsedIsCompiled
    <3> QED
      BY <1>2, <3>1, <3>2, DiscardBooks
  <2> QED
    BY <2>1, <2>2
<1> HIDE DEF D
<1>4. /\ S1 \in SchedulerState
      /\ S1.schedule = None /\ S1.queue = D.queue /\ S1.initialize = D.initialize
      /\ S1.startup = D.startup /\ S1.ref = D.ref /\ S1.state = D.state /\ S1.args = D.args
  BY <1>0, <1>3 DEF Kept, SchedulerState
<1> HIDE DEF S1
<1>5. /\ Kept(S1)
      /\ \A x \in Script : Surplus(S1, x) = Surplus(S, x)
      /\ \A e : Fit(D, e) => Fit(S1, e)
  <2>1. /\ Kept(S1)
        /\ \A e : Fit(D, e) => Fit(S1, e)
        /\ \A x \in Script :
             /\ Surplus(S1, x) = Surplus(D, x) + (Same(D.schedule, x) - Same(None, x))
             /\ Surplus(D, x) \in Int
             /\ Same(D.schedule, x) \in {0, 1}
    BY <1>3, <1>4, FieldBooks
  <2>2. \A x \in Script : Same(None, x) = 0
    BY NoneAssumption DEF Same
  <2>3. D.schedule = c
    BY <1>2, <1>3 DEF SameBooks
  <2>4. \A x \in Script : Surplus(R, x) = Surplus(S, x) /\ Surplus(R, x) \in Int
    BY <1>2, UsesType DEF Balanced, Kept
  <2> HIDE DEF c
  <2> QED
    BY <1>3, <2>1, <2>2, <2>3, <2>4
<1>6. /\ SameBooks(S1, S2)
      /\ Balanced(S1, S2) /\ \A e : Fit(S1, e) => Fit(S2, e)
  <2>1. SameBooks(S1, S1)
    BY <1>4 DEF SameBooks
  <2>2. SameBooks(S1, S2)
    BY <1>4, <2>1, SmallBooks
  <2> HIDE DEF S2
  <2> QED
    BY <1>5, <2>2, SameBooksKeeps
<1> HIDE DEF S2
<1>7. /\ S2 \in SchedulerState /\ Kept(S2)
      /\ \A x \in Script : Surplus(S2, x) = Surplus(S, x) /\ Surplus(S2, x) \in Int
      /\ S2.schedule = None /\ S2.queue = S.queue
      /\ S2.initialize = S.initialize /\ S2.startup = S.startup
      /\ S2.queue \in Seq(Script)
      /\ Fit(S, c) => Fit(S2, None)
  <2>1. S2 \in SchedulerState /\ Kept(S2)
    BY <1>6 DEF SameBooks, Balanced
  <2>2. \A x \in Script : Surplus(S2, x) = Surplus(S, x) /\ Surplus(S2, x) \in Int
    BY <1>5, <1>6, <2>1, UsesType DEF Balanced
  <2>3. /\ S2.schedule = None /\ S2.queue = S.queue
        /\ S2.initialize = S.initialize /\ S2.startup = S.startup
    BY <1>2, <1>3, <1>4, <1>6 DEF SameBooks
  <2>4. S2.queue \in Seq(Script)
    BY <2>1 DEF SchedulerState
  <2>5. Fit(S, c) => Fit(S2, None)
    BY <1>2, <1>3, <1>5, <1>6
  <2> QED
    BY <2>1, <2>2, <2>3, <2>4, <2>5
<1>8. \A x \in Script : Same(None, x) = 0
  BY NoneAssumption DEF Same
<1>9. CASE S2.queue = << >>
  <2>1. N = Stage(S2, None)
    BY <1>1, <1>9
  <2>2. /\ Kept(N)
        /\ \A x \in Script : Surplus(N, x)
                               = Surplus(S2, x) + Same(None, x) - Same(None, x)
        /\ Fit(S2, None) => Fit(N, None)
        /\ N.schedule = None /\ N.queue = S2.queue
        /\ N.initialize = S2.initialize /\ N.startup = S2.startup
    BY <1>0, <1>7, <2>1, StageBooks
  <2>3. \A x \in Script : Surplus(N, x) = Surplus(S, x)
    BY <1>7, <1>8, <2>2
  <2> QED
    BY <1>7, <1>9, <2>2, <2>3 DEF Balanced, N
<1>10. CASE S2.queue # << >>
  <2> DEFINE h == Head(S2.queue)
             t == Tail(S2.queue)
  <2>1. h \in Script /\ t \in Seq(Script)
    BY <1>7, <1>10, HeadTailProperties
  <2>2. SameBooks(S2, P)
    BY <1>7, ReportRmBooks
  <2> HIDE DEF P
  <2>3. P \in SchedulerState /\ Kept(P) /\ Balanced(S2, P)
        /\ \A e : Fit(S2, e) => Fit(P, e)
    BY <1>7, <2>2, SameBooksKeeps DEF SameBooks, Balanced
  <2>4. \A x \in Script : Times(S2.queue, x) = Times(t, x) + Same(h, x)
    BY <1>7, <1>10, TimesTail
  <2>5. N = Stage(S3, h)
    BY <1>1, <1>10
  <2> HIDE DEF h, t
  <2>6. /\ S3 \in SchedulerState
        /\ S3.queue = t /\ S3.schedule = P.schedule /\ S3.initialize = P.initialize
        /\ S3.startup = P.startup /\ S3.ref = P.ref /\ S3.state = P.state
        /\ S3.args = P.args
    BY <2>1, <2>3 DEF SchedulerState, t
  <2> HIDE DEF S3
  <2>7. /\ Kept(S3)
        /\ \A e : Fit(P, e) => Fit(S3, e)
        /\ \A x \in Script :
             /\ Surplus(S3, x) = Surplus(P, x) + (Times(P.queue, x) - Times(t, x))
             /\ Times(t, x) \in Nat
    <3>1. /\ Kept(S3)
          /\ \A e : Fit(P, e) => Fit(S3, e)
          /\ \A x \in Script :
               /\ Surplus(S3, x) = Surplus(P, x)
                     + (Same(P.schedule, x) - Same(P.schedule, x))
                     + (Same(P.initialize, x) - Same(P.initialize, x))
                     + (Same(P.startup, x) - Same(P.startup, x))
                     + (Times(P.queue, x) - Times(t, x))
               /\ Surplus(P, x) \in Int
               /\ Same(P.schedule, x) \in {0, 1}
               /\ Same(P.initialize, x) \in {0, 1}
               /\ Same(P.startup, x) \in {0, 1}
               /\ Times(P.queue, x) \in Nat /\ Times(t, x) \in Nat
      BY <2>3, <2>6, FieldBooks
    <3> QED
      BY <3>1
  <2>8. P.queue = S2.queue /\ P.schedule = None
    BY <1>7, <2>2 DEF SameBooks
  <2>9. \A x \in Script : Surplus(P, x) = Surplus(S2, x)
    BY <2>3 DEF Balanced
  <2>10. \A x \in Script : Surplus(S3, x) = Surplus(S2, x) + Same(h, x)
                           /\ Same(h, x) \in {0, 1}
    <3>1. \A x \in Script : Same(h, x) \in {0, 1}
      BY DEF Same
    <3> QED
      BY <1>7, <2>4, <2>7, <2>8, <2>9, <3>1
  <2>11. /\ Kept(N)
         /\ \A x \in Script : Surplus(N, x) = Surplus(S3, x) + Same(None, x) - Same(h, x)
         /\ Fit(S3, None) => Fit(N, None)
         /\ N.schedule = h /\ N.queue = t
         /\ N.initialize = S3.initialize /\ N.startup = S3.startup
    BY <2>1, <2>5, <2>6, <2>7, <2>8, StageBooks DEF ScriptOrNone
  <2>12. \A x \in Script : Surplus(N, x) = Surplus(S, x)
    BY <1>7, <1>8, <2>10, <2>11
  <2>13. N.initialize = S.initialize /\ N.startup = S.startup
    BY <1>7, <2>2, <2>6, <2>11 DEF SameBooks
  <2>14. Fit(S, c) => Fit(N, None)
    BY <1>7, <2>3, <2>7, <2>11
  <2> QED
    BY <1>7, <1>10, <2>11, <2>12, <2>13, <2>14 DEF Balanced, N, h, t
<1> QED
  BY <1>9, <1>10

LEMMA NextScheduleBooks ==
  ASSUME NEW S, Kept(S), Solvent(S)
  PROVE  /\ Balanced(S, NextSchedule(S))
         /\ Fit(S, S.schedule) => Fit(NextSchedule(S), None)
         /\ NextSchedule(S).initialize = S.initialize
         /\ NextSchedule(S).startup = S.startup
<1>1. CASE InitEndRefused(S)
  <2>1. NextSchedule(S) = S /\ "rtcpipe" \in Environment
    BY <1>1 DEF NextSchedule, InitEndRefused
  <2> QED
    BY <2>1 DEF Balanced, Fit
<1>2. CASE ~InitEndRefused(S)
  <2>1. NextSchedule(S) = StartNext(S)
    BY <1>2 DEF NextSchedule
  <2> QED
    BY <2>1, StartNextBooks
<1> QED
  BY <1>1, <1>2

LEMMA MoveScheduleBooks ==
  ASSUME NEW S, Kept(S), NEW n \in Nat, NEW dn \in Int
  PROVE  /\ Balanced(S, MoveSchedule(S, n, dn))
         /\ \A e : Fit(S, e) => Fit(MoveSchedule(S, n, dn), e)
         /\ MoveSchedule(S, n, dn).schedule = S.schedule
         /\ MoveSchedule(S, n, dn).initialize = S.initialize
         /\ MoveSchedule(S, n, dn).startup = S.startup
         /\ MoveSchedule(S, n, dn).args = S.args
<1> DEFINE q   == S.queue
           len == Len(q)
           up  == IF dn >= 0 THEN 1 ELSE 0
           dst == Clamp(n + dn + up, 0, len)
           new == IF n + dn < 0 THEN 0 ELSE IF n + dn + up > len THEN dst - 1 ELSE n + dn
           c   == q[n + 1]
           k   == IF dst <= n THEN n + 1 ELSE n
           ins == ListInsert(q, dst, c)
           l   == ListDelete(ins, k)
           T   == [S EXCEPT !.queue = l]
<1>0. S \in SchedulerState
  BY DEF Kept
<1>1. q \in Seq(Script) /\ len \in Nat
  BY <1>0, LenProperties DEF SchedulerState
<1>2. CASE n >= len
  BY <1>2 DEF MoveSchedule, Balanced
<1>3. CASE ~(n >= len)
  <2>1. n \in 0 .. len - 1 /\ dst \in 0 .. len /\ new \in Int
    BY <1>1, <1>3 DEF Clamp
  <2>2. MoveSchedule(S, n, dn) = ReportMv(T, n, new)
    BY <1>3 DEF MoveSchedule
  <2> HIDE DEF dst, new
  <2>3. n + 1 \in 1 .. len /\ c \in Script
    BY <1>1, <2>1, ElementOfSeq
  <2> HIDE DEF c
  <2>4. ins \in Seq(Script) /\ Len(ins) = len + 1
    BY <1>1, <2>1, <2>3, ListInsertType
  <2>5. \A i \in 1 .. len + 1 :
           ins[i] = IF i <= dst THEN q[i] ELSE IF i = dst + 1 THEN c ELSE q[i - 1]
    BY <1>1, <2>1, <2>3, ListInsertEntries
  <2>6. \A x \in Script : Times(ins, x) = Times(q, x) + Same(c, x)
    BY <1>1, <2>1, <2>3, TimesInsert
  <2> HIDE DEF ins
  <2>7. k \in 0 .. Len(ins) - 1 /\ ins[k + 1] = c
    <3>1. q[n + 1] = c
      BY DEF c
    <3>2. CASE dst <= n
      <4>1. n + 2 \in 1 .. len + 1 /\ ~(n + 2 <= dst) /\ n + 2 # dst + 1
            /\ (n + 2) - 1 = n + 1 /\ k = n + 1 /\ k + 1 = n + 2
        BY <1>1, <2>1, <3>2
      <4>2. ins[n + 2] = q[(n + 2) - 1]
        BY <2>5, <4>1
      <4>3. k \in 0 .. Len(ins) - 1
        BY <1>1, <2>1, <2>4, <3>2
      <4> HIDE DEF k
      <4> QED
        BY <3>1, <4>1, <4>2, <4>3
    <3>3. CASE dst > n
      <4>1. n + 1 \in 1 .. len + 1 /\ n + 1 <= dst /\ k = n
        BY <1>1, <2>1, <3>3
      <4>2. ins[n + 1] = q[n + 1]
        BY <2>5, <4>1
      <4>3. k \in 0 .. Len(ins) - 1
        BY <1>1, <2>1, <2>4, <3>3
      <4> HIDE DEF k
      <4> QED
        BY <3>1, <4>1, <4>2, <4>3
    <3> QED
      BY <1>1, <2>1, <3>2, <3>3
  <2> HIDE DEF k
  <2>8. l \in Seq(Script)
    BY <2>4, <2>7, ListDeleteType
  <2>9. \A x \in Script : Times(ins, x) = Times(l, x) + Same(c, x)
    BY <2>4, <2>7, TimesDelete
  <2> HIDE DEF l
  <2>10. \A x \in Script : Times(l, x) = Times(q, x)
    <3> SUFFICES ASSUME NEW x \in Script
                 PROVE  Times(l, x) = Times(q, x)
      OBVIOUS
    <3>1. Times(l, x) \in Nat /\ Times(q, x) \in Nat
      BY <1>1, <2>8, TimesType
    <3>2. Same(c, x) \in {0, 1}
      BY DEF Same
    <3> QED
      BY <2>6, <2>9, <3>1, <3>2
  <2>11. /\ T \in SchedulerState
         /\ T.queue = l /\ T.schedule = S.schedule /\ T.initialize = S.initialize
         /\ T.startup = S.startup /\ T.ref = S.ref /\ T.state = S.state /\ T.args = S.args
    BY <1>0, <2>8 DEF SchedulerState
  <2> HIDE DEF T
  <2>12. Balanced(S, T) /\ \A e : Fit(S, e) => Fit(T, e)
    <3>1. /\ Kept(T)
          /\ \A e : Fit(S, e) => Fit(T, e)
          /\ \A x \in Script :
               /\ Surplus(T, x) = Surplus(S, x)
                     + (Same(S.schedule, x) - Same(S.schedule, x))
                     + (Same(S.initialize, x) - Same(S.initialize, x))
                     + (Same(S.startup, x) - Same(S.startup, x))
                     + (Times(q, x) - Times(l, x))
               /\ Surplus(S, x) \in Int
               /\ Same(S.schedule, x) \in {0, 1}
               /\ Same(S.initialize, x) \in {0, 1}
               /\ Same(S.startup, x) \in {0, 1}
               /\ Times(q, x) \in Nat
      BY <2>11, FieldBooks
    <3> HIDE DEF q
    <3>2. \A x \in Script : Surplus(T, x) = Surplus(S, x)
      BY <2>10, <3>1
    <3> QED
      BY <3>1, <3>2 DEF Balanced
  <2>13. SameBooks(T, ReportMv(T, n, new))
    BY <2>1, <2>11, ReportMvBooks
  <2>14. /\ Balanced(T, ReportMv(T, n, new))
         /\ \A e : Fit(T, e) => Fit(ReportMv(T, n, new), e)
    BY <2>12, <2>13, SameBooksKeeps DEF Balanced
  <2> QED
    BY <2>2, <2>11, <2>12, <2>13, <2>14, BalancedTwice DEF SameBooks
<1> QED
  BY <1>2, <1>3

-----------------------------------------------------------------------------
(* Queueing, removal, abortion and the end of a script.                    *)

LEMMA QueueScheduleBooks ==
  ASSUME NEW S, Kept(S), Solvent(S), NEW c \in Script, S.ref[c] >= 1, NEW n \in Int
  PROVE  /\ Balanced(S, QueueSchedule(S, c, n))
         /\ Fit(S, None) => Fit(QueueSchedule(S, c, n), None)
         /\ QueueSchedule(S, c, n).initialize = S.initialize
         /\ QueueSchedule(S, c, n).startup = S.startup
<1> DEFINE v  == Append(S.viewQueue, c)
           a  == Append(S.queue, c)
           A  == Report(S, S.viewRun, v)
           B  == [A EXCEPT !.queue = a]
           S1 == Reference(B, c)
           S2 == IF n < 0 THEN S1 ELSE MoveSchedule(S1, Len(S.queue), n - Len(S.queue))
           Q  == QueueSchedule(S, c, n)
<1>1. /\ S \in SchedulerState
      /\ S.queue \in Seq(Script) /\ Len(S.queue) \in Nat
      /\ S.viewRun \in ScriptOrNone /\ S.viewQueue \in Seq(Script)
  BY LenProperties DEF Kept, SchedulerState
<1>2. a \in Seq(Script) /\ v \in Seq(Script)
  BY <1>1
<1>3. \A x \in Script : Times(a, x) = Times(S.queue, x) + Same(c, x)
  BY <1>1, TimesAppend
<1>4. Q = IF S2.schedule = None THEN NextSchedule(S2) ELSE S2
  BY DEF QueueSchedule, ReportAdd
<1> HIDE DEF v, a, Q
<1>5. SameBooks(S, A)
  BY <1>1, <1>2, ReportBooks
<1>6. Balanced(S, A) /\ Kept(A) /\ \A e : Fit(S, e) => Fit(A, e)
  BY <1>5, SameBooksKeeps DEF Balanced
<1> HIDE DEF A
<1>7. /\ B \in SchedulerState
      /\ B.queue = a /\ B.schedule = A.schedule /\ B.initialize = A.initialize
      /\ B.startup = A.startup /\ B.ref = A.ref /\ B.state = A.state /\ B.args = A.args
  BY <1>2, <1>6 DEF Kept, SchedulerState
<1> HIDE DEF B
<1>8. /\ Kept(B)
      /\ \A e : Fit(A, e) => Fit(B, e)
      /\ \A x \in Script :
           /\ Surplus(B, x) = Surplus(S, x) - Same(c, x)
           /\ Surplus(S, x) \in Int /\ Same(c, x) \in {0, 1}
  <2>1. /\ Kept(B)
        /\ \A e : Fit(A, e) => Fit(B, e)
        /\ \A x \in Script :
             /\ Surplus(B, x) = Surplus(A, x)
                   + (Same(A.schedule, x) - Same(A.schedule, x))
                   + (Same(A.initialize, x) - Same(A.initialize, x))
                   + (Same(A.startup, x) - Same(A.startup, x))
                   + (Times(A.queue, x) - Times(a, x))
             /\ Surplus(A, x) \in Int
             /\ Same(A.schedule, x) \in {0, 1}
             /\ Same(A.initialize, x) \in {0, 1}
             /\ Same(A.startup, x) \in {0, 1}
             /\ Times(A.queue, x) \in Nat
    BY <1>6, <1>7, FieldBooks
  <2>2. \A x \in Script : Surplus(A, x) = Surplus(S, x) /\ Same(c, x) \in {0, 1}
    BY <1>6 DEF Balanced, Same
  <2>3. A.queue = S.queue
    BY <1>5 DEF SameBooks
  <2> QED
    BY <1>3, <2>1, <2>2, <2>3
<1>9. B.ref[c] >= 1
  BY <1>5, <1>7 DEF SameBooks
<1>10. /\ Kept(S1)
       /\ \A x \in Script : Surplus(S1, x) = Surplus(B, x) + Same(c, x)
       /\ \A e : Fit(B, e) => Fit(S1, e)
       /\ S1.schedule = B.schedule /\ S1.initialize = B.initialize
       /\ S1.startup = B.startup
  BY <1>8, <1>9, ReferenceBooks
<1> HIDE DEF S1
<1>11. Balanced(S, S1)
  BY <1>8, <1>10 DEF Balanced
<1>12. /\ Balanced(S1, S2) /\ \A e : Fit(S1, e) => Fit(S2, e)
       /\ S2.schedule = S1.schedule /\ S2.initialize = S1.initialize
       /\ S2.startup = S1.startup
  <2>1. n - Len(S.queue) \in Int
    BY <1>1
  <2> DEFINE M == MoveSchedule(S1, Len(S.queue), n - Len(S.queue))
  <2>2. /\ Balanced(S1, M) /\ \A e : Fit(S1, e) => Fit(M, e)
        /\ M.schedule = S1.schedule /\ M.initialize = S1.initialize
        /\ M.startup = S1.startup
    BY <1>1, <1>10, <2>1, MoveScheduleBooks
  <2> HIDE DEF M
  <2>3. CASE n < 0
    <3>1. S2 = S1
      BY <2>3
    <3> HIDE DEF S2
    <3> QED
      BY <1>10, <3>1 DEF Balanced
  <2>4. CASE ~(n < 0)
    <3>1. S2 = M
      BY <2>4 DEF M
    <3> HIDE DEF S2
    <3> QED
      BY <2>2, <3>1
  <2> QED
    BY <2>3, <2>4
<1> HIDE DEF S2
<1>13. Kept(S2) /\ Solvent(S2) /\ Balanced(S, S2)
  BY <1>11, <1>12, BalancedTwice, BalancedSolvent
<1>14. Fit(S, None) => Fit(S2, None)
  BY <1>6, <1>8, <1>10, <1>12
<1>15. S2.initialize = S.initialize /\ S2.startup = S.startup
  BY <1>5, <1>7, <1>10, <1>12 DEF SameBooks
<1>16. CASE S2.schedule = None
  <2>1. Q = NextSchedule(S2)
    BY <1>4, <1>16
  <2>2. /\ Balanced(S2, Q)
        /\ Fit(S2, None) => Fit(Q, None)
        /\ Q.initialize = S2.initialize /\ Q.startup = S2.startup
    BY <1>13, <1>16, <2>1, NextScheduleBooks
  <2> QED
    BY <1>13, <1>14, <1>15, <2>2, BalancedTwice DEF Q
<1>17. CASE S2.schedule # None
  <2>1. Q = S2
    BY <1>4, <1>17
  <2> QED
    BY <1>13, <1>14, <1>15, <2>1 DEF Q
<1> QED
  BY <1>16, <1>17

LEMMA RemoveScheduleBooks ==
  ASSUME NEW S, Kept(S), Solvent(S), NEW n \in Nat
  PROVE  /\ Balanced(S, RemoveSchedule(S, n))
         /\ Fit(S, None) => Fit(RemoveSchedule(S, n), None)
<1> DEFINE q == S.queue
           l == ListDelete(q, n)
           T == [S EXCEPT !.queue = l]
           c == q[n + 1]
           D == Discard(T, c)
<1>0. S \in SchedulerState
  BY DEF Kept
<1>1. q \in Seq(Script) /\ Len(q) \in Nat
  BY <1>0, LenProperties DEF SchedulerState
<1>2. CASE n >= Len(q)
  BY <1>2 DEF RemoveSchedule, Balanced
<1>3. CASE ~(n >= Len(q))
  <2>1. n \in 0 .. Len(q) - 1 /\ n + 1 \in 1 .. Len(q)
    BY <1>1, <1>3
  <2>2. c \in Script
    BY <1>1, <2>1, ElementOfSeq
  <2>3. l \in Seq(Script)
    BY <1>1, <2>1, ListDeleteType
  <2>4. \A x \in Script : Times(q, x) = Times(l, x) + Same(c, x)
    BY <1>1, <2>1, TimesDelete
  <2>5. RemoveSchedule(S, n) = ReportRm(D, n)
    BY <1>3 DEF RemoveSchedule
  <2> HIDE DEF c, l
  <2>6. /\ T \in SchedulerState
        /\ T.queue = l /\ T.schedule = S.schedule /\ T.initialize = S.initialize
        /\ T.startup = S.startup /\ T.ref = S.ref /\ T.state = S.state /\ T.args = S.args
    BY <1>0, <2>3 DEF SchedulerState
  <2> HIDE DEF T
  <2>7. /\ Kept(T)
        /\ \A e : Fit(S, e) => Fit(T, e)
        /\ \A x \in Script :
             /\ Surplus(T, x) = Surplus(S, x) + Same(c, x)
             /\ Surplus(S, x) \in Int /\ Same(c, x) \in {0, 1}
    <3>1. /\ Kept(T)
          /\ \A e : Fit(S, e) => Fit(T, e)
          /\ \A x \in Script :
               /\ Surplus(T, x) = Surplus(S, x)
                     + (Same(S.schedule, x) - Same(S.schedule, x))
                     + (Same(S.initialize, x) - Same(S.initialize, x))
                     + (Same(S.startup, x) - Same(S.startup, x))
                     + (Times(q, x) - Times(l, x))
               /\ Surplus(S, x) \in Int
               /\ Same(S.schedule, x) \in {0, 1}
               /\ Same(S.initialize, x) \in {0, 1}
               /\ Same(S.startup, x) \in {0, 1}
               /\ Times(q, x) \in Nat /\ Times(l, x) \in Nat
      BY <2>6, FieldBooks
    <3>2. \A x \in Script : Same(c, x) \in {0, 1}
      BY DEF Same
    <3> HIDE DEF q
    <3> QED
      BY <2>4, <3>1, <3>2
  <2>8. Solvent(T)
    BY <2>7 DEF Solvent
  <2>9. T.ref[c] >= 1
    <3>1. Surplus(T, c) >= 1
      <4>1. Same(c, c) = 1 /\ Surplus(S, c) >= 0
        BY <2>2 DEF Same, Solvent
      <4> QED
        BY <2>2, <2>7, <4>1
    <3>2. T.ref[c] \in Int /\ UsesOf(T, c) \in Nat
      BY <2>2, <2>6, UsesType
    <3> QED
      BY <3>1, <3>2 DEF Surplus
  <2>10. /\ Kept(D)
         /\ \A x \in Script : Surplus(D, x) = Surplus(T, x) - Same(c, x)
         /\ \A e : Fit(T, e) => Fit(D, e)
    BY <2>2, <2>7, <2>8, <2>9, DiscardBooks
  <2> HIDE DEF D
  <2>11. Balanced(S, D)
    BY <2>7, <2>10 DEF Balanced
  <2>12. SameBooks(D, ReportRm(D, n))
    BY <2>10, ReportRmBooks DEF Kept
  <2>13. Balanced(D, ReportRm(D, n)) /\ \A e : Fit(D, e) => Fit(ReportRm(D, n), e)
    BY <2>10, <2>12, SameBooksKeeps
  <2> QED
    BY <2>5, <2>7, <2>10, <2>11, <2>13, BalancedTwice
<1> QED
  BY <1>2, <1>3

LEMMA ExitScriptBooks ==
  ASSUME NEW S, Kept(S), NEW c \in Script, S.state[c] # "EMPTY"
  PROVE  /\ Balanced(S, ExitScript(S, c))
         /\ Fit(S, c) => Fit(ExitScript(S, c), c)
         /\ ExitScript(S, c).state[c] \in {"EXITING", "END"}
         /\ ExitScript(S, c).schedule = S.schedule
         /\ ExitScript(S, c).queue = S.queue
<1> DEFINE T == ExitScript(S, c)
<1>0. S \in SchedulerState
  BY DEF Kept
<1>1. T \in SchedulerState
  BY <1>0, ExitScriptType DEF Quiet
<1>2. /\ T.queue = S.queue /\ T.schedule = S.schedule /\ T.initialize = S.initialize
      /\ T.startup = S.startup /\ T.ref = S.ref /\ T.args = S.args
      /\ T.state[c] \in {"EXITING", "END"}
      /\ \A x \in Script \ {c} : T.state[x] = S.state[x]
  <2>1. CASE c \in S.handler /\ S.state[c] = "ACTIVE"
    <3>1. T = [S EXCEPT !.state[c] = "EXITING", !.pc[c] = 0]
      BY <2>1 DEF ExitScript
    <3> QED
      BY <1>0, <3>1 DEF SchedulerState
  <2>2. CASE ~(c \in S.handler /\ S.state[c] = "ACTIVE")
    <3>1. T = [S EXCEPT !.state[c] = "END"]
      BY <2>2 DEF ExitScript
    <3> QED
      BY <1>0, <3>1 DEF SchedulerState
  <2> QED
    BY <2>1, <2>2
<1> HIDE DEF T
<1>3. \A x \in Script : T.state[x] = "EMPTY" <=> S.state[x] = "EMPTY"
  BY <1>2
<1>4. Kept(T)
  BY <1>1, <1>2, <1>3 DEF Kept, Trees
<1>5. \A x \in Script : Surplus(T, x) = Surplus(S, x)
  BY <1>2 DEF Surplus, UsesOf, ArgUses
<1>6. Fit(S, c) => Fit(T, c)
  BY <1>2 DEF Fit
<1> QED
  BY <1>2, <1>4, <1>5, <1>6 DEF Balanced, T

(* A script that may end can be stepped again unless it has ended.         *)
LEMMA FitWithin ==
  ASSUME NEW S, NEW c \in Script
  PROVE  /\ \A e : Fit(S, None) => Fit(S, e)
         /\ Fit(S, c) /\ S.state[c] \in {"EMPTY", "ACTIVE", "EXITING"} => Fit(S, None)
<1> QED
  BY NoneAssumption DEF Fit

LEMMA AbortScheduleBooks ==
  ASSUME NEW S, Kept(S), Solvent(S)
  PROVE  /\ Balanced(S, AbortSchedule(S))
         /\ Fit(S, None) => Fit(AbortSchedule(S), None)
<1> DEFINE c == S.schedule
           A == [S EXCEPT !.auto = @ /\ ~S.pending, !.pending = FALSE, !.src[c] = None]
           S1 == ExitScript(A, c)
<1>1. S \in SchedulerState
  BY DEF Kept
<1>2. CASE c = None
  BY <1>2 DEF AbortSchedule, Balanced
<1>3. CASE c # None
  <2>1. c \in Script
    BY <1>1, <1>3 DEF SchedulerState, ScriptOrNone
  <2>2. [S.src EXCEPT ![c] = None] \in [Script -> FileOrNone]
    BY <1>1 DEF SchedulerState, FileOrNone
  <2>3. (S.auto /\ ~S.pending) \in BOOLEAN
    OBVIOUS
  <2>4. SameBooks(S, A)
    BY <1>1, <2>2, <2>3 DEF SameBooks, SchedulerState
  <2>5. AbortSchedule(S) = IF S1.state[c] = "EXITING" THEN S1 ELSE NextSchedule(S1)
    BY <1>3 DEF AbortSchedule
  <2> HIDE DEF A
  <2>6. Balanced(S, A) /\ Kept(A) /\ Solvent(A) /\ \A e : Fit(S, e) => Fit(A, e)
    BY <2>4, SameBooksKeeps, BalancedSolvent
  <2>7. A.state[c] # "EMPTY"
    <3>1. A.schedule = c
      BY <2>4 DEF SameBooks
    <3> QED
      BY <2>1, <2>6, <3>1, UsedIsCompiled
  <2>8. /\ Balanced(A, S1)
        /\ Fit(A, c) => Fit(S1, c)
        /\ S1.state[c] \in {"EXITING", "END"}
        /\ S1.schedule = A.schedule
    BY <2>1, <2>6, <2>7, ExitScriptBooks
  <2> HIDE DEF S1
  <2>9. Balanced(S, S1) /\ Kept(S1) /\ Solvent(S1)
    BY <2>6, <2>8, BalancedTwice, BalancedSolvent
  <2>10. Fit(S, None) => Fit(S1, c)
    BY <2>1, <2>6, <2>8, FitWithin
  <2>11. S1.schedule = c
    BY <2>4, <2>8 DEF SameBooks
  <2>12. CASE S1.state[c] = "EXITING"
    <3>1. AbortSchedule(S) = S1
      BY <2>5, <2>12
    <3>2. Fit(S1, c) => Fit(S1, None)
      BY <2>1, <2>12, FitWithin
    <3> QED
      BY <2>9, <2>10, <3>1, <3>2
  <2>13. CASE S1.state[c] # "EXITING"
    <3>1. AbortSchedule(S) = NextSchedule(S1)
      BY <2>5, <2>13
    <3>2. Balanced(S1, NextSchedule(S1))
          /\ (Fit(S1, c) => Fit(NextSchedule(S1), None))
      BY <2>9, <2>11, NextScheduleBooks
    <3> QED
      BY <2>9, <2>10, <3>1, <3>2, BalancedTwice
  <2> QED
    BY <2>12, <2>13
<1> QED
  BY <1>2, <1>3

(* The script that becomes the initialization script is held by who        *)
(* compiled it, or is an argument of the schedule that asks for it.        *)
Holding(S, c) == \/ Surplus(S, c) >= 1
                 \/ S.schedule \in Script /\ c \in S.args[S.schedule]

LEMMA ChangeInitScriptBooks ==
  ASSUME NEW S, Kept(S), Solvent(S), NEW c \in Script, Holding(S, c)
  PROVE  /\ Balanced(S, ChangeInitScript(S, c))
         /\ Fit(S, None) => Fit(ChangeInitScript(S, c), None)
<1> DEFINE i == S.initialize
           D == Discard(S, i)
           T == [D EXCEPT !.initialize = c]
<1>1. S \in SchedulerState /\ i \in ScriptOrNone
  BY DEF Kept, SchedulerState
<1>2. /\ Kept(D)
      /\ \A x \in Script : Surplus(D, x) = Surplus(S, x) - Same(i, x)
      /\ \A e : Fit(S, e) => Fit(D, e)
      /\ D.schedule = S.schedule /\ D.queue = S.queue
      /\ D.initialize = S.initialize /\ D.startup = S.startup
      /\ \A x \in Script : D.ref[x] # 0 => D.args[x] = S.args[x]
  <2>1. CASE i = None
    <3>1. \A x \in Script : Same(i, x) = 0 /\ Surplus(S, x) \in Int
      BY <1>1, <2>1, NoneAssumption, UsesType DEF Same
    <3>2. D = S
      BY <2>1, DiscardNone
    <3> HIDE DEF D, i
    <3> QED
      BY <3>1, <3>2
  <2>2. CASE i # None
    <3>1. i \in Script
      BY <1>1, <2>2 DEF ScriptOrNone
    <3>2. S.ref[i] >= 1
      BY <3>1, UsedIsCompiled
    <3> QED
      BY <3>1, <3>2, DiscardBooks
  <2> QED
    BY <2>1, <2>2
<1> HIDE DEF D
<1>3. D \in SchedulerState /\ \A x \in Script : Same(i, x) \in {0, 1}
  BY <1>2 DEF Kept, Same
<1>4. /\ T \in SchedulerState
      /\ T.queue = D.queue /\ T.schedule = D.schedule /\ T.initialize = c
      /\ T.startup = D.startup /\ T.ref = D.ref /\ T.state = D.state /\ T.args = D.args
  BY <1>3 DEF SchedulerState, ScriptOrNone
<1>5. ChangeInitScript(S, c) = Reference(T, c)
  BY DEF ChangeInitScript, D
<1> HIDE DEF T
<1>6. \A x \in Script : /\ D.ref[x] = UsesOf(D, x) + Surplus(S, x) - Same(i, x)
                        /\ D.ref[x] \in Int /\ UsesOf(D, x) \in Nat
                        /\ Surplus(S, x) \in Int /\ Surplus(S, x) >= 0
  <2> SUFFICES ASSUME NEW x \in Script
               PROVE  /\ D.ref[x] = UsesOf(D, x) + Surplus(S, x) - Same(i, x)
                      /\ D.ref[x] \in Int /\ UsesOf(D, x) \in Nat
                      /\ Surplus(S, x) \in Int /\ Surplus(S, x) >= 0
    OBVIOUS
  <2>1. D.ref[x] \in Int /\ UsesOf(D, x) \in Nat
    BY <1>3, UsesType
  <2>2. Surplus(S, x) \in Int /\ Surplus(S, x) >= 0
    BY <1>1, UsesType DEF Solvent
  <2>3. Surplus(D, x) = D.ref[x] - UsesOf(D, x)
    BY DEF Surplus
  <2> QED
    BY <1>2, <1>3, <2>1, <2>2, <2>3
<1>7. D.ref[c] >= 1
  <2>0. /\ D.ref[c] = UsesOf(D, c) + Surplus(S, c) - Same(i, c)
        /\ UsesOf(D, c) = Same(D.schedule, c) + Same(i, c) + Same(D.startup, c)
                            + Times(D.queue, c) + ArgUses(D, c)
        /\ Same(D.schedule, c) \in {0, 1} /\ Same(i, c) \in {0, 1}
        /\ Same(D.startup, c) \in {0, 1}
        /\ Times(D.queue, c) \in Nat /\ ArgUses(D, c) \in {0, 1}
        /\ Surplus(S, c) \in Int /\ Surplus(S, c) >= 0
    BY <1>2, <1>3, <1>6, UsesType DEF UsesOf
  <2>1. CASE Surplus(S, c) >= 1
    BY <2>0, <2>1
  <2>2. CASE S.schedule \in Script /\ c \in S.args[S.schedule]
    <3> DEFINE s == S.schedule
    <3>1. s \in Script
      BY <2>2
    <3>2. /\ D.ref[s] = UsesOf(D, s) + Surplus(S, s) - Same(i, s)
          /\ UsesOf(D, s) = Same(D.schedule, s) + Same(i, s) + Same(D.startup, s)
                              + Times(D.queue, s) + ArgUses(D, s)
          /\ Same(i, s) \in {0, 1}
          /\ Same(D.startup, s) \in {0, 1}
          /\ Times(D.queue, s) \in Nat /\ ArgUses(D, s) \in {0, 1}
          /\ Surplus(S, s) \in Int /\ Surplus(S, s) >= 0
      BY <1>2, <1>3, <1>6, <3>1, UsesType DEF UsesOf
    <3>3. Same(D.schedule, s) = 1
      BY <1>2 DEF Same
    <3>4. D.ref[s] # 0
      BY <3>2, <3>3
    <3>5. c \in D.args[s]
      BY <1>2, <2>2, <3>1, <3>4
    <3>6. ArgUses(D, c) = 1
      BY <3>1, <3>5 DEF ArgUses
    <3> QED
      BY <2>0, <3>6
  <2> QED
    BY <2>1, <2>2 DEF Holding
<1>8. /\ Kept(T)
      /\ \A e : Fit(D, e) => Fit(T, e)
      /\ \A x \in Script :
           /\ Surplus(T, x) = Surplus(D, x) + (Same(i, x) - Same(c, x))
           /\ Same(c, x) \in {0, 1}
  <2>1. /\ Kept(T)
        /\ \A e : Fit(D, e) => Fit(T, e)
        /\ \A x \in Script :
             /\ Surplus(T, x) = Surplus(D, x)
                   + (Same(D.schedule, x) - Same(D.schedule, x))
                   + (Same(D.initialize, x) - Same(c, x))
                   + (Same(D.startup, x) - Same(D.startup, x))
                   + (Times(D.queue, x) - Times(D.queue, x))
             /\ Surplus(D, x) \in Int
             /\ Same(D.schedule, x) \in {0, 1}
             /\ Same(D.initialize, x) \in {0, 1} /\ Same(c, x) \in {0, 1}
             /\ Same(D.startup, x) \in {0, 1}
             /\ Times(D.queue, x) \in Nat
    BY <1>2, <1>4, FieldBooks
  <2>2. D.initialize = i
    BY <1>2
  <2> HIDE DEF i
  <2> QED
    BY <2>1, <2>2
<1>9. T.ref[c] >= 1
  BY <1>4, <1>7
<1>10. /\ Kept(Reference(T, c))
       /\ \A x \in Script : Surplus(Reference(T, c), x) = Surplus(T, x) + Same(c, x)
       /\ \A e : Fit(T, e) => Fit(Reference(T, c), e)
  BY <1>8, <1>9, ReferenceBooks
<1>11. \A x \in Script : Surplus(Reference(T, c), x) = Surplus(S, x)
  <2> SUFFICES ASSUME NEW x \in Script
               PROVE  Surplus(Reference(T, c), x) = Surplus(S, x)
    OBVIOUS
  <2>1. /\ Surplus(D, x) = Surplus(S, x) - Same(i, x)
        /\ Surplus(T, x) = Surplus(D, x) + (Same(i, x) - Same(c, x))
        /\ Surplus(Reference(T, c), x) = Surplus(T, x) + Same(c, x)
        /\ Surplus(S, x) \in Int /\ Same(i, x) \in Int /\ Same(c, x) \in Int
    BY <1>2, <1>3, <1>6, <1>8, <1>10
  <2> HIDE DEF i
  <2> QED
    BY <2>1
<1> QED
  BY <1>2, <1>5, <1>8, <1>10, <1>11 DEF Balanced

-----------------------------------------------------------------------------
(* Rescheduling, and the handlers that run a statement.                    *)

LEMMA NoneIsNoUse ==
  ASSUME NEW x \in Script
  PROVE  Same(None, x) = 0
<1> QED
  BY NoneAssumption DEF Same

(* Without the RTC the schedule is put back into the queue for the one it  *)
(* occupied as the schedule that runs; the initialization script is only   *)
(* taken off, and keeps the reference.                                     *)
LEMMA RescheduleBooks ==
  ASSUME NEW S, Kept(S), Solvent(S), Fit(S, None)
  PROVE  /\ Kept(Reschedule(S)) /\ Solvent(Reschedule(S)) /\ Fit(Reschedule(S), None)
         /\ Reschedule(S).initialize = S.initialize
<1> DEFINE c  == S.schedule
           S1 == Rewind(S, c)
           N  == Mislead(S1)
           q  == <<c>> \o N.queue
           M  == [N EXCEPT !.queue = q]
           S2 == IF c = S.initialize THEN S1 ELSE [N EXCEPT !.queue = <<c>> \o @]
           R  == Reschedule(S)
<1>0. S \in SchedulerState
  BY DEF Kept
<1>1. CASE c = None
  BY <1>1 DEF Reschedule
<1>2. CASE c # None
  <2>1. c \in Script
    BY <1>0, <1>2 DEF SchedulerState, ScriptOrNone
  <2>2. /\ Balanced(S, S1)
        /\ Fit(S1, None)
        /\ S1.schedule = c /\ S1.queue = S.queue
        /\ S1.initialize = S.initialize /\ S1.startup = S.startup
    BY <2>1, RewindBooks
  <2>3. R = IF S.online THEN S1 ELSE Stage(S2, None)
    BY <1>2 DEF Reschedule
  <2> HIDE DEF S1, R
  <2>4. Kept(S1) /\ Solvent(S1) /\ S1 \in SchedulerState
    BY <2>2, BalancedSolvent DEF Kept
  <2>5. SameBooks(S1, N)
    BY <2>4, SmallBooks
  <2> HIDE DEF N
  <2>6. /\ Kept(N) /\ N \in SchedulerState /\ Fit(N, None)
        /\ \A x \in Script : Surplus(N, x) = Surplus(S1, x)
        /\ N.schedule = c /\ N.initialize = S.initialize
    BY <2>2, <2>4, <2>5, SameBooksKeeps DEF Balanced, SameBooks
  <2>7. N.queue \in Seq(Script)
    BY <2>6 DEF SchedulerState
  <2>8. q \in Seq(Script)
    BY <2>1, <2>7, ConcatProperties
  <2>9. \A x \in Script : Times(q, x) = Times(N.queue, x) + Same(c, x)
    BY <2>1, <2>7, TimesFront
  <2> HIDE DEF q
  <2>10. /\ M \in SchedulerState
         /\ M.queue = q /\ M.schedule = N.schedule /\ M.initialize = N.initialize
         /\ M.startup = N.startup /\ M.ref = N.ref /\ M.state = N.state /\ M.args = N.args
    BY <2>6, <2>8 DEF SchedulerState
  <2>11. S2 = IF c = S.initialize THEN S1 ELSE M
    BY DEF q
  <2> HIDE DEF M, S2
  <2>12. /\ Kept(M)
         /\ Fit(M, None)
         /\ \A x \in Script :
              /\ Surplus(M, x) = Surplus(S1, x) - Same(c, x)
              /\ Surplus(S1, x) \in Int /\ Surplus(S1, x) >= 0
              /\ Same(c, x) \in {0, 1}
    <3>1. /\ Kept(M)
          /\ \A e : Fit(N, e) => Fit(M, e)
          /\ \A x \in Script :
               /\ Surplus(M, x) = Surplus(N, x)
                     + (Same(N.schedule, x) - Same(N.schedule, x))
                     + (Same(N.initialize, x) - Same(N.initialize, x))
                     + (Same(N.startup, x) - Same(N.startup, x))
                     + (Times(N.queue, x) - Times(q, x))
               /\ Surplus(N, x) \in Int
               /\ Same(N.schedule, x) \in {0, 1}
               /\ Same(N.initialize, x) \in {0, 1}
               /\ Same(N.startup, x) \in {0, 1}
               /\ Times(N.queue, x) \in Nat
      BY <2>6, <2>10, FieldBooks
    <3>2. \A x \in Script : Same(c, x) \in {0, 1} /\ Surplus(S1, x) >= 0
      BY <2>4 DEF Same, Solvent
    <3> HIDE DEF c
    <3> QED
      BY <2>6, <2>9, <3>1, <3>2
  <2>13. /\ Kept(S2) /\ Fit(S2, None) /\ S2.schedule = c /\ S2.initialize = S.initialize
         /\ \A x \in Script : /\ Surplus(S2, x) \in Int /\ Same(c, x) \in {0, 1}
                              /\ Surplus(S2, x) >= 0 - Same(c, x)
    <3>1. \A x \in Script : /\ Surplus(S1, x) >= 0 - Same(c, x)
                            /\ Surplus(M, x) >= 0 - Same(c, x)
                            /\ Surplus(M, x) \in Int
      BY <2>12
    <3>2. CASE c = S.initialize
      <4>1. S2 = S1
        BY <2>11, <3>2
      <4> HIDE DEF c
      <4> QED
        BY <2>2, <2>4, <2>12, <3>1, <4>1
    <3>3. CASE c # S.initialize
      <4>1. S2 = M
        BY <2>11, <3>3
      <4> HIDE DEF c
      <4> QED
        BY <2>6, <2>10, <2>12, <3>1, <4>1
    <3> QED
      BY <3>2, <3>3
  <2> DEFINE F == Stage(S2, None)
  <2>14. /\ Kept(F)
         /\ \A x \in Script : Surplus(F, x) = Surplus(S2, x) + Same(c, x) - Same(None, x)
         /\ Fit(F, None) /\ F.initialize = S2.initialize
    BY <2>13, StageBooks DEF ScriptOrNone
  <2> HIDE DEF F
  <2>15. Solvent(F)
    <3> HIDE DEF c
    <3>1. \A x \in Script : Surplus(F, x) >= 0
      BY <2>13, <2>14, NoneIsNoUse
    <3> QED
      BY <3>1 DEF Solvent
  <2>16. R = IF S.online THEN S1 ELSE F
    BY <2>3 DEF F
  <2>17. CASE S.online
    <3>1. R = S1
      BY <2>16, <2>17
    <3> QED
      BY <2>2, <2>4, <3>1 DEF R
  <2>18. CASE ~S.online
    <3>1. R = F
      BY <2>16, <2>18
    <3> QED
      BY <2>13, <2>14, <2>15, <3>1 DEF R
  <2> QED
    BY <2>17, <2>18
<1> QED
  BY <1>1, <1>2

LEMMA CompleteBooks ==
  ASSUME NEW S, Kept(S), Solvent(S), Fit(S, S.schedule)
  PROVE  Balanced(S, Complete(S)) /\ Fit(Complete(S), None)
<1> DEFINE u == S.startup
           D == Discard(S, u)
           T == [D EXCEPT !.initializing = FALSE, !.startup = None, !.listening = TRUE]
<1>0. S \in SchedulerState /\ u \in ScriptOrNone
  BY DEF Kept, SchedulerState
<1>1. CASE ~S.initializing
  <2>1. Complete(S) = NextSchedule(S)
    BY <1>1 DEF Complete
  <2> QED
    BY <2>1, NextScheduleBooks
<1>2. CASE S.initializing
  <2>1. Complete(S) = NextSchedule(T)
    BY <1>2 DEF Complete
  <2>2. /\ Kept(D)
        /\ \A x \in Script : Surplus(D, x) = Surplus(S, x) - Same(u, x)
        /\ \A e : Fit(S, e) => Fit(D, e)
        /\ D.schedule = S.schedule /\ D.startup = u
    <3>1. CASE u = None
      <4>1. \A x \in Script : Same(u, x) = 0 /\ Surplus(S, x) \in Int
        BY <1>0, <3>1, NoneIsNoUse, UsesType
      <4>2. D = S
        BY <3>1, DiscardNone
      <4> HIDE DEF D
      <4>3. D.startup = u
        BY <4>2
      <4> HIDE DEF u
      <4> QED
        BY <4>1, <4>2, <4>3
    <3>2. CASE u # None
      <4>1. u \in Script
        BY <1>0, <3>2 DEF ScriptOrNone
      <4>2. S.ref[u] >= 1
        BY <4>1, UsedIsCompiled
      <4> QED
        BY <4>1, <4>2, DiscardBooks
    <3> QED
      BY <3>1, <3>2
  <2> HIDE DEF D
  <2>3. /\ T \in SchedulerState
        /\ T.queue = D.queue /\ T.schedule = D.schedule /\ T.initialize = D.initialize
        /\ T.startup = None /\ T.ref = D.ref /\ T.state = D.state /\ T.args = D.args
    BY <2>2 DEF Kept, SchedulerState, ScriptOrNone
  <2> HIDE DEF T
  <2>4. /\ Kept(T)
        /\ \A e : Fit(D, e) => Fit(T, e)
        /\ \A x \in Script :
             /\ Surplus(T, x) = Surplus(D, x)
                   + (Same(D.schedule, x) - Same(D.schedule, x))
                   + (Same(D.initialize, x) - Same(D.initialize, x))
                   + (Same(D.startup, x) - Same(None, x))
                   + (Times(D.queue, x) - Times(D.queue, x))
             /\ Surplus(D, x) \in Int
             /\ Same(D.schedule, x) \in {0, 1}
             /\ Same(D.initialize, x) \in {0, 1}
             /\ Same(D.startup, x) \in {0, 1}
             /\ Times(D.queue, x) \in Nat
    BY <2>2, <2>3, FieldBooks
  <2>5. Balanced(S, T)
    <3>1. \A x \in Script : Surplus(S, x) \in Int
      BY <1>0, UsesType
    <3> HIDE DEF u
    <3>2. \A x \in Script : Surplus(T, x) = Surplus(S, x)
      BY <2>2, <2>4, <3>1, NoneIsNoUse
    <3> QED
      BY <2>4, <3>2 DEF Balanced
  <2>6. Kept(T) /\ Solvent(T) /\ Fit(T, T.schedule)
    BY <2>2, <2>3, <2>4, <2>5, BalancedSolvent
  <2>7. Balanced(T, NextSchedule(T)) /\ Fit(NextSchedule(T), None)
    BY <2>6, NextScheduleBooks
  <2> QED
    BY <2>1, <2>5, <2>7, BalancedTwice
<1> QED
  BY <1>1, <1>2

LEMMA AfterStepBooks ==
  ASSUME NEW S, Kept(S), Solvent(S), NEW c \in Script,
         Fit(S, None) \/ (c = S.schedule /\ Fit(S, c))
  PROVE  Balanced(S, AfterStep(S, c)) /\ Fit(AfterStep(S, c), None)
<1>1. CASE S.state[c] \in {"ACTIVE", "EXITING"}
  <2>1. AfterStep(S, c) = S
    BY <1>1 DEF AfterStep
  <2>2. Fit(S, None)
    BY <1>1, FitWithin
  <2> QED
    BY <2>1, <2>2 DEF Balanced
<1>2. CASE ~(S.state[c] \in {"ACTIVE", "EXITING"})
  <2>1. AfterStep(S, c) = Complete(S)
    BY <1>2 DEF AfterStep
  <2>2. Fit(S, S.schedule)
    BY FitWithin
  <2> QED
    BY <2>1, <2>2, CompleteBooks
<1> QED
  BY <1>1, <1>2

LEMMA HeldIsCompiled ==
  ASSUME NEW S, Kept(S), Solvent(S), NEW c \in Script, Holding(S, c)
  PROVE  S.ref[c] >= 1
<1>1. S.ref[c] \in Int /\ UsesOf(S, c) \in Nat
  BY UsesType DEF Kept
<1>2. CASE Surplus(S, c) >= 1
  BY <1>1, <1>2 DEF Surplus
<1>3. CASE S.schedule \in Script /\ c \in S.args[S.schedule]
  <2>1. ArgUses(S, c) = 1
    BY <1>3 DEF ArgUses
  <2> QED
    BY <2>1, UsedIsCompiled
<1> QED
  BY <1>2, <1>3 DEF Holding

LEMMA ExecuteBooks ==
  ASSUME NEW S, Kept(S), Solvent(S), Fit(S, None),
         NEW op \in Ops, NEW c \in ScriptOrNone, NEW n \in Int, NEW dn \in Int,
         op \in ScriptArgOps => c \in Script /\ Holding(S, c),
         op \in {"remove_schedule", "move_schedule"} => n \in Nat
  PROVE  Balanced(S, Execute(S, op, c, n, dn)) /\ Fit(Execute(S, op, c, n, dn), None)
<1>0. S \in SchedulerState
  BY DEF Kept
<1>1. CASE op = "schedule"
  <2>1. c \in Script /\ S.ref[c] >= 1
    BY <1>1, HeldIsCompiled DEF ScriptArgOps
  <2>2. Execute(S, op, c, n, dn) = QueueSchedule(S, c, n)
    BY <1>1 DEF Execute
  <2> QED
    BY <2>1, <2>2, QueueScheduleBooks
<1>2. CASE op = "load_reboot_script"
  <2>1. Execute(S, op, c, n, dn) = ChangeInitScript(S, c)
    BY <1>2 DEF Execute
  <2> QED
    BY <1>2, <2>1, ChangeInitScriptBooks DEF ScriptArgOps
<1>3. CASE op = "abort_schedule"
  <2>1. Execute(S, op, c, n, dn) = AbortSchedule(S)
    BY <1>3 DEF Execute
  <2> QED
    BY <2>1, AbortScheduleBooks
<1>4. CASE op = "suspend_schedule"
  BY <1>0, <1>4, SmallBooks, SameBooksKeeps DEF Execute
<1>5. CASE op = "resume_schedule"
  BY <1>0, <1>5, SmallBooks, SameBooksKeeps DEF Execute
<1>6. CASE op = "remove_schedule"
  <2>1. Execute(S, op, c, n, dn) = RemoveSchedule(S, n)
    BY <1>6 DEF Execute
  <2> QED
    BY <1>6, <2>1, RemoveScheduleBooks
<1>7. CASE op = "move_schedule"
  <2>1. Execute(S, op, c, n, dn) = MoveSchedule(S, n, dn)
    BY <1>7 DEF Execute
  <2> QED
    BY <1>7, <2>1, MoveScheduleBooks
<1> QED
  BY <1>1, <1>2, <1>3, <1>4, <1>5, <1>6, <1>7 DEF Ops

-----------------------------------------------------------------------------
(* The handlers: the steps of the thread, the messages, the world outside. *)

(* The books of the thread are in order between two handlers.              *)
Orderly(S) == Sound(S) /\ Kept(S) /\ Solvent(S) /\ Fit(S, None)

(* What fits without exception does so with one, be it no script at all.   *)
LEMMA FitWithException ==
  ASSUME NEW S, NEW e, Fit(S, None)
  PROVE  Fit(S, e)
BY NoneAssumption DEF Fit

LEMMA TimeoutBooks ==
  ASSUME Orderly(sch), Timeout
  PROVE  Balanced(sch, sch') /\ Fit(sch', None)
<1>0. /\ Sound(sch) /\ Kept(sch) /\ Solvent(sch) /\ Fit(sch, None)
      /\ sch \in SchedulerState /\ sch.schedule \in ScriptOrNone
  BY DEF Orderly, Sound, SchedulerState
<1>s. ASSUME HasStatement
      PROVE  /\ sch.schedule \in Script
             /\ Balanced(sch, Stepped) /\ Kept(Stepped) /\ Solvent(Stepped)
             /\ Fit(Stepped, None)
             /\ Stepped.schedule = sch.schedule /\ Stepped.args = sch.args
  <2>1. SameBooks(sch, Stepped)
    BY <1>0, <1>s, SteppedIs DEF SameBooks, SchedulerState
  <2>2. Balanced(sch, Stepped) /\ Fit(Stepped, None)
    BY <1>0, <2>1, SameBooksKeeps
  <2> QED
    BY <1>0, <1>s, <2>1, <2>2, SteppedType, BalancedSolvent DEF SameBooks
<1>u. ASSUME sch.schedule \in Script
      PROVE  sch.state[sch.schedule] # "EMPTY" /\ sch.schedule # None
  BY <1>0, <1>u, UsedIsCompiled, NoneAssumption
<1>a. ASSUME NEW f \in sch.pendDir
      PROVE  LET A == [sch EXCEPT !.pending = TRUE, !.pendname = f]
             IN  f \in FileOrNone /\ SameBooks(sch, A)
  <2>1. f \in FileOrNone
    BY <1>0 DEF SchedulerState, FileOrNone
  <2> QED
    BY <1>0, <2>1 DEF SchedulerState, SameBooks
<1>1. CASE StepStatement
  BY <1>1, <1>s DEF StepStatement
<1>2. CASE StepError
  <2> DEFINE k == sch.schedule
             E == [sch EXCEPT !.state[k] = "ERROR"]
  <2>1. HasStatement /\ sch' = Complete(E)
    BY <1>2 DEF StepError
  <2>2. k \in Script /\ sch.state[k] # "EMPTY"
    BY <1>s, <1>u, <2>1
  <2>3. [sch.state EXCEPT ![k] = "ERROR"] \in [Script -> RunState]
    BY <1>0 DEF SchedulerState, RunState
  <2>4. /\ E \in SchedulerState
        /\ E.state = [sch.state EXCEPT ![k] = "ERROR"]
        /\ E.ref = sch.ref /\ E.args = sch.args
        /\ E.schedule = k /\ E.initialize = sch.initialize
        /\ E.startup = sch.startup /\ E.queue = sch.queue
    BY <1>0, <2>3 DEF SchedulerState
  <2> HIDE DEF E
  <2>5. sch.state \in [Script -> RunState]
    BY <1>0 DEF SchedulerState
  <2>6. \A x \in Script : /\ E.state[x] = IF x = k THEN "ERROR" ELSE sch.state[x]
                          /\ E.state[x] = "EMPTY" <=> sch.state[x] = "EMPTY"
    BY <2>2, <2>4, <2>5
  <2>7. Kept(E)
    BY <1>0, <2>4, <2>6 DEF Kept, Trees
  <2>8. \A x \in Script : Surplus(E, x) = Surplus(sch, x)
    BY <2>4 DEF Surplus, UsesOf, ArgUses
  <2>9. Fit(E, E.schedule)
    BY <1>0, <2>4, <2>6, NoneAssumption DEF Fit
  <2>10. Balanced(sch, E) /\ Solvent(E)
    BY <1>0, <2>7, <2>8, BalancedSolvent DEF Balanced
  <2>11. Balanced(E, Complete(E)) /\ Fit(Complete(E), None)
    BY <2>7, <2>9, <2>10, CompleteBooks
  <2> QED
    BY <2>1, <2>10, <2>11, BalancedTwice
<1>3. CASE StepExit
  <2> DEFINE k == sch.schedule
             T == ExitScript(sch, k)
  <2>1. k \in Script /\ sch.state[k] # "EMPTY"
    BY <1>0, <1>3, <1>u DEF StepExit, InProgress, Running, ScriptOrNone
  <2>2. Balanced(sch, T) /\ Fit(T, k) /\ T.schedule = k
    BY <1>0, <2>1, ExitScriptBooks, FitWithin
  <2>3. sch' = AfterStep(T, k)
    BY <1>3 DEF StepExit
  <2> HIDE DEF T
  <2>4. Kept(T) /\ Solvent(T)
    BY <1>0, <2>2, BalancedSolvent
  <2>5. Balanced(T, sch') /\ Fit(sch', None)
    BY <2>1, <2>2, <2>3, <2>4, AfterStepBooks
  <2> QED
    BY <2>2, <2>5, BalancedTwice
<1>e. ASSUME HasStatement,
             NEW op \in Ops, NEW c \in ScriptOrNone, NEW n \in Int, NEW dn \in Int,
             op \in ScriptArgOps => c \in Script /\ Holding(Stepped, c),
             op \in {"remove_schedule", "move_schedule"} => n \in Nat,
             sch' = AfterStep(Execute(Stepped, op, c, n, dn), sch.schedule)
      PROVE  Balanced(sch, sch') /\ Fit(sch', None)
  <2> DEFINE T == Execute(Stepped, op, c, n, dn)
  <2>1. Balanced(Stepped, T) /\ Fit(T, None)
    BY <1>s, <1>e, ExecuteBooks
  <2>2. sch' = AfterStep(T, sch.schedule)
    BY <1>e
  <2> HIDE DEF T
  <2>3. Balanced(sch, T)
    BY <1>s, <1>e, <2>1, BalancedTwice
  <2>4. Kept(T) /\ Solvent(T)
    BY <1>0, <2>3, BalancedSolvent
  <2>5. Balanced(T, sch') /\ Fit(sch', None)
    BY <1>s, <1>e, <2>1, <2>2, <2>4, AfterStepBooks
  <2> QED
    BY <2>3, <2>5, BalancedTwice
<1>4. CASE StepCommand
  <2>0. PICK op \in ScriptOps \ ScriptArgOps : \E w \in Numbers(op) :
           sch' = AfterStep(Execute(Stepped, op, None, w[1], w[2]), sch.schedule)
    BY <1>4 DEF StepCommand
  <2>1. PICK w \in Numbers(op) :
           sch' = AfterStep(Execute(Stepped, op, None, w[1], w[2]), sch.schedule)
    BY <2>0
  <2>2. op \in Ops \ ScriptArgOps
    BY InputAssumption
  <2>3. HasStatement /\ None \in ScriptOrNone
    BY <1>4 DEF StepCommand, ScriptOrNone
  <2>4. /\ w[1] \in Int /\ w[2] \in Int
        /\ op \in {"remove_schedule", "move_schedule"} => w[1] \in Nat
    BY <2>2, NumbersType
  <2> QED
    BY <1>e, <2>1, <2>2, <2>3, <2>4
<1>5. CASE StepCommandWithScript
  <2>1. PICK op \in ScriptOps \cap ScriptArgOps, c \in sch.args[sch.schedule] :
           \E n \in IF op = "schedule" THEN InsertAt ELSE {-1} :
              sch' = AfterStep(Execute(Stepped, op, c, n, 0), sch.schedule)
    BY <1>5 DEF StepCommandWithScript
  <2>2. PICK n \in IF op = "schedule" THEN InsertAt ELSE {-1} :
           sch' = AfterStep(Execute(Stepped, op, c, n, 0), sch.schedule)
    BY <2>1
  <2>3. HasStatement
    BY <1>5 DEF StepCommandWithScript
  <2>4. sch.schedule \in Script /\ c \in Script /\ c \in ScriptOrNone
    BY <1>0, <1>s, <2>3 DEF SchedulerState, ScriptOrNone
  <2>5. op \in Ops /\ op \notin {"remove_schedule", "move_schedule"}
    BY InputAssumption DEF ScriptArgOps
  <2>6. n \in Int /\ 0 \in Int
    BY InputAssumption
  <2>7. Holding(Stepped, c)
    BY <1>s, <2>1, <2>3, <2>4 DEF Holding
  <2> QED
    BY <1>e, <2>2, <2>3, <2>4, <2>5, <2>6, <2>7
<1>6. CASE AutoStart
  <2>1. PICK f \in sch.pendDir, w \in Compilations(sch) :
           sch' = Stage(Compile([sch EXCEPT !.pending = TRUE, !.pendname = f], w, f),
                        w.script)
    BY <1>6 DEF AutoStart
  <2> DEFINE A == [sch EXCEPT !.pending = TRUE, !.pendname = f]
             C == Compile(A, w, f)
  <2>2. f \in FileOrNone /\ SameBooks(sch, A)
    BY <1>a
  <2>3. sch' = Stage(C, w.script)
    BY <2>1
  <2> HIDE DEF A
  <2>4. w \in Compilations(A) /\ A.schedule = None
    BY <1>6, <2>2 DEF Compilations, Pool, SameBooks, AutoStart, Polling
  <2>5. Balanced(sch, A) /\ Fit(A, None)
    BY <1>0, <2>2, SameBooksKeeps
  <2>6. Kept(A) /\ Solvent(A)
    BY <1>0, <2>5, BalancedSolvent
  <2>7. /\ w.script \in Script /\ Kept(C) /\ Fit(C, None) /\ C.schedule = None
        /\ \A x \in Script : Surplus(C, x) = Surplus(A, x) + Same(w.script, x)
    BY <2>2, <2>4, <2>5, <2>6, CompileBooks
  <2> HIDE DEF C
  <2>8. /\ Kept(sch') /\ Fit(sch', None)
        /\ \A x \in Script : Surplus(sch', x)
                               = Surplus(C, x) + Same(None, x) - Same(w.script, x)
    BY <2>3, <2>7, StageBooks DEF ScriptOrNone
  <2>9. ASSUME NEW x \in Script
        PROVE  Surplus(sch', x) = Surplus(sch, x)
    <3>1. /\ Surplus(sch, x) \in Int /\ Same(w.script, x) \in {0, 1}
          /\ Same(None, x) = 0
      BY <1>0, UsesType, NoneIsNoUse DEF Same
    <3>2. Surplus(A, x) = Surplus(sch, x)
      BY <2>5 DEF Balanced
    <3>3. Surplus(C, x) = Surplus(A, x) + Same(w.script, x)
      BY <2>7
    <3>4. Surplus(sch', x) = Surplus(C, x) + Same(None, x) - Same(w.script, x)
      BY <2>8
    <3> QED
      BY <3>1, <3>2, <3>3, <3>4
  <2> QED
    BY <2>8, <2>9 DEF Balanced
<1>7. CASE AutoReject
  <2>1. PICK f \in sch.pendDir :
           sch' = RemovePendingFile([sch EXCEPT !.pending = TRUE, !.pendname = f])
    BY <1>7 DEF AutoReject
  <2> DEFINE A == [sch EXCEPT !.pending = TRUE, !.pendname = f]
  <2>2. SameBooks(sch, A)
    BY <1>a
  <2>3. sch' = RemovePendingFile(A)
    BY <2>1
  <2> HIDE DEF A
  <2>4. SameBooks(sch, sch')
    BY <2>2, <2>3, SmallBooks, SameBooksTwice DEF SameBooks
  <2> QED
    BY <1>0, <2>4, SameBooksKeeps
<1>8. CASE AutoNone
  <2>1. SameBooks(sch, sch')
    BY <1>0, <1>8 DEF AutoNone, SameBooks, SchedulerState
  <2> QED
    BY <1>0, <2>1, SameBooksKeeps
<1>9. CASE StepEnded
  <2>1. sch' = Complete(sch)
    BY <1>9 DEF StepEnded
  <2>2. Fit(sch, sch.schedule)
    BY <1>0, FitWithException
  <2> QED
    BY <1>0, <2>1, <2>2, CompleteBooks
<1> QED
  BY <1>1, <1>2, <1>3, <1>4, <1>5, <1>6, <1>7, <1>8, <1>9 DEF Timeout

(* The messages of clients and of the control thread, but for the state of *)
(* the RTC.                                                                *)
LEMMA MessageBooks ==
  ASSUME Orderly(sch), Message, ~ \E b \in BOOLEAN : RtcState(b)
  PROVE  Balanced(sch, sch') /\ Fit(sch', None)
<1>0. /\ Kept(sch) /\ Solvent(sch) /\ Fit(sch, None)
      /\ sch \in SchedulerState
  BY DEF Orderly, Sound
<1>1. CASE CommandWithScript
  <2>1. PICK op \in InteractiveOps \cap ScriptArgOps, w \in Compilations(sch) :
           \E n \in IF op = "schedule" THEN InsertAt ELSE {-1} :
              sch' = Discard(Execute(Compile(sch, w, None), op, w.script, n, 0), w.script)
    BY <1>1 DEF CommandWithScript
  <2>2. PICK n \in IF op = "schedule" THEN InsertAt ELSE {-1} :
           sch' = Discard(Execute(Compile(sch, w, None), op, w.script, n, 0), w.script)
    BY <2>1
  <2>3. op \in Ops /\ op \notin {"remove_schedule", "move_schedule"}
    BY InputAssumption DEF ScriptArgOps
  <2>4. n \in Int /\ 0 \in Int
    BY InputAssumption
  <2> DEFINE c == w.script
             C == Compile(sch, w, None)
             E == Execute(C, op, c, n, 0)
  <2>5. sch' = Discard(E, c)
    BY <2>2
  <2>6. /\ c \in Script /\ Kept(C) /\ Fit(C, None)
        /\ \A x \in Script : Surplus(C, x) = Surplus(sch, x) + Same(c, x)
    BY <1>0, CompileBooks DEF FileOrNone
  <2> HIDE DEF C
  <2>7. ASSUME NEW x \in Script
        PROVE  /\ Surplus(sch, x) \in Nat /\ Same(c, x) \in {0, 1}
               /\ Surplus(C, x) >= 0
               /\ x = c => Surplus(C, x) >= 1
    <3>1. Surplus(sch, x) \in Int /\ Surplus(sch, x) >= 0
      BY <1>0, UsesType DEF Solvent
    <3>2. Same(c, x) \in {0, 1} /\ (x = c => Same(c, x) = 1)
      BY DEF Same
    <3>3. Surplus(C, x) = Surplus(sch, x) + Same(c, x)
      BY <2>6
    <3> QED
      BY <3>1, <3>2, <3>3
  <2>8. Solvent(C) /\ Holding(C, c)
    BY <2>6, <2>7 DEF Solvent, Holding
  <2>9. Balanced(C, E) /\ Fit(E, None)
    BY <2>3, <2>4, <2>6, <2>8, ExecuteBooks DEF ScriptOrNone
  <2> HIDE DEF E
  <2>10. Kept(E) /\ Solvent(E) /\ Holding(E, c)
    BY <2>6, <2>7, <2>8, <2>9, BalancedSolvent DEF Balanced, Holding
  <2>11. E.ref[c] >= 1
    BY <2>6, <2>10, HeldIsCompiled
  <2>12. /\ Kept(sch') /\ Fit(sch', None)
         /\ \A x \in Script : Surplus(sch', x) = Surplus(E, x) - Same(c, x)
    BY <2>5, <2>6, <2>9, <2>10, <2>11, DiscardBooks
  <2>13. ASSUME NEW x \in Script
         PROVE  Surplus(sch', x) = Surplus(sch, x)
    <3>1. Surplus(E, x) = Surplus(C, x)
      BY <2>9 DEF Balanced
    <3>2. Surplus(C, x) = Surplus(sch, x) + Same(c, x)
      BY <2>6
    <3>3. Surplus(sch', x) = Surplus(E, x) - Same(c, x)
      BY <2>12
    <3> QED
      BY <2>7, <3>1, <3>2, <3>3
  <2> QED
    BY <2>12, <2>13 DEF Balanced
<1>2. CASE Command
  <2>0. PICK op \in InteractiveOps \ ScriptArgOps : \E w \in Numbers(op) :
           sch' = Execute(sch, op, None, w[1], w[2])
    BY <1>2 DEF Command
  <2>1. PICK w \in Numbers(op) : sch' = Execute(sch, op, None, w[1], w[2])
    BY <2>0
  <2>2. op \in Ops \ ScriptArgOps
    BY InputAssumption
  <2>3. /\ w[1] \in Int /\ w[2] \in Int
        /\ op \in {"remove_schedule", "move_schedule"} => w[1] \in Nat
    BY <2>2, NumbersType
  <2> QED
    BY <1>0, <2>1, <2>2, <2>3, ExecuteBooks DEF ScriptOrNone
<1>3. ASSUME NEW b \in BOOLEAN, AutoState(b)
      PROVE  SameBooks(sch, sch')
  BY <1>0, <1>3 DEF AutoState, SameBooks, SchedulerState
<1>4. CASE AddClient
  <2>1. SameBooks(sch, sch')
    BY <1>0, <1>4 DEF AddClient, SameBooks, SchedulerState
  <2> QED
    BY <1>0, <2>1, SameBooksKeeps
<1>5. CASE RemClient
  <2>1. << >> \in Seq(Script) /\ None \in ScriptOrNone
    BY EmptySeq DEF ScriptOrNone
  <2>2. SameBooks(sch, sch')
    BY <1>0, <1>5, <2>1 DEF RemClient, SameBooks, SchedulerState
  <2> QED
    BY <1>0, <2>2, SameBooksKeeps
<1> QED
  BY <1>0, <1>1, <1>2, <1>3, <1>4, <1>5, SameBooksKeeps DEF Message

(* The RTC connects or is lost: the initialization script is referred to   *)
(* once more when it is staged, and a reference may be left over.          *)
LEMMA RtcBooks ==
  ASSUME Orderly(sch), NEW b \in BOOLEAN, RtcState(b)
  PROVE  Kept(sch') /\ Solvent(sch') /\ Fit(sch', None)
<1>0. /\ Kept(sch) /\ Solvent(sch) /\ Fit(sch, None)
      /\ sch \in SchedulerState
  BY DEF Orderly, Sound
<1> DEFINE A == [sch EXCEPT !.online = b, !.awaiting = FALSE]
           S1 == Reschedule(A)
           W == [S1 EXCEPT !.awaiting = TRUE]
           i == sch.initialize
<1>1. SameBooks(sch, A)
  BY <1>0 DEF SameBooks, SchedulerState
<1>2. \/ /\ i # None
         /\ sch' = Stage(Reference(W, S1.initialize), S1.initialize)
      \/ sch' = S1
  BY DEF RtcState
<1> HIDE DEF A
<1>3. Kept(A) /\ Solvent(A) /\ Fit(A, None) /\ A.initialize = i
  BY <1>0, <1>1, SameBooksKeeps, BalancedSolvent DEF SameBooks
<1>4. Kept(S1) /\ Solvent(S1) /\ Fit(S1, None) /\ S1.initialize = i
  BY <1>3, RescheduleBooks
<1> HIDE DEF S1
<1>5. SameBooks(S1, W)
  BY <1>4 DEF Kept, SameBooks, SchedulerState
<1> HIDE DEF W
<1>6. Kept(W) /\ Solvent(W) /\ Fit(W, None) /\ W.initialize = i
  BY <1>4, <1>5, SameBooksKeeps, BalancedSolvent DEF SameBooks
<1>7. CASE i # None /\ sch' = Stage(Reference(W, i), i)
  <2> DEFINE R == Reference(W, i)
  <2>1. i \in Script
    BY <1>0, <1>7 DEF SchedulerState, ScriptOrNone
  <2>2. W.ref[i] >= 1
    BY <1>6, <2>1, UsedIsCompiled
  <2>3. /\ Kept(R) /\ Fit(R, None) /\ R.schedule = W.schedule
        /\ \A x \in Script : Surplus(R, x) = Surplus(W, x) + Same(i, x)
    BY <1>6, <2>1, <2>2, ReferenceBooks
  <2>4. sch' = Stage(R, i)
    BY <1>7
  <2> HIDE DEF R
  <2>5. /\ Kept(sch') /\ Fit(sch', None)
        /\ \A x \in Script : Surplus(sch', x)
                               = Surplus(R, x) + Same(R.schedule, x) - Same(i, x)
    BY <2>1, <2>3, <2>4, StageBooks DEF ScriptOrNone
  <2>6. ASSUME NEW x \in Script
        PROVE  Surplus(sch', x) >= 0
    <3>1. /\ Surplus(W, x) \in Int /\ Same(i, x) \in {0, 1}
          /\ Same(R.schedule, x) \in {0, 1}
          /\ Surplus(W, x) >= 0
      BY <1>6, UsesType DEF Same, Kept, Solvent
    <3>2. Surplus(R, x) = Surplus(W, x) + Same(i, x)
      BY <2>3
    <3>3. Surplus(sch', x) = Surplus(R, x) + Same(R.schedule, x) - Same(i, x)
      BY <2>5
    <3> QED
      BY <3>1, <3>2, <3>3
  <2> QED
    BY <2>5, <2>6 DEF Solvent
<1> QED
  BY <1>2, <1>4, <1>7

LEMMA WorldBooks ==
  ASSUME Orderly(sch), World
  PROVE  Balanced(sch, sch') /\ Fit(sch', None)
<1>0. /\ Kept(sch) /\ Solvent(sch) /\ Fit(sch, None)
      /\ sch \in SchedulerState
  BY DEF Orderly, Sound
<1>1. CASE ClientPipe
  BY <1>0, <1>1, SameBooksKeeps DEF ClientPipe, SameBooks, SchedulerState
<1>2. ASSUME NEW f \in File, DropFile(f) \/ WithdrawFile(f)
      PROVE  SameBooks(sch, sch')
  <2>1. sch.pendDir \cup {f} \in SUBSET File /\ sch.pendDir \ {f} \in SUBSET File
    BY <1>0 DEF SchedulerState
  <2>2. CASE DropFile(f)
    BY <1>0, <2>1, <2>2 DEF DropFile, SameBooks, SchedulerState
  <2>3. CASE WithdrawFile(f)
    BY <1>0, <2>1, <2>3 DEF WithdrawFile, SameBooks, SchedulerState
  <2> QED
    BY <1>2, <2>2, <2>3
<1> QED
  BY <1>0, <1>1, <1>2, SameBooksKeeps DEF World

(* When the thread starts, each reference is that of a use.                *)
LEMMA InitBooks ==
  ASSUME Init
  PROVE  Kept(sch) /\ Fit(sch, None) /\ \A x \in Script : Surplus(sch, x) = 0
<1>1. PICK w \in Compilations(NewScheduler) :
         sch = [QueueSchedule(Compile(NewScheduler, w, None), w.script, -1)
                  EXCEPT !.startup = w.script]
  BY DEF Init
<1> DEFINE N == NewScheduler
           c == w.script
           C == Compile(N, w, None)
           Q == QueueSchedule(C, c, -1)
<1>2. sch = [Q EXCEPT !.startup = c]
  BY <1>1
<1>3. /\ N \in SchedulerState
      /\ N.startup = None
      /\ N.schedule = None /\ N.initialize = None /\ N.queue = << >>
      /\ \A x \in Script : /\ N.ref[x] = 0 /\ N.args[x] = {} /\ N.state[x] = "EMPTY"
  BY NewSchedulerSound DEF Sound, NewScheduler
<1>4. w \in Compilations(N)
  OBVIOUS
<1> HIDE DEF N
<1>5. Kept(N) /\ Fit(N, None)
  BY <1>3 DEF Kept, Trees, Fit
<1>6. ASSUME NEW x \in Script
      PROVE  Surplus(N, x) = 0
  <2>1. /\ Same(N.schedule, x) = 0 /\ Same(N.initialize, x) = 0
        /\ Same(N.startup, x) = 0
    BY <1>3, NoneIsNoUse
  <2>2. Times(N.queue, x) = 0 /\ ArgUses(N, x) = 0 /\ N.ref[x] = 0
    BY <1>3, TimesEmpty DEF ArgUses
  <2> QED
    BY <2>1, <2>2 DEF Surplus, UsesOf
<1>7. Solvent(N)
  BY <1>6 DEF Solvent
<1>8. /\ c \in Script /\ Kept(C) /\ Fit(C, None) /\ C.startup = None
      /\ \A x \in Script : Surplus(C, x) = Surplus(N, x) + Same(c, x)
  BY <1>3, <1>4, <1>5, <1>7, CompileBooks DEF FileOrNone
<1> HIDE DEF C
<1>9. ASSUME NEW x \in Script
      PROVE  /\ Surplus(C, x) = Same(c, x) /\ Same(c, x) \in {0, 1}
             /\ x = c => Same(c, x) = 1
  <2>1. Same(c, x) \in {0, 1} /\ (x = c => Same(c, x) = 1)
    BY DEF Same
  <2> QED
    BY <1>6, <1>8, <2>1
<1>10. Solvent(C) /\ Holding(C, c)
  BY <1>8, <1>9 DEF Solvent, Holding
<1>11. C.ref[c] >= 1
  BY <1>8, <1>10, HeldIsCompiled
<1>12. Balanced(C, Q) /\ Fit(Q, None) /\ Q.startup = None
  BY <1>8, <1>10, <1>11, QueueScheduleBooks
<1> HIDE DEF Q
<1>13. Q \in SchedulerState /\ Kept(Q)
  BY <1>12 DEF Balanced, Kept
<1>14. /\ sch \in SchedulerState /\ sch.ref = Q.ref /\ sch.state = Q.state
       /\ sch.args = Q.args /\ sch.startup = c
       /\ sch.schedule = Q.schedule /\ sch.initialize = Q.initialize
       /\ sch.queue = Q.queue
  BY <1>2, <1>8, <1>13 DEF SchedulerState, ScriptOrNone
<1>15. ASSUME NEW x \in Script
       PROVE  Surplus(sch, x) = 0
  <2>1. /\ Surplus(Q, x) = Same(c, x)
        /\ Same(Q.startup, x) = 0
    BY <1>9, <1>12, NoneIsNoUse DEF Balanced
  <2>2. /\ Surplus(sch, x) = Surplus(Q, x)
             + (Same(Q.schedule, x) - Same(sch.schedule, x))
             + (Same(Q.initialize, x) - Same(sch.initialize, x))
             + (Same(Q.startup, x) - Same(sch.startup, x))
             + (Times(Q.queue, x) - Times(sch.queue, x))
        /\ Same(Q.schedule, x) \in {0, 1} /\ Same(Q.initialize, x) \in {0, 1}
        /\ Times(Q.queue, x) \in Nat
    BY <1>13, <1>14, FieldBooks
  <2> QED
    BY <1>9, <1>14, <2>1, <2>2
<1> QED
  BY <1>12, <1>13, <1>14, <1>15, FieldBooks

-----------------------------------------------------------------------------
(* The theorems about the references.                                      *)

(* The uses that the properties count are those of the books.              *)
LEMMA UsesAreCounted ==
  ASSUME Kept(sch), NEW c \in Script
  PROVE  Uses(c) = UsesOf(sch, c)
<1> DEFINE P == {p \in Script : c \in sch.args[p]}
<1>1. Cardinality(P) = ArgUses(sch, c)
  <2>1. CASE \E p \in Script : c \in sch.args[p]
    <3>1. PICK p \in Script : c \in sch.args[p]
      BY <2>1
    <3>2. P = {p}
      BY <3>1 DEF Kept, Trees
    <3> QED
      BY <2>1, <3>2, FS_Singleton DEF ArgUses
  <2>2. CASE ~ \E p \in Script : c \in sch.args[p]
    <3>1. P = {}
      BY <2>2
    <3> QED
      BY <2>2, <3>1, FS_EmptySet DEF ArgUses
  <2> QED
    BY <2>1, <2>2
<1>2. Cardinality({i \in DOMAIN sch.queue : sch.queue[i] = c}) = Times(sch.queue, c)
  BY DEF Times
<1>3. /\ Count(sch.schedule = c) = Same(sch.schedule, c)
      /\ Count(sch.initialize = c) = Same(sch.initialize, c)
      /\ Count(sch.startup = c) = Same(sch.startup, c)
  BY DEF Count, Same
<1> QED
  BY <1>1, <1>2, <1>3 DEF Uses, UsesOf

(* Every reference is that of a use.                                       *)
Exact(S) == \A x \in Script : Surplus(S, x) = 0

LEMMA InitOrderly == Init => Orderly(sch) /\ Exact(sch)
<1> SUFFICES ASSUME Init
             PROVE  Orderly(sch) /\ Exact(sch)
  OBVIOUS
<1>1. Kept(sch) /\ Fit(sch, None) /\ Exact(sch)
  BY InitBooks DEF Exact
<1> QED
  BY <1>1, InitSound DEF Orderly, Exact, Solvent

LEMMA NextOrderly ==
  ASSUME Orderly(sch), [Next]_vars
  PROVE  /\ Orderly(sch')
         /\ (\E b \in BOOLEAN : RtcState(b)) \/ Balanced(sch, sch')
<1>0. Kept(sch) /\ Solvent(sch) /\ Fit(sch, None) /\ Sound(sch)
  BY DEF Orderly
<1>1. CASE sch' = sch
  BY <1>0, <1>1 DEF Orderly, Balanced
<1>2. CASE Timeout \/ Message \/ World
  <2>1. Sound(sch')
    BY <1>0, <1>2, TimeoutSound, MessageSound, WorldSound
  <2>2. CASE \E b \in BOOLEAN : RtcState(b)
    BY <2>1, <2>2, RtcBooks DEF Orderly
  <2>3. CASE ~ \E b \in BOOLEAN : RtcState(b)
    <3>1. Balanced(sch, sch') /\ Fit(sch', None)
      BY <1>2, <2>3, TimeoutBooks, MessageBooks, WorldBooks
    <3> QED
      BY <1>0, <2>1, <3>1, BalancedSolvent DEF Orderly
  <2> QED
    BY <2>2, <2>3
<1> QED
  BY <1>1, <1>2, StepOfThread

OrderlyNow == Orderly(sch)

(* The books of the pool are in order after every handler: a container is  *)
(* in the pool just when nothing refers to it, and no reference is missing *)
(* (sch_discard_schedule, genericscheduler.c:1313).                        *)
THEOREM OrderlyAlways == Spec => []OrderlyNow
<1>1. Init => OrderlyNow
  BY InitOrderly DEF OrderlyNow
<1>2. OrderlyNow /\ [Next]_vars => OrderlyNow'
  BY NextOrderly DEF OrderlyNow
<1> QED
  BY <1>1, <1>2, PTL DEF Spec

(* A container has at least as many references as uses, and is in the pool *)
(* just when it has none: sch_discard_schedule never returns a script that *)
(* is still staged, queued or an argument.                                 *)
THEOREM ReferencesCoverUses == Spec => []RefsCoverUses
<1>1. OrderlyNow => RefsCoverUses
  <2> SUFFICES ASSUME Kept(sch), Solvent(sch), NEW c \in Script
               PROVE  sch.ref[c] >= Uses(c) /\ (sch.ref[c] = 0 <=> sch.state[c] = "EMPTY")
    BY DEF OrderlyNow, Orderly, RefsCoverUses
  <2>1. sch.ref[c] >= UsesOf(sch, c) /\ (sch.ref[c] = 0 <=> sch.state[c] = "EMPTY")
    BY UsedIsCompiled DEF Kept
  <2> QED
    BY <2>1, UsesAreCounted
<1> QED
  BY <1>1, OrderlyAlways, PTL

(* What the thread runs or has queued was compiled and not yet ended, so   *)
(* that step_script always has a statement or an end to execute: provided  *)
(* that the pipe of the RTC takes the report of the end of its             *)
(* initialization script, which otherwise stays in place.                  *)
THEOREM StagedCanRun ==
  ASSUME "rtcpipe" \notin Environment
  PROVE  Spec => []Runnable
<1>1. OrderlyNow => Runnable
  <2> SUFFICES ASSUME Kept(sch), Solvent(sch), Fit(sch, None)
               PROVE  Runnable
    BY DEF OrderlyNow, Orderly
  <2>1. sch \in SchedulerState
    BY DEF Kept
  <2>2. ASSUME NEW c \in Script, UsesOf(sch, c) > 0
        PROVE  sch.state[c] \in {"ACTIVE", "EXITING"}
    BY <2>2, UsedIsCompiled, NoneAssumption DEF Fit
  <2>3. ASSUME sch.schedule # None
        PROVE  sch.state[sch.schedule] \in {"ACTIVE", "EXITING"}
    <3>1. sch.schedule \in Script
      BY <2>1, <2>3 DEF SchedulerState, ScriptOrNone
    <3> QED
      BY <2>2, <3>1, UsedIsCompiled
  <2>4. ASSUME NEW i \in DOMAIN sch.queue
        PROVE  sch.state[sch.queue[i]] \in {"ACTIVE", "EXITING"}
    <3>1. sch.queue[i] \in Script /\ Times(sch.queue, sch.queue[i]) > 0
      BY <2>1, TimesEntry DEF SchedulerState
    <3> QED
      BY <2>2, <3>1, UsedIsCompiled
  <2> QED
    BY <2>3, <2>4 DEF Runnable
<1> QED
  BY <1>1, OrderlyAlways, PTL

(* Without surplus no reference is left over. This is kept only while the  *)
(* state of the RTC stays what it is: when the connection is lost and made *)
(* again, the initialization script is referred to once more than used.    *)
ExactNow == Orderly(sch) /\ Exact(sch)

(* Then a container has exactly as many references as uses: every script   *)
(* goes back to the pool when its last use ends.                           *)
THEOREM ReferencesCountUses ==
  ASSUME "rtc" \notin Environment
  PROVE  Spec => []RefsCountUses
<1>1. Init => ExactNow
  BY InitOrderly DEF ExactNow
<1>2. ExactNow /\ [Next]_vars => ExactNow'
  <2> SUFFICES ASSUME Orderly(sch), Exact(sch), [Next]_vars
               PROVE  Orderly(sch') /\ Exact(sch')
    BY DEF ExactNow
  <2>1. ~ \E b \in BOOLEAN : RtcState(b)
    BY DEF RtcState
  <2> QED
    BY <2>1, NextOrderly DEF Exact, Balanced
<1>3. ExactNow => RefsCountUses
  <2> SUFFICES ASSUME Kept(sch), Exact(sch), NEW c \in Script
               PROVE  sch.ref[c] = Uses(c)
    BY DEF ExactNow, Orderly, RefsCountUses
  <2>1. Surplus(sch, c) = 0 /\ sch.ref[c] \in Int /\ UsesOf(sch, c) \in Nat
    BY UsesType DEF Exact, Kept
  <2> QED
    BY <2>1, UsesAreCounted DEF Surplus
<1> QED
  BY <1>1, <1>2, <1>3, PTL DEF Spec
=============================================================================
