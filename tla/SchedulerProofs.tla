-------------------------- MODULE SchedulerProofs --------------------------
(***************************************************************************)
(* Theorems about Scheduler, for every set of scripts and files and every  *)
(* bound. The operators of Scheduler map states to states, so the proof    *)
(* has one lemma per operator, in the order in which the operators call    *)
(* each other; an action then follows from the lemma of the chain that it  *)
(* applies.                                                                *)
(***************************************************************************)
EXTENDS Scheduler, SequenceTheorems, FiniteSetTheorems, TLAPS

(* The two sequence operations of the lists of the scheduler.              *)
LEMMA ListInsertType ==
  ASSUME NEW q \in Seq(Script), NEW n \in 0 .. Len(q), NEW c \in Script
  PROVE  /\ ListInsert(q, n, c) \in Seq(Script)
         /\ Len(ListInsert(q, n, c)) = Len(q) + 1
<1> DEFINE before == SubSeq(q, 1, n) \o <<c>>
           after  == SubSeq(q, n + 1, Len(q))
<1>1. /\ SubSeq(q, 1, n) \in Seq(Script)
      /\ Len(SubSeq(q, 1, n)) = n
  BY ElementOfSeq, LenProperties, SubSeqProperties
<1>2. after \in Seq(Script) /\ Len(after) = Len(q) - n
  BY ElementOfSeq, LenProperties, SubSeqProperties
<1>3. before \in Seq(Script) /\ Len(before) = n + 1
  BY <1>1, ConcatProperties
<1>4. ListInsert(q, n, c) = before \o after
  BY DEF ListInsert
<1> HIDE DEF before, after
<1>5. /\ before \o after \in Seq(Script)
      /\ Len(before \o after) = Len(before) + Len(after)
  BY <1>2, <1>3, ConcatProperties
<1> QED
  BY <1>2, <1>3, <1>4, <1>5, LenProperties

LEMMA ListDeleteType ==
  ASSUME NEW q \in Seq(Script), NEW n \in 0 .. Len(q) - 1
  PROVE  /\ ListDelete(q, n) \in Seq(Script)
         /\ Len(ListDelete(q, n)) = Len(q) - 1
<1>1. /\ SubSeq(q, 1, n) \in Seq(Script)
      /\ Len(SubSeq(q, 1, n)) = n
  BY ElementOfSeq, LenProperties, SubSeqProperties
<1>2. /\ SubSeq(q, n + 2, Len(q)) \in Seq(Script)
      /\ Len(SubSeq(q, n + 2, Len(q))) = Len(q) - n - 1
  BY ElementOfSeq, LenProperties, SubSeqProperties
<1>3. /\ ListDelete(q, n) \in Seq(Script)
      /\ Len(ListDelete(q, n)) = n + (Len(q) - n - 1)
  BY <1>1, <1>2, ConcatProperties DEF ListDelete
<1> QED
  BY <1>3, LenProperties

-----------------------------------------------------------------------------
(* T is a state of the thread with the schedule and suspension of S: what  *)
(* an operator that changes neither returns.                               *)
Quiet(S, T) == /\ T \in SchedulerState
               /\ T.schedule = S.schedule
               /\ T.suspend = S.suspend

LEMMA MisleadType ==
  ASSUME NEW S \in SchedulerState
  PROVE  Quiet(S, Mislead(S))
<1>1. None \in ScriptOrNone /\ << >> \in Seq(Script)
  BY EmptySeq DEF ScriptOrNone
<1> QED
  BY <1>1 DEF Mislead, Quiet, SchedulerState

LEMMA ReportType ==
  ASSUME NEW S \in SchedulerState, NEW r \in ScriptOrNone, NEW q \in Seq(Script)
  PROVE  Quiet(S, Report(S, r, q))
<1>1. CASE S.client = "full"
  BY <1>1, MisleadType DEF Report
<1>2. CASE S.client # "full"
  BY <1>2 DEF Report, Quiet, SchedulerState
<1> QED
  BY <1>1, <1>2

LEMMA RewindType ==
  ASSUME NEW S \in SchedulerState, NEW c \in Script
  PROVE  Quiet(S, Rewind(S, c))
<1>1. [S.state EXCEPT ![c] = "ACTIVE"] \in [Script -> RunState]
  BY DEF SchedulerState, RunState
<1>2. [S.pc EXCEPT ![c] = 0] \in [Script -> Nat]
  BY DEF SchedulerState
<1>3. CASE S.state[c] = "EMPTY"
  BY <1>3 DEF Rewind, Quiet
<1>4. CASE S.state[c] # "EMPTY"
  BY <1>1, <1>2, <1>4 DEF Rewind, Quiet, SchedulerState
<1> QED
  BY <1>3, <1>4

LEMMA ReferenceType ==
  ASSUME NEW S \in SchedulerState, NEW c \in Script
  PROVE  Quiet(S, Reference(S, c))
<1>1. [S.ref EXCEPT ![c] = @ + 1] \in [Script -> Int]
  BY DEF SchedulerState
<1> QED
  BY <1>1 DEF Reference, Quiet, SchedulerState

LEMMA UnreferenceType ==
  ASSUME NEW S \in SchedulerState, NEW K \in SUBSET Script
  PROVE  Quiet(S, Unreference(S, K))
<1> DEFINE freed == {c \in K : S.ref[c] = 1}
           kept  == {c \in K \ freed : S.state[c] # "EMPTY"}
<1>1. [c \in Script |-> IF c \in K THEN S.ref[c] - 1 ELSE S.ref[c]] \in [Script -> Int]
  BY DEF SchedulerState
<1>2. [c \in Script |-> IF c \in freed THEN "EMPTY"
                        ELSE IF c \in kept THEN "ACTIVE" ELSE S.state[c]]
        \in [Script -> RunState]
  BY DEF SchedulerState, RunState
<1>3. [c \in Script |-> IF c \in freed \cup kept THEN 0 ELSE S.pc[c]] \in [Script -> Nat]
  BY DEF SchedulerState
<1>4. [c \in Script |-> IF c \in freed THEN {} ELSE S.args[c]] \in [Script -> SUBSET Script]
  BY DEF SchedulerState
<1>5. [c \in Script |-> IF c \in freed THEN None ELSE S.src[c]] \in [Script -> FileOrNone]
  BY DEF SchedulerState, FileOrNone
<1>6. S.handler \ freed \in SUBSET Script
  BY DEF SchedulerState
<1> QED
  BY <1>1, <1>2, <1>3, <1>4, <1>5, <1>6 DEF Unreference, Quiet, SchedulerState

LEMMA DiscardType ==
  ASSUME NEW S \in SchedulerState, NEW c \in ScriptOrNone
  PROVE  Quiet(S, Discard(S, c))
<1>1. CASE c = None
  BY <1>1 DEF Discard, Quiet
<1>2. CASE c # None
  <2>1. c \in Script /\ S.args[c] \in SUBSET Script
    BY <1>2 DEF ScriptOrNone, SchedulerState
  <2>2. Quiet(S, Unreference(S, {c}))
    BY <2>1, UnreferenceType
  <2> DEFINE K == IF S.ref[c] = 1 THEN S.args[c] ELSE {}
             T == Unreference(S, {c})
  <2>3. K \in SUBSET Script /\ T \in SchedulerState
    BY <2>1, <2>2 DEF Quiet
  <2> HIDE DEF K, T
  <2>4. Quiet(T, Unreference(T, K))
    BY <2>3, UnreferenceType
  <2> QED
    BY <1>2, <2>2, <2>4 DEF Discard, Quiet, K, T
<1> QED
  BY <1>1, <1>2

LEMMA CompileType ==
  ASSUME NEW S \in SchedulerState, NEW w \in Compilations(S), NEW f \in FileOrNone
  PROVE  /\ w.script \in Script
         /\ Quiet(S, Compile(S, w, f))
<1> DEFINE new == w.args \cup {w.script}
<1>1. /\ w.script \in Script
      /\ w.args \in SUBSET Script
      /\ w.handler \in SUBSET Script
  BY DEF Compilations, Pool
<1>2. [c \in Script |-> IF c \in new THEN 1 ELSE S.ref[c]] \in [Script -> Int]
  BY DEF SchedulerState
<1>3. [c \in Script |-> IF c \in new THEN "ACTIVE" ELSE S.state[c]] \in [Script -> RunState]
  BY DEF SchedulerState, RunState
<1>4. [c \in Script |-> IF c = w.script THEN w.args ELSE S.args[c]]
        \in [Script -> SUBSET Script]
  BY <1>1 DEF SchedulerState
<1>5. [c \in Script |-> IF c = w.script THEN f ELSE S.src[c]] \in [Script -> FileOrNone]
  BY DEF SchedulerState
<1>6. S.handler \cup w.handler \in SUBSET Script
  BY <1>1 DEF SchedulerState
<1> QED
  BY <1>1, <1>2, <1>3, <1>4, <1>5, <1>6 DEF Compile, Quiet, SchedulerState

-----------------------------------------------------------------------------
LEMMA ReportRmType ==
  ASSUME NEW S \in SchedulerState, NEW n \in Nat
  PROVE  Quiet(S, ReportRm(S, n))
<1>1. S.viewRun \in ScriptOrNone /\ S.viewQueue \in Seq(Script)
  BY DEF SchedulerState
<1>2. CASE n >= Len(S.viewQueue)
  BY <1>1, <1>2, ReportType DEF ReportRm
<1>3. CASE ~(n >= Len(S.viewQueue))
  <2>1. n \in 0 .. Len(S.viewQueue) - 1
    BY <1>1, <1>3, LenProperties
  <2>2. ListDelete(S.viewQueue, n) \in Seq(Script)
    BY <1>1, <2>1, ListDeleteType
  <2> QED
    BY <1>1, <1>3, <2>2, ReportType DEF ReportRm
<1> QED
  BY <1>2, <1>3

LEMMA ReportMvType ==
  ASSUME NEW S \in SchedulerState, NEW n \in Nat, NEW m \in Int
  PROVE  Quiet(S, ReportMv(S, n, m))
<1> DEFINE q == S.viewQueue
           stay == n >= Len(q) \/ m \notin 0 .. Len(q) - 1
<1>1. S.viewRun \in ScriptOrNone /\ q \in Seq(Script) /\ Len(q) \in Nat
  BY LenProperties DEF SchedulerState
<1>2. CASE stay
  BY <1>1, <1>2, ReportType DEF ReportMv
<1>3. CASE ~stay
  <2>1. n \in 0 .. Len(q) - 1 /\ n + 1 \in 1 .. Len(q) /\ m \in 0 .. Len(q) - 1
    BY <1>1, <1>3
  <2>2. q[n + 1] \in Script
    BY <1>1, <2>1, ElementOfSeq
  <2>3. ListDelete(q, n) \in Seq(Script) /\ Len(ListDelete(q, n)) = Len(q) - 1
    BY <1>1, <2>1, ListDeleteType
  <2>4. ListInsert(ListDelete(q, n), m, q[n + 1]) \in Seq(Script)
    BY <2>1, <2>2, <2>3, ListInsertType
  <2> QED
    BY <1>1, <1>3, <2>4, ReportType DEF ReportMv
<1> QED
  BY <1>2, <1>3

LEMMA MoveScheduleType ==
  ASSUME NEW S \in SchedulerState, NEW n \in Nat, NEW dn \in Int
  PROVE  Quiet(S, MoveSchedule(S, n, dn))
<1> DEFINE len == Len(S.queue)
           up  == IF dn >= 0 THEN 1 ELSE 0
           dst == Clamp(n + dn + up, 0, len)
           new == IF n + dn < 0 THEN 0 ELSE IF n + dn + up > len THEN dst - 1 ELSE n + dn
           ins == ListInsert(S.queue, dst, S.queue[n + 1])
           q   == ListDelete(ins, IF dst <= n THEN n + 1 ELSE n)
           T   == [S EXCEPT !.queue = q]
<1>1. S.queue \in Seq(Script) /\ len \in Nat
  BY LenProperties DEF SchedulerState
<1>2. dst \in 0 .. len /\ new \in Int
  BY <1>1 DEF Clamp
<1>3. CASE n >= len
  BY <1>3 DEF MoveSchedule, Quiet
<1>4. CASE ~(n >= len)
  <2>1. n + 1 \in 1 .. len /\ S.queue[n + 1] \in Script
    BY <1>1, <1>4, ElementOfSeq
  <2>2. ins \in Seq(Script) /\ Len(ins) = len + 1
    BY <1>1, <1>2, <2>1, ListInsertType
  <2>3. (IF dst <= n THEN n + 1 ELSE n) \in 0 .. Len(ins) - 1
    BY <1>1, <1>2, <2>1, <2>2
  <2>4. q \in Seq(Script)
    BY <2>2, <2>3, ListDeleteType
  <2> HIDE DEF q, new
  <2>5. Quiet(S, T)
    BY <2>4 DEF Quiet, SchedulerState
  <2>6. Quiet(T, ReportMv(T, n, new))
    BY <1>2, <2>5, ReportMvType DEF Quiet
  <2>7. MoveSchedule(S, n, dn) = ReportMv(T, n, new)
    BY <1>4 DEF MoveSchedule, q, new
  <2> QED
    BY <2>5, <2>6, <2>7 DEF Quiet
<1> QED
  BY <1>3, <1>4

LEMMA RemoveScheduleType ==
  ASSUME NEW S \in SchedulerState, NEW n \in Nat
  PROVE  Quiet(S, RemoveSchedule(S, n))
<1> DEFINE T == [S EXCEPT !.queue = ListDelete(S.queue, n)]
           c == S.queue[n + 1]
<1>1. S.queue \in Seq(Script) /\ Len(S.queue) \in Nat
  BY LenProperties DEF SchedulerState
<1>2. CASE n >= Len(S.queue)
  BY <1>2 DEF RemoveSchedule, Quiet
<1>3. CASE ~(n >= Len(S.queue))
  <2>1. n \in 0 .. Len(S.queue) - 1 /\ n + 1 \in 1 .. Len(S.queue)
    BY <1>1, <1>3
  <2>2. c \in ScriptOrNone
    BY <1>1, <2>1, ElementOfSeq DEF ScriptOrNone
  <2>3. ListDelete(S.queue, n) \in Seq(Script)
    BY <1>1, <2>1, ListDeleteType
  <2>4. Quiet(S, T)
    BY <2>3 DEF Quiet, SchedulerState
  <2> HIDE DEF T, c
  <2>5. Quiet(T, Discard(T, c))
    BY <2>2, <2>4, DiscardType DEF Quiet
  <2>6. Quiet(Discard(T, c), ReportRm(Discard(T, c), n))
    BY <2>5, ReportRmType DEF Quiet
  <2>7. RemoveSchedule(S, n) = ReportRm(Discard(T, c), n)
    BY <1>3 DEF RemoveSchedule, T, c
  <2> QED
    BY <2>4, <2>5, <2>6, <2>7 DEF Quiet
<1> QED
  BY <1>2, <1>3

LEMMA RemovePendingFileType ==
  ASSUME NEW S \in SchedulerState
  PROVE  Quiet(S, RemovePendingFile(S))
<1>1. CASE S.pendname \notin S.pendDir
  BY <1>1 DEF RemovePendingFile, Quiet
<1>2. CASE S.pendname \in S.pendDir
  <2>1. /\ S.pendDir \ {S.pendname} \in SUBSET File
        /\ S.doneDir \cup {S.pendname} \in SUBSET File
    BY <1>2 DEF SchedulerState
  <2> QED
    BY <1>2, <2>1 DEF RemovePendingFile, Quiet, SchedulerState
<1> QED
  BY <1>1, <1>2

LEMMA ReportInitEndedType ==
  ASSUME NEW S \in SchedulerState
  PROVE  Quiet(S, ReportInitEnded(S))
<1> QED
  BY DEF ReportInitEnded, Quiet, SchedulerState

LEMMA ExitScriptType ==
  ASSUME NEW S \in SchedulerState, NEW c \in Script
  PROVE  Quiet(S, ExitScript(S, c))
<1>1. /\ [S.state EXCEPT ![c] = "EXITING"] \in [Script -> RunState]
      /\ [S.state EXCEPT ![c] = "END"] \in [Script -> RunState]
  BY DEF SchedulerState, RunState
<1>2. [S.pc EXCEPT ![c] = 0] \in [Script -> Nat]
  BY DEF SchedulerState
<1>3. CASE c \in S.handler /\ S.state[c] = "ACTIVE"
  BY <1>1, <1>2, <1>3 DEF ExitScript, Quiet, SchedulerState
<1>4. CASE ~(c \in S.handler /\ S.state[c] = "ACTIVE")
  BY <1>1, <1>4 DEF ExitScript, Quiet, SchedulerState
<1> QED
  BY <1>3, <1>4

-----------------------------------------------------------------------------
(* The operators that stage a schedule leave it running. The states that   *)
(* the actions reach are sound: of the right type, and with no suspension  *)
(* left over from a schedule that is gone.                                 *)
Sound(S) == /\ S \in SchedulerState
            /\ S.suspend => S.schedule # None

Staged(T) == T \in SchedulerState /\ ~T.suspend

LEMMA QuietIsSound ==
  ASSUME NEW S, NEW T, Sound(S), Quiet(S, T)
  PROVE  Sound(T)
<1> QED
  BY DEF Sound, Quiet

LEMMA StageType ==
  ASSUME NEW S \in SchedulerState, NEW c \in ScriptOrNone
  PROVE  Staged(Stage(S, c)) /\ Stage(S, c).schedule = c
<1> DEFINE T == IF c = None THEN S ELSE Rewind(S, c)
           U == ReportRun(T, c)
<1>1. T \in SchedulerState
  BY RewindType DEF Quiet, ScriptOrNone
<1> HIDE DEF T
<1>2. U \in SchedulerState
  <2>1. T.viewQueue \in Seq(Script)
    BY <1>1 DEF SchedulerState
  <2> QED
    BY <1>1, <2>1, ReportType DEF ReportRun, Quiet
<1> HIDE DEF U
<1> DEFINE V == [U EXCEPT !.schedule = c]
<1>3. V \in SchedulerState /\ V.schedule = c
  BY <1>2 DEF SchedulerState
<1> HIDE DEF V
<1>4. Stage(S, c) = [V EXCEPT !.suspend = FALSE]
  BY DEF Stage, ResumeSchedule, T, U, V
<1> QED
  BY <1>3, <1>4 DEF Staged, SchedulerState

LEMMA StartNextType ==
  ASSUME NEW S \in SchedulerState
  PROVE  Staged(StartNext(S))
<1> DEFINE R  == ReportInitEnded(S)
           D  == Discard(R, S.schedule)
           S1 == [D EXCEPT !.schedule = None]
           S2 == IF S1.pending THEN RemovePendingFile(S1) ELSE S1
           S3 == [ReportRm(S2, 0) EXCEPT !.queue = Tail(S2.queue)]
<1>1. S.schedule \in ScriptOrNone /\ None \in ScriptOrNone
  BY DEF SchedulerState, ScriptOrNone
<1>2. R \in SchedulerState
  BY ReportInitEndedType DEF Quiet
<1> HIDE DEF R
<1>3. D \in SchedulerState
  BY <1>1, <1>2, DiscardType DEF Quiet
<1> HIDE DEF D
<1>4. S1 \in SchedulerState
  BY <1>1, <1>3 DEF SchedulerState
<1> HIDE DEF S1
<1>5. S2 \in SchedulerState
  BY <1>4, RemovePendingFileType DEF Quiet
<1> HIDE DEF S2
<1>6. StartNext(S) = IF S2.queue = << >> THEN Stage(S2, None)
                     ELSE Stage(S3, Head(S2.queue))
  BY DEF StartNext, R, D, S1, S2
<1>7. CASE S2.queue = << >>
  BY <1>1, <1>5, <1>6, <1>7, StageType
<1>8. CASE S2.queue # << >>
  <2>1. S2.queue \in Seq(Script)
    BY <1>5 DEF SchedulerState
  <2>2. Head(S2.queue) \in Script /\ Tail(S2.queue) \in Seq(Script)
    BY <1>8, <2>1, HeadTailProperties
  <2>3. ReportRm(S2, 0) \in SchedulerState
    BY <1>5, ReportRmType DEF Quiet
  <2>4. S3 \in SchedulerState
    BY <2>2, <2>3 DEF SchedulerState
  <2> HIDE DEF S3
  <2> QED
    BY <1>6, <1>8, <2>2, <2>4, StageType DEF ScriptOrNone
<1> QED
  BY <1>7, <1>8

LEMMA NextScheduleType ==
  ASSUME NEW S, Sound(S)
  PROVE  Sound(NextSchedule(S))
<1> QED
  BY StartNextType DEF NextSchedule, Sound, Staged

LEMMA QueueScheduleType ==
  ASSUME NEW S, Sound(S), NEW c \in Script, NEW n \in Int
  PROVE  Sound(QueueSchedule(S, c, n))
<1> DEFINE A  == ReportAdd(S, c)
           B  == [A EXCEPT !.queue = Append(S.queue, c)]
           S1 == Reference(B, c)
           S2 == IF n < 0 THEN S1 ELSE MoveSchedule(S1, Len(S.queue), n - Len(S.queue))
<1>1. /\ S \in SchedulerState
      /\ S.queue \in Seq(Script) /\ Len(S.queue) \in Nat
      /\ S.viewRun \in ScriptOrNone /\ S.viewQueue \in Seq(Script)
  BY LenProperties DEF Sound, SchedulerState
<1>2. Append(S.queue, c) \in Seq(Script) /\ Append(S.viewQueue, c) \in Seq(Script)
  BY <1>1
<1>3. Quiet(S, A)
  BY <1>1, <1>2, ReportType DEF ReportAdd
<1> HIDE DEF A
<1>4. Quiet(S, B)
  BY <1>2, <1>3 DEF Quiet, SchedulerState
<1> HIDE DEF B
<1>5. Quiet(B, S1)
  BY <1>4, ReferenceType DEF Quiet
<1> HIDE DEF S1
<1>6. Quiet(S1, S2)
  <2>1. S1 \in SchedulerState /\ Quiet(S1, S1)
    BY <1>5 DEF Quiet
  <2>2. n - Len(S.queue) \in Int
    BY <1>1
  <2>3. Quiet(S1, MoveSchedule(S1, Len(S.queue), n - Len(S.queue)))
    BY <1>1, <2>1, <2>2, MoveScheduleType
  <2> QED
    BY <2>1, <2>3
<1>7. Sound(S2)
  BY <1>4, <1>5, <1>6, QuietIsSound
<1> HIDE DEF S2
<1>8. QueueSchedule(S, c, n) = IF S2.schedule = None THEN NextSchedule(S2) ELSE S2
  BY DEF QueueSchedule, A, B, S1, S2
<1> QED
  BY <1>7, <1>8, NextScheduleType

LEMMA AbortScheduleType ==
  ASSUME NEW S, Sound(S)
  PROVE  Sound(AbortSchedule(S))
<1> DEFINE c == S.schedule
           A == [S EXCEPT !.auto = @ /\ ~S.pending, !.pending = FALSE, !.src[c] = None]
           S1 == ExitScript(A, c)
<1>1. S \in SchedulerState
  BY DEF Sound
<1>2. CASE c = None
  BY <1>2 DEF AbortSchedule
<1>3. CASE c # None
  <2>1. c \in Script
    BY <1>1, <1>3 DEF SchedulerState, ScriptOrNone
  <2>2. [S.src EXCEPT ![c] = None] \in [Script -> FileOrNone]
    BY <1>1 DEF SchedulerState, FileOrNone
  <2>3. (S.auto /\ ~S.pending) \in BOOLEAN
    OBVIOUS
  <2>4. Quiet(S, A)
    BY <1>1, <2>2, <2>3 DEF Quiet, SchedulerState
  <2>5. AbortSchedule(S) = IF S1.state[c] = "EXITING" THEN S1 ELSE NextSchedule(S1)
    BY <1>3 DEF AbortSchedule
  <2> HIDE DEF A
  <2>6. Quiet(A, S1)
    BY <2>1, <2>4, ExitScriptType DEF Quiet
  <2> HIDE DEF S1
  <2>7. Sound(S1)
    BY <2>4, <2>6, QuietIsSound
  <2> QED
    BY <2>5, <2>7, NextScheduleType
<1> QED
  BY <1>2, <1>3

LEMMA ChangeInitScriptType ==
  ASSUME NEW S, Sound(S), NEW c \in Script
  PROVE  Sound(ChangeInitScript(S, c))
<1> DEFINE D == Discard(S, S.initialize)
           T == [D EXCEPT !.initialize = c]
<1>1. S \in SchedulerState /\ S.initialize \in ScriptOrNone
  BY DEF Sound, SchedulerState
<1>2. Quiet(S, D)
  BY <1>1, DiscardType
<1> HIDE DEF D
<1>3. Quiet(S, T)
  BY <1>2 DEF Quiet, SchedulerState, ScriptOrNone
<1> HIDE DEF T
<1>4. Quiet(T, Reference(T, c))
  BY <1>3, ReferenceType DEF Quiet
<1>5. ChangeInitScript(S, c) = Reference(T, c)
  BY DEF ChangeInitScript, D, T
<1> QED
  BY <1>3, <1>4, <1>5, QuietIsSound

LEMMA RescheduleType ==
  ASSUME NEW S, Sound(S)
  PROVE  Sound(Reschedule(S))
<1> DEFINE c  == S.schedule
           S1 == Rewind(S, c)
           M  == [Mislead(S1) EXCEPT !.queue = <<c>> \o S1.queue]
           S2 == IF c = S.initialize THEN S1 ELSE M
<1>1. S \in SchedulerState
  BY DEF Sound
<1>2. CASE c = None
  BY <1>2 DEF Reschedule
<1>3. CASE c # None
  <2>1. c \in Script
    BY <1>1, <1>3 DEF SchedulerState, ScriptOrNone
  <2>2. Quiet(S, S1)
    BY <1>1, <2>1, RewindType
  <2> HIDE DEF S1
  <2>3. <<c>> \o S1.queue \in Seq(Script)
    BY <2>1, <2>2, ConcatProperties DEF Quiet, SchedulerState
  <2>4. Quiet(S1, Mislead(S1))
    BY <2>2, MisleadType DEF Quiet
  <2>5. Mislead(S1).queue = S1.queue
    BY <2>2 DEF Quiet, Mislead, SchedulerState
  <2>6. M \in SchedulerState
    BY <2>3, <2>4 DEF Quiet, SchedulerState
  <2>7. S2 \in SchedulerState
    BY <2>2, <2>6 DEF Quiet
  <2>8. Reschedule(S) = IF S.online THEN S1 ELSE Stage(S2, None)
    BY <1>3, <2>5 DEF Reschedule, S1
  <2> HIDE DEF S2
  <2>9. Sound(S1)
    BY <2>2, QuietIsSound
  <2> QED
    BY <2>7, <2>8, <2>9, StageType DEF Sound, Staged, ScriptOrNone
<1> QED
  BY <1>2, <1>3

LEMMA RescheduleKeepsInitialize ==
  ASSUME NEW S \in SchedulerState
  PROVE  Reschedule(S).initialize = S.initialize
<1> DEFINE c  == S.schedule
           S1 == Rewind(S, c)
           M  == [Mislead(S1) EXCEPT !.queue = <<c>> \o @]
           S2 == IF c = S.initialize THEN S1 ELSE M
<1>1. CASE c = None
  BY <1>1 DEF Reschedule
<1>2. CASE c # None
  <2>1. S1 \in SchedulerState /\ S1.initialize = S.initialize
    BY <1>2, RewindType DEF Quiet, Rewind, SchedulerState, ScriptOrNone
  <2> HIDE DEF S1
  <2>2. S2.initialize = S.initialize
    BY <2>1 DEF Mislead, SchedulerState
  <2> HIDE DEF S2
  <2>3. Stage(S2, None).initialize = S2.initialize
    BY DEF Stage, ResumeSchedule, ReportRun, Report, Mislead
  <2> QED
    BY <1>2, <2>1, <2>2, <2>3 DEF Reschedule, S1, S2
<1> QED
  BY <1>1, <1>2

(* Every command leaves a sound state.                                     *)
LEMMA ExecuteType ==
  ASSUME NEW S, Sound(S), NEW op \in Ops, NEW c \in ScriptOrNone,
         NEW n \in Int, NEW dn \in Int,
         op \in ScriptArgOps => c \in Script,
         op \in {"remove_schedule", "move_schedule"} => n \in Nat
  PROVE  Sound(Execute(S, op, c, n, dn))
<1>0. S \in SchedulerState
  BY DEF Sound
<1>1. CASE op = "schedule"
  BY <1>1, QueueScheduleType DEF Execute, ScriptArgOps
<1>2. CASE op = "load_reboot_script"
  BY <1>2, ChangeInitScriptType DEF Execute, ScriptArgOps
<1>3. CASE op = "abort_schedule"
  BY <1>3, AbortScheduleType DEF Execute
<1>4. CASE op = "suspend_schedule"
  <2>1. Execute(S, op, c, n, dn) = SuspendSchedule(S)
    BY <1>4 DEF Execute
  <2>2. CASE S.schedule = None
    BY <2>1, <2>2 DEF SuspendSchedule
  <2>3. CASE S.schedule # None
    <3>1. Execute(S, op, c, n, dn) = [S EXCEPT !.suspend = TRUE]
      BY <2>1, <2>3 DEF SuspendSchedule
    <3> QED
      BY <1>0, <2>3, <3>1 DEF Sound, SchedulerState
  <2> QED
    BY <2>2, <2>3
<1>5. CASE op = "resume_schedule"
  <2>1. Execute(S, op, c, n, dn) = ResumeSchedule(S)
    BY <1>5 DEF Execute
  <2> QED
    BY <1>0, <2>1 DEF ResumeSchedule, Sound, SchedulerState
<1>6. CASE op = "remove_schedule"
  BY <1>0, <1>6, RemoveScheduleType, QuietIsSound DEF Execute
<1>7. CASE op = "move_schedule"
  BY <1>0, <1>7, MoveScheduleType, QuietIsSound DEF Execute
<1> QED
  BY <1>1, <1>2, <1>3, <1>4, <1>5, <1>6, <1>7 DEF Ops

LEMMA CompleteType ==
  ASSUME NEW S, Sound(S)
  PROVE  Sound(Complete(S))
<1> DEFINE D == Discard(S, S.startup)
           T == [D EXCEPT !.initializing = FALSE, !.startup = None, !.listening = TRUE]
<1>0. S \in SchedulerState /\ S.startup \in ScriptOrNone
  BY DEF Sound, SchedulerState
<1>1. Sound(D)
  BY <1>0, DiscardType, QuietIsSound
<1> HIDE DEF D
<1>2. Sound(T)
  BY <1>1 DEF Sound, SchedulerState, ScriptOrNone
<1> HIDE DEF T
<1>3. Complete(S) = NextSchedule(IF ~S.initializing THEN S ELSE T)
  BY DEF Complete, D, T
<1> QED
  BY <1>2, <1>3, NextScheduleType

LEMMA AfterStepType ==
  ASSUME NEW S, Sound(S), NEW c \in Script
  PROVE  Sound(AfterStep(S, c))
<1> QED
  BY CompleteType DEF AfterStep

-----------------------------------------------------------------------------
LEMMA NewSchedulerSound == Sound(NewScheduler)
<1>1. /\ [c \in Script |-> 0] \in [Script -> Int]
      /\ [c \in Script |-> 0] \in [Script -> Nat]
      /\ [c \in Script |-> "EMPTY"] \in [Script -> RunState]
      /\ [c \in Script |-> {}] \in [Script -> SUBSET Script]
      /\ [c \in Script |-> None] \in [Script -> FileOrNone]
      /\ << >> \in Seq(Script)
  BY EmptySeq DEF RunState, FileOrNone
<1> QED
  BY <1>1 DEF Sound, NewScheduler, SchedulerState, ScriptOrNone, FileOrNone

LEMMA InitSound == Init => Sound(sch)
<1> SUFFICES ASSUME NEW w \in Compilations(NewScheduler),
                    sch = [QueueSchedule(Compile(NewScheduler, w, None), w.script, -1)
                             EXCEPT !.startup = w.script]
             PROVE  Sound(sch)
  BY DEF Init
<1> DEFINE C == Compile(NewScheduler, w, None)
           Q == QueueSchedule(C, w.script, -1)
<1>1. w.script \in Script /\ Quiet(NewScheduler, C)
  BY NewSchedulerSound, CompileType DEF Sound, FileOrNone
<1>2. Sound(C)
  BY <1>1, NewSchedulerSound, QuietIsSound
<1> HIDE DEF C
<1>3. Sound(Q)
  BY <1>1, <1>2, QueueScheduleType
<1>4. sch = [Q EXCEPT !.startup = w.script]
  BY DEF Q, C
<1> HIDE DEF Q
<1> QED
  BY <1>1, <1>3, <1>4 DEF Sound, SchedulerState, ScriptOrNone

(* The arguments of a command that takes no script have the right types.   *)
LEMMA NumbersType ==
  ASSUME NEW op \in Ops \ ScriptArgOps, NEW w \in Numbers(op)
  PROVE  /\ w[1] \in Int /\ w[2] \in Int
         /\ op \in {"remove_schedule", "move_schedule"} => w[1] \in Nat
<1>1. Entry \subseteq Nat /\ Moves \subseteq Int
  BY BoundAssumption DEF Entry, Moves
<1>2. w \in Nat \X Int
  <2>1. Numbers(op) \in {Entry \X {0}, Entry \X Moves, {<<0, 0>>}}
    BY DEF Numbers
  <2>2. CASE w \in Entry \X {0}
    <3>1. PICK e \in Entry : w = <<e, 0>>
      BY <2>2
    <3>2. e \in Nat /\ 0 \in Int
      BY <1>1
    <3> QED
      BY <3>1, <3>2
  <2>3. CASE w \in Entry \X Moves
    BY <1>1, <2>3
  <2>4. CASE w \in {<<0, 0>>}
    BY <2>4
  <2> QED
    BY <2>1, <2>2, <2>3, <2>4
<1> QED
  BY <1>2

(* The state in which the command at hand of a running schedule executes.  *)
LEMMA SteppedType ==
  ASSUME Sound(sch), HasStatement
  PROVE  sch.schedule \in Script /\ Sound(Stepped)
<1>1. sch \in SchedulerState /\ sch.schedule \in Script
  BY DEF Sound, SchedulerState, ScriptOrNone, HasStatement, InProgress, Running
<1>2. [sch.pc EXCEPT ![sch.schedule] = @ + 1] \in [Script -> Nat]
  BY <1>1 DEF SchedulerState
<1>3. Quiet(sch, Stepped)
  BY <1>1, <1>2 DEF Quiet, Stepped, SchedulerState
<1> QED
  BY <1>1, <1>3, QuietIsSound

LEMMA TimeoutSound ==
  ASSUME Sound(sch), Timeout
  PROVE  Sound(sch')
<1>0. sch \in SchedulerState /\ sch.schedule \in ScriptOrNone
  BY DEF Sound, SchedulerState
<1>1. CASE StepStatement
  BY <1>1, SteppedType DEF StepStatement
<1>2. CASE StepError
  <2> DEFINE E == [sch EXCEPT !.state[sch.schedule] = "ERROR"]
  <2>1. HasStatement /\ sch' = Complete(E)
    BY <1>2 DEF StepError
  <2>2. [sch.state EXCEPT ![sch.schedule] = "ERROR"] \in [Script -> RunState]
    BY <1>0 DEF SchedulerState, RunState
  <2>3. Quiet(sch, E)
    BY <1>0, <2>2 DEF Quiet, SchedulerState
  <2> HIDE DEF E
  <2> QED
    BY <2>1, <2>3, QuietIsSound, CompleteType
<1>3. CASE StepExit
  <2>1. sch.schedule \in Script
    BY <1>0, <1>3 DEF StepExit, InProgress, Running, ScriptOrNone
  <2>2. Sound(ExitScript(sch, sch.schedule))
    BY <1>0, <2>1, ExitScriptType, QuietIsSound
  <2> QED
    BY <1>3, <2>1, <2>2, AfterStepType DEF StepExit
<1>4. CASE StepCommand
  <2>0. PICK op \in ScriptOps \ ScriptArgOps : \E w \in Numbers(op) :
           sch' = AfterStep(Execute(Stepped, op, None, w[1], w[2]), sch.schedule)
    BY <1>4 DEF StepCommand
  <2>1. PICK w \in Numbers(op) :
           sch' = AfterStep(Execute(Stepped, op, None, w[1], w[2]), sch.schedule)
    BY <2>0
  <2>2. sch.schedule \in Script /\ Sound(Stepped)
    BY <1>4, SteppedType DEF StepCommand
  <2>3. op \in Ops \ ScriptArgOps
    BY InputAssumption
  <2>4. Sound(Execute(Stepped, op, None, w[1], w[2]))
    BY <2>2, <2>3, NumbersType, ExecuteType DEF ScriptOrNone
  <2> QED
    BY <2>1, <2>2, <2>4, AfterStepType
<1>5. CASE StepCommandWithScript
  <2>1. PICK op \in ScriptOps \cap ScriptArgOps, c \in sch.args[sch.schedule] :
           \E n \in IF op = "schedule" THEN InsertAt ELSE {-1} :
              sch' = AfterStep(Execute(Stepped, op, c, n, 0), sch.schedule)
    BY <1>5 DEF StepCommandWithScript
  <2>2. PICK n \in IF op = "schedule" THEN InsertAt ELSE {-1} :
           sch' = AfterStep(Execute(Stepped, op, c, n, 0), sch.schedule)
    BY <2>1
  <2>3. sch.schedule \in Script /\ Sound(Stepped)
    BY <1>5, SteppedType DEF StepCommandWithScript
  <2>4. c \in Script
    BY <1>0, <2>3 DEF SchedulerState
  <2>5. op \in Ops /\ n \in Int /\ op \notin {"remove_schedule", "move_schedule"}
    BY InputAssumption DEF ScriptArgOps
  <2>6. Sound(Execute(Stepped, op, c, n, 0))
    BY <2>3, <2>4, <2>5, ExecuteType DEF ScriptOrNone
  <2> QED
    BY <2>2, <2>3, <2>6, AfterStepType
<1>6. CASE AutoStart
  <2>1. PICK f \in sch.pendDir, w \in Compilations(sch) :
           sch' = Stage(Compile([sch EXCEPT !.pending = TRUE, !.pendname = f], w, f),
                        w.script)
    BY <1>6 DEF AutoStart
  <2> DEFINE A == [sch EXCEPT !.pending = TRUE, !.pendname = f]
  <2>2. f \in FileOrNone
    BY <1>0 DEF SchedulerState, FileOrNone
  <2>3. A \in SchedulerState /\ A.state = sch.state
    BY <1>0, <2>2 DEF SchedulerState
  <2>4. sch' = Stage(Compile(A, w, f), w.script)
    BY <2>1
  <2> HIDE DEF A
  <2>5. w \in Compilations(A)
    BY <2>3 DEF Compilations, Pool
  <2>6. w.script \in ScriptOrNone /\ Compile(A, w, f) \in SchedulerState
    BY <2>2, <2>3, <2>5, CompileType DEF Quiet, ScriptOrNone
  <2> QED
    BY <2>4, <2>6, StageType DEF Sound, Staged
<1>7. CASE AutoReject
  <2>1. PICK f \in sch.pendDir :
           sch' = RemovePendingFile([sch EXCEPT !.pending = TRUE, !.pendname = f])
    BY <1>7 DEF AutoReject
  <2> DEFINE A == [sch EXCEPT !.pending = TRUE, !.pendname = f]
  <2>2. f \in FileOrNone
    BY <1>0 DEF SchedulerState, FileOrNone
  <2>3. Quiet(sch, A)
    BY <1>0, <2>2 DEF Quiet, SchedulerState
  <2>4. sch' = RemovePendingFile(A)
    BY <2>1
  <2> HIDE DEF A
  <2>5. Quiet(A, sch')
    BY <2>3, <2>4, RemovePendingFileType DEF Quiet
  <2> QED
    BY <2>3, <2>5, QuietIsSound
<1>8. CASE AutoNone
  BY <1>0, <1>8 DEF AutoNone, Sound, SchedulerState
<1>9. CASE StepEnded
  BY <1>9, CompleteType DEF StepEnded
<1> QED
  BY <1>1, <1>2, <1>3, <1>4, <1>5, <1>6, <1>7, <1>8, <1>9 DEF Timeout

LEMMA MessageSound ==
  ASSUME Sound(sch), Message
  PROVE  Sound(sch')
<1>0. sch \in SchedulerState
  BY DEF Sound
<1>1. CASE CommandWithScript
  <2>1. PICK op \in InteractiveOps \cap ScriptArgOps, w \in Compilations(sch) :
           \E n \in IF op = "schedule" THEN InsertAt ELSE {-1} :
              sch' = Discard(Execute(Compile(sch, w, None), op, w.script, n, 0), w.script)
    BY <1>1 DEF CommandWithScript
  <2>2. PICK n \in IF op = "schedule" THEN InsertAt ELSE {-1} :
           sch' = Discard(Execute(Compile(sch, w, None), op, w.script, n, 0), w.script)
    BY <2>1
  <2>3. op \in Ops /\ n \in Int /\ op \notin {"remove_schedule", "move_schedule"}
    BY InputAssumption DEF ScriptArgOps
  <2> DEFINE C == Compile(sch, w, None)
             E == Execute(C, op, w.script, n, 0)
  <2>4. w.script \in Script /\ Quiet(sch, C)
    BY <1>0, CompileType DEF FileOrNone
  <2>5. sch' = Discard(E, w.script)
    BY <2>2
  <2> HIDE DEF C
  <2>6. Sound(E)
    BY <2>3, <2>4, QuietIsSound, ExecuteType DEF ScriptOrNone
  <2> HIDE DEF E
  <2> QED
    BY <2>4, <2>5, <2>6, DiscardType, QuietIsSound DEF Sound, ScriptOrNone
<1>2. CASE Command
  <2>0. PICK op \in InteractiveOps \ ScriptArgOps : \E w \in Numbers(op) :
           sch' = Execute(sch, op, None, w[1], w[2])
    BY <1>2 DEF Command
  <2>1. PICK w \in Numbers(op) : sch' = Execute(sch, op, None, w[1], w[2])
    BY <2>0
  <2>2. op \in Ops \ ScriptArgOps
    BY InputAssumption
  <2> QED
    BY <2>1, <2>2, NumbersType, ExecuteType DEF ScriptOrNone
<1>3. ASSUME NEW b \in BOOLEAN, RtcState(b)
      PROVE  Sound(sch')
  <2> DEFINE A == [sch EXCEPT !.online = b, !.awaiting = FALSE]
             S1 == Reschedule(A)
             W == [S1 EXCEPT !.awaiting = TRUE]
             i == sch.initialize
  <2>1. Quiet(sch, A)
    BY <1>0 DEF Quiet, SchedulerState
  <2>2. A.initialize = i
    BY <1>0 DEF SchedulerState
  <2>3. \/ /\ i # None
           /\ sch' = Stage(Reference(W, S1.initialize), S1.initialize)
        \/ sch' = S1
    BY <1>3 DEF RtcState
  <2> HIDE DEF A
  <2>4. Sound(S1)
    BY <2>1, QuietIsSound, RescheduleType
  <2>5. S1.initialize = A.initialize
    BY <2>1, RescheduleKeepsInitialize DEF Quiet
  <2> HIDE DEF S1
  <2>6. W \in SchedulerState
    BY <2>4 DEF Sound, SchedulerState
  <2> HIDE DEF W
  <2>7. CASE i # None /\ sch' = Stage(Reference(W, i), i)
    <3>1. i \in Script
      BY <1>0, <2>7 DEF SchedulerState, ScriptOrNone
    <3>2. Reference(W, i) \in SchedulerState
      BY <2>6, <3>1, ReferenceType DEF Quiet
    <3> QED
      BY <2>7, <3>1, <3>2, StageType DEF Sound, Staged, ScriptOrNone
  <2> QED
    BY <2>2, <2>3, <2>4, <2>5, <2>7
<1>4. ASSUME NEW b \in BOOLEAN, AutoState(b)
      PROVE  Sound(sch')
  <2>1. sch' = [sch EXCEPT !.auto = b]
    BY <1>4 DEF AutoState
  <2> QED
    BY <1>0, <2>1 DEF Sound, SchedulerState
<1>5. CASE AddClient
  BY <1>0, <1>5 DEF AddClient, Sound, SchedulerState
<1>6. CASE RemClient
  <2>1. << >> \in Seq(Script) /\ None \in ScriptOrNone
    BY EmptySeq DEF ScriptOrNone
  <2> QED
    BY <1>0, <1>6, <2>1 DEF RemClient, Sound, SchedulerState
<1> QED
  BY <1>1, <1>2, <1>3, <1>4, <1>5, <1>6 DEF Message

LEMMA WorldSound ==
  ASSUME Sound(sch), World
  PROVE  Sound(sch')
<1>0. sch \in SchedulerState
  BY DEF Sound
<1>1. CASE ClientPipe
  BY <1>0, <1>1 DEF ClientPipe, Sound, SchedulerState
<1>2. ASSUME NEW f \in File, DropFile(f) \/ WithdrawFile(f)
      PROVE  Sound(sch')
  <2>1. sch.pendDir \cup {f} \in SUBSET File /\ sch.pendDir \ {f} \in SUBSET File
    BY <1>0 DEF SchedulerState
  <2>2. CASE DropFile(f)
    BY <1>0, <2>1, <2>2 DEF DropFile, Sound, SchedulerState
  <2>3. CASE WithdrawFile(f)
    BY <1>0, <2>1, <2>3 DEF WithdrawFile, Sound, SchedulerState
  <2> QED
    BY <1>2, <2>2, <2>3
<1> QED
  BY <1>1, <1>2 DEF World

(* A step is one of the thread or of the files and pipes around it, or it  *)
(* leaves the thread as it was: the pipe of the RTC is filled or drained.  *)
LEMMA StepOfThread ==
  ASSUME [Next]_vars
  PROVE  Timeout \/ Message \/ World \/ sch' = sch
<1> QED
  BY DEF Next, RtcPipe, vars

(* The inductive invariant.                                                *)
SoundNow == Sound(sch) /\ rtcFull \in BOOLEAN

(* The state of the scheduler is sound after every handler: its fields have *)
(* their types, a suspension has a schedule to resume, and the entries of   *)
(* the queue, the pool and the running slot are containers that exist.      *)
THEOREM SoundAlways == Spec => []SoundNow
<1>1. Init => SoundNow
  BY InitSound DEF SoundNow, Init
<1>2. SoundNow /\ [Next]_vars => SoundNow'
  <2> SUFFICES ASSUME SoundNow, [Next]_vars
               PROVE  SoundNow'
    OBVIOUS
  <2>1. Sound(sch')
    BY StepOfThread, TimeoutSound, MessageSound, WorldSound DEF SoundNow
  <2>2. rtcFull' \in BOOLEAN
    BY DEF SoundNow, Next, RtcPipe, vars
  <2> QED
    BY <2>1, <2>2 DEF SoundNow
<1> QED
  BY <1>1, <1>2, PTL DEF Spec

(* The state of the thread keeps its type: every field holds what its C    *)
(* declaration allows, whatever the order of the handlers.                 *)
THEOREM TypeCorrect == Spec => []TypeOK
<1>1. SoundNow => TypeOK
  BY DEF SoundNow, Sound, TypeOK
<1> QED
  BY <1>1, SoundAlways, PTL

(* A suspension never outlives the schedule it was meant for: no handler   *)
(* ends with the thread suspended and no schedule to resume.               *)
THEOREM SuspensionEnds == Spec => []SuspendedIsRunning
<1>1. SoundNow => SuspendedIsRunning
  BY DEF SoundNow, Sound, SuspendedIsRunning
<1> QED
  BY <1>1, SoundAlways, PTL

-----------------------------------------------------------------------------
(* What insertion and deletion do to the entries of a list, and the move   *)
(* of an entry.                                                            *)

(* The entries of the lists that insertion and deletion return.            *)
LEMMA ListInsertEntries ==
  ASSUME NEW q \in Seq(Script), NEW n \in 0 .. Len(q), NEW c \in Script
  PROVE  \A i \in 1 .. Len(q) + 1 :
            ListInsert(q, n, c)[i] = IF i <= n THEN q[i]
                                     ELSE IF i = n + 1 THEN c ELSE q[i - 1]
<1> DEFINE head == SubSeq(q, 1, n)
           tail == SubSeq(q, n + 1, Len(q))
           mid  == head \o <<c>>
           all  == mid \o tail
<1>0. Len(q) \in Nat
  BY LenProperties
<1>1. /\ head \in Seq(Script) /\ Len(head) = n
      /\ \A i \in 1 .. n : head[i] = q[i]
  BY <1>0, ElementOfSeq, SubSeqProperties
<1>2. /\ tail \in Seq(Script) /\ Len(tail) = Len(q) - n
      /\ \A i \in 1 .. Len(q) - n : tail[i] = q[n + i]
  BY <1>0, ElementOfSeq, SubSeqProperties
<1> HIDE DEF head, tail
<1>3. /\ mid \in Seq(Script) /\ Len(mid) = n + 1
      /\ \A i \in 1 .. n : mid[i] = q[i]
      /\ mid[n + 1] = c
  BY <1>0, <1>1, ConcatProperties
<1> HIDE DEF mid
<1>4. \A i \in 1 .. Len(q) + 1 :
         all[i] = IF i <= n + 1 THEN mid[i] ELSE tail[i - (n + 1)]
  BY <1>0, <1>2, <1>3, ConcatProperties
<1>5. ListInsert(q, n, c) = all
  BY DEF ListInsert, all, mid, tail, head
<1> HIDE DEF all
<1> SUFFICES ASSUME NEW i \in 1 .. Len(q) + 1
             PROVE  all[i] = IF i <= n THEN q[i]
                                       ELSE IF i = n + 1 THEN c ELSE q[i - 1]
  BY <1>5
<1>6. CASE i <= n
  BY <1>0, <1>3, <1>4, <1>6
<1>7. CASE i = n + 1
  BY <1>0, <1>3, <1>4, <1>7
<1>8. CASE i > n + 1
  <2>1. i - (n + 1) \in 1 .. Len(q) - n /\ n + (i - (n + 1)) = i - 1
    BY <1>0, <1>8
  <2>2. all[i] = tail[i - (n + 1)]
    BY <1>0, <1>4, <1>8
  <2>3. tail[i - (n + 1)] = q[n + (i - (n + 1))]
    BY <1>2, <2>1
  <2> QED
    BY <1>0, <1>8, <2>1, <2>2, <2>3
<1> QED
  BY <1>0, <1>6, <1>7, <1>8

LEMMA ListDeleteEntries ==
  ASSUME NEW q \in Seq(Script), NEW n \in 0 .. Len(q) - 1
  PROVE  \A i \in 1 .. Len(q) - 1 :
            ListDelete(q, n)[i] = IF i <= n THEN q[i] ELSE q[i + 1]
<1> DEFINE head == SubSeq(q, 1, n)
           tail == SubSeq(q, n + 2, Len(q))
           all  == head \o tail
<1>0. Len(q) \in Nat
  BY LenProperties
<1>1. /\ head \in Seq(Script) /\ Len(head) = n
      /\ \A i \in 1 .. n : head[i] = q[i]
  BY <1>0, ElementOfSeq, SubSeqProperties
<1>2. /\ tail \in Seq(Script) /\ Len(tail) = Len(q) - n - 1
      /\ \A i \in 1 .. Len(q) - n - 1 : tail[i] = q[(n + 2) + i - 1]
  BY <1>0, ElementOfSeq, SubSeqProperties
<1> HIDE DEF head, tail
<1>3. \A i \in 1 .. Len(q) - 1 :
         all[i] = IF i <= n THEN head[i] ELSE tail[i - n]
  BY <1>0, <1>1, <1>2, ConcatProperties
<1>4. ListDelete(q, n) = all
  BY DEF ListDelete, all, head, tail
<1> HIDE DEF all
<1> SUFFICES ASSUME NEW i \in 1 .. Len(q) - 1
             PROVE  all[i] = IF i <= n THEN q[i] ELSE q[i + 1]
  BY <1>4
<1>5. CASE i <= n
  BY <1>0, <1>1, <1>3, <1>5
<1>6. CASE i > n
  <2>1. i - n \in 1 .. Len(q) - n - 1 /\ (n + 2) + (i - n) - 1 = i + 1
    BY <1>0, <1>6
  <2>2. all[i] = tail[i - n]
    BY <1>0, <1>3, <1>6
  <2>3. tail[i - n] = q[(n + 2) + (i - n) - 1]
    BY <1>2, <2>1
  <2> QED
    BY <1>0, <1>6, <2>1, <2>2, <2>3
<1> QED
  BY <1>0, <1>5, <1>6

(* Deletion undoes insertion.                                              *)
LEMMA DeleteInserted ==
  ASSUME NEW q \in Seq(Script), NEW n \in 0 .. Len(q), NEW c \in Script
  PROVE  ListDelete(ListInsert(q, n, c), n) = q
<1> DEFINE ins == ListInsert(q, n, c)
           del == ListDelete(ins, n)
<1>0. Len(q) \in Nat
  BY LenProperties
<1>1. /\ ins \in Seq(Script) /\ Len(ins) = Len(q) + 1
      /\ \A i \in 1 .. Len(q) + 1 :
            ins[i] = IF i <= n THEN q[i] ELSE IF i = n + 1 THEN c ELSE q[i - 1]
  BY ListInsertType, ListInsertEntries
<1> HIDE DEF ins
<1>2. n \in 0 .. Len(ins) - 1
  BY <1>0, <1>1
<1>3. /\ del \in Seq(Script) /\ Len(del) = Len(q)
      /\ \A i \in 1 .. Len(ins) - 1 : del[i] = IF i <= n THEN ins[i] ELSE ins[i + 1]
  <2>1. del \in Seq(Script) /\ Len(del) = Len(ins) - 1
    BY <1>1, <1>2, ListDeleteType
  <2>2. \A i \in 1 .. Len(ins) - 1 : del[i] = IF i <= n THEN ins[i] ELSE ins[i + 1]
    BY <1>1, <1>2, ListDeleteEntries
  <2> QED
    BY <1>0, <1>1, <2>1, <2>2
<1> HIDE DEF del
<1>4. \A i \in 1 .. Len(q) : del[i] = q[i]
  <2> SUFFICES ASSUME NEW i \in 1 .. Len(q)
               PROVE  del[i] = q[i]
    OBVIOUS
  <2>1. CASE i <= n
    BY <1>0, <1>1, <1>3, <2>1
  <2>2. CASE i > n
    <3>1. i + 1 \in 1 .. Len(q) + 1 /\ i + 1 > n + 1 /\ (i + 1) - 1 = i
      BY <1>0, <2>2
    <3>2. del[i] = ins[i + 1]
      BY <1>0, <1>1, <1>3, <2>2
    <3>3. ins[i + 1] = q[(i + 1) - 1]
      BY <1>0, <1>1, <2>2, <3>1
    <3> QED
      BY <3>1, <3>2, <3>3
  <2> QED
    BY <1>0, <2>1, <2>2
<1> QED
  BY <1>3, <1>4, SeqEqual DEF ins, del

(* To insert an entry again and delete the original is to delete it first  *)
(* and to insert it then, one place earlier when it moves to the back: what *)
(* the scheduler does to its list is what a viewer does to its copy.       *)
LEMMA MoveEitherWay ==
  ASSUME NEW q \in Seq(Script), NEW n \in 0 .. Len(q) - 1, NEW d \in 0 .. Len(q)
  PROVE  ListDelete(ListInsert(q, d, q[n + 1]), IF d <= n THEN n + 1 ELSE n)
           = ListInsert(ListDelete(q, n), IF d <= n THEN d ELSE d - 1, q[n + 1])
<1> DEFINE c   == q[n + 1]
           ins == ListInsert(q, d, c)
           k   == IF d <= n THEN n + 1 ELSE n
           l   == ListDelete(ins, k)
           del == ListDelete(q, n)
           m   == IF d <= n THEN d ELSE d - 1
           r   == ListInsert(del, m, c)
<1>0. Len(q) \in Nat /\ n + 1 \in 1 .. Len(q)
  BY LenProperties
<1>1. c \in Script
  BY <1>0, ElementOfSeq
<1> HIDE DEF c
<1>2. /\ ins \in Seq(Script) /\ Len(ins) = Len(q) + 1
      /\ \A i \in 1 .. Len(q) + 1 :
            ins[i] = IF i <= d THEN q[i] ELSE IF i = d + 1 THEN c ELSE q[i - 1]
  BY <1>1, ListInsertType, ListInsertEntries
<1> HIDE DEF ins
<1>3. k \in 0 .. Len(ins) - 1 /\ k \in Int /\ m \in Int
  BY <1>0, <1>2
<1>4. /\ l \in Seq(Script) /\ Len(l) = Len(q)
      /\ \A i \in 1 .. Len(q) : l[i] = IF i <= k THEN ins[i] ELSE ins[i + 1]
  <2> HIDE DEF k
  <2>1. /\ l \in Seq(Script) /\ Len(l) = Len(ins) - 1
        /\ \A i \in 1 .. Len(ins) - 1 : l[i] = IF i <= k THEN ins[i] ELSE ins[i + 1]
    BY <1>2, <1>3, ListDeleteType, ListDeleteEntries
  <2>2. Len(ins) - 1 = Len(q)
    BY <1>0, <1>2
  <2> QED
    BY <2>1, <2>2
<1>5. /\ del \in Seq(Script) /\ Len(del) = Len(q) - 1
      /\ \A i \in 1 .. Len(q) - 1 : del[i] = IF i <= n THEN q[i] ELSE q[i + 1]
  BY ListDeleteType, ListDeleteEntries
<1> HIDE DEF del
<1>6. m \in 0 .. Len(del)
  BY <1>0, <1>5
<1>7. /\ r \in Seq(Script) /\ Len(r) = Len(q)
      /\ \A i \in 1 .. Len(q) :
            r[i] = IF i <= m THEN del[i] ELSE IF i = m + 1 THEN c ELSE del[i - 1]
  <2> HIDE DEF m
  <2>1. /\ r \in Seq(Script) /\ Len(r) = Len(del) + 1
        /\ \A i \in 1 .. Len(del) + 1 :
              r[i] = IF i <= m THEN del[i] ELSE IF i = m + 1 THEN c ELSE del[i - 1]
    BY <1>1, <1>5, <1>6, ListInsertType, ListInsertEntries
  <2>2. Len(del) + 1 = Len(q)
    BY <1>0, <1>5
  <2> QED
    BY <2>1, <2>2
<1> HIDE DEF l, r
<1>8. ASSUME NEW i \in 1 .. Len(q)
      PROVE  l[i] = r[i]
  <2>0. q[n + 1] = c
    BY DEF c
  <2>1. CASE d <= n
    <3>1. l[i] = IF i <= d THEN q[i] ELSE IF i = d + 1 THEN c
                 ELSE IF i <= n + 1 THEN q[i - 1] ELSE q[i]
      <4>1. CASE i <= n + 1
        BY <1>0, <1>2, <1>4, <2>1, <4>1
      <4>2. CASE i > n + 1
        <5>1. i + 1 \in 1 .. Len(q) + 1 /\ i + 1 > d + 1 /\ (i + 1) - 1 = i
          BY <1>0, <2>1, <4>2
        <5>2. ins[i + 1] = q[i]
          BY <1>0, <1>2, <5>1
        <5>3. l[i] = ins[i + 1]
          BY <1>0, <1>4, <2>1, <4>2
        <5> QED
          BY <1>0, <2>1, <4>2, <5>2, <5>3
      <4> QED
        BY <1>0, <4>1, <4>2
    <3>2. r[i] = IF i <= d THEN del[i] ELSE IF i = d + 1 THEN c ELSE del[i - 1]
      BY <1>7, <2>1
    <3>3. CASE i <= d
      <4>1. i \in 1 .. Len(q) - 1 /\ i <= n
        BY <1>0, <2>1, <3>3
      <4>2. del[i] = q[i]
        BY <1>5, <4>1
      <4> QED
        BY <3>1, <3>2, <3>3, <4>2
    <3>4. CASE i = d + 1
      BY <1>0, <3>1, <3>2, <3>4
    <3>5. CASE i > d + 1
      <4>1. i - 1 \in 1 .. Len(q) - 1 /\ (i - 1) + 1 = i
        BY <1>0, <3>5
      <4>2. del[i - 1] = IF i - 1 <= n THEN q[i - 1] ELSE q[(i - 1) + 1]
        BY <1>5, <4>1
      <4> QED
        BY <1>0, <3>1, <3>2, <3>5, <4>1, <4>2
    <3> QED
      BY <1>0, <3>3, <3>4, <3>5
  <2>2. CASE d > n
    <3>1. l[i] = IF i <= n THEN q[i] ELSE IF i + 1 <= d THEN q[i + 1]
                 ELSE IF i + 1 = d + 1 THEN c ELSE q[i]
      <4>1. CASE i <= n
        BY <1>0, <1>2, <1>4, <2>2, <4>1
      <4>2. CASE i > n
        <5>1. i + 1 \in 1 .. Len(q) + 1 /\ (i + 1) - 1 = i
          BY <1>0, <2>2, <4>2
        <5>2. ins[i + 1] = IF i + 1 <= d THEN q[i + 1]
                           ELSE IF i + 1 = d + 1 THEN c ELSE q[(i + 1) - 1]
          BY <1>2, <5>1
        <5>3. l[i] = ins[i + 1]
          BY <1>0, <1>4, <2>2, <4>2
        <5> QED
          BY <1>0, <2>2, <4>2, <5>1, <5>2, <5>3
      <4> QED
        BY <1>0, <4>1, <4>2
    <3>2. r[i] = IF i <= d - 1 THEN del[i] ELSE IF i = d THEN c ELSE del[i - 1]
      BY <1>0, <1>7, <2>2
    <3>3. CASE i <= d - 1
      <4>1. i \in 1 .. Len(q) - 1
        BY <1>0, <3>3
      <4> QED
        BY <1>0, <1>5, <2>2, <3>1, <3>2, <3>3, <4>1
    <3>4. CASE i = d
      BY <1>0, <2>2, <3>1, <3>2, <3>4
    <3>5. CASE i > d
      <4>1. i - 1 \in 1 .. Len(q) - 1 /\ (i - 1) + 1 = i /\ i > 0
        BY <1>0, <2>2, <3>5
      <4>2. del[i - 1] = IF i - 1 <= n THEN q[i - 1] ELSE q[(i - 1) + 1]
        BY <1>5, <4>1
      <4> QED
        BY <1>0, <2>2, <3>1, <3>2, <3>5, <4>1, <4>2
    <3> QED
      BY <1>0, <3>3, <3>4, <3>5
  <2> QED
    BY <1>0, <2>1, <2>2
<1> QED
  BY <1>4, <1>7, <1>8, SeqEqual DEF ins, l, del, r, c, k, m
(* The head, the end and the front of a list as entries of it.             *)
LEMMA TailIsDelete ==
  ASSUME NEW q \in Seq(Script), q # << >>
  PROVE  /\ 0 \in 0 .. Len(q) - 1
         /\ Head(q) = q[1]
         /\ Tail(q) = ListDelete(q, 0)
<1> DEFINE t == Tail(q)
           l == ListDelete(q, 0)
<1>0. Len(q) \in Nat /\ Len(q) # 0
  BY LenProperties, EmptySeq
<1>1. 0 \in 0 .. Len(q) - 1
  BY <1>0
<1>2. /\ t \in Seq(Script) /\ Len(t) = Len(q) - 1
      /\ \A i \in 1 .. Len(q) - 1 : t[i] = q[i + 1]
  BY <1>0, HeadTailProperties
<1>3. l \in Seq(Script) /\ Len(l) = Len(q) - 1
  BY <1>1, ListDeleteType
<1>4. \A i \in 1 .. Len(q) - 1 : l[i] = IF i <= 0 THEN q[i] ELSE q[i + 1]
  BY <1>1, ListDeleteEntries
<1> HIDE DEF t, l
<1>5. \A i \in 1 .. Len(t) : t[i] = l[i]
  BY <1>0, <1>2, <1>4
<1>6. t = l
  BY <1>2, <1>3, <1>5, SeqEqual
<1> QED
  BY <1>1, <1>6, HeadTailProperties DEF t, l

LEMMA AppendIsInsert ==
  ASSUME NEW q \in Seq(Script), NEW c \in Script
  PROVE  Append(q, c) = ListInsert(q, Len(q), c)
<1> DEFINE a == Append(q, c)
           l == ListInsert(q, Len(q), c)
<1>0. Len(q) \in Nat /\ Len(q) \in 0 .. Len(q)
  BY LenProperties
<1>1. /\ a \in Seq(Script) /\ Len(a) = Len(q) + 1
      /\ \A i \in 1 .. Len(q) : a[i] = q[i]
      /\ a[Len(q) + 1] = c
  BY AppendProperties
<1>2. l \in Seq(Script) /\ Len(l) = Len(q) + 1
  BY <1>0, ListInsertType
<1>3. \A i \in 1 .. Len(q) + 1 :
         l[i] = IF i <= Len(q) THEN q[i] ELSE IF i = Len(q) + 1 THEN c ELSE q[i - 1]
  BY <1>0, ListInsertEntries
<1> HIDE DEF a, l
<1>4. \A i \in 1 .. Len(a) : a[i] = l[i]
  BY <1>0, <1>1, <1>3
<1> QED
  BY <1>1, <1>2, <1>4, SeqEqual DEF a, l

LEMMA FrontIsInsert ==
  ASSUME NEW q \in Seq(Script), NEW c \in Script
  PROVE  <<c>> \o q = ListInsert(q, 0, c)
<1> DEFINE a == <<c>> \o q
           l == ListInsert(q, 0, c)
<1>0. Len(q) \in Nat /\ 0 \in 0 .. Len(q)
  BY LenProperties
<1>1. <<c>> \in Seq(Script) /\ Len(<<c>>) = 1 /\ <<c>>[1] = c
  OBVIOUS
<1>2. /\ a \in Seq(Script) /\ Len(a) = 1 + Len(q)
      /\ \A i \in 1 .. 1 + Len(q) : a[i] = IF i <= 1 THEN <<c>>[i] ELSE q[i - 1]
  BY <1>1, ConcatProperties
<1>3. l \in Seq(Script) /\ Len(l) = Len(q) + 1
  BY <1>0, ListInsertType
<1>4. \A i \in 1 .. Len(q) + 1 :
         l[i] = IF i <= 0 THEN q[i] ELSE IF i = 0 + 1 THEN c ELSE q[i - 1]
  BY <1>0, ListInsertEntries
<1> HIDE DEF a, l
<1>5. \A i \in 1 .. Len(a) : a[i] = l[i]
  BY <1>0, <1>1, <1>2, <1>4
<1>6. Len(a) = Len(l)
  BY <1>0, <1>2, <1>3
<1> QED
  BY <1>2, <1>3, <1>5, <1>6, SeqEqual DEF a, l

-----------------------------------------------------------------------------
(* The viewers. They are told what changed, never the whole queue, so each *)
(* report must do to their copy what the scheduler did to its list.        *)

(* What a viewer shows of state S is right: of its queue, and of all of it. *)
Followed(S)  == S.client # "none" /\ ~S.stale
QueueSeen(S) == Followed(S) => S.viewQueue = S.queue
AllSeen(S)   == Followed(S) => S.viewRun = S.schedule /\ S.viewQueue = S.queue

(* T has the viewer of S and the schedules that it follows.                *)
SameView(S, T) == /\ T.client = S.client /\ T.stale = S.stale
                  /\ T.viewRun = S.viewRun /\ T.viewQueue = S.viewQueue
                  /\ T.schedule = S.schedule /\ T.queue = S.queue

LEMMA SameViewSeen ==
  ASSUME NEW S, NEW T, SameView(S, T)
  PROVE  /\ QueueSeen(S) => QueueSeen(T)
         /\ AllSeen(S) => AllSeen(T)
<1> QED
  BY DEF SameView, QueueSeen, AllSeen, Followed

(* A report that arrives is what the viewer shows; one that does not is    *)
(* known to be missing.                                                    *)
LEMMA ReportSeen ==
  ASSUME NEW S \in SchedulerState, NEW r, NEW q
  PROVE  /\ Followed(Report(S, r, q)) =>
              /\ Followed(S)
              /\ Report(S, r, q).viewRun = r
              /\ Report(S, r, q).viewQueue = q
         /\ Report(S, r, q).queue = S.queue
         /\ Report(S, r, q).schedule = S.schedule
<1>1. S.client \in {"none", "open", "full"} /\ S.stale \in BOOLEAN
  BY DEF SchedulerState
<1>2. CASE S.client = "full"
  <2>1. Report(S, r, q) = [S EXCEPT !.stale = TRUE, !.viewRun = None, !.viewQueue = << >>]
    BY <1>2 DEF Report, Mislead
  <2> QED
    BY <2>1 DEF Followed, SchedulerState
<1>3. CASE S.client = "none" \/ (S.client # "full" /\ S.stale)
  <2>1. Report(S, r, q) = S
    BY <1>3 DEF Report
  <2> QED
    BY <1>3, <2>1 DEF Followed
<1>4. CASE S.client = "open" /\ ~S.stale
  <2>1. Report(S, r, q) = [S EXCEPT !.viewRun = r, !.viewQueue = q]
    BY <1>4 DEF Report
  <2> QED
    BY <1>4, <2>1 DEF Followed, SchedulerState
<1> QED
  BY <1>1, <1>2, <1>3, <1>4

LEMMA RewindSeen ==
  ASSUME NEW S \in SchedulerState, NEW c
  PROVE  SameView(S, Rewind(S, c))
<1> QED
  BY DEF Rewind, SameView, SchedulerState

LEMMA UnreferenceSeen ==
  ASSUME NEW S \in SchedulerState, NEW K
  PROVE  SameView(S, Unreference(S, K))
<1> QED
  BY DEF Unreference, SameView, SchedulerState

LEMMA DiscardSeen ==
  ASSUME NEW S \in SchedulerState, NEW c \in ScriptOrNone
  PROVE  SameView(S, Discard(S, c))
<1>1. CASE c = None
  BY <1>1 DEF Discard, SameView
<1>2. CASE c # None
  <2> DEFINE U == Unreference(S, {c})
             K == IF S.ref[c] = 1 THEN S.args[c] ELSE {}
  <2>1. c \in Script
    BY <1>2 DEF ScriptOrNone
  <2>2. U \in SchedulerState /\ SameView(S, U)
    BY <2>1, UnreferenceType, UnreferenceSeen DEF Quiet
  <2>3. Discard(S, c) = Unreference(U, K)
    BY <1>2 DEF Discard
  <2> HIDE DEF U, K
  <2>4. SameView(U, Unreference(U, K))
    BY <2>2, UnreferenceSeen
  <2> QED
    BY <2>2, <2>3, <2>4 DEF SameView
<1> QED
  BY <1>1, <1>2

LEMMA CompileSeen ==
  ASSUME NEW S \in SchedulerState, NEW w, NEW f
  PROVE  SameView(S, Compile(S, w, f))
<1> QED
  BY DEF Compile, SameView, SchedulerState

LEMMA SmallSeen ==
  ASSUME NEW S \in SchedulerState, NEW c
  PROVE  /\ SameView(S, Reference(S, c))
         /\ SameView(S, ExitScript(S, c))
         /\ SameView(S, RemovePendingFile(S))
         /\ SameView(S, ReportInitEnded(S))
         /\ SameView(S, ResumeSchedule(S))
         /\ SameView(S, SuspendSchedule(S))
<1>1. SameView(S, Reference(S, c))
  BY DEF Reference, SameView, SchedulerState
<1>2. SameView(S, ExitScript(S, c))
  BY DEF ExitScript, SameView, SchedulerState
<1>3. SameView(S, RemovePendingFile(S))
  BY DEF RemovePendingFile, SameView, SchedulerState
<1>4. SameView(S, ReportInitEnded(S))
  BY DEF ReportInitEnded, SameView, SchedulerState
<1>5. SameView(S, ResumeSchedule(S)) /\ SameView(S, SuspendSchedule(S))
  BY DEF ResumeSchedule, SuspendSchedule, SameView, SchedulerState
<1> QED
  BY <1>1, <1>2, <1>3, <1>4, <1>5

-----------------------------------------------------------------------------
(* The report of what runs brings the viewer up to date, whatever it       *)
(* showed as running before.                                               *)
LEMMA StageSeen ==
  ASSUME NEW S \in SchedulerState, NEW c \in ScriptOrNone, QueueSeen(S)
  PROVE  AllSeen(Stage(S, c))
<1> DEFINE T == IF c = None THEN S ELSE Rewind(S, c)
           U == Report(T, c, T.viewQueue)
           V == [U EXCEPT !.schedule = c]
           W == ResumeSchedule(V)
<1>1. T \in SchedulerState
  BY RewindType DEF Quiet, ScriptOrNone
<1>2. QueueSeen(T)
  <2>1. SameView(S, Rewind(S, c)) /\ SameView(S, S)
    BY RewindSeen DEF SameView
  <2>2. SameView(S, T)
    BY <2>1
  <2> HIDE DEF T
  <2> QED
    BY <2>2, SameViewSeen
<1>3. Stage(S, c) = W
  BY DEF Stage, ReportRun
<1> HIDE DEF T
<1>4. /\ Followed(U) => Followed(T) /\ U.viewRun = c /\ U.viewQueue = T.viewQueue
      /\ U.queue = T.queue
  BY <1>1, ReportSeen
<1>5. U \in SchedulerState
  <2>1. T.viewQueue \in Seq(Script)
    BY <1>1 DEF SchedulerState
  <2> QED
    BY <1>1, <2>1, ReportType DEF Quiet
<1> HIDE DEF U
<1>6. V \in SchedulerState
  BY <1>5 DEF SchedulerState
<1>7. AllSeen(V)
  BY <1>2, <1>4, <1>5 DEF QueueSeen, AllSeen, Followed, SchedulerState
<1> HIDE DEF V
<1> QED
  BY <1>3, <1>6, <1>7, SmallSeen, SameViewSeen

LEMMA ReportRmSeen ==
  ASSUME NEW S \in SchedulerState, NEW q \in Seq(Script), NEW n \in 0 .. Len(q) - 1,
         Followed(S) => S.viewQueue = q, S.queue = q
  PROVE  /\ QueueSeen([ReportRm(S, n) EXCEPT !.queue = ListDelete(q, n)])
         /\ Followed(ReportRm(S, n)) =>
              /\ Followed(S)
              /\ ReportRm(S, n).viewRun = S.viewRun
              /\ ReportRm(S, n).viewQueue = ListDelete(q, n)
         /\ ReportRm(S, n).schedule = S.schedule
         /\ ReportRm(S, n).queue = S.queue
<1> DEFINE t == IF n >= Len(S.viewQueue) THEN S.viewQueue ELSE ListDelete(S.viewQueue, n)
           R == ReportRm(S, n)
<1>0. Len(q) \in Nat
  BY LenProperties
<1>1. R = Report(S, S.viewRun, t)
  BY DEF ReportRm
<1>2. /\ Followed(R) => Followed(S) /\ R.viewRun = S.viewRun /\ R.viewQueue = t
      /\ R.queue = S.queue /\ R.schedule = S.schedule
  <2> HIDE DEF t
  <2> QED
    BY <1>1, ReportSeen
<1>3. Followed(S) => t = ListDelete(q, n)
  BY <1>0
<1> HIDE DEF t
<1>4. R \in SchedulerState
  BY <1>0, ReportRmType DEF Quiet
<1> HIDE DEF R
<1>5. QueueSeen([R EXCEPT !.queue = ListDelete(q, n)])
  BY <1>2, <1>3, <1>4 DEF QueueSeen, Followed, SchedulerState
<1> QED
  BY <1>2, <1>3, <1>5 DEF R

LEMMA StartNextSeen ==
  ASSUME NEW S \in SchedulerState, QueueSeen(S)
  PROVE  AllSeen(StartNext(S))
<1> DEFINE R  == ReportInitEnded(S)
           D  == Discard(R, S.schedule)
           S1 == [D EXCEPT !.schedule = None]
           S2 == IF S1.pending THEN RemovePendingFile(S1) ELSE S1
           S3 == [ReportRm(S2, 0) EXCEPT !.queue = Tail(S2.queue)]
<1>1. S.schedule \in ScriptOrNone /\ None \in ScriptOrNone
  BY DEF SchedulerState, ScriptOrNone
<1>2. R \in SchedulerState /\ QueueSeen(R)
  BY ReportInitEndedType, SmallSeen, SameViewSeen DEF Quiet
<1> HIDE DEF R
<1>3. D \in SchedulerState /\ QueueSeen(D)
  BY <1>1, <1>2, DiscardType, DiscardSeen, SameViewSeen DEF Quiet
<1> HIDE DEF D
<1>4. S1 \in SchedulerState /\ QueueSeen(S1)
  BY <1>1, <1>3 DEF SchedulerState, QueueSeen, Followed
<1> HIDE DEF S1
<1>5. S2 \in SchedulerState /\ QueueSeen(S2)
  BY <1>4, RemovePendingFileType, SmallSeen, SameViewSeen DEF Quiet
<1> HIDE DEF S2
<1>6. StartNext(S) = IF S2.queue = << >> THEN Stage(S2, None)
                     ELSE Stage(S3, Head(S2.queue))
  BY DEF StartNext, R, D, S1, S2
<1>7. CASE S2.queue = << >>
  BY <1>1, <1>5, <1>6, <1>7, StageSeen
<1>8. CASE S2.queue # << >>
  <2>1. S2.queue \in Seq(Script)
    BY <1>5 DEF SchedulerState
  <2>2. Head(S2.queue) \in Script /\ Tail(S2.queue) \in Seq(Script)
    BY <1>8, <2>1, HeadTailProperties
  <2>3. ReportRm(S2, 0) \in SchedulerState
    BY <1>5, ReportRmType DEF Quiet
  <2>4. S3 \in SchedulerState
    BY <2>2, <2>3 DEF SchedulerState
  <2>5. 0 \in 0 .. Len(S2.queue) - 1
    BY <1>8, <2>1, EmptySeq, LenProperties
  <2>6. ListDelete(S2.queue, 0) = Tail(S2.queue)
    BY <1>8, <2>1, TailIsDelete
  <2>7. Followed(S2) => S2.viewQueue = S2.queue
    BY <1>5 DEF QueueSeen
  <2>8. QueueSeen(S3)
    BY <1>5, <2>1, <2>5, <2>6, <2>7, ReportRmSeen
  <2> HIDE DEF S3
  <2> QED
    BY <1>6, <1>8, <2>2, <2>4, <2>8, StageSeen DEF ScriptOrNone
<1> QED
  BY <1>7, <1>8

LEMMA NextScheduleSeen ==
  ASSUME NEW S \in SchedulerState, AllSeen(S)
  PROVE  AllSeen(NextSchedule(S))
<1>1. QueueSeen(S)
  BY DEF AllSeen, QueueSeen
<1> QED
  BY <1>1, StartNextSeen DEF NextSchedule

-----------------------------------------------------------------------------
(* The operators that report to the viewers, one lemma each.               *)

(* The move that the scheduler reports is the one it made: cut off at the  *)
(* ends of the queue, and counted without the original.                    *)
LEMMA MoveScheduleSeen ==
  ASSUME NEW S \in SchedulerState, NEW n \in Nat, NEW dn \in Int, AllSeen(S)
  PROVE  AllSeen(MoveSchedule(S, n, dn))
<1> DEFINE q   == S.queue
           len == Len(q)
           up  == IF dn >= 0 THEN 1 ELSE 0
           dst == Clamp(n + dn + up, 0, len)
           new == IF n + dn < 0 THEN 0 ELSE IF n + dn + up > len THEN dst - 1 ELSE n + dn
           l   == ListDelete(ListInsert(q, dst, q[n + 1]), IF dst <= n THEN n + 1 ELSE n)
           T   == [S EXCEPT !.queue = l]
           v   == IF n >= Len(T.viewQueue) \/ new \notin 0 .. Len(T.viewQueue) - 1
                  THEN T.viewQueue
                  ELSE ListInsert(ListDelete(T.viewQueue, n), new, T.viewQueue[n + 1])
<1>1. q \in Seq(Script) /\ len \in Nat
  BY LenProperties DEF SchedulerState
<1>2. CASE n >= len
  BY <1>2 DEF MoveSchedule
<1>3. CASE ~(n >= len)
  <2>1. n \in 0 .. len - 1 /\ dst \in 0 .. len
    BY <1>1, <1>3 DEF Clamp
  <2>2. /\ new = IF dst <= n THEN dst ELSE dst - 1
        /\ new \in 0 .. len - 1
    BY <1>1, <1>3 DEF Clamp
  <2>3. MoveSchedule(S, n, dn) = ReportMv(T, n, new)
    BY <1>3 DEF MoveSchedule
  <2> HIDE DEF dst, new
  <2>4. l = ListInsert(ListDelete(q, n), new, q[n + 1])
    BY <1>1, <2>1, <2>2, MoveEitherWay
  <2>5. n + 1 \in 1 .. len /\ q[n + 1] \in Script
    BY <1>1, <2>1, ElementOfSeq
  <2>6. /\ ListDelete(q, n) \in Seq(Script)
        /\ new \in 0 .. Len(ListDelete(q, n))
    BY <1>1, <2>1, <2>2, ListDeleteType
  <2>7. l \in Seq(Script)
    BY <2>4, <2>5, <2>6, ListInsertType
  <2> HIDE DEF l
  <2>8. /\ T \in SchedulerState /\ T.queue = l /\ T.schedule = S.schedule
        /\ T.viewQueue = S.viewQueue /\ T.viewRun = S.viewRun
        /\ Followed(T) <=> Followed(S)
    BY <2>7 DEF SchedulerState, Followed
  <2>9. Followed(T) => v = l
    BY <1>1, <2>1, <2>2, <2>4, <2>8 DEF AllSeen
  <2>10. ReportMv(T, n, new) = Report(T, T.viewRun, v)
    BY DEF ReportMv
  <2> HIDE DEF T, v
  <2>11. AllSeen(Report(T, T.viewRun, v))
    BY <2>8, <2>9, ReportSeen DEF AllSeen
  <2> QED
    BY <2>3, <2>10, <2>11
<1> QED
  BY <1>2, <1>3

LEMMA RemoveScheduleSeen ==
  ASSUME NEW S \in SchedulerState, NEW n \in Nat, AllSeen(S)
  PROVE  AllSeen(RemoveSchedule(S, n))
<1> DEFINE q == S.queue
           T == [S EXCEPT !.queue = ListDelete(q, n)]
           c == q[n + 1]
           D == Discard(T, c)
           t == IF n >= Len(D.viewQueue) THEN D.viewQueue ELSE ListDelete(D.viewQueue, n)
<1>1. q \in Seq(Script) /\ Len(q) \in Nat
  BY LenProperties DEF SchedulerState
<1>2. CASE n >= Len(q)
  BY <1>2 DEF RemoveSchedule
<1>3. CASE ~(n >= Len(q))
  <2>1. n \in 0 .. Len(q) - 1 /\ n + 1 \in 1 .. Len(q)
    BY <1>1, <1>3
  <2>2. c \in ScriptOrNone
    BY <1>1, <2>1, ElementOfSeq DEF ScriptOrNone
  <2>3. ListDelete(q, n) \in Seq(Script)
    BY <1>1, <2>1, ListDeleteType
  <2>4. /\ T \in SchedulerState /\ T.queue = ListDelete(q, n)
        /\ T.schedule = S.schedule /\ T.viewRun = S.viewRun /\ T.viewQueue = S.viewQueue
        /\ Followed(T) <=> Followed(S)
    BY <2>3 DEF SchedulerState, Followed
  <2>5. RemoveSchedule(S, n) = Report(D, D.viewRun, t)
    BY <1>3 DEF RemoveSchedule, ReportRm
  <2> HIDE DEF T, c
  <2>6. D \in SchedulerState /\ SameView(T, D)
    BY <2>2, <2>4, DiscardType, DiscardSeen DEF Quiet
  <2> HIDE DEF D
  <2>7. Followed(D) => /\ t = D.queue
                       /\ D.viewRun = D.schedule
    BY <1>1, <2>1, <2>4, <2>6 DEF AllSeen, SameView, Followed
  <2> HIDE DEF t
  <2>8. AllSeen(Report(D, D.viewRun, t))
    BY <2>6, <2>7, ReportSeen DEF AllSeen
  <2> QED
    BY <2>5, <2>8
<1> QED
  BY <1>2, <1>3

LEMMA QueueScheduleSeen ==
  ASSUME NEW S, Sound(S), NEW c \in Script, NEW n \in Int, AllSeen(S)
  PROVE  AllSeen(QueueSchedule(S, c, n))
<1> DEFINE v  == Append(S.viewQueue, c)
           A  == Report(S, S.viewRun, v)
           B  == [A EXCEPT !.queue = Append(S.queue, c)]
           S1 == Reference(B, c)
           S2 == IF n < 0 THEN S1 ELSE MoveSchedule(S1, Len(S.queue), n - Len(S.queue))
<1>1. /\ S \in SchedulerState
      /\ S.queue \in Seq(Script) /\ Len(S.queue) \in Nat
      /\ S.viewRun \in ScriptOrNone /\ S.viewQueue \in Seq(Script)
  BY LenProperties DEF Sound, SchedulerState
<1>2. Append(S.queue, c) \in Seq(Script) /\ v \in Seq(Script)
  BY <1>1
<1>3. Followed(S) => v = Append(S.queue, c)
  BY DEF AllSeen
<1>4. QueueSchedule(S, c, n) = IF S2.schedule = None THEN NextSchedule(S2) ELSE S2
  BY DEF QueueSchedule, ReportAdd
<1> HIDE DEF v
<1>5. A \in SchedulerState
  BY <1>1, <1>2, ReportType DEF Quiet
<1>6. /\ Followed(A) => Followed(S) /\ A.viewRun = S.viewRun /\ A.viewQueue = v
      /\ A.schedule = S.schedule
  BY <1>1, ReportSeen
<1> HIDE DEF A
<1>7. B \in SchedulerState
  BY <1>2, <1>5 DEF SchedulerState
<1>8. AllSeen(B)
  BY <1>3, <1>5, <1>6 DEF AllSeen, Followed, SchedulerState
<1> HIDE DEF B
<1>9. S1 \in SchedulerState /\ AllSeen(S1)
  BY <1>7, <1>8, ReferenceType, SmallSeen, SameViewSeen DEF Quiet
<1> HIDE DEF S1
<1>10. n - Len(S.queue) \in Int
  BY <1>1
<1>11. S2 \in SchedulerState /\ AllSeen(S2)
  BY <1>1, <1>9, <1>10, MoveScheduleType, MoveScheduleSeen DEF Quiet
<1> HIDE DEF S2
<1> QED
  BY <1>4, <1>11, NextScheduleSeen

LEMMA AbortScheduleSeen ==
  ASSUME NEW S \in SchedulerState, AllSeen(S)
  PROVE  AllSeen(AbortSchedule(S))
<1> DEFINE c == S.schedule
           A == [S EXCEPT !.auto = @ /\ ~S.pending, !.pending = FALSE, !.src[c] = None]
           S1 == ExitScript(A, c)
<1>2. CASE c = None
  BY <1>2 DEF AbortSchedule
<1>3. CASE c # None
  <2>1. c \in Script
    BY <1>3 DEF SchedulerState, ScriptOrNone
  <2>2. [S.src EXCEPT ![c] = None] \in [Script -> FileOrNone]
    BY DEF SchedulerState, FileOrNone
  <2>3. (S.auto /\ ~S.pending) \in BOOLEAN
    OBVIOUS
  <2>4. A \in SchedulerState /\ SameView(S, A)
    BY <2>2, <2>3 DEF SameView, SchedulerState
  <2>5. AbortSchedule(S) = IF S1.state[c] = "EXITING" THEN S1 ELSE NextSchedule(S1)
    BY <1>3 DEF AbortSchedule
  <2> HIDE DEF A
  <2>6. S1 \in SchedulerState /\ AllSeen(S1)
    BY <2>1, <2>4, ExitScriptType, SmallSeen, SameViewSeen DEF Quiet
  <2> HIDE DEF S1
  <2> QED
    BY <2>5, <2>6, NextScheduleSeen
<1> QED
  BY <1>2, <1>3

LEMMA ChangeInitScriptSeen ==
  ASSUME NEW S \in SchedulerState, NEW c \in Script, AllSeen(S)
  PROVE  AllSeen(ChangeInitScript(S, c))
<1> DEFINE D == Discard(S, S.initialize)
           T == [D EXCEPT !.initialize = c]
<1>1. S.initialize \in ScriptOrNone
  BY DEF SchedulerState
<1>2. D \in SchedulerState /\ AllSeen(D)
  BY <1>1, DiscardType, DiscardSeen, SameViewSeen DEF Quiet
<1> HIDE DEF D
<1>3. T \in SchedulerState /\ AllSeen(T)
  BY <1>2 DEF SchedulerState, ScriptOrNone, AllSeen, Followed
<1> HIDE DEF T
<1>4. AllSeen(Reference(T, c))
  BY <1>3, SmallSeen, SameViewSeen
<1> QED
  BY <1>4 DEF ChangeInitScript, D, T

(* The queue that a rescheduling changes is not reported: a viewer is      *)
(* then known not to follow.                                               *)
LEMMA RescheduleSeen ==
  ASSUME NEW S \in SchedulerState, AllSeen(S)
  PROVE  AllSeen(Reschedule(S))
<1> DEFINE c  == S.schedule
           S1 == Rewind(S, c)
           N  == Mislead(S1)
           M  == [N EXCEPT !.queue = <<c>> \o @]
           S2 == IF c = S.initialize THEN S1 ELSE M
<1>1. CASE c = None
  BY <1>1 DEF Reschedule
<1>2. CASE c # None
  <2>1. c \in Script
    BY <1>2 DEF SchedulerState, ScriptOrNone
  <2>2. S1 \in SchedulerState /\ AllSeen(S1)
    BY <2>1, RewindType, RewindSeen, SameViewSeen DEF Quiet
  <2>3. Reschedule(S) = IF S.online THEN S1 ELSE Stage(S2, None)
    BY <1>2 DEF Reschedule
  <2> HIDE DEF S1
  <2>4. N \in SchedulerState /\ ~Followed(N)
    <3>1. N \in SchedulerState
      BY <2>2, MisleadType DEF Quiet
    <3>2. ~Followed(N)
      BY <2>2 DEF Mislead, Followed, SchedulerState
    <3> QED
      BY <3>1, <3>2
  <2> HIDE DEF N
  <2>5. M \in SchedulerState /\ QueueSeen(M)
    <3>1. <<c>> \o N.queue \in Seq(Script)
      BY <2>1, <2>4, ConcatProperties DEF SchedulerState
    <3> QED
      BY <2>4, <3>1 DEF SchedulerState, Followed, QueueSeen
  <2> HIDE DEF M
  <2>6. S2 \in SchedulerState /\ QueueSeen(S2)
    BY <2>2, <2>5 DEF AllSeen, QueueSeen
  <2> HIDE DEF S2
  <2> QED
    BY <2>2, <2>3, <2>6, StageSeen DEF ScriptOrNone
<1> QED
  BY <1>1, <1>2

LEMMA ExecuteSeen ==
  ASSUME NEW S, Sound(S), NEW op \in Ops, NEW c \in ScriptOrNone,
         NEW n \in Int, NEW dn \in Int,
         op \in ScriptArgOps => c \in Script,
         op \in {"remove_schedule", "move_schedule"} => n \in Nat,
         AllSeen(S)
  PROVE  AllSeen(Execute(S, op, c, n, dn))
<1>0. S \in SchedulerState
  BY DEF Sound
<1>1. CASE op = "schedule"
  BY <1>1, QueueScheduleSeen DEF Execute, ScriptArgOps
<1>2. CASE op = "load_reboot_script"
  BY <1>0, <1>2, ChangeInitScriptSeen DEF Execute, ScriptArgOps
<1>3. CASE op = "abort_schedule"
  BY <1>0, <1>3, AbortScheduleSeen DEF Execute
<1>4. CASE op = "suspend_schedule"
  BY <1>0, <1>4, SmallSeen, SameViewSeen DEF Execute
<1>5. CASE op = "resume_schedule"
  BY <1>0, <1>5, SmallSeen, SameViewSeen DEF Execute
<1>6. CASE op = "remove_schedule"
  BY <1>0, <1>6, RemoveScheduleSeen DEF Execute
<1>7. CASE op = "move_schedule"
  BY <1>0, <1>7, MoveScheduleSeen DEF Execute
<1> QED
  BY <1>1, <1>2, <1>3, <1>4, <1>5, <1>6, <1>7 DEF Ops

LEMMA CompleteSeen ==
  ASSUME NEW S \in SchedulerState, AllSeen(S)
  PROVE  AllSeen(Complete(S))
<1> DEFINE D == Discard(S, S.startup)
           T == [D EXCEPT !.initializing = FALSE, !.startup = None, !.listening = TRUE]
<1>1. D \in SchedulerState /\ AllSeen(D)
  BY DiscardType, DiscardSeen, SameViewSeen DEF Quiet, SchedulerState
<1>2. Complete(S) = NextSchedule(IF ~S.initializing THEN S ELSE T)
  BY DEF Complete
<1> HIDE DEF D
<1>3. T \in SchedulerState /\ SameView(D, T)
  BY <1>1 DEF SchedulerState, ScriptOrNone, SameView
<1>4. AllSeen(T)
  BY <1>1, <1>3, SameViewSeen
<1> HIDE DEF T
<1> QED
  BY <1>2, <1>3, <1>4, NextScheduleSeen

LEMMA AfterStepSeen ==
  ASSUME NEW S, Sound(S), NEW c, AllSeen(S)
  PROVE  AllSeen(AfterStep(S, c))
<1> QED
  BY CompleteSeen DEF AfterStep, Sound

(* The state in which the statement at hand executes: only the counter of  *)
(* the statements differs.                                                 *)
LEMMA SteppedIs ==
  ASSUME Sound(sch), HasStatement
  PROVE  /\ sch.schedule \in Script
         /\ Stepped = [sch EXCEPT !.pc = [sch.pc EXCEPT ![sch.schedule] = @ + 1]]
         /\ Stepped \in SchedulerState
<1>1. sch \in SchedulerState
  BY DEF Sound
<1>2. Stepped \in SchedulerState /\ sch.schedule \in Script
  BY SteppedType DEF Sound
<1> QED
  BY <1>1, <1>2 DEF Stepped, SchedulerState

LEMMA TimeoutSeen ==
  ASSUME Sound(sch), AllSeen(sch), Timeout
  PROVE  AllSeen(sch')
<1>0. sch \in SchedulerState /\ sch.schedule \in ScriptOrNone
  BY DEF Sound, SchedulerState
<1>s. ASSUME HasStatement
      PROVE  sch.schedule \in Script /\ Sound(Stepped) /\ AllSeen(Stepped)
  <2>1. SameView(sch, Stepped)
    BY <1>0, <1>s, SteppedIs DEF SameView, SchedulerState
  <2> QED
    BY <1>s, <2>1, SteppedType, SameViewSeen
<1>1. CASE StepStatement
  BY <1>1, <1>s DEF StepStatement
<1>2. CASE StepError
  <2> DEFINE E == [sch EXCEPT !.state[sch.schedule] = "ERROR"]
  <2>1. HasStatement /\ sch' = Complete(E)
    BY <1>2 DEF StepError
  <2>2. [sch.state EXCEPT ![sch.schedule] = "ERROR"] \in [Script -> RunState]
    BY <1>0 DEF SchedulerState, RunState
  <2>3. E \in SchedulerState /\ SameView(sch, E)
    BY <1>0, <2>2 DEF SchedulerState, SameView
  <2> HIDE DEF E
  <2> QED
    BY <2>1, <2>3, SameViewSeen, CompleteSeen
<1>3. CASE StepExit
  <2> DEFINE T == ExitScript(sch, sch.schedule)
  <2>1. sch.schedule \in Script
    BY <1>0, <1>3 DEF StepExit, InProgress, Running, ScriptOrNone
  <2>2. Sound(T) /\ AllSeen(T)
    BY <1>0, <2>1, ExitScriptType, QuietIsSound, SmallSeen, SameViewSeen
  <2> HIDE DEF T
  <2>3. sch' = AfterStep(T, sch.schedule)
    BY <1>3 DEF StepExit, T
  <2> QED
    BY <2>2, <2>3, AfterStepSeen
<1>4. CASE StepCommand
  <2>0. PICK op \in ScriptOps \ ScriptArgOps : \E w \in Numbers(op) :
           sch' = AfterStep(Execute(Stepped, op, None, w[1], w[2]), sch.schedule)
    BY <1>4 DEF StepCommand
  <2>1. PICK w \in Numbers(op) :
           sch' = AfterStep(Execute(Stepped, op, None, w[1], w[2]), sch.schedule)
    BY <2>0
  <2>2. op \in Ops \ ScriptArgOps
    BY InputAssumption
  <2>3. Sound(Stepped) /\ AllSeen(Stepped)
    BY <1>4, <1>s DEF StepCommand
  <2> DEFINE T == Execute(Stepped, op, None, w[1], w[2])
  <2>4. Sound(T) /\ AllSeen(T)
    BY <2>2, <2>3, NumbersType, ExecuteType, ExecuteSeen DEF ScriptOrNone
  <2> HIDE DEF T
  <2>5. sch' = AfterStep(T, sch.schedule)
    BY <2>1 DEF T
  <2> QED
    BY <2>4, <2>5, AfterStepSeen
<1>5. CASE StepCommandWithScript
  <2>1. PICK op \in ScriptOps \cap ScriptArgOps, c \in sch.args[sch.schedule] :
           \E n \in IF op = "schedule" THEN InsertAt ELSE {-1} :
              sch' = AfterStep(Execute(Stepped, op, c, n, 0), sch.schedule)
    BY <1>5 DEF StepCommandWithScript
  <2>2. PICK n \in IF op = "schedule" THEN InsertAt ELSE {-1} :
           sch' = AfterStep(Execute(Stepped, op, c, n, 0), sch.schedule)
    BY <2>1
  <2>3. sch.schedule \in Script /\ Sound(Stepped) /\ AllSeen(Stepped)
    BY <1>5, <1>s DEF StepCommandWithScript
  <2>4. c \in Script
    BY <1>0, <2>3 DEF SchedulerState
  <2>5. op \in Ops /\ n \in Int /\ op \notin {"remove_schedule", "move_schedule"}
    <3>1. op \in Ops /\ op \notin {"remove_schedule", "move_schedule"}
      BY InputAssumption DEF ScriptArgOps
    <3>2. n \in Int
      BY InputAssumption
    <3> QED
      BY <3>1, <3>2
  <2> DEFINE T == Execute(Stepped, op, c, n, 0)
  <2>6. Sound(T) /\ AllSeen(T)
    BY <2>3, <2>4, <2>5, ExecuteType, ExecuteSeen DEF ScriptOrNone
  <2> HIDE DEF T
  <2>7. sch' = AfterStep(T, sch.schedule)
    BY <2>2 DEF T
  <2> QED
    BY <2>6, <2>7, AfterStepSeen
<1>6. CASE AutoStart
  <2>1. PICK f \in sch.pendDir, w \in Compilations(sch) :
           sch' = Stage(Compile([sch EXCEPT !.pending = TRUE, !.pendname = f], w, f),
                        w.script)
    BY <1>6 DEF AutoStart
  <2> DEFINE A == [sch EXCEPT !.pending = TRUE, !.pendname = f]
             C == Compile(A, w, f)
  <2>2. f \in FileOrNone
    BY <1>0 DEF SchedulerState, FileOrNone
  <2>3. A \in SchedulerState /\ A.state = sch.state /\ SameView(sch, A)
    BY <1>0, <2>2 DEF SchedulerState, SameView
  <2>4. sch' = Stage(C, w.script)
    BY <2>1
  <2> HIDE DEF A
  <2>5. w \in Compilations(A)
    BY <2>3 DEF Compilations, Pool
  <2>6. w.script \in ScriptOrNone /\ C \in SchedulerState
    BY <2>2, <2>3, <2>5, CompileType DEF Quiet, ScriptOrNone
  <2>7. AllSeen(C)
    BY <2>3, CompileSeen, SameViewSeen
  <2> HIDE DEF C
  <2> QED
    BY <2>4, <2>6, <2>7, StageSeen DEF AllSeen, QueueSeen
<1>7. CASE AutoReject
  <2>1. PICK f \in sch.pendDir :
           sch' = RemovePendingFile([sch EXCEPT !.pending = TRUE, !.pendname = f])
    BY <1>7 DEF AutoReject
  <2> DEFINE A == [sch EXCEPT !.pending = TRUE, !.pendname = f]
  <2>2. f \in FileOrNone
    BY <1>0 DEF SchedulerState, FileOrNone
  <2>3. A \in SchedulerState /\ SameView(sch, A)
    BY <1>0, <2>2 DEF SameView, SchedulerState
  <2>4. sch' = RemovePendingFile(A)
    BY <2>1
  <2> HIDE DEF A
  <2> QED
    BY <2>3, <2>4, SmallSeen, SameViewSeen
<1>8. CASE AutoNone
  <2>1. SameView(sch, sch')
    BY <1>0, <1>8 DEF AutoNone, SameView, SchedulerState
  <2> QED
    BY <2>1, SameViewSeen
<1>9. CASE StepEnded
  BY <1>0, <1>9, CompleteSeen DEF StepEnded
<1> QED
  BY <1>1, <1>2, <1>3, <1>4, <1>5, <1>6, <1>7, <1>8, <1>9 DEF Timeout

LEMMA MessageSeen ==
  ASSUME Sound(sch), AllSeen(sch), Message
  PROVE  AllSeen(sch')
<1>0. sch \in SchedulerState
  BY DEF Sound
<1>1. CASE CommandWithScript
  <2>1. PICK op \in InteractiveOps \cap ScriptArgOps, w \in Compilations(sch) :
           \E n \in IF op = "schedule" THEN InsertAt ELSE {-1} :
              sch' = Discard(Execute(Compile(sch, w, None), op, w.script, n, 0), w.script)
    BY <1>1 DEF CommandWithScript
  <2>2. PICK n \in IF op = "schedule" THEN InsertAt ELSE {-1} :
           sch' = Discard(Execute(Compile(sch, w, None), op, w.script, n, 0), w.script)
    BY <2>1
  <2>3. op \in Ops /\ n \in Int /\ op \notin {"remove_schedule", "move_schedule"}
    BY InputAssumption DEF ScriptArgOps
  <2> DEFINE C == Compile(sch, w, None)
             E == Execute(C, op, w.script, n, 0)
  <2>4. w.script \in Script /\ Sound(C) /\ AllSeen(C)
    BY <1>0, CompileType, QuietIsSound, CompileSeen, SameViewSeen DEF FileOrNone
  <2>5. sch' = Discard(E, w.script)
    BY <2>2
  <2> HIDE DEF C
  <2>6. Sound(E) /\ AllSeen(E)
    BY <2>3, <2>4, ExecuteType, ExecuteSeen DEF ScriptOrNone
  <2> HIDE DEF E
  <2> QED
    BY <2>4, <2>5, <2>6, DiscardSeen, SameViewSeen DEF Sound, ScriptOrNone
<1>2. CASE Command
  <2>0. PICK op \in InteractiveOps \ ScriptArgOps : \E w \in Numbers(op) :
           sch' = Execute(sch, op, None, w[1], w[2])
    BY <1>2 DEF Command
  <2>1. PICK w \in Numbers(op) : sch' = Execute(sch, op, None, w[1], w[2])
    BY <2>0
  <2>2. op \in Ops \ ScriptArgOps
    BY InputAssumption
  <2> QED
    BY <2>1, <2>2, NumbersType, ExecuteSeen DEF ScriptOrNone
<1>3. ASSUME NEW b \in BOOLEAN, RtcState(b)
      PROVE  AllSeen(sch')
  <2> DEFINE A == [sch EXCEPT !.online = b, !.awaiting = FALSE]
             S1 == Reschedule(A)
             W == [S1 EXCEPT !.awaiting = TRUE]
             i == sch.initialize
  <2>1. Quiet(sch, A) /\ SameView(sch, A)
    BY <1>0 DEF Quiet, SameView, SchedulerState
  <2>2. A.initialize = i
    BY <1>0 DEF SchedulerState
  <2>3. \/ /\ i # None
           /\ sch' = Stage(Reference(W, S1.initialize), S1.initialize)
        \/ sch' = S1
    BY <1>3 DEF RtcState
  <2> HIDE DEF A
  <2>4. Sound(S1) /\ AllSeen(S1)
    BY <2>1, QuietIsSound, RescheduleType, SameViewSeen, RescheduleSeen DEF Quiet
  <2>5. S1.initialize = A.initialize
    BY <2>1, RescheduleKeepsInitialize DEF Quiet
  <2> HIDE DEF S1
  <2>6. W \in SchedulerState /\ SameView(S1, W)
    BY <2>4 DEF Sound, SchedulerState, SameView
  <2>7. AllSeen(W)
    BY <2>4, <2>6, SameViewSeen
  <2> HIDE DEF W
  <2>8. CASE i # None /\ sch' = Stage(Reference(W, i), i)
    <3> DEFINE R == Reference(W, i)
    <3>1. i \in Script
      BY <1>0, <2>8 DEF SchedulerState, ScriptOrNone
    <3>2. R \in SchedulerState /\ AllSeen(R)
      BY <2>6, <2>7, <3>1, ReferenceType, SmallSeen, SameViewSeen DEF Quiet
    <3> HIDE DEF R
    <3>3. sch' = Stage(R, i)
      BY <2>8 DEF R
    <3> QED
      BY <3>1, <3>2, <3>3, StageSeen DEF AllSeen, QueueSeen, ScriptOrNone
  <2> QED
    BY <2>2, <2>3, <2>4, <2>5, <2>8
<1>4. ASSUME NEW b \in BOOLEAN, AutoState(b)
      PROVE  AllSeen(sch')
  <2>1. SameView(sch, sch')
    BY <1>0, <1>4 DEF AutoState, SameView, SchedulerState
  <2> QED
    BY <2>1, SameViewSeen
<1>5. CASE AddClient
  BY <1>0, <1>5 DEF AddClient, SchedulerState, AllSeen, Followed
<1>6. CASE RemClient
  BY <1>0, <1>6 DEF RemClient, SchedulerState, AllSeen, Followed
<1> QED
  BY <1>1, <1>2, <1>3, <1>4, <1>5, <1>6 DEF Message

LEMMA WorldSeen ==
  ASSUME Sound(sch), AllSeen(sch), World
  PROVE  AllSeen(sch')
<1>0. sch \in SchedulerState
  BY DEF Sound
<1>1. CASE ClientPipe
  BY <1>0, <1>1 DEF ClientPipe, SchedulerState, AllSeen, Followed
<1>2. ASSUME NEW f \in File, DropFile(f) \/ WithdrawFile(f)
      PROVE  AllSeen(sch')
  <2>1. SameView(sch, sch')
    BY <1>0, <1>2 DEF DropFile, WithdrawFile, SameView, SchedulerState
  <2> QED
    BY <2>1, SameViewSeen
<1> QED
  BY <1>1, <1>2 DEF World

LEMMA InitSeen == Init => AllSeen(sch)
<1> SUFFICES ASSUME NEW w \in Compilations(NewScheduler),
                    sch = [QueueSchedule(Compile(NewScheduler, w, None), w.script, -1)
                             EXCEPT !.startup = w.script]
             PROVE  AllSeen(sch)
  BY DEF Init
<1> DEFINE C == Compile(NewScheduler, w, None)
           Q == QueueSchedule(C, w.script, -1)
<1>1. Sound(NewScheduler)
  BY NewSchedulerSound
<1>2. w.script \in Script /\ Sound(C)
  BY <1>1, CompileType, QuietIsSound DEF Sound, FileOrNone
<1>3. AllSeen(NewScheduler)
  BY DEF NewScheduler, AllSeen, Followed
<1>4. AllSeen(C)
  BY <1>1, <1>3, CompileSeen, SameViewSeen DEF Sound
<1>5. sch = [Q EXCEPT !.startup = w.script]
  OBVIOUS
<1> HIDE DEF C
<1>6. Sound(Q) /\ AllSeen(Q)
  BY <1>2, <1>4, QueueScheduleType, QueueScheduleSeen
<1> HIDE DEF Q
<1> QED
  BY <1>5, <1>6 DEF Sound, SchedulerState, AllSeen, Followed

SeenNow == Sound(sch) /\ AllSeen(sch)

(* A viewer that no report was kept from shows the schedule that runs and  *)
(* the queue as the scheduler has them after every handler: the entry      *)
(* numbers of RM and MV mean the same on both sides for every queue.       *)
THEOREM ViewersAgree == Spec => []ViewAgrees
<1>1. Init => SeenNow
  BY InitSound, InitSeen DEF SeenNow
<1>2. SeenNow /\ [Next]_vars => SeenNow'
  <2> SUFFICES ASSUME Sound(sch), AllSeen(sch), [Next]_vars
               PROVE  Sound(sch') /\ AllSeen(sch')
    BY DEF SeenNow
  <2>1. Sound(sch')
    BY StepOfThread, TimeoutSound, MessageSound, WorldSound
  <2> QED
    BY <2>1, StepOfThread, TimeoutSeen, MessageSeen, WorldSeen
<1>3. SeenNow => ViewAgrees
  BY DEF SeenNow, AllSeen, Followed, ViewAgrees
<1> QED
  BY <1>1, <1>2, <1>3, PTL DEF Spec
=============================================================================
