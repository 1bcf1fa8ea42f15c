------------------------ MODULE SchedulerQueueProofs ------------------------
(***************************************************************************)
(* Theorems about what Scheduler does with its schedules: it implements    *)
(* the queue of ScheduleQueue, and it files an autoqueue script as done    *)
(* only when its schedule has run.                                         *)
(*                                                                         *)
(* The refinement goes through QueueStep, which says what becomes of the   *)
(* schedule that runs and of the queue in each handler: each operator has  *)
(* a lemma that says which of the parts of QueueStep it is. The second     *)
(* result carries the invariant Carried: the autoqueue file at work is in  *)
(* the pending directory, and the schedule that runs was compiled from it. *)
(***************************************************************************)
EXTENDS SchedulerRefsProofs

-----------------------------------------------------------------------------
(* Steps of the queue.                                                     *)

(* What becomes of the schedule that runs and of the queue, from a state S *)
(* of the thread to a state T.                                             *)
SameQueue(S, T) == T.schedule = S.schedule /\ T.queue = S.queue

RanHead(q, T) == IF q = << >> THEN T.schedule = None /\ T.queue = q
                 ELSE T.schedule = Head(q) /\ T.queue = Tail(q)

Arrived(S, T) == \E c \in Script, k \in 0 .. Len(S.queue) :
                    IF S.schedule = None THEN RanHead(ListInsert(S.queue, k, c), T)
                    ELSE T.schedule = S.schedule /\ T.queue = ListInsert(S.queue, k, c)

Finished(S, T) == S.schedule # None /\ RanHead(S.queue, T)

Removed(S, T) == /\ T.schedule = S.schedule
                 /\ \E k \in 0 .. Len(S.queue) - 1 : T.queue = ListDelete(S.queue, k)

Moved(S, T) == /\ T.schedule = S.schedule
               /\ \E k, m \in 0 .. Len(S.queue) - 1 :
                     T.queue = ListInsert(ListDelete(S.queue, k), m, S.queue[k + 1])

Queued(S, T) == SameQueue(S, T) \/ Arrived(S, T) \/ Removed(S, T) \/ Moved(S, T)

LEMMA QueuedRuns ==
  ASSUME NEW S, NEW T, Queued(S, T), S.schedule # None
  PROVE  T.schedule = S.schedule
<1> QED
  BY DEF Queued, SameQueue, Arrived, Removed, Moved

LEMMA QueuedBetween ==
  ASSUME NEW S, NEW T, NEW U, NEW V,
         SameQueue(S, T), Queued(T, U), SameQueue(U, V)
  PROVE  Queued(S, V)
<1>1. /\ T.schedule = S.schedule /\ T.queue = S.queue
      /\ V.schedule = U.schedule /\ V.queue = U.queue
  BY DEF SameQueue
<1>2. CASE SameQueue(T, U)
  BY <1>1, <1>2 DEF Queued, SameQueue
<1>3. CASE Arrived(T, U)
  BY <1>1, <1>3 DEF Queued, Arrived, RanHead
<1>4. CASE Removed(T, U)
  BY <1>1, <1>4 DEF Queued, Removed
<1>5. CASE Moved(T, U)
  BY <1>1, <1>5 DEF Queued, Moved
<1> QED
  BY <1>2, <1>3, <1>4, <1>5 DEF Queued

LEMMA DiscardQueue ==
  ASSUME NEW S \in SchedulerState, NEW c \in ScriptOrNone
  PROVE  SameQueue(S, Discard(S, c)) /\ Discard(S, c) \in SchedulerState
<1>1. CASE c = None
  BY <1>1 DEF Discard, SameQueue
<1>2. CASE c # None
  <2> DEFINE U == Unreference(S, {c})
             K == IF S.ref[c] = 1 THEN S.args[c] ELSE {}
  <2>1. c \in Script
    BY <1>2 DEF ScriptOrNone
  <2>2. {c} \in SUBSET Script /\ K \in SUBSET Script
    BY <2>1 DEF SchedulerState
  <2>3. Discard(S, c) = Unreference(U, K)
    BY <1>2 DEF Discard
  <2> HIDE DEF K
  <2>4. U \in SchedulerState /\ SameQueue(S, U)
    BY <2>2, UnreferenceIs DEF SameQueue
  <2> HIDE DEF U
  <2>5. Unreference(U, K) \in SchedulerState /\ SameQueue(U, Unreference(U, K))
    BY <2>2, <2>4, UnreferenceIs DEF SameQueue
  <2> QED
    BY <2>3, <2>4, <2>5 DEF SameQueue
<1> QED
  BY <1>1, <1>2

LEMMA RewindQueue ==
  ASSUME NEW S \in SchedulerState, NEW c \in Script
  PROVE  SameQueue(S, Rewind(S, c)) /\ Rewind(S, c) \in SchedulerState
<1>1. Rewind(S, c) \in SchedulerState
  BY RewindType DEF Quiet
<1>2. CASE S.state[c] = "EMPTY"
  BY <1>1, <1>2 DEF Rewind, SameQueue
<1>3. CASE S.state[c] # "EMPTY"
  BY <1>1, <1>3 DEF Rewind, SameQueue, SchedulerState
<1> QED
  BY <1>2, <1>3

LEMMA StageQueue ==
  ASSUME NEW S \in SchedulerState, NEW c \in ScriptOrNone
  PROVE  Stage(S, c).schedule = c /\ Stage(S, c).queue = S.queue
<1> DEFINE T == IF c = None THEN S ELSE Rewind(S, c)
           U == Report(T, c, T.viewQueue)
           V == [U EXCEPT !.schedule = c]
<1>1. T \in SchedulerState /\ T.queue = S.queue
  BY RewindQueue DEF SameQueue, ScriptOrNone
<1>2. Stage(S, c) = ResumeSchedule(V)
  BY DEF Stage, ReportRun
<1> HIDE DEF T
<1>3. T.viewQueue \in Seq(Script)
  BY <1>1 DEF SchedulerState
<1>4. SameBooks(T, U)
  BY <1>1, <1>3, ReportBooks
<1> HIDE DEF U
<1>5. V \in SchedulerState /\ V.schedule = c /\ V.queue = U.queue
  BY <1>4 DEF SameBooks, SchedulerState
<1> HIDE DEF V
<1>6. SameBooks(V, Stage(S, c))
  BY <1>2, <1>5, SmallBooks
<1> QED
  BY <1>1, <1>4, <1>5, <1>6 DEF SameBooks

LEMMA StartNextQueue ==
  ASSUME NEW S \in SchedulerState
  PROVE  RanHead(S.queue, StartNext(S))
<1> DEFINE R  == ReportInitEnded(S)
           D  == Discard(R, S.schedule)
           S1 == [D EXCEPT !.schedule = None]
           S2 == IF S1.pending THEN RemovePendingFile(S1) ELSE S1
           P  == ReportRm(S2, 0)
           S3 == [P EXCEPT !.queue = Tail(S2.queue)]
           N  == StartNext(S)
<1>0. S.schedule \in ScriptOrNone /\ None \in ScriptOrNone
  BY DEF SchedulerState, ScriptOrNone
<1>1. N = IF S2.queue = << >> THEN Stage(S2, None) ELSE Stage(S3, Head(S2.queue))
  BY DEF StartNext
<1> HIDE DEF N
<1>2. R \in SchedulerState /\ R.queue = S.queue
  BY SmallBooks DEF SameBooks
<1> HIDE DEF R
<1>3. D \in SchedulerState /\ D.queue = S.queue
  BY <1>0, <1>2, DiscardQueue DEF SameQueue
<1> HIDE DEF D
<1>4. S1 \in SchedulerState /\ S1.queue = S.queue
  BY <1>0, <1>3 DEF SchedulerState
<1> HIDE DEF S1
<1>5. S2 \in SchedulerState /\ S2.queue = S.queue /\ S2.queue \in Seq(Script)
  <2>1. S2 \in SchedulerState /\ S2.queue = S.queue
    BY <1>4, SmallBooks DEF SameBooks
  <2> QED
    BY <2>1 DEF SchedulerState
<1> HIDE DEF S2
<1>6. CASE S2.queue = << >>
  <2>1. N.schedule = None /\ N.queue = S2.queue
    BY <1>0, <1>1, <1>5, <1>6, StageQueue
  <2> QED
    BY <1>5, <1>6, <2>1 DEF RanHead, N
<1>7. CASE S2.queue # << >>
  <2> DEFINE h == Head(S2.queue)
             t == Tail(S2.queue)
  <2>1. h \in Script /\ h \in ScriptOrNone /\ t \in Seq(Script)
    BY <1>5, <1>7, HeadTailProperties DEF ScriptOrNone
  <2>2. P \in SchedulerState
    BY <1>5, ReportRmBooks DEF SameBooks
  <2> HIDE DEF P
  <2>3. N = Stage(S3, h)
    BY <1>1, <1>7
  <2> HIDE DEF h, t
  <2>4. S3 \in SchedulerState /\ S3.queue = t
    BY <2>1, <2>2 DEF SchedulerState, t
  <2> HIDE DEF S3
  <2>5. N.schedule = h /\ N.queue = t
    BY <2>1, <2>3, <2>4, StageQueue
  <2> QED
    BY <1>5, <1>7, <2>5 DEF RanHead, N, h, t
<1> QED
  BY <1>6, <1>7

LEMMA NextScheduleQueue ==
  ASSUME NEW S \in SchedulerState
  PROVE  SameQueue(S, NextSchedule(S)) \/ RanHead(S.queue, NextSchedule(S))
<1> QED
  BY StartNextQueue DEF NextSchedule, SameQueue

(* A move takes entry n out and puts it in again.                          *)
LEMMA MoveScheduleQueue ==
  ASSUME NEW S \in SchedulerState, NEW n \in Nat, NEW dn \in Int
  PROVE  LET T == MoveSchedule(S, n, dn)
         IN  /\ T.schedule = S.schedule
             /\ IF n >= Len(S.queue) THEN T.queue = S.queue
                ELSE \E m \in 0 .. Len(S.queue) - 1 :
                        T.queue = ListInsert(ListDelete(S.queue, n), m, S.queue[n + 1])
<1> DEFINE q   == S.queue
           len == Len(q)
           up  == IF dn >= 0 THEN 1 ELSE 0
           dst == Clamp(n + dn + up, 0, len)
           new == IF n + dn < 0 THEN 0 ELSE IF n + dn + up > len THEN dst - 1 ELSE n + dn
           l   == ListDelete(ListInsert(q, dst, q[n + 1]), IF dst <= n THEN n + 1 ELSE n)
           T   == [S EXCEPT !.queue = l]
<1>1. q \in Seq(Script) /\ len \in Nat
  BY LenProperties DEF SchedulerState
<1>2. CASE n >= len
  BY <1>2 DEF MoveSchedule
<1>3. CASE ~(n >= len)
  <2>1. n \in 0 .. len - 1 /\ dst \in 0 .. len
    BY <1>1, <1>3 DEF Clamp
  <2>2. /\ new = IF dst <= n THEN dst ELSE dst - 1
        /\ new \in 0 .. len - 1
    BY <1>1, <1>3 DEF Clamp
  <2>3. MoveSchedule(S, n, dn) = ReportMv(T, n, new)
    BY <1>3 DEF MoveSchedule
  <2> HIDE DEF dst, new
  <2>4. l = ListInsert(ListDelete(q, n), new, q[n + 1])
    BY <1>1, <2>1, <2>2, MoveEitherWay
  <2>5. n + 1 \in 1 .. len /\ q[n + 1] \in Script
    BY <1>1, <2>1, ElementOfSeq
  <2>6. /\ ListDelete(q, n) \in Seq(Script)
        /\ new \in 0 .. Len(ListDelete(q, n))
    BY <1>1, <2>1, <2>2, ListDeleteType
  <2>7. l \in Seq(Script)
    BY <2>4, <2>5, <2>6, ListInsertType
  <2> HIDE DEF l
  <2>8. T \in SchedulerState /\ T.queue = l /\ T.schedule = S.schedule
    BY <2>7 DEF SchedulerState
  <2> HIDE DEF T
  <2>9. SameBooks(T, ReportMv(T, n, new))
    BY <2>2, <2>8, ReportMvBooks
  <2> QED
    BY <1>3, <2>2, <2>3, <2>4, <2>8, <2>9 DEF SameBooks
<1> QED
  BY <1>2, <1>3

LEMMA RemoveScheduleQueue ==
  ASSUME NEW S \in SchedulerState, NEW n \in Nat
  PROVE  Queued(S, RemoveSchedule(S, n))
<1> DEFINE q == S.queue
           T == [S EXCEPT !.queue = ListDelete(q, n)]
           c == q[n + 1]
           D == Discard(T, c)
<1>1. q \in Seq(Script) /\ Len(q) \in Nat
  BY LenProperties DEF SchedulerState
<1>2. CASE n >= Len(q)
  BY <1>2 DEF RemoveSchedule, Queued, SameQueue
<1>3. CASE ~(n >= Len(q))
  <2>1. n \in 0 .. Len(q) - 1 /\ n + 1 \in 1 .. Len(q)
    BY <1>1, <1>3
  <2>2. c \in ScriptOrNone
    BY <1>1, <2>1, ElementOfSeq DEF ScriptOrNone
  <2>3. ListDelete(q, n) \in Seq(Script)
    BY <1>1, <2>1, ListDeleteType
  <2>4. T \in SchedulerState /\ T.queue = ListDelete(q, n) /\ T.schedule = S.schedule
    BY <2>3 DEF SchedulerState
  <2>5. RemoveSchedule(S, n) = ReportRm(D, n)
    BY <1>3 DEF RemoveSchedule
  <2> HIDE DEF T, c
  <2>6. D \in SchedulerState /\ SameQueue(T, D)
    BY <2>2, <2>4, DiscardQueue
  <2> HIDE DEF D
  <2>7. SameBooks(D, ReportRm(D, n))
    BY <2>6, ReportRmBooks
  <2> QED
    BY <2>1, <2>4, <2>5, <2>6, <2>7 DEF SameBooks, SameQueue, Queued, Removed
<1> QED
  BY <1>2, <1>3

(* A schedule that is queued at entry n is appended and moved there.       *)
LEMMA QueueScheduleQueue ==
  ASSUME NEW S \in SchedulerState, NEW c \in Script, NEW n \in Int
  PROVE  Arrived(S, QueueSchedule(S, c, n))
<1> DEFINE q  == S.queue
           v  == Append(S.viewQueue, c)
           a  == Append(q, c)
           A  == Report(S, S.viewRun, v)
           B  == [A EXCEPT !.queue = a]
           S1 == Reference(B, c)
           S2 == IF n < 0 THEN S1 ELSE MoveSchedule(S1, Len(q), n - Len(q))
           Q  == QueueSchedule(S, c, n)
<1>1. /\ q \in Seq(Script) /\ Len(q) \in Nat
      /\ S.viewRun \in ScriptOrNone /\ S.viewQueue \in Seq(Script)
  BY LenProperties DEF SchedulerState
<1>2. /\ a \in Seq(Script) /\ v \in Seq(Script) /\ Len(a) = Len(q) + 1
      /\ a[Len(q) + 1] = c
  BY <1>1
<1>3. a = ListInsert(q, Len(q), c)
  BY <1>1, AppendIsInsert
<1>4. Q = IF S2.schedule = None THEN NextSchedule(S2) ELSE S2
  BY DEF QueueSchedule, ReportAdd
<1> HIDE DEF v, a, Q
<1>5. SameBooks(S, A)
  BY <1>1, <1>2, ReportBooks
<1> HIDE DEF A
<1>6. B \in SchedulerState /\ B.queue = a /\ B.schedule = S.schedule
  BY <1>2, <1>5 DEF SameBooks, SchedulerState
<1> HIDE DEF B
<1>7. S1 \in SchedulerState /\ S1.queue = a /\ S1.schedule = S.schedule
  BY <1>6, ReferenceType DEF Quiet, Reference, SchedulerState
<1> HIDE DEF S1
<1>8. /\ S2.schedule = S.schedule
      /\ \E k \in 0 .. Len(q) : S2.queue = ListInsert(q, k, c)
  <2>1. CASE n < 0
    <3>1. S2 = S1
      BY <2>1
    <3> HIDE DEF S2
    <3> QED
      BY <1>1, <1>3, <1>7, <3>1
  <2>2. CASE ~(n < 0)
    <3>1. S2 = MoveSchedule(S1, Len(q), n - Len(q))
      BY <2>2
    <3> HIDE DEF S2
    <3>2. n - Len(q) \in Int /\ ~(Len(q) >= Len(a)) /\ 0 .. Len(a) - 1 = 0 .. Len(q)
      BY <1>1, <1>2
    <3>3. /\ S2.schedule = S1.schedule
          /\ \E m \in 0 .. Len(a) - 1 :
                S2.queue = ListInsert(ListDelete(a, Len(q)), m, a[Len(q) + 1])
      BY <1>1, <1>7, <3>1, <3>2, MoveScheduleQueue
    <3>4. ListDelete(a, Len(q)) = q
      BY <1>1, <1>3, DeleteInserted
    <3> QED
      BY <1>2, <1>7, <3>2, <3>3, <3>4
  <2> QED
    BY <2>1, <2>2
<1>9. PICK k \in 0 .. Len(q) : S2.queue = ListInsert(q, k, c)
  BY <1>8
<1>10. CASE S.schedule # None
  <2>1. Q = S2
    BY <1>4, <1>8, <1>10
  <2> HIDE DEF S2
  <2> QED
    BY <1>8, <1>9, <1>10, <2>1 DEF Arrived, Q
<1>11. CASE S.schedule = None
  <2>1. S2 \in SchedulerState
    <3>1. n - Len(q) \in Int
      BY <1>1
    <3> QED
      BY <1>1, <1>7, <3>1, MoveScheduleType DEF Quiet
  <2> HIDE DEF S2
  <2>2. Q = StartNext(S2)
    BY <1>4, <1>8, <1>11 DEF NextSchedule, InitEndRefused
  <2>3. RanHead(S2.queue, Q)
    BY <2>1, <2>2, StartNextQueue
  <2> QED
    BY <1>9, <1>11, <2>3 DEF Arrived, Q
<1> QED
  BY <1>10, <1>11

-----------------------------------------------------------------------------
(* The operators as steps of the queue.                                    *)

ReturnedTo(S, T) == /\ S.schedule # None /\ T.schedule = None
                    /\ T.queue \in {S.queue, <<S.schedule>> \o S.queue}

Displaced(S, T) == T.schedule \in Script /\ T.queue = S.queue

LEMMA ExitScriptQueue ==
  ASSUME NEW S \in SchedulerState, NEW c \in Script
  PROVE  SameQueue(S, ExitScript(S, c)) /\ ExitScript(S, c) \in SchedulerState
<1>1. ExitScript(S, c) \in SchedulerState
  BY ExitScriptType DEF Quiet
<1>2. CASE c \in S.handler /\ S.state[c] = "ACTIVE"
  BY <1>1, <1>2 DEF ExitScript, SameQueue, SchedulerState
<1>3. CASE ~(c \in S.handler /\ S.state[c] = "ACTIVE")
  BY <1>1, <1>3 DEF ExitScript, SameQueue, SchedulerState
<1> QED
  BY <1>2, <1>3

LEMMA AbortScheduleQueue ==
  ASSUME NEW S \in SchedulerState
  PROVE  SameQueue(S, AbortSchedule(S)) \/ Finished(S, AbortSchedule(S))
<1> DEFINE c == S.schedule
           A == [S EXCEPT !.auto = @ /\ ~S.pending, !.pending = FALSE, !.src[c] = None]
           S1 == ExitScript(A, c)
<1>1. CASE c = None
  BY <1>1 DEF AbortSchedule, SameQueue
<1>2. CASE c # None
  <2>1. c \in Script
    BY <1>2 DEF SchedulerState, ScriptOrNone
  <2>2. [S.src EXCEPT ![c] = None] \in [Script -> FileOrNone]
    BY DEF SchedulerState, FileOrNone
  <2>3. (S.auto /\ ~S.pending) \in BOOLEAN
    OBVIOUS
  <2>4. A \in SchedulerState /\ SameQueue(S, A)
    BY <2>2, <2>3 DEF SameQueue, SchedulerState
  <2>5. AbortSchedule(S) = IF S1.state[c] = "EXITING" THEN S1 ELSE NextSchedule(S1)
    BY <1>2 DEF AbortSchedule
  <2> HIDE DEF A
  <2>6. S1 \in SchedulerState /\ SameQueue(S, S1)
    BY <2>1, <2>4, ExitScriptQueue DEF SameQueue
  <2> HIDE DEF S1
  <2>7. SameQueue(S1, NextSchedule(S1)) \/ RanHead(S1.queue, NextSchedule(S1))
    BY <2>6, NextScheduleQueue
  <2> QED
    BY <1>2, <2>5, <2>6, <2>7 DEF SameQueue, Finished
<1> QED
  BY <1>1, <1>2

LEMMA ChangeInitScriptQueue ==
  ASSUME NEW S \in SchedulerState, NEW c \in Script
  PROVE  SameQueue(S, ChangeInitScript(S, c))
<1> DEFINE D == Discard(S, S.initialize)
           T == [D EXCEPT !.initialize = c]
<1>1. S.initialize \in ScriptOrNone /\ c \in ScriptOrNone
  BY DEF SchedulerState, ScriptOrNone
<1>2. D \in SchedulerState /\ SameQueue(S, D)
  BY <1>1, DiscardQueue
<1>3. ChangeInitScript(S, c) = Reference(T, c)
  BY DEF ChangeInitScript
<1> HIDE DEF D
<1>4. T \in SchedulerState /\ SameQueue(S, T)
  BY <1>1, <1>2 DEF SameQueue, SchedulerState
<1> HIDE DEF T
<1> QED
  BY <1>3, <1>4 DEF Reference, SameQueue, SchedulerState

LEMMA RescheduleQueue ==
  ASSUME NEW S \in SchedulerState
  PROVE  IF S.schedule = None \/ S.online THEN SameQueue(S, Reschedule(S))
         ELSE ReturnedTo(S, Reschedule(S))
<1> DEFINE c  == S.schedule
           S1 == Rewind(S, c)
           M  == Mislead(S1)
           P  == [M EXCEPT !.queue = <<c>> \o @]
           S2 == IF c = S.initialize THEN S1 ELSE P
<1>1. CASE c = None
  BY <1>1 DEF Reschedule, SameQueue
<1>2. CASE c # None
  <2>1. c \in Script /\ None \in ScriptOrNone
    BY <1>2 DEF SchedulerState, ScriptOrNone
  <2>2. Reschedule(S) = IF S.online THEN S1 ELSE Stage(S2, None)
    BY <1>2 DEF Reschedule
  <2>3. SameQueue(S, S1) /\ S1 \in SchedulerState
    BY <2>1, RewindQueue
  <2> HIDE DEF S1
  <2>4. M \in SchedulerState /\ M.queue = S.queue
    BY <2>3, SmallBooks DEF SameBooks, SameQueue
  <2> HIDE DEF M
  <2>5. <<c>> \o S.queue \in Seq(Script)
    <3>1. <<c>> \in Seq(Script) /\ S.queue \in Seq(Script)
      BY <2>1 DEF SchedulerState
    <3> QED
      BY <3>1, ConcatProperties
  <2> DEFINE a == <<c>> \o S.queue
  <2>6. P \in SchedulerState /\ P.queue = a
    <3> HIDE DEF a
    <3>1. P = [M EXCEPT !.queue = a]
      BY <2>4 DEF a
    <3>2. a \in Seq(Script)
      BY <2>5 DEF a
    <3> QED
      BY <2>4, <3>1, <3>2 DEF SchedulerState
  <2> HIDE DEF P, a
  <2>7. S2 \in SchedulerState /\ S2.queue \in {S.queue, a}
    BY <2>3, <2>6 DEF SameQueue
  <2> HIDE DEF S2
  <2>8. Stage(S2, None).schedule = None /\ Stage(S2, None).queue = S2.queue
    BY <2>1, <2>7, StageQueue
  <2> QED
    BY <1>2, <2>2, <2>3, <2>7, <2>8 DEF ReturnedTo, a
<1> QED
  BY <1>1, <1>2

LEMMA CompleteQueue ==
  ASSUME NEW S \in SchedulerState
  PROVE  SameQueue(S, Complete(S)) \/ RanHead(S.queue, Complete(S))
<1> DEFINE D == Discard(S, S.startup)
           B == [D EXCEPT !.initializing = FALSE, !.startup = None, !.listening = TRUE]
<1>1. CASE ~S.initializing
  BY <1>1, NextScheduleQueue DEF Complete
<1>2. CASE S.initializing
  <2>1. Complete(S) = NextSchedule(B)
    BY <1>2 DEF Complete
  <2>2. S.startup \in ScriptOrNone /\ None \in ScriptOrNone
    BY DEF SchedulerState, ScriptOrNone
  <2>3. D \in SchedulerState /\ SameQueue(S, D)
    BY <2>2, DiscardQueue
  <2> HIDE DEF D
  <2>4. B \in SchedulerState /\ SameQueue(S, B)
    BY <2>2, <2>3 DEF SchedulerState, SameQueue
  <2> HIDE DEF B
  <2> QED
    BY <2>1, <2>4, NextScheduleQueue DEF SameQueue
<1> QED
  BY <1>1, <1>2

(* Every command but an abortion leaves the schedule that runs in place.   *)
LEMMA ExecuteQueue ==
  ASSUME NEW S \in SchedulerState,
         NEW op \in Ops, NEW c \in ScriptOrNone, NEW n \in Int, NEW dn \in Int,
         op \in ScriptArgOps => c \in Script,
         op \in {"remove_schedule", "move_schedule"} => n \in Nat
  PROVE  LET T == Execute(S, op, c, n, dn)
         IN  IF op = "abort_schedule" THEN SameQueue(S, T) \/ Finished(S, T)
             ELSE Queued(S, T)
<1>1. CASE op = "schedule"
  <2>1. Execute(S, op, c, n, dn) = QueueSchedule(S, c, n) /\ c \in Script
    BY <1>1 DEF Execute, ScriptArgOps
  <2> QED
    BY <1>1, <2>1, QueueScheduleQueue DEF Queued
<1>2. CASE op = "load_reboot_script"
  <2>1. Execute(S, op, c, n, dn) = ChangeInitScript(S, c) /\ c \in Script
    BY <1>2 DEF Execute, ScriptArgOps
  <2> QED
    BY <1>2, <2>1, ChangeInitScriptQueue DEF Queued
<1>3. CASE op = "abort_schedule"
  <2>1. Execute(S, op, c, n, dn) = AbortSchedule(S)
    BY <1>3 DEF Execute
  <2> QED
    BY <1>3, <2>1, AbortScheduleQueue
<1>4. CASE op = "suspend_schedule"
  BY <1>4, SmallBooks DEF Execute, SameBooks, SameQueue, Queued
<1>5. CASE op = "resume_schedule"
  BY <1>5, SmallBooks DEF Execute, SameBooks, SameQueue, Queued
<1>6. CASE op = "remove_schedule"
  <2>1. Execute(S, op, c, n, dn) = RemoveSchedule(S, n)
    BY <1>6 DEF Execute
  <2> QED
    BY <1>6, <2>1, RemoveScheduleQueue
<1>7. CASE op = "move_schedule"
  <2> DEFINE T == MoveSchedule(S, n, dn)
  <2>1. Execute(S, op, c, n, dn) = T
    BY <1>7 DEF Execute
  <2>2. /\ T.schedule = S.schedule
        /\ IF n >= Len(S.queue) THEN T.queue = S.queue
           ELSE \E m \in 0 .. Len(S.queue) - 1 :
                   T.queue = ListInsert(ListDelete(S.queue, n), m, S.queue[n + 1])
    BY <1>7, MoveScheduleQueue
  <2> HIDE DEF T
  <2>3. CASE n >= Len(S.queue)
    BY <1>7, <2>1, <2>2, <2>3 DEF Queued, SameQueue
  <2>4. CASE ~(n >= Len(S.queue))
    <3>1. n \in 0 .. Len(S.queue) - 1
      BY <1>7, <2>4, LenProperties DEF SchedulerState
    <3> QED
      BY <1>7, <2>1, <2>2, <2>4, <3>1 DEF Queued, Moved
  <2> QED
    BY <2>3, <2>4
<1> QED
  BY <1>1, <1>2, <1>3, <1>4, <1>5, <1>6, <1>7 DEF Ops

(* A schedule that still runs after a command of its own can be stepped.   *)
LEMMA AfterStepStays ==
  ASSUME "rtcpipe" \notin Environment, NEW S, Kept(S), Solvent(S), Fit(S, None), NEW c \in Script, S.schedule = c
  PROVE  AfterStep(S, c) = S
<1>1. S.state[c] \in {"ACTIVE", "EXITING"}
  BY UsedIsCompiled, NoneAssumption DEF Fit
<1> QED
  BY <1>1 DEF AfterStep

-----------------------------------------------------------------------------
(* The handlers as steps of the queue.                                     *)

QueueStep(S, T) == Queued(S, T) \/ Finished(S, T) \/ ReturnedTo(S, T) \/ Displaced(S, T)

LEMMA TimeoutQueue ==
  ASSUME "abort_schedule" \notin ScriptOps, "rtcpipe" \notin Environment,
         Orderly(sch), Timeout
  PROVE  QueueStep(sch, sch')
<1>0. sch \in SchedulerState /\ sch.schedule \in ScriptOrNone
  BY DEF Orderly, Sound, SchedulerState
<1>s. ASSUME HasStatement
      PROVE  /\ sch.schedule \in Script /\ sch.schedule # None
             /\ SameQueue(sch, Stepped) /\ SameBooks(sch, Stepped)
             /\ Kept(Stepped) /\ Solvent(Stepped) /\ Fit(Stepped, None)
             /\ Stepped.args = sch.args
  <2>1. /\ sch.schedule \in Script /\ Stepped \in SchedulerState
        /\ Stepped = [sch EXCEPT !.pc = [sch.pc EXCEPT ![sch.schedule] = @ + 1]]
    BY <1>s, SteppedIs DEF Orderly
  <2>2. SameBooks(sch, Stepped)
    BY <1>0, <2>1 DEF SameBooks, SchedulerState
  <2>3. Kept(Stepped) /\ Solvent(Stepped) /\ Fit(Stepped, None)
    BY <2>2, SameBooksKeeps, BalancedSolvent DEF Orderly
  <2> QED
    BY <2>1, <2>2, <2>3, NoneAssumption DEF SameBooks, SameQueue
<1>1. CASE StepStatement
  BY <1>1, <1>s DEF StepStatement, QueueStep, Queued
<1>2. CASE StepError
  <2> DEFINE k == sch.schedule
             E == [sch EXCEPT !.state[k] = "ERROR"]
  <2>1. HasStatement /\ sch' = Complete(E) /\ k # None
    BY <1>2, <1>s DEF StepError
  <2>2. [sch.state EXCEPT ![k] = "ERROR"] \in [Script -> RunState]
    BY <1>0 DEF SchedulerState, RunState
  <2>3. E \in SchedulerState /\ SameQueue(sch, E)
    BY <1>0, <2>2 DEF SchedulerState, SameQueue
  <2> HIDE DEF E
  <2>4. SameQueue(E, sch') \/ RanHead(E.queue, sch')
    BY <2>1, <2>3, CompleteQueue
  <2> QED
    BY <2>1, <2>3, <2>4 DEF QueueStep, Queued, SameQueue, Finished
<1>3. CASE StepExit
  <2> DEFINE k == sch.schedule
             T == ExitScript(sch, k)
  <2>1. k \in Script /\ k # None
    BY <1>0, <1>3 DEF StepExit, InProgress, Running, ScriptOrNone
  <2>2. SameQueue(sch, T) /\ T \in SchedulerState
    BY <1>0, <2>1, ExitScriptQueue
  <2>3. sch' = T \/ sch' = Complete(T)
    BY <1>3 DEF StepExit, AfterStep
  <2> HIDE DEF T
  <2>4. SameQueue(T, Complete(T)) \/ RanHead(T.queue, Complete(T))
    BY <2>2, CompleteQueue
  <2> QED
    BY <2>1, <2>2, <2>3, <2>4 DEF QueueStep, Queued, SameQueue, Finished
<1>e. ASSUME HasStatement,
             NEW op \in Ops, NEW c \in ScriptOrNone, NEW n \in Int, NEW dn \in Int,
             op # "abort_schedule",
             op \in ScriptArgOps => c \in Script /\ Holding(Stepped, c),
             op \in {"remove_schedule", "move_schedule"} => n \in Nat,
             sch' = AfterStep(Execute(Stepped, op, c, n, dn), sch.schedule)
      PROVE  QueueStep(sch, sch')
  <2> DEFINE T == Execute(Stepped, op, c, n, dn)
  <2>1. Balanced(Stepped, T) /\ Fit(T, None)
    BY <1>s, <1>e, ExecuteBooks
  <2>2. Queued(Stepped, T)
    BY <1>s, <1>e, ExecuteQueue DEF SameBooks
  <2>3. sch' = AfterStep(T, sch.schedule)
    BY <1>e
  <2> HIDE DEF T
  <2>4. Kept(T) /\ Solvent(T)
    BY <1>s, <1>e, <2>1, BalancedSolvent
  <2>5. T.schedule = sch.schedule
    BY <1>s, <1>e, <2>2, QueuedRuns DEF SameQueue
  <2>6. sch' = T
    BY <1>s, <1>e, <2>1, <2>3, <2>4, <2>5, AfterStepStays
  <2>7. SameQueue(T, T)
    BY DEF SameQueue
  <2> QED
    BY <1>s, <1>e, <2>2, <2>6, <2>7, QueuedBetween DEF QueueStep
<1>4. CASE StepCommand
  <2>0. PICK op \in ScriptOps \ ScriptArgOps : \E w \in Numbers(op) :
           sch' = AfterStep(Execute(Stepped, op, None, w[1], w[2]), sch.schedule)
    BY <1>4 DEF StepCommand
  <2>1. PICK w \in Numbers(op) :
           sch' = AfterStep(Execute(Stepped, op, None, w[1], w[2]), sch.schedule)
    BY <2>0
  <2>2. op \in Ops \ ScriptArgOps /\ op # "abort_schedule"
    BY InputAssumption
  <2>3. HasStatement /\ None \in ScriptOrNone
    BY <1>4 DEF StepCommand, ScriptOrNone
  <2>4. /\ w[1] \in Int /\ w[2] \in Int
        /\ op \in {"remove_schedule", "move_schedule"} => w[1] \in Nat
    BY <2>2, NumbersType
  <2> QED
    BY <1>e, <2>1, <2>2, <2>3, <2>4
<1>5. CASE StepCommandWithScript
  <2>1. PICK op \in ScriptOps \cap ScriptArgOps, c \in sch.args[sch.schedule] :
           \E n \in IF op = "schedule" THEN InsertAt ELSE {-1} :
              sch' = AfterStep(Execute(Stepped, op, c, n, 0), sch.schedule)
    BY <1>5 DEF StepCommandWithScript
  <2>2. PICK n \in IF op = "schedule" THEN InsertAt ELSE {-1} :
           sch' = AfterStep(Execute(Stepped, op, c, n, 0), sch.schedule)
    BY <2>1
  <2>3. HasStatement
    BY <1>5 DEF StepCommandWithScript
  <2>4. sch.schedule \in Script /\ c \in Script /\ c \in ScriptOrNone
    BY <1>0, <1>s, <2>3 DEF SchedulerState, ScriptOrNone
  <2>5. /\ op \in Ops /\ op \notin {"remove_schedule", "move_schedule"}
        /\ op # "abort_schedule"
    BY InputAssumption DEF ScriptArgOps
  <2>6. n \in Int /\ 0 \in Int
    BY InputAssumption
  <2>7. Holding(Stepped, c)
    BY <1>s, <2>1, <2>3, <2>4 DEF Holding, SameQueue
  <2> QED
    BY <1>e, <2>2, <2>3, <2>4, <2>5, <2>6, <2>7
<1>6. CASE AutoStart
  <2>1. PICK f \in sch.pendDir, w \in Compilations(sch) :
           sch' = Stage(Compile([sch EXCEPT !.pending = TRUE, !.pendname = f], w, f),
                        w.script)
    BY <1>6 DEF AutoStart
  <2> DEFINE A == [sch EXCEPT !.pending = TRUE, !.pendname = f]
             C == Compile(A, w, f)
  <2>2. f \in FileOrNone
    BY <1>0 DEF SchedulerState, FileOrNone
  <2>3. A \in SchedulerState /\ SameBooks(sch, A)
    BY <1>0, <2>2 DEF SchedulerState, SameBooks
  <2>4. sch' = Stage(C, w.script)
    BY <2>1
  <2> HIDE DEF A
  <2>5. w \in Compilations(A)
    BY <2>3 DEF Compilations, Pool, SameBooks
  <2>6. Kept(A) /\ Solvent(A)
    BY <2>3, SameBooksKeeps, BalancedSolvent DEF Orderly
  <2>7. w.script \in Script /\ C \in SchedulerState /\ C.queue = A.queue
    BY <2>2, <2>5, <2>6, CompileBooks DEF Kept
  <2> HIDE DEF C
  <2>8. sch'.schedule = w.script /\ sch'.queue = C.queue
    BY <2>4, <2>7, StageQueue DEF ScriptOrNone
  <2> QED
    BY <2>3, <2>7, <2>8 DEF QueueStep, Displaced, SameBooks
<1>7. CASE AutoReject
  <2>1. PICK f \in sch.pendDir :
           sch' = RemovePendingFile([sch EXCEPT !.pending = TRUE, !.pendname = f])
    BY <1>7 DEF AutoReject
  <2> DEFINE A == [sch EXCEPT !.pending = TRUE, !.pendname = f]
  <2>2. f \in FileOrNone
    BY <1>0 DEF SchedulerState, FileOrNone
  <2>3. SameBooks(sch, A)
    BY <1>0, <2>2 DEF SchedulerState, SameBooks
  <2>4. sch' = RemovePendingFile(A)
    BY <2>1
  <2> HIDE DEF A
  <2>5. SameBooks(A, sch')
    BY <2>3, <2>4, SmallBooks DEF SameBooks
  <2> QED
    BY <2>3, <2>5 DEF SameBooks, SameQueue, Queued, QueueStep
<1>8. CASE AutoNone
  BY <1>0, <1>8 DEF AutoNone, SchedulerState, SameQueue, Queued, QueueStep
<1>9. CASE StepEnded
  <2>1. SameQueue(sch, sch') \/ RanHead(sch.queue, sch')
    BY <1>0, <1>9, CompleteQueue DEF StepEnded
  <2> QED
    BY <1>9, <2>1 DEF StepEnded, Running, QueueStep, Queued, Finished
<1> QED
  BY <1>1, <1>2, <1>3, <1>4, <1>5, <1>6, <1>7, <1>8, <1>9 DEF Timeout

LEMMA MessageQueue ==
  ASSUME Orderly(sch), Message
  PROVE  QueueStep(sch, sch')
<1>0. sch \in SchedulerState /\ Kept(sch) /\ Solvent(sch)
  BY DEF Orderly, Sound
<1>1. CASE CommandWithScript
  <2>1. PICK op \in InteractiveOps \cap ScriptArgOps, w \in Compilations(sch) :
           \E n \in IF op = "schedule" THEN InsertAt ELSE {-1} :
              sch' = Discard(Execute(Compile(sch, w, None), op, w.script, n, 0), w.script)
    BY <1>1 DEF CommandWithScript
  <2>2. PICK n \in IF op = "schedule" THEN InsertAt ELSE {-1} :
           sch' = Discard(Execute(Compile(sch, w, None), op, w.script, n, 0), w.script)
    BY <2>1
  <2>3. /\ op \in Ops /\ op \notin {"remove_schedule", "move_schedule"}
        /\ op # "abort_schedule"
    BY InputAssumption DEF ScriptArgOps
  <2>4. n \in Int /\ 0 \in Int
    BY InputAssumption
  <2> DEFINE C == Compile(sch, w, None)
             E == Execute(C, op, w.script, n, 0)
  <2>5. w.script \in Script /\ C \in SchedulerState /\ SameQueue(sch, C) /\ Sound(C)
    BY <1>0, CompileBooks, CompileType, QuietIsSound
       DEF FileOrNone, Kept, SameQueue, Orderly
  <2>6. sch' = Discard(E, w.script)
    BY <2>2
  <2> HIDE DEF C
  <2>7. Queued(C, E) /\ E \in SchedulerState
    BY <2>3, <2>4, <2>5, ExecuteQueue, ExecuteType DEF ScriptOrNone, Sound
  <2> HIDE DEF E
  <2>8. SameQueue(E, sch')
    BY <2>5, <2>6, <2>7, DiscardQueue DEF ScriptOrNone
  <2> QED
    BY <2>5, <2>7, <2>8, QueuedBetween DEF QueueStep
<1>2. CASE Command
  <2>0. PICK op \in InteractiveOps \ ScriptArgOps : \E w \in Numbers(op) :
           sch' = Execute(sch, op, None, w[1], w[2])
    BY <1>2 DEF Command
  <2>1. PICK w \in Numbers(op) : sch' = Execute(sch, op, None, w[1], w[2])
    BY <2>0
  <2>2. op \in Ops \ ScriptArgOps /\ None \in ScriptOrNone
    BY InputAssumption DEF ScriptOrNone
  <2>3. /\ w[1] \in Int /\ w[2] \in Int
        /\ op \in {"remove_schedule", "move_schedule"} => w[1] \in Nat
    BY <2>2, NumbersType
  <2>4. SameQueue(sch, sch') \/ Finished(sch, sch') \/ Queued(sch, sch')
    BY <1>0, <2>1, <2>2, <2>3, ExecuteQueue
  <2> QED
    BY <2>4 DEF QueueStep, Queued
<1>3. ASSUME NEW b \in BOOLEAN, RtcState(b)
      PROVE  QueueStep(sch, sch')
  <2> DEFINE A == [sch EXCEPT !.online = b, !.awaiting = FALSE]
             S1 == Reschedule(A)
             W == [S1 EXCEPT !.awaiting = TRUE]
             i == sch.initialize
  <2>1. /\ A \in SchedulerState /\ SameQueue(sch, A) /\ A.online = b
        /\ Sound(A) /\ A.initialize = i
    BY <1>0 DEF SchedulerState, SameQueue, Orderly, Sound
  <2>2. \/ /\ b /\ i # None
           /\ sch' = Stage(Reference(W, S1.initialize), S1.initialize)
        \/ sch' = S1
    BY <1>3 DEF RtcState
  <2> HIDE DEF A
  <2>3. /\ Sound(S1) /\ S1.initialize = i
        /\ IF A.schedule = None \/ A.online THEN SameQueue(A, S1) ELSE ReturnedTo(A, S1)
    BY <2>1, RescheduleType, RescheduleKeepsInitialize, RescheduleQueue
  <2> HIDE DEF S1
  <2>4. W \in SchedulerState /\ W.queue = S1.queue
    BY <2>3 DEF Sound, SchedulerState
  <2> HIDE DEF W
  <2>5. CASE b /\ i # None /\ sch' = Stage(Reference(W, i), i)
    <3>1. i \in Script
      BY <1>0, <2>5 DEF SchedulerState, ScriptOrNone
    <3> DEFINE R == Reference(W, i)
    <3>2. R \in SchedulerState /\ R.queue = W.queue
      BY <2>4, <3>1, ReferenceType DEF Quiet, Reference, SchedulerState
    <3> HIDE DEF R
    <3>3. sch' = Stage(R, i)
      BY <2>5 DEF R
    <3>4. sch'.schedule = i /\ sch'.queue = R.queue
      BY <3>1, <3>2, <3>3, StageQueue DEF ScriptOrNone
    <3>5. S1.queue = sch.queue
      BY <2>1, <2>3, <2>5 DEF SameQueue
    <3> QED
      BY <2>4, <3>1, <3>2, <3>4, <3>5 DEF QueueStep, Displaced
  <2>6. CASE sch' = S1
    BY <2>1, <2>3, <2>6 DEF QueueStep, Queued, SameQueue, ReturnedTo
  <2> QED
    BY <2>2, <2>3, <2>5, <2>6
<1>4. ASSUME NEW b \in BOOLEAN, AutoState(b)
      PROVE  SameQueue(sch, sch')
  BY <1>0, <1>4 DEF AutoState, SchedulerState, SameQueue
<1>5. CASE AddClient
  BY <1>0, <1>5 DEF AddClient, SchedulerState, SameQueue, Queued, QueueStep
<1>6. CASE RemClient
  BY <1>0, <1>6 DEF RemClient, SchedulerState, SameQueue, Queued, QueueStep
<1> QED
  BY <1>1, <1>2, <1>3, <1>4, <1>5, <1>6 DEF Message, QueueStep, Queued

LEMMA WorldQueue ==
  ASSUME Orderly(sch), World
  PROVE  QueueStep(sch, sch')
<1>0. sch \in SchedulerState
  BY DEF Orderly, Sound
<1>1. CASE ClientPipe
  BY <1>0, <1>1 DEF ClientPipe, SchedulerState, SameQueue, Queued, QueueStep
<1>2. ASSUME NEW f \in File, DropFile(f) \/ WithdrawFile(f)
      PROVE  SameQueue(sch, sch')
  BY <1>0, <1>2 DEF DropFile, WithdrawFile, SchedulerState, SameQueue
<1> QED
  BY <1>1, <1>2 DEF World, QueueStep, Queued

-----------------------------------------------------------------------------
(* The refinement.                                                         *)

(* Each step of the thread is a step of the queue discipline, or none.     *)
LEMMA QueueStepIsAbstract ==
  ASSUME sch \in SchedulerState, QueueStep(sch, sch')
  PROVE  [Abstract!Next]_(Abstract!vars)
<1>0. sch.queue \in Seq(Script) /\ Len(sch.queue) \in Nat
  BY LenProperties DEF SchedulerState
<1>1. CASE SameQueue(sch, sch')
  BY <1>1 DEF SameQueue, Abstract!vars
<1>2. CASE Arrived(sch, sch')
  <2>1. PICK c \in Script, k \in 0 .. Len(sch.queue) :
           IF sch.schedule = None THEN RanHead(ListInsert(sch.queue, k, c), sch')
           ELSE sch'.schedule = sch.schedule /\ sch'.queue = ListInsert(sch.queue, k, c)
    BY <1>2 DEF Arrived
  <2> DEFINE q == Abstract!With(sch.queue, k, c)
  <2>2. q = ListInsert(sch.queue, k, c)
    BY DEF Abstract!With, ListInsert
  <2> HIDE DEF q
  <2>3. IF sch.schedule = None THEN Abstract!RunHead(q)
        ELSE sch'.schedule = sch.schedule /\ sch'.queue = q
    BY <2>1, <2>2 DEF RanHead, Abstract!RunHead
  <2>4. Abstract!Arrive
    BY <2>3 DEF Abstract!Arrive, q
  <2> QED
    BY <2>4 DEF Abstract!Next
<1>3. CASE Removed(sch, sch')
  BY <1>3 DEF Removed, ListDelete, Abstract!Remove, Abstract!Without, Abstract!Entries,
              Abstract!Next
<1>4. CASE Moved(sch, sch')
  <2>1. PICK k \in 0 .. Len(sch.queue) - 1, m \in 0 .. Len(sch.queue) - 1 :
           sch'.queue = ListInsert(ListDelete(sch.queue, k), m, sch.queue[k + 1])
    BY <1>4 DEF Moved
  <2>2. sch'.queue = Abstract!With(Abstract!Without(sch.queue, k), m, sch.queue[k + 1])
    BY <2>1 DEF ListInsert, ListDelete, Abstract!With, Abstract!Without
  <2>3. Abstract!Move
    BY <1>4, <2>2 DEF Moved, Abstract!Move, Abstract!Entries
  <2> QED
    BY <2>3 DEF Abstract!Next
<1>5. CASE Finished(sch, sch')
  BY <1>5 DEF Finished, RanHead, Abstract!Finish, Abstract!RunHead, Abstract!Next
<1>6. CASE ReturnedTo(sch, sch')
  BY <1>6 DEF ReturnedTo, Abstract!PutBack, Abstract!Next
<1>7. CASE Displaced(sch, sch')
  BY <1>7 DEF Displaced, Abstract!Start, Abstract!Preempt, Abstract!Next
<1> QED
  BY <1>1, <1>2, <1>3, <1>4, <1>5, <1>6, <1>7 DEF QueueStep, Queued

LEMMA InitIsAbstract == Init => Abstract!Init
<1> SUFFICES ASSUME NEW w \in Compilations(NewScheduler),
                    sch = [QueueSchedule(Compile(NewScheduler, w, None), w.script, -1)
                             EXCEPT !.startup = w.script]
             PROVE  Abstract!Init
  BY DEF Init
<1> DEFINE c == w.script
           C == Compile(NewScheduler, w, None)
           Q == QueueSchedule(C, c, -1)
<1>1. sch = [Q EXCEPT !.startup = c]
  OBVIOUS
<1>2. c \in Script /\ Sound(C)
  BY NewSchedulerSound, CompileType, QuietIsSound DEF Sound, FileOrNone
<1>3. C.schedule = None /\ C.queue = << >>
  BY DEF Compile, NewScheduler
<1> HIDE DEF C
<1>4. Q \in SchedulerState /\ Arrived(C, Q)
  BY <1>2, QueueScheduleType, QueueScheduleQueue DEF Sound
<1> HIDE DEF Q, c
<1>5. PICK d \in Script, k \in 0 .. Len(C.queue) : RanHead(ListInsert(C.queue, k, d), Q)
  BY <1>3, <1>4 DEF Arrived
<1>6. k = 0
  BY <1>3
<1>7. ListInsert(C.queue, k, d) = <<d>>
  <2>1. << >> \in Seq(Script) /\ Len(<< >>) = 0
    BY EmptySeq
  <2>2. Append(<< >>, d) = ListInsert(<< >>, 0, d)
    BY <2>1, AppendIsInsert
  <2>3. Append(<< >>, d) = <<d>>
    OBVIOUS
  <2> QED
    BY <1>3, <1>6, <2>2, <2>3
<1>8. Q.schedule \in Script /\ Q.queue = << >>
  BY <1>5, <1>7 DEF RanHead
<1> QED
  BY <1>1, <1>4, <1>8 DEF SchedulerState, Abstract!Init

(* The scheduler implements the discipline of ScheduleQueue: its handlers  *)
(* change the schedule that runs and the queue only as the steps of that   *)
(* module allow. A schedule that aborts itself is excepted: the abortion   *)
(* and the end of the script then drop two schedules in one handler. So is *)
(* a full pipe of the RTC, with which a script that has ended may be the   *)
(* one that runs.                                                          *)
THEOREM ImplementsQueue ==
  ASSUME "abort_schedule" \notin ScriptOps, "rtcpipe" \notin Environment
  PROVE  Spec => QueueDiscipline
<1>1. Init => Abstract!Init
  BY InitIsAbstract
<1>2. OrderlyNow /\ [Next]_vars => [Abstract!Next]_(Abstract!vars)
  <2> SUFFICES ASSUME Orderly(sch), [Next]_vars
               PROVE  [Abstract!Next]_(Abstract!vars)
    BY DEF OrderlyNow
  <2>0. sch \in SchedulerState
    BY DEF Orderly, Sound
  <2>1. CASE sch' = sch
    BY <2>1 DEF Abstract!vars
  <2>2. CASE Timeout \/ Message \/ World
    <3>1. QueueStep(sch, sch')
      BY <2>2, TimeoutQueue, MessageQueue, WorldQueue
    <3> QED
      BY <2>0, <3>1, QueueStepIsAbstract
  <2> QED
    BY <2>1, <2>2, StepOfThread
<1> QED
  BY <1>1, <1>2, OrderlyAlways, PTL DEF Spec, QueueDiscipline, Abstract!Spec

-----------------------------------------------------------------------------
(* The files of the autoqueue.                                             *)

(* The autoqueue file that is worked at is there, and the schedule that    *)
(* runs was compiled from it.                                              *)
Carried(S) == S.pending => /\ S.schedule # None
                           /\ S.src[S.schedule] = S.pendname
                           /\ S.pendname \in S.pendDir

(* From S to T the file is left alone, or moved to the done directory.     *)
Filed(S, T) ==
  /\ Carried(T)
  /\ T.pending => S.pending /\ T.pendname = S.pendname
  /\ \/ T.doneDir = S.doneDir
     \/ S.pending /\ ~T.pending /\ T.doneDir = S.doneDir \cup {S.pendname}

SameDirs(S, T) == /\ T.pending = S.pending /\ T.pendname = S.pendname
                  /\ T.pendDir = S.pendDir /\ T.doneDir = S.doneDir

SameFile(S, T) == /\ SameDirs(S, T)
                  /\ T.schedule = S.schedule
                  /\ S.schedule \in Script => T.src[S.schedule] = S.src[S.schedule]

LEMMA SameFileIsFiled ==
  ASSUME NEW S \in SchedulerState, NEW T, Carried(S), SameFile(S, T)
  PROVE  Filed(S, T) /\ Carried(T)
<1>1. S.schedule \in Script \cup {None}
  BY DEF SchedulerState, ScriptOrNone
<1> QED
  BY <1>1 DEF SameFile, SameDirs, Carried, Filed

LEMMA FiledTwice ==
  ASSUME NEW S, NEW T, NEW U, Filed(S, T), Filed(T, U)
  PROVE  Filed(S, U)
<1> QED
  BY DEF Filed

LEMMA SameFileTwice ==
  ASSUME NEW S, NEW T, NEW U, SameFile(S, T), SameFile(T, U)
  PROVE  SameFile(S, U)
<1> QED
  BY DEF SameFile, SameDirs

-----------------------------------------------------------------------------
LEMMA ReportFile ==
  ASSUME NEW S \in SchedulerState, NEW r, NEW q
  PROVE  SameFile(S, Report(S, r, q)) /\ SameFile(S, Mislead(S))
<1>1. SameFile(S, Mislead(S))
  BY DEF Mislead, SameFile, SameDirs, SchedulerState
<1>2. CASE S.client = "full"
  BY <1>1, <1>2 DEF Report
<1>3. CASE S.client # "full"
  BY <1>1, <1>3 DEF Report, SameFile, SameDirs, SchedulerState
<1> QED
  BY <1>1, <1>2, <1>3

LEMMA ReportRmFile ==
  ASSUME NEW S \in SchedulerState, NEW n
  PROVE  SameFile(S, ReportRm(S, n))
<1> QED
  BY ReportFile DEF ReportRm

LEMMA ReportMvFile ==
  ASSUME NEW S \in SchedulerState, NEW n, NEW m
  PROVE  SameFile(S, ReportMv(S, n, m))
<1> QED
  BY ReportFile DEF ReportMv

LEMMA SmallFile ==
  ASSUME NEW S \in SchedulerState
  PROVE  /\ SameFile(S, ReportInitEnded(S))
         /\ SameFile(S, ResumeSchedule(S))
         /\ SameFile(S, SuspendSchedule(S))
         /\ \A c \in Script : SameFile(S, Reference(S, c))
<1>1. SameFile(S, ReportInitEnded(S))
  BY DEF ReportInitEnded, SameFile, SameDirs, SchedulerState
<1>2. SameFile(S, ResumeSchedule(S))
  BY DEF ResumeSchedule, SameFile, SameDirs, SchedulerState
<1>3. SameFile(S, SuspendSchedule(S))
  BY DEF SuspendSchedule, SameFile, SameDirs, SchedulerState
<1>4. ASSUME NEW c \in Script
      PROVE  SameFile(S, Reference(S, c))
  BY DEF Reference, SameFile, SameDirs, SchedulerState
<1> QED
  BY <1>1, <1>2, <1>3, <1>4

LEMMA StageFile ==
  ASSUME NEW S \in SchedulerState, NEW c \in ScriptOrNone
  PROVE  SameDirs(S, Stage(S, c)) /\ Stage(S, c).src = S.src
<1> DEFINE T == IF c = None THEN S ELSE Rewind(S, c)
           U == Report(T, c, T.viewQueue)
           V == [U EXCEPT !.schedule = c]
<1>1. T \in SchedulerState /\ SameDirs(S, T) /\ T.src = S.src
  <2>1. CASE c = None
    BY <2>1 DEF SameDirs
  <2>2. CASE c # None
    <3>1. T = Rewind(S, c) /\ T \in SchedulerState
      BY <2>2, RewindType DEF Quiet, ScriptOrNone
    <3> QED
      BY <3>1 DEF Rewind, SameDirs, SchedulerState
  <2> QED
    BY <2>1, <2>2
<1>2. Stage(S, c) = ResumeSchedule(V)
  BY DEF Stage, ReportRun
<1> HIDE DEF T
<1>3. T.viewQueue \in Seq(Script)
  BY <1>1 DEF SchedulerState
<1>4. U \in SchedulerState /\ SameDirs(T, U) /\ U.src = T.src
  <2>1. U \in SchedulerState
    BY <1>1, <1>3, ReportType DEF Quiet
  <2> QED
    BY <1>1, <2>1 DEF Report, Mislead, SameDirs, SchedulerState
<1> HIDE DEF U
<1> QED
  BY <1>1, <1>2, <1>4 DEF ResumeSchedule, SameDirs, SchedulerState

-----------------------------------------------------------------------------
(* A container that is not emptied keeps its file.                         *)
LEMMA UnreferenceFile ==
  ASSUME NEW S \in SchedulerState, NEW K \in SUBSET Script
  PROVE  /\ SameDirs(S, Unreference(S, K))
         /\ \A x \in Script :
               Unreference(S, K).src[x] = IF x \in K /\ S.ref[x] = 1 THEN None
                                          ELSE S.src[x]
<1>1. SameDirs(S, Unreference(S, K))
  BY DEF Unreference, SameDirs, SchedulerState
<1>2. \A x \in Script : Unreference(S, K).src[x] = IF x \in K /\ S.ref[x] = 1 THEN None
                                                   ELSE S.src[x]
  BY DEF Unreference, SchedulerState
<1> QED
  BY <1>1, <1>2

(* To discard a script that is not the one that runs, or to which there is *)
(* another reference, leaves the file of the one that runs alone.          *)
LEMMA DiscardFile ==
  ASSUME NEW S, Kept(S), Solvent(S), NEW c \in Script, S.ref[c] >= 1,
         c = S.schedule => S.ref[c] >= 2
  PROVE  SameFile(S, Discard(S, c))
<1> DEFINE U == Unreference(S, {c})
           K == IF S.ref[c] = 1 THEN S.args[c] ELSE {}
           D == Unreference(U, K)
           k == S.schedule
<1>0. /\ S \in SchedulerState /\ S.args[c] \in SUBSET Script
      /\ S.ref[c] \in Int
  BY DEF Kept, SchedulerState
<1>1. Discard(S, c) = D
  BY NoneAssumption DEF Discard
<1>2. /\ Kept(Discard(S, c))
      /\ \A x \in Script : Surplus(Discard(S, c), x) = Surplus(S, x) - Same(c, x)
      /\ Discard(S, c).schedule = k
  BY DiscardBooks
<1>3. /\ U \in SchedulerState /\ SameDirs(S, U)
      /\ \A x \in Script : /\ U.ref[x] = IF x = c THEN S.ref[x] - 1 ELSE S.ref[x]
                           /\ U.src[x] = IF x = c /\ S.ref[x] = 1 THEN None
                                         ELSE S.src[x]
  BY <1>0, UnreferenceIs, UnreferenceFile
<1> HIDE DEF U
<1>4. K \in SUBSET Script
  BY <1>0
<1> HIDE DEF K
<1>5. /\ SameDirs(U, D)
      /\ \A x \in Script : /\ D.ref[x] = IF x \in K THEN U.ref[x] - 1 ELSE U.ref[x]
                           /\ D.src[x] = IF x \in K /\ U.ref[x] = 1 THEN None
                                         ELSE U.src[x]
  BY <1>3, <1>4, UnreferenceIs, UnreferenceFile
<1> HIDE DEF D
<1>6. ASSUME k \in Script
      PROVE  D.src[k] = S.src[k]
  <2>1. D.ref[k] # 0
    <3>1. CASE k = c
      <4>1. k \notin K
        <5>1. c \notin S.args[c]
          BY DEF Kept, Trees
        <5> QED
          BY <3>1, <5>1 DEF K
      <4> QED
        BY <1>0, <1>3, <1>5, <1>6, <3>1, <4>1
    <3>2. CASE k # c
      <4>1. Surplus(D, k) = Surplus(S, k) - Same(c, k) /\ Same(c, k) = 0
        BY <1>1, <1>2, <1>6, <3>2 DEF Same
      <4>2. /\ Surplus(S, k) \in Int /\ Surplus(S, k) >= 0
            /\ UsesOf(D, k) \in Nat /\ D.ref[k] \in Int
        BY <1>0, <1>1, <1>2, <1>6, UsesType DEF Solvent, Kept
      <4>3. UsesOf(D, k) > 0
        <5>1. /\ Same(D.schedule, k) = 1 /\ Same(D.initialize, k) \in {0, 1}
              /\ Same(D.startup, k) \in {0, 1} /\ Times(D.queue, k) \in Nat
              /\ ArgUses(D, k) \in {0, 1}
          BY <1>1, <1>2, <1>6, UsesType DEF Same, Kept
        <5> QED
          BY <5>1 DEF UsesOf
      <4> QED
        BY <4>1, <4>2, <4>3 DEF Surplus
    <3> QED
      BY <3>1, <3>2
  <2>2. U.ref[k] \in Int
    BY <1>3, <1>6 DEF SchedulerState
  <2>3. D.src[k] = U.src[k]
    BY <1>5, <1>6, <2>1, <2>2
  <2>4. CASE k = c
    BY <1>3, <1>6, <2>3, <2>4
  <2>5. CASE k # c
    BY <1>3, <1>6, <2>3, <2>5
  <2> QED
    BY <2>4, <2>5
<1> QED
  BY <1>1, <1>2, <1>3, <1>5, <1>6 DEF SameFile, SameDirs

LEMMA DiscardDirs ==
  ASSUME NEW S \in SchedulerState, NEW c \in ScriptOrNone
  PROVE  SameDirs(S, Discard(S, c))
<1>1. CASE c = None
  BY <1>1 DEF Discard, SameDirs
<1>2. CASE c # None
  <2> DEFINE U == Unreference(S, {c})
             K == IF S.ref[c] = 1 THEN S.args[c] ELSE {}
  <2>1. {c} \in SUBSET Script /\ K \in SUBSET Script
    BY <1>2 DEF SchedulerState, ScriptOrNone
  <2>2. Discard(S, c) = Unreference(U, K)
    BY <1>2 DEF Discard
  <2> HIDE DEF K
  <2>3. U \in SchedulerState /\ SameDirs(S, U)
    BY <2>1, UnreferenceIs, UnreferenceFile
  <2> HIDE DEF U
  <2> QED
    BY <2>1, <2>2, <2>3, UnreferenceFile DEF SameDirs
<1> QED
  BY <1>1, <1>2

(* A script has two uses when it runs and is used in another way.          *)
LEMMA TwoUses ==
  ASSUME NEW S, Kept(S), Solvent(S), NEW c \in Script, S.schedule = c,
         \/ S.initialize = c \/ S.startup = c \/ Times(S.queue, c) > 0
         \/ Surplus(S, c) >= 1
  PROVE  S.ref[c] >= 2
<1>1. /\ S.ref[c] \in Int /\ Same(S.initialize, c) \in {0, 1}
      /\ Same(S.startup, c) \in {0, 1} /\ Times(S.queue, c) \in Nat
      /\ ArgUses(S, c) \in {0, 1} /\ Surplus(S, c) \in Int /\ Surplus(S, c) >= 0
  BY UsesType DEF Kept, Solvent
<1>2. /\ Same(S.schedule, c) = 1
      /\ S.initialize = c => Same(S.initialize, c) = 1
      /\ S.startup = c => Same(S.startup, c) = 1
  BY DEF Same
<1>3. \/ UsesOf(S, c) >= 2
      \/ UsesOf(S, c) >= 1 /\ Surplus(S, c) >= 1
  BY <1>1, <1>2 DEF UsesOf
<1>4. UsesOf(S, c) \in Nat /\ Surplus(S, c) = S.ref[c] - UsesOf(S, c)
  BY UsesType DEF Kept, Surplus
<1> QED
  BY <1>1, <1>3, <1>4

-----------------------------------------------------------------------------
(* The file is moved when its schedule is over, and none is worked at then.*)
LEMMA StartNextFiled ==
  ASSUME NEW S \in SchedulerState, Carried(S)
  PROVE  Filed(S, StartNext(S))
<1> DEFINE R  == ReportInitEnded(S)
           D  == Discard(R, S.schedule)
           S1 == [D EXCEPT !.schedule = None]
           S2 == IF S1.pending THEN RemovePendingFile(S1) ELSE S1
           P  == ReportRm(S2, 0)
           S3 == [P EXCEPT !.queue = Tail(S2.queue)]
           N  == StartNext(S)
<1>0. S.schedule \in ScriptOrNone /\ None \in ScriptOrNone
  BY DEF SchedulerState, ScriptOrNone
<1>1. N = IF S2.queue = << >> THEN Stage(S2, None) ELSE Stage(S3, Head(S2.queue))
  BY DEF StartNext
<1> HIDE DEF N
<1>2. R \in SchedulerState /\ SameDirs(S, R)
  BY SmallBooks, SmallFile DEF SameBooks, SameFile
<1> HIDE DEF R
<1>3. D \in SchedulerState /\ SameDirs(S, D)
  BY <1>0, <1>2, DiscardQueue, DiscardDirs DEF SameDirs
<1> HIDE DEF D
<1>4. S1 \in SchedulerState /\ SameDirs(S, S1)
  BY <1>0, <1>3 DEF SchedulerState, SameDirs
<1> HIDE DEF S1
<1>5. /\ S2 \in SchedulerState /\ S2.queue \in Seq(Script)
      /\ ~S2.pending
      /\ S2.doneDir = IF S.pending THEN S.doneDir \cup {S.pendname} ELSE S.doneDir
  <2>1. S2 \in SchedulerState
    BY <1>4, SmallBooks DEF SameBooks
  <2>2. S2.queue \in Seq(Script)
    BY <2>1 DEF SchedulerState
  <2>3. CASE S.pending
    <3>1. S2 = [S1 EXCEPT !.pendDir = @ \ {S1.pendname},
                          !.doneDir = @ \cup {S1.pendname}, !.pending = FALSE]
      BY <1>4, <2>3 DEF RemovePendingFile, SameDirs, Carried
    <3> HIDE DEF S2
    <3> QED
      BY <1>4, <2>1, <2>2, <2>3, <3>1 DEF SameDirs, SchedulerState
  <2>4. CASE ~S.pending
    <3>1. S2 = S1
      BY <1>4, <2>4 DEF SameDirs
    <3> HIDE DEF S2
    <3> QED
      BY <1>4, <2>1, <2>2, <2>4, <3>1 DEF SameDirs
  <2> QED
    BY <2>3, <2>4
<1> HIDE DEF S2
<1>6. SameDirs(S2, N)
  <2>1. CASE S2.queue = << >>
    BY <1>0, <1>1, <1>5, <2>1, StageFile
  <2>2. CASE S2.queue # << >>
    <3> DEFINE h == Head(S2.queue)
               t == Tail(S2.queue)
    <3>1. h \in ScriptOrNone /\ t \in Seq(Script)
      BY <1>5, <2>2, HeadTailProperties DEF ScriptOrNone
    <3>2. P \in SchedulerState /\ SameDirs(S2, P)
      BY <1>5, ReportRmBooks, ReportRmFile DEF SameBooks, SameFile
    <3> HIDE DEF P
    <3>3. N = Stage(S3, h)
      BY <1>1, <2>2
    <3> HIDE DEF h, t
    <3>4. S3 \in SchedulerState /\ SameDirs(S2, S3)
      BY <3>1, <3>2 DEF SchedulerState, SameDirs, t
    <3> HIDE DEF S3
    <3> QED
      BY <3>1, <3>3, <3>4, StageFile DEF SameDirs
  <2> QED
    BY <2>1, <2>2
<1> QED
  BY <1>5, <1>6 DEF SameDirs, Filed, Carried, N

LEMMA NextScheduleFiled ==
  ASSUME NEW S \in SchedulerState, Carried(S)
  PROVE  Filed(S, NextSchedule(S))
<1> QED
  BY StartNextFiled DEF NextSchedule, Filed

LEMMA MoveScheduleFile ==
  ASSUME NEW S \in SchedulerState, NEW n \in Nat, NEW dn \in Int
  PROVE  SameFile(S, MoveSchedule(S, n, dn))
<1> DEFINE q   == S.queue
           len == Len(q)
           up  == IF dn >= 0 THEN 1 ELSE 0
           dst == Clamp(n + dn + up, 0, len)
           new == IF n + dn < 0 THEN 0 ELSE IF n + dn + up > len THEN dst - 1 ELSE n + dn
           l   == ListDelete(ListInsert(q, dst, q[n + 1]), IF dst <= n THEN n + 1 ELSE n)
           T   == [S EXCEPT !.queue = l]
<1>1. CASE n >= len
  BY <1>1 DEF MoveSchedule, SameFile, SameDirs
<1>2. CASE ~(n >= len)
  <2>1. MoveSchedule(S, n, dn) = ReportMv(T, n, new)
    BY <1>2 DEF MoveSchedule
  <2>2. q \in Seq(Script) /\ len \in Nat
    BY LenProperties DEF SchedulerState
  <2>3. n \in 0 .. len - 1 /\ dst \in 0 .. len /\ n + 1 \in 1 .. len
    BY <1>2, <2>2 DEF Clamp
  <2> HIDE DEF dst, new
  <2> DEFINE ins == ListInsert(q, dst, q[n + 1])
             k   == IF dst <= n THEN n + 1 ELSE n
  <2>4. ins \in Seq(Script) /\ Len(ins) = len + 1
    BY <2>2, <2>3, ElementOfSeq, ListInsertType
  <2>5. k \in 0 .. Len(ins) - 1 /\ l = ListDelete(ins, k)
    BY <2>2, <2>3, <2>4
  <2> HIDE DEF ins, k
  <2>6. l \in Seq(Script)
    BY <2>4, <2>5, ListDeleteType
  <2> HIDE DEF l
  <2>7. T \in SchedulerState /\ SameFile(S, T)
    BY <2>6 DEF SchedulerState, SameFile, SameDirs
  <2> HIDE DEF T
  <2> QED
    BY <2>1, <2>7, ReportMvFile, SameFileTwice
<1> QED
  BY <1>1, <1>2

LEMMA QueueScheduleFiled ==
  ASSUME NEW S \in SchedulerState, Carried(S), NEW c \in Script, NEW n \in Int
  PROVE  Filed(S, QueueSchedule(S, c, n))
<1> DEFINE q  == S.queue
           v  == Append(S.viewQueue, c)
           a  == Append(q, c)
           A  == Report(S, S.viewRun, v)
           B  == [A EXCEPT !.queue = a]
           S1 == Reference(B, c)
           S2 == IF n < 0 THEN S1 ELSE MoveSchedule(S1, Len(q), n - Len(q))
           Q  == QueueSchedule(S, c, n)
<1>1. /\ q \in Seq(Script) /\ Len(q) \in Nat
      /\ S.viewRun \in ScriptOrNone /\ S.viewQueue \in Seq(Script)
  BY LenProperties DEF SchedulerState
<1>2. a \in Seq(Script) /\ v \in Seq(Script) /\ n - Len(q) \in Int
  BY <1>1
<1>3. Q = IF S2.schedule = None THEN NextSchedule(S2) ELSE S2
  BY DEF QueueSchedule, ReportAdd
<1> HIDE DEF v, a, Q
<1>4. A \in SchedulerState /\ SameFile(S, A)
  BY <1>1, <1>2, ReportBooks, ReportFile DEF SameBooks
<1> HIDE DEF A
<1>5. B \in SchedulerState /\ SameFile(S, B)
  BY <1>2, <1>4 DEF SameFile, SameDirs, SchedulerState
<1> HIDE DEF B
<1>6. S1 \in SchedulerState /\ SameFile(S, S1)
  BY <1>5, ReferenceType, SmallFile, SameFileTwice DEF Quiet
<1> HIDE DEF S1
<1>7. S2 \in SchedulerState /\ SameFile(S, S2)
  <2>1. CASE n < 0
    BY <1>6, <2>1
  <2>2. CASE ~(n < 0)
    <3>1. S2 = MoveSchedule(S1, Len(q), n - Len(q))
      BY <2>2
    <3> HIDE DEF S2
    <3> QED
      BY <1>1, <1>2, <1>6, <3>1, MoveScheduleType, MoveScheduleFile, SameFileTwice
         DEF Quiet
  <2> QED
    BY <2>1, <2>2
<1> HIDE DEF S2
<1>8. Filed(S, S2) /\ Carried(S2)
  BY <1>7, SameFileIsFiled
<1> QED
  BY <1>3, <1>7, <1>8, NextScheduleFiled, FiledTwice DEF Q

-----------------------------------------------------------------------------
(* The operators and handlers leave the file at work alone, or file it as  *)
(* done.                                                                   *)

LEMMA RemoveScheduleFile ==
  ASSUME NEW S, Kept(S), Solvent(S), NEW n \in Nat
  PROVE  SameFile(S, RemoveSchedule(S, n))
<1> DEFINE q == S.queue
           l == ListDelete(q, n)
           T == [S EXCEPT !.queue = l]
           c == q[n + 1]
           D == Discard(T, c)
<1>0. S \in SchedulerState
  BY DEF Kept
<1>1. q \in Seq(Script) /\ Len(q) \in Nat
  BY <1>0, LenProperties DEF SchedulerState
<1>2. CASE n >= Len(q)
  BY <1>2 DEF RemoveSchedule, SameFile, SameDirs
<1>3. CASE ~(n >= Len(q))
  <2>1. n \in 0 .. Len(q) - 1 /\ n + 1 \in 1 .. Len(q) /\ n + 1 \in DOMAIN q
    BY <1>1, <1>3
  <2>2. c \in Script /\ Times(q, c) > 0
    BY <1>1, <2>1, TimesEntry
  <2>3. l \in Seq(Script)
    BY <1>1, <2>1, ListDeleteType
  <2>4. \A x \in Script : Times(q, x) = Times(l, x) + Same(c, x)
    BY <1>1, <2>1, TimesDelete
  <2>5. RemoveSchedule(S, n) = ReportRm(D, n)
    BY <1>3 DEF RemoveSchedule
  <2> HIDE DEF c, l
  <2>6. /\ T \in SchedulerState /\ SameFile(S, T)
        /\ T.queue = l /\ T.schedule = S.schedule /\ T.initialize = S.initialize
        /\ T.startup = S.startup /\ T.ref = S.ref /\ T.state = S.state /\ T.args = S.args
    BY <1>0, <2>3 DEF SchedulerState, SameFile, SameDirs
  <2> HIDE DEF T
  <2>7. Kept(T) /\ Solvent(T)
    <3>1. /\ Kept(T)
          /\ \A x \in Script :
               /\ Surplus(T, x) = Surplus(S, x) + (Times(S.queue, x) - Times(l, x))
               /\ Surplus(S, x) \in Int
               /\ Times(S.queue, x) \in Nat /\ Times(l, x) \in Nat
      <4>1. /\ Kept(T)
            /\ \A x \in Script :
                 /\ Surplus(T, x) = Surplus(S, x)
                       + (Same(S.schedule, x) - Same(S.schedule, x))
                       + (Same(S.initialize, x) - Same(S.initialize, x))
                       + (Same(S.startup, x) - Same(S.startup, x))
                       + (Times(S.queue, x) - Times(l, x))
                 /\ Surplus(S, x) \in Int
                 /\ Same(S.schedule, x) \in {0, 1} /\ Same(S.initialize, x) \in {0, 1}
                 /\ Same(S.startup, x) \in {0, 1}
                 /\ Times(S.queue, x) \in Nat /\ Times(l, x) \in Nat
        BY <2>6, FieldBooks
      <4> HIDE DEF q
      <4> QED
        BY <4>1
    <3>2. ASSUME NEW x \in Script
          PROVE  Surplus(T, x) >= 0
      <4>1. Surplus(S, x) >= 0 /\ Same(c, x) \in {0, 1}
        BY DEF Solvent, Same
      <4> QED
        BY <2>4, <3>1, <4>1
    <3> QED
      BY <3>1, <3>2 DEF Solvent
  <2>8. S.ref[c] \in Int /\ S.ref[c] >= 1 /\ (c = S.schedule => S.ref[c] >= 2)
    <3>1. S.ref[c] \in Int /\ S.ref[c] >= 1
      BY <1>0, <2>2, UsedIsCompiled DEF SchedulerState
    <3>2. c = S.schedule => S.ref[c] >= 2
      BY <2>2, TwoUses
    <3> QED
      BY <3>1, <3>2
  <2>9. SameFile(T, D)
    BY <2>2, <2>6, <2>7, <2>8, DiscardFile
  <2>10. D \in SchedulerState
    BY <2>2, <2>6, DiscardQueue DEF ScriptOrNone
  <2> HIDE DEF D
  <2>11. SameFile(D, ReportRm(D, n))
    BY <2>10, ReportRmFile
  <2> QED
    BY <2>5, <2>6, <2>9, <2>11, SameFileTwice
<1> QED
  BY <1>2, <1>3

(* The file of an aborted schedule is worked at no more.                   *)
LEMMA AbortScheduleFiled ==
  ASSUME NEW S \in SchedulerState, Carried(S)
  PROVE  Filed(S, AbortSchedule(S))
<1> DEFINE c == S.schedule
           A == [S EXCEPT !.auto = @ /\ ~S.pending, !.pending = FALSE, !.src[c] = None]
           S1 == ExitScript(A, c)
<1>1. CASE c = None
  BY <1>1 DEF AbortSchedule, Filed
<1>2. CASE c # None
  <2>1. c \in Script
    BY <1>2 DEF SchedulerState, ScriptOrNone
  <2>2. [S.src EXCEPT ![c] = None] \in [Script -> FileOrNone]
    BY DEF SchedulerState, FileOrNone
  <2>3. (S.auto /\ ~S.pending) \in BOOLEAN
    OBVIOUS
  <2>4. A \in SchedulerState /\ ~A.pending /\ A.doneDir = S.doneDir
    BY <2>2, <2>3 DEF SchedulerState
  <2>5. AbortSchedule(S) = IF S1.state[c] = "EXITING" THEN S1 ELSE NextSchedule(S1)
    BY <1>2 DEF AbortSchedule
  <2> HIDE DEF A
  <2>6. S1 \in SchedulerState
    BY <2>1, <2>4, ExitScriptQueue
  <2>7. ~S1.pending /\ S1.doneDir = S.doneDir
    BY <2>4 DEF ExitScript, SchedulerState
  <2> HIDE DEF S1
  <2>8. Carried(S1) /\ Filed(S, S1)
    BY <2>7 DEF Carried, Filed
  <2>9. Filed(S1, NextSchedule(S1))
    BY <2>6, <2>8, NextScheduleFiled
  <2> QED
    BY <2>5, <2>8, <2>9, FiledTwice
<1> QED
  BY <1>1, <1>2

LEMMA ChangeInitScriptFile ==
  ASSUME NEW S, Kept(S), Solvent(S), NEW c \in Script
  PROVE  SameFile(S, ChangeInitScript(S, c))
<1> DEFINE i == S.initialize
           D == Discard(S, i)
           T == [D EXCEPT !.initialize = c]
<1>1. S \in SchedulerState /\ i \in ScriptOrNone /\ c \in ScriptOrNone
  BY DEF Kept, SchedulerState, ScriptOrNone
<1>2. SameFile(S, D)
  <2>1. CASE i = None
    <3>1. D = S
      BY <2>1, DiscardNone
    <3> QED
      BY <3>1 DEF SameFile, SameDirs
  <2>2. CASE i # None
    <3>1. i \in Script
      BY <1>1, <2>2 DEF ScriptOrNone
    <3>2. S.ref[i] >= 1 /\ (i = S.schedule => S.ref[i] >= 2)
      BY <3>1, UsedIsCompiled, TwoUses
    <3> QED
      BY <3>1, <3>2, DiscardFile
  <2> QED
    BY <2>1, <2>2
<1>3. D \in SchedulerState
  BY <1>1, DiscardQueue
<1>4. ChangeInitScript(S, c) = Reference(T, c)
  BY DEF ChangeInitScript
<1> HIDE DEF D
<1>5. T \in SchedulerState /\ SameFile(D, T)
  BY <1>1, <1>3 DEF SameFile, SameDirs, SchedulerState
<1> HIDE DEF T
<1> QED
  BY <1>2, <1>4, <1>5, SmallFile, SameFileTwice

LEMMA CompleteFiled ==
  ASSUME NEW S, Kept(S), Solvent(S), Carried(S)
  PROVE  Filed(S, Complete(S))
<1> DEFINE u == S.startup
           D == Discard(S, u)
           B == [D EXCEPT !.initializing = FALSE, !.startup = None, !.listening = TRUE]
<1>0. S \in SchedulerState /\ u \in ScriptOrNone /\ None \in ScriptOrNone
  BY DEF Kept, SchedulerState, ScriptOrNone
<1>1. CASE ~S.initializing
  BY <1>0, <1>1, NextScheduleFiled DEF Complete
<1>2. CASE S.initializing
  <2>1. Complete(S) = NextSchedule(B)
    BY <1>2 DEF Complete
  <2>2. SameFile(S, D)
    <3>1. CASE u = None
      <4>1. D = S
        BY <3>1, DiscardNone
      <4> QED
        BY <4>1 DEF SameFile, SameDirs
    <3>2. CASE u # None
      <4>1. u \in Script
        BY <1>0, <3>2 DEF ScriptOrNone
      <4>2. S.ref[u] >= 1 /\ (u = S.schedule => S.ref[u] >= 2)
        BY <4>1, UsedIsCompiled, TwoUses
      <4> QED
        BY <4>1, <4>2, DiscardFile
    <3> QED
      BY <3>1, <3>2
  <2>3. D \in SchedulerState
    BY <1>0, DiscardQueue
  <2> HIDE DEF D
  <2>4. B \in SchedulerState /\ SameFile(D, B)
    BY <1>0, <2>3 DEF SameFile, SameDirs, SchedulerState
  <2> HIDE DEF B
  <2>5. Filed(S, B) /\ Carried(B)
    BY <1>0, <2>2, <2>4, SameFileTwice, SameFileIsFiled
  <2> QED
    BY <2>1, <2>4, <2>5, NextScheduleFiled, FiledTwice
<1> QED
  BY <1>1, <1>2

LEMMA ExecuteFiled ==
  ASSUME NEW S, Kept(S), Solvent(S), Carried(S),
         NEW op \in Ops, NEW c \in ScriptOrNone, NEW n \in Int, NEW dn \in Int,
         op \in ScriptArgOps => c \in Script,
         op \in {"remove_schedule", "move_schedule"} => n \in Nat
  PROVE  Filed(S, Execute(S, op, c, n, dn))
<1>0. S \in SchedulerState
  BY DEF Kept
<1>1. CASE op = "schedule"
  <2>1. Execute(S, op, c, n, dn) = QueueSchedule(S, c, n) /\ c \in Script
    BY <1>1 DEF Execute, ScriptArgOps
  <2> QED
    BY <1>0, <2>1, QueueScheduleFiled
<1>2. CASE op = "load_reboot_script"
  <2>1. Execute(S, op, c, n, dn) = ChangeInitScript(S, c) /\ c \in Script
    BY <1>2 DEF Execute, ScriptArgOps
  <2> QED
    BY <1>0, <2>1, ChangeInitScriptFile, SameFileIsFiled
<1>3. CASE op = "abort_schedule"
  <2>1. Execute(S, op, c, n, dn) = AbortSchedule(S)
    BY <1>3 DEF Execute
  <2> QED
    BY <1>0, <2>1, AbortScheduleFiled
<1>4. CASE op = "suspend_schedule"
  BY <1>0, <1>4, SmallFile, SameFileIsFiled DEF Execute
<1>5. CASE op = "resume_schedule"
  BY <1>0, <1>5, SmallFile, SameFileIsFiled DEF Execute
<1>6. CASE op = "remove_schedule"
  <2>1. Execute(S, op, c, n, dn) = RemoveSchedule(S, n)
    BY <1>6 DEF Execute
  <2> QED
    BY <1>0, <1>6, <2>1, RemoveScheduleFile, SameFileIsFiled
<1>7. CASE op = "move_schedule"
  <2>1. Execute(S, op, c, n, dn) = MoveSchedule(S, n, dn)
    BY <1>7 DEF Execute
  <2> QED
    BY <1>0, <1>7, <2>1, MoveScheduleFile, SameFileIsFiled
<1> QED
  BY <1>1, <1>2, <1>3, <1>4, <1>5, <1>6, <1>7 DEF Ops

LEMMA AfterStepFiled ==
  ASSUME NEW S, Kept(S), Solvent(S), Carried(S), NEW c
  PROVE  Filed(S, AfterStep(S, c))
<1>1. Filed(S, S)
  BY DEF Filed
<1> QED
  BY <1>1, CompleteFiled DEF AfterStep

(* The file that a step moves to the done directory.                       *)
DoneRan(S, T) ==
  \A f \in T.doneDir \ S.doneDir :
     \/ S.schedule = None /\ T.schedule = None
     \/ S.schedule # None /\ S.src[S.schedule] = f

LEMMA FiledRan ==
  ASSUME NEW S, NEW T, Carried(S), Filed(S, T)
  PROVE  Carried(T) /\ DoneRan(S, T)
<1> QED
  BY DEF Carried, Filed, DoneRan

LEMMA CompileFile ==
  ASSUME NEW S, Kept(S), Solvent(S), NEW w \in Compilations(S), NEW f \in FileOrNone
  PROVE  /\ w.script \in Script
         /\ SameFile(S, Compile(S, w, f))
         /\ Compile(S, w, f).src[w.script] = f
<1>0. S \in SchedulerState
  BY DEF Kept
<1>1. w.script \in Script /\ S.state[w.script] = "EMPTY"
  BY DEF Compilations, Pool
<1>2. S.schedule \in Script => S.schedule # w.script
  BY <1>1, UsedIsCompiled
<1> QED
  BY <1>0, <1>1, <1>2 DEF Compile, SameFile, SameDirs, SchedulerState

LEMMA TimeoutFiled ==
  ASSUME Orderly(sch), Carried(sch), Timeout
  PROVE  Carried(sch') /\ DoneRan(sch, sch')
<1>0. /\ sch \in SchedulerState /\ sch.schedule \in ScriptOrNone
      /\ Kept(sch) /\ Solvent(sch) /\ Fit(sch, None)
  BY DEF Orderly, Sound, SchedulerState
<1>s. ASSUME HasStatement
      PROVE  /\ sch.schedule \in Script
             /\ Kept(Stepped) /\ Solvent(Stepped) /\ Fit(Stepped, None)
             /\ SameFile(sch, Stepped)
             /\ Stepped.schedule = sch.schedule /\ Stepped.args = sch.args
  <2>1. /\ sch.schedule \in Script /\ Stepped \in SchedulerState
        /\ Stepped = [sch EXCEPT !.pc = [sch.pc EXCEPT ![sch.schedule] = @ + 1]]
    BY <1>s, SteppedIs DEF Orderly
  <2>2. SameBooks(sch, Stepped)
    BY <1>0, <2>1 DEF SameBooks, SchedulerState
  <2>3. Kept(Stepped) /\ Solvent(Stepped) /\ Fit(Stepped, None)
    BY <1>0, <2>2, SameBooksKeeps, BalancedSolvent
  <2>4. SameFile(sch, Stepped)
    BY <1>0, <2>1 DEF SameFile, SameDirs, SchedulerState
  <2> QED
    BY <2>1, <2>2, <2>3, <2>4 DEF SameBooks
<1>1. CASE StepStatement
  BY <1>0, <1>1, <1>s, SameFileIsFiled, FiledRan DEF StepStatement
<1>2. CASE StepError
  <2> DEFINE k == sch.schedule
             E == [sch EXCEPT !.state[k] = "ERROR"]
  <2>1. HasStatement /\ sch' = Complete(E)
    BY <1>2 DEF StepError
  <2>2. k \in Script /\ sch.state[k] # "EMPTY"
    BY <1>0, <1>s, <2>1, UsedIsCompiled
  <2>3. [sch.state EXCEPT ![k] = "ERROR"] \in [Script -> RunState]
    BY <1>0 DEF SchedulerState, RunState
  <2>4. /\ E \in SchedulerState
        /\ E.state = [sch.state EXCEPT ![k] = "ERROR"]
        /\ E.ref = sch.ref /\ E.args = sch.args
        /\ E.schedule = k /\ E.initialize = sch.initialize
        /\ E.startup = sch.startup /\ E.queue = sch.queue
        /\ SameFile(sch, E)
    BY <1>0, <2>3 DEF SchedulerState, SameFile, SameDirs
  <2> HIDE DEF E
  <2>5. sch.state \in [Script -> RunState]
    BY <1>0 DEF SchedulerState
  <2>6. \A x \in Script : E.state[x] = "EMPTY" <=> sch.state[x] = "EMPTY"
    BY <2>2, <2>4, <2>5
  <2>7. Kept(E)
    BY <1>0, <2>4, <2>6 DEF Kept, Trees
  <2>8. \A x \in Script : Surplus(E, x) = Surplus(sch, x)
    BY <2>4 DEF Surplus, UsesOf, ArgUses
  <2>9. Solvent(E)
    BY <1>0, <2>8 DEF Solvent
  <2>10. Filed(sch, E) /\ Carried(E)
    BY <1>0, <2>4, SameFileIsFiled
  <2> QED
    BY <2>1, <2>7, <2>9, <2>10, CompleteFiled, FiledTwice, FiledRan
<1>3. CASE StepExit
  <2> DEFINE k == sch.schedule
             T == ExitScript(sch, k)
  <2>1. k \in Script /\ sch.state[k] # "EMPTY"
    BY <1>0, <1>3, UsedIsCompiled DEF StepExit, InProgress, Running, ScriptOrNone
  <2>2. Balanced(sch, T)
    BY <1>0, <2>1, ExitScriptBooks
  <2>3. SameFile(sch, T)
    BY <1>0, <2>1 DEF ExitScript, SameFile, SameDirs, SchedulerState
  <2>4. sch' = AfterStep(T, k)
    BY <1>3 DEF StepExit
  <2> HIDE DEF T
  <2>5. Kept(T) /\ Solvent(T)
    BY <1>0, <2>2, BalancedSolvent
  <2>6. Filed(sch, T) /\ Carried(T)
    BY <1>0, <2>3, SameFileIsFiled
  <2> QED
    BY <2>4, <2>5, <2>6, AfterStepFiled, FiledTwice, FiledRan
<1>e. ASSUME HasStatement,
             NEW op \in Ops, NEW c \in ScriptOrNone, NEW n \in Int, NEW dn \in Int,
             op \in ScriptArgOps => c \in Script /\ Holding(Stepped, c),
             op \in {"remove_schedule", "move_schedule"} => n \in Nat,
             sch' = AfterStep(Execute(Stepped, op, c, n, dn), sch.schedule)
      PROVE  Carried(sch') /\ DoneRan(sch, sch')
  <2> DEFINE T == Execute(Stepped, op, c, n, dn)
  <2>1. Filed(sch, Stepped) /\ Carried(Stepped)
    BY <1>0, <1>s, <1>e, SameFileIsFiled
  <2>2. Balanced(Stepped, T)
    BY <1>s, <1>e, ExecuteBooks
  <2>3. Filed(Stepped, T)
    BY <1>s, <1>e, <2>1, ExecuteFiled
  <2>4. sch' = AfterStep(T, sch.schedule)
    BY <1>e
  <2> HIDE DEF T
  <2>5. Kept(T) /\ Solvent(T) /\ Carried(T)
    BY <1>s, <1>e, <2>2, <2>3, BalancedSolvent DEF Filed
  <2>6. Filed(T, sch')
    BY <2>4, <2>5, AfterStepFiled
  <2>7. Filed(sch, sch')
    BY <2>1, <2>3, <2>6, FiledTwice
  <2> QED
    BY <2>7, FiledRan
<1>4. CASE StepCommand
  <2>0. PICK op \in ScriptOps \ ScriptArgOps : \E w \in Numbers(op) :
           sch' = AfterStep(Execute(Stepped, op, None, w[1], w[2]), sch.schedule)
    BY <1>4 DEF StepCommand
  <2>1. PICK w \in Numbers(op) :
           sch' = AfterStep(Execute(Stepped, op, None, w[1], w[2]), sch.schedule)
    BY <2>0
  <2>2. op \in Ops \ ScriptArgOps
    BY InputAssumption
  <2>3. HasStatement /\ None \in ScriptOrNone
    BY <1>4 DEF StepCommand, ScriptOrNone
  <2>4. /\ w[1] \in Int /\ w[2] \in Int
        /\ op \in {"remove_schedule", "move_schedule"} => w[1] \in Nat
    BY <2>2, NumbersType
  <2> QED
    BY <1>e, <2>1, <2>2, <2>3, <2>4
<1>5. CASE StepCommandWithScript
  <2>1. PICK op \in ScriptOps \cap ScriptArgOps, c \in sch.args[sch.schedule] :
           \E n \in IF op = "schedule" THEN InsertAt ELSE {-1} :
              sch' = AfterStep(Execute(Stepped, op, c, n, 0), sch.schedule)
    BY <1>5 DEF StepCommandWithScript
  <2>2. PICK n \in IF op = "schedule" THEN InsertAt ELSE {-1} :
           sch' = AfterStep(Execute(Stepped, op, c, n, 0), sch.schedule)
    BY <2>1
  <2>3. HasStatement
    BY <1>5 DEF StepCommandWithScript
  <2>4. sch.schedule \in Script /\ c \in Script /\ c \in ScriptOrNone
    BY <1>0, <1>s, <2>3 DEF SchedulerState, ScriptOrNone
  <2>5. op \in Ops /\ op \notin {"remove_schedule", "move_schedule"}
    BY InputAssumption DEF ScriptArgOps
  <2>6. n \in Int /\ 0 \in Int
    BY InputAssumption
  <2>7. Holding(Stepped, c)
    BY <1>s, <2>1, <2>3, <2>4 DEF Holding
  <2> QED
    BY <1>e, <2>2, <2>3, <2>4, <2>5, <2>6, <2>7
<1>6. CASE AutoStart
  <2>1. PICK f \in sch.pendDir, w \in Compilations(sch) :
           sch' = Stage(Compile([sch EXCEPT !.pending = TRUE, !.pendname = f], w, f),
                        w.script)
    BY <1>6 DEF AutoStart
  <2> DEFINE A == [sch EXCEPT !.pending = TRUE, !.pendname = f]
             C == Compile(A, w, f)
  <2>2. f \in FileOrNone
    BY <1>0 DEF SchedulerState, FileOrNone
  <2>3. /\ A \in SchedulerState /\ SameBooks(sch, A)
        /\ A.pendname = f /\ A.pendDir = sch.pendDir /\ A.doneDir = sch.doneDir
    BY <1>0, <2>2 DEF SchedulerState, SameBooks
  <2>4. sch' = Stage(C, w.script)
    BY <2>1
  <2> HIDE DEF A
  <2>5. w \in Compilations(A)
    BY <2>3 DEF Compilations, Pool, SameBooks
  <2>6. Kept(A) /\ Solvent(A)
    BY <1>0, <2>3, SameBooksKeeps, BalancedSolvent
  <2>7. /\ w.script \in Script /\ SameFile(A, C) /\ C.src[w.script] = f
        /\ C \in SchedulerState
    BY <2>2, <2>5, <2>6, CompileFile, CompileBooks DEF Kept
  <2> HIDE DEF C
  <2>8. SameDirs(C, sch') /\ sch'.src = C.src /\ sch'.schedule = w.script
    BY <2>4, <2>7, StageFile, StageQueue DEF ScriptOrNone
  <2> QED
    BY <2>1, <2>3, <2>7, <2>8, NoneAssumption DEF SameFile, SameDirs, Carried, DoneRan
<1>7. CASE AutoReject
  <2>1. PICK f \in sch.pendDir :
           sch' = RemovePendingFile([sch EXCEPT !.pending = TRUE, !.pendname = f])
    BY <1>7 DEF AutoReject
  <2> DEFINE A == [sch EXCEPT !.pending = TRUE, !.pendname = f]
  <2>2. f \in FileOrNone
    BY <1>0 DEF SchedulerState, FileOrNone
  <2>3. /\ A \in SchedulerState /\ A.schedule = sch.schedule
        /\ A.pendname = f /\ A.pendDir = sch.pendDir
    BY <1>0, <2>2 DEF SchedulerState
  <2>4. sch' = RemovePendingFile(A)
    BY <2>1
  <2> HIDE DEF A
  <2>5. sch' = [A EXCEPT !.pendDir = @ \ {f}, !.doneDir = @ \cup {f}, !.pending = FALSE]
    BY <2>1, <2>3, <2>4 DEF RemovePendingFile
  <2>6. ~sch'.pending /\ sch'.schedule = sch.schedule
    BY <2>3, <2>5 DEF SchedulerState
  <2> QED
    BY <1>7, <2>6 DEF AutoReject, Polling, Carried, DoneRan
<1>8. CASE AutoNone
  <2>1. sch' = [sch EXCEPT !.pending = FALSE]
    BY <1>8 DEF AutoNone
  <2> QED
    BY <1>0, <2>1 DEF SchedulerState, Carried, DoneRan
<1>9. CASE StepEnded
  BY <1>0, <1>9, CompleteFiled, FiledRan DEF StepEnded
<1> QED
  BY <1>1, <1>2, <1>3, <1>4, <1>5, <1>6, <1>7, <1>8, <1>9 DEF Timeout

LEMMA MessageFiled ==
  ASSUME Orderly(sch), Carried(sch), Message, "rtc" \notin Environment
  PROVE  Carried(sch') /\ DoneRan(sch, sch')
<1>0. /\ sch \in SchedulerState
      /\ Kept(sch) /\ Solvent(sch) /\ Fit(sch, None)
  BY DEF Orderly, Sound
<1>1. CASE CommandWithScript
  <2>1. PICK op \in InteractiveOps \cap ScriptArgOps, w \in Compilations(sch) :
           \E n \in IF op = "schedule" THEN InsertAt ELSE {-1} :
              sch' = Discard(Execute(Compile(sch, w, None), op, w.script, n, 0), w.script)
    BY <1>1 DEF CommandWithScript
  <2>2. PICK n \in IF op = "schedule" THEN InsertAt ELSE {-1} :
           sch' = Discard(Execute(Compile(sch, w, None), op, w.script, n, 0), w.script)
    BY <2>1
  <2>3. op \in Ops /\ op \notin {"remove_schedule", "move_schedule"}
    BY InputAssumption DEF ScriptArgOps
  <2>4. n \in Int /\ 0 \in Int
    BY InputAssumption
  <2> DEFINE c == w.script
             C == Compile(sch, w, None)
             E == Execute(C, op, c, n, 0)
  <2>5. sch' = Discard(E, c)
    BY <2>2
  <2>6. /\ c \in Script /\ Kept(C) /\ Fit(C, None) /\ SameFile(sch, C)
        /\ \A x \in Script : Surplus(C, x) = Surplus(sch, x) + Same(c, x)
    BY <1>0, CompileBooks, CompileFile DEF FileOrNone
  <2> HIDE DEF C
  <2>7. ASSUME NEW x \in Script
        PROVE  /\ Surplus(C, x) >= 0
               /\ x = c => Surplus(C, x) >= 1
    <3>1. Surplus(sch, x) \in Int /\ Surplus(sch, x) >= 0
      BY <1>0, UsesType DEF Solvent
    <3>2. Same(c, x) \in {0, 1} /\ (x = c => Same(c, x) = 1)
      BY DEF Same
    <3>3. Surplus(C, x) = Surplus(sch, x) + Same(c, x)
      BY <2>6
    <3> QED
      BY <3>1, <3>2, <3>3
  <2>8. Solvent(C) /\ Holding(C, c)
    BY <2>6, <2>7 DEF Solvent, Holding
  <2>9. Filed(sch, C) /\ Carried(C)
    BY <1>0, <2>6, SameFileIsFiled
  <2>10. Balanced(C, E) /\ Filed(C, E)
    BY <2>3, <2>4, <2>6, <2>8, <2>9, ExecuteBooks, ExecuteFiled DEF ScriptOrNone
  <2> HIDE DEF E
  <2>11. Kept(E) /\ Solvent(E) /\ Surplus(E, c) >= 1
    BY <2>6, <2>7, <2>8, <2>10, BalancedSolvent DEF Balanced
  <2>12. /\ E.ref[c] \in Int /\ E.ref[c] >= 1
         /\ c = E.schedule => E.ref[c] >= 2
    <3>1. E.ref[c] \in Int /\ E.ref[c] >= 1
      BY <2>6, <2>11, HeldIsCompiled DEF Holding, Kept, SchedulerState
    <3>2. c = E.schedule => E.ref[c] >= 2
      BY <2>6, <2>11, TwoUses
    <3> QED
      BY <3>1, <3>2
  <2>13. SameFile(E, sch')
    BY <2>5, <2>6, <2>11, <2>12, DiscardFile
  <2>14. Filed(E, sch')
    BY <2>10, <2>11, <2>13, SameFileIsFiled DEF Kept, Filed
  <2>15. Filed(sch, sch')
    BY <2>9, <2>10, <2>14, FiledTwice
  <2> QED
    BY <2>15, FiledRan
<1>2. CASE Command
  <2>0. PICK op \in InteractiveOps \ ScriptArgOps : \E w \in Numbers(op) :
           sch' = Execute(sch, op, None, w[1], w[2])
    BY <1>2 DEF Command
  <2>1. PICK w \in Numbers(op) : sch' = Execute(sch, op, None, w[1], w[2])
    BY <2>0
  <2>2. op \in Ops \ ScriptArgOps /\ None \in ScriptOrNone
    BY InputAssumption DEF ScriptOrNone
  <2>3. /\ w[1] \in Int /\ w[2] \in Int
        /\ op \in {"remove_schedule", "move_schedule"} => w[1] \in Nat
    BY <2>2, NumbersType
  <2>4. Filed(sch, sch')
    BY <1>0, <2>1, <2>2, <2>3, ExecuteFiled
  <2> QED
    BY <2>4, FiledRan
<1>3. ASSUME NEW b \in BOOLEAN, RtcState(b) PROVE FALSE
  BY <1>3 DEF RtcState
<1>4. ASSUME NEW b \in BOOLEAN, AutoState(b)
      PROVE  SameFile(sch, sch')
  BY <1>0, <1>4 DEF AutoState, SchedulerState, SameFile, SameDirs
<1>5. CASE AddClient
  <2>1. SameFile(sch, sch')
    BY <1>0, <1>5 DEF AddClient, SchedulerState, SameFile, SameDirs
  <2> QED
    BY <1>0, <2>1, SameFileIsFiled, FiledRan
<1>6. CASE RemClient
  <2>1. SameFile(sch, sch')
    BY <1>0, <1>6 DEF RemClient, SchedulerState, SameFile, SameDirs
  <2> QED
    BY <1>0, <2>1, SameFileIsFiled, FiledRan
<1> QED
  BY <1>0, <1>1, <1>2, <1>3, <1>4, <1>5, <1>6, SameFileIsFiled, FiledRan DEF Message

LEMMA WorldFiled ==
  ASSUME Orderly(sch), Carried(sch), World, "withdraw_pending" \notin Environment
  PROVE  Carried(sch') /\ DoneRan(sch, sch')
<1>0. sch \in SchedulerState
  BY DEF Orderly, Sound
<1>1. CASE ClientPipe
  <2>1. SameFile(sch, sch')
    BY <1>0, <1>1 DEF ClientPipe, SchedulerState, SameFile, SameDirs
  <2> QED
    BY <1>0, <2>1, SameFileIsFiled, FiledRan
<1>2. ASSUME NEW f \in File, DropFile(f)
      PROVE  Carried(sch') /\ DoneRan(sch, sch')
  <2>1. sch' = [sch EXCEPT !.pendDir = @ \cup {f}]
    BY <1>2 DEF DropFile
  <2> QED
    BY <1>0, <2>1 DEF Carried, DoneRan, SchedulerState
<1>3. ASSUME NEW f \in File, WithdrawFile(f)
      PROVE  Carried(sch') /\ DoneRan(sch, sch')
  <2>1. sch' = [sch EXCEPT !.pendDir = @ \ {f}] /\ ~(sch.pending /\ sch.pendname = f)
    BY <1>3 DEF WithdrawFile
  <2> QED
    BY <1>0, <2>1 DEF Carried, DoneRan, SchedulerState
<1> QED
  BY <1>1, <1>2, <1>3 DEF World

CarriedNow == Orderly(sch) /\ Carried(sch)

(* A file is moved to the done directory only when its schedule has run.   *)
(* The loss of the RTC is excepted, for it puts the schedule back into the *)
(* queue and leaves its file marked as the one at work; so is a file that  *)
(* is withdrawn meanwhile.                                                 *)
THEOREM DoneHasRun ==
  ASSUME "rtc" \notin Environment, "withdraw_pending" \notin Environment
  PROVE  Spec => DoneWasRun
<1>1. Init => CarriedNow
  <2> SUFFICES ASSUME Init PROVE CarriedNow
    OBVIOUS
  <2>1. PICK w \in Compilations(NewScheduler) :
           sch = [QueueSchedule(Compile(NewScheduler, w, None), w.script, -1)
                    EXCEPT !.startup = w.script]
    BY DEF Init
  <2> DEFINE C == Compile(NewScheduler, w, None)
             Q == QueueSchedule(C, w.script, -1)
  <2>2. sch = [Q EXCEPT !.startup = w.script]
    BY <2>1
  <2>3. w.script \in Script /\ Sound(C)
    BY NewSchedulerSound, CompileType, QuietIsSound DEF Sound, FileOrNone
  <2>4. Carried(C) /\ ~C.pending
    BY DEF Compile, NewScheduler, Carried
  <2> HIDE DEF C
  <2>5. Filed(C, Q) /\ Q \in SchedulerState
    BY <2>3, <2>4, QueueScheduleFiled, QueueScheduleType DEF Sound
  <2> HIDE DEF Q
  <2>6. Carried(sch)
    BY <2>2, <2>4, <2>5 DEF Filed, Carried, SchedulerState
  <2> QED
    BY <2>6, InitOrderly DEF CarriedNow
<1>2. CarriedNow /\ [Next]_vars => CarriedNow' /\ DoneRan(sch, sch')
  <2> SUFFICES ASSUME Orderly(sch), Carried(sch), [Next]_vars
               PROVE  Orderly(sch') /\ Carried(sch') /\ DoneRan(sch, sch')
    BY DEF CarriedNow
  <2>1. CASE sch' = sch
    BY <2>1, NextOrderly DEF DoneRan
  <2>2. CASE Timeout \/ Message \/ World
    BY <2>2, NextOrderly, TimeoutFiled, MessageFiled, WorldFiled
  <2> QED
    BY <2>1, <2>2, StepOfThread
<1> DEFINE A == \A f \in sch'.doneDir \ sch.doneDir :
                   \/ sch.schedule = None /\ sch'.schedule = None
                   \/ sch.schedule # None /\ sch.src[sch.schedule] = f
<1>3. CarriedNow /\ [Next]_vars => CarriedNow' /\ [A]_vars
  BY <1>2 DEF DoneRan
<1> QED
  BY <1>1, <1>3, PTL DEF Spec, DoneWasRun
=============================================================================
