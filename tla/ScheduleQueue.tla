--------------------------- MODULE ScheduleQueue ---------------------------
(***************************************************************************)
(* What the scheduler promises of its queue: one schedule runs at a time,  *)
(* the next one to run is the head of the queue, a schedule leaves the     *)
(* queue only to run or because it is removed, and what runs is replaced   *)
(* only by the next one, put back when the RTC is lost, or displaced when  *)
(* the RTC is back.                                                        *)
(***************************************************************************)
EXTENDS Integers, Sequences

CONSTANTS Script, None

VARIABLES running, waiting

vars == <<running, waiting>>

(* q with c as its entry number k, and without its entry number k.         *)
With(q, k, c) == SubSeq(q, 1, k) \o <<c>> \o SubSeq(q, k + 1, Len(q))
Without(q, k) == SubSeq(q, 1, k) \o SubSeq(q, k + 2, Len(q))
Entries(q)    == 0 .. Len(q) - 1

(* The head of q starts to run, if there is one.                           *)
RunHead(q) == IF q = << >> THEN running' = None /\ waiting' = q
              ELSE running' = Head(q) /\ waiting' = Tail(q)

Init == /\ running \in Script
        /\ waiting = << >>

(* A schedule arrives at entry k of the queue: it waits for what runs ...  *)
Arrive == \E c \in Script, k \in 0 .. Len(waiting) :
             LET q == With(waiting, k, c)
             IN IF running = None THEN RunHead(q)
                ELSE running' = running /\ waiting' = q

(* ... which ends, or is aborted.                                          *)
Finish == running # None /\ RunHead(waiting)

Remove == /\ \E k \in Entries(waiting) : waiting' = Without(waiting, k)
          /\ UNCHANGED running

Move == /\ \E k, m \in Entries(waiting) :
              waiting' = With(Without(waiting, k), m, waiting[k + 1])
        /\ UNCHANGED running

PutBack == /\ running # None
           /\ running' = None
           /\ waiting' \in {waiting, <<running>> \o waiting}

Start == /\ running = None
         /\ running' \in Script
         /\ UNCHANGED waiting

(* The RTC is back, and its initialization script displaces what runs.     *)
Preempt == /\ running # None
           /\ running' \in Script
           /\ UNCHANGED waiting

Next == Arrive \/ Finish \/ Remove \/ Move \/ PutBack \/ Start \/ Preempt

Spec == Init /\ [][Next]_vars
=============================================================================
