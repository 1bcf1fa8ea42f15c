---------------------------- MODULE ScriptEngine ----------------------------
(***************************************************************************)
(* The interpreter of schedule scripts (libscript_src/statement.c,         *)
(* script.c): the stack of executing statements, the list of the catch     *)
(* clauses that are watched, the signals and the exit handler, as the      *)
(* scheduler thread drives them.                                           *)
(*                                                                         *)
(* The program is data: blocks of statements, as the parser leaves them.   *)
(* What expressions compute is left out: a clause waits for a signal or    *)
(* for a condition of the world, other conditions are chosen freely, and   *)
(* every evaluation may fail. The scheduler runs one script at a time, and *)
(* compiles a new one when that has been discarded.                        *)
(***************************************************************************)
EXTENDS Integers, Sequences

CONSTANTS
  Block,      \* names of lists of statements
  None,       \* no block, no clause
  Signals,    \* signals that scripts may wait for
  Conditions, \* other conditions that they may wait for
  Scripts,    \* names of the scripts that may be run
  Program,    \* their programs
  MaxSignals  \* bound: times that a signal is sent and not cleared

(* stmt->loop is set: new_Statement gives loop-state objects to whatever   *)
(* evaluates an expression repeatedly.                                     *)
Loops == {"foreach", "do", "until", "while", "catch"}
Kinds == Loops \cup {"simple", "signal", "call", "if", "break", "next", "exit", "return"}

Clauses     == Signals \cup Conditions
BlockOrNone == Block \cup {None}

(* body, action  the statements of a loop, of a command, of a branch and   *)
(*               of its else branch, of a catch and of its remedy          *)
(* clause        what an until or a catch waits for, a signal command sends*)
(* times         the length of the list of a foreach, the steps of a do    *)
Statement == [kind : Kinds, body : BlockOrNone, action : BlockOrNone,
              clause : Clauses \cup {None}, times : Nat \ {0}]

(* The parser nests blocks, and knows a command only after its body: depth *)
(* grows from a block to those its statements run. A break or a next is    *)
(* only accepted in the blocks of "looped": inside of the text of a loop.  *)
(* A command that is defined there is known there only, and may hold one;  *)
(* so may an exit handler that is written there, which runs without it.    *)
Parsed(p) ==
  /\ p \in [block : [Block -> Seq(Statement)], main : Block, cleanup : BlockOrNone,
            depth : [Block -> Nat], looped : SUBSET Block]
  /\ p.main # p.cleanup /\ p.main \notin p.looped
  /\ \A b \in Block : \A i \in DOMAIN p.block[b] :
       LET s == p.block[b][i] IN
       /\ \A c \in {s.body, s.action} \ {None} :
            /\ p.depth[b] < p.depth[c]
            /\ c \notin {p.main, p.cleanup}
            /\ c \in p.looped => s.kind \in Loops \/ b \in p.looped
       /\ s.kind \in {"break", "next"} => b \in p.looped
       /\ s.kind = "signal" => s.clause \in Signals
       /\ s.kind \in {"until", "catch"} => s.clause \in Clauses
       /\ s.kind = "catch" => s.body \in Block /\ s.body # s.action

ASSUME NoneAssumption    == None \notin Block \cup Signals \cup Conditions
ASSUME ClauseAssumption  == Signals \cap Conditions = {} /\ MaxSignals \in Nat
ASSUME ProgramAssumption == None \notin Scripts /\ \A p \in Scripts : Parsed(Program[p])

VARIABLES
  prog,       \* the name of the script, if there is one
  sc,         \* the script: its state, stack and catch clauses
  signal,     \* how often each signal has been received, and not cleared
  missed,     \* history: those that a failing clause kept from the catches
  world       \* the conditions that hold

vars == <<prog, sc, signal, missed, world>>

(* A frame holds a list of statements, the place in it, and what is to be  *)
(* done with that statement next. The iteration of a loop is kept in the   *)
(* statement, which is on the stack at most once.                          *)
Frame == [block : Block, pos : Nat \ {0}, next : {"START", "REPEAT", "FINISH"}, iteration : Nat]

StatementId == Block \X (Nat \ {0})

(* stack      the frames, the innermost last                               *)
(* on, ahead  the catch list: what is in it, and what stands ahead of what *)
(* why        what put the script into SCRIPT_ERROR                        *)
ScriptType ==
  [state : {"EMPTY", "ACTIVE", "EXITING", "ERROR", "END"},
   stack : Seq(Frame), on : SUBSET StatementId, ahead : SUBSET (StatementId \X StatementId),
   why : {None, "evaluation", "target", "match"}]

NoScript == [state |-> "EMPTY", stack |-> <<>>, on |-> {}, ahead |-> {}, why |-> None]

Init ==
  /\ prog = None
  /\ sc = NoScript
  /\ signal = [s \in Signals |-> 0]
  /\ missed = {}
  /\ world = {}

-----------------------------------------------------------------------------
(* The stack and the catch list. S is a state of the script.               *)

Text     == Program[prog]

Stmt(f)  == Text.block[f.block][f.pos]
Id(f)    == <<f.block, f.pos>>
Depth(S) == Len(S.stack)
Top(S)   == S.stack[Depth(S)]

Innermost(I) == CHOOSE i \in I : \A j \in I : j <= i

Unwatch(S, X) ==
  [S EXCEPT !.on = @ \ X, !.ahead = {p \in @ : p[1] \notin X /\ p[2] \notin X}]

Watch(S, x) == [S EXCEPT !.on = @ \cup {x}, !.ahead = @ \cup (S.on \X {x})]

(* Mutant: a statement that is left early stays in the list.               *)
Pop_KeepsCatches(S, n) == [S EXCEPT !.stack = SubSeq(@, 1, n)]

(* All frames but the first n are ended.                                   *)
Pop(S, n) ==
  LET begun == {i \in n + 1 .. Depth(S) : S.stack[i].next # "START"}
      T == Unwatch(S, {Id(S.stack[i]) : i \in begun})
  IN [T EXCEPT !.stack = SubSeq(@, 1, n)]

Push(S, b) ==
  IF b = None THEN S
  ELSE IF Text.block[b] = <<>> THEN S
  ELSE [S EXCEPT !.stack = Append(@, [block |-> b, pos |-> 1, next |-> "START", iteration |-> 0])]

(* Whether the frame on top is to be repeated or is finished.              *)
Mark(S, next) == [S EXCEPT !.stack[Len(S.stack)].next = next]

(* Mutant: the outermost statement is not looked at.                       *)
Target_AboveBottom(S, K) ==
  LET I == {i \in 2 .. Depth(S) : Stmt(S.stack[i]).kind \in K}
  IN IF I = {} THEN 0 ELSE Innermost(I)

(* The frame of the innermost statement of one of the kinds K, 0 if none.  *)
Target(S, K) ==
  LET I == {i \in 1 .. Depth(S) : Stmt(S.stack[i]).kind \in K}
  IN IF I = {} THEN 0 ELSE Innermost(I)

(* step_ExeFrame: finished statements are replaced with the next of their  *)
(* list, or popped at its end. Without a frame the script is at its end.   *)
Advance(S) ==
  LET live == {i \in 1 .. Depth(S) : \/ S.stack[i].next # "FINISH"
                                     \/ S.stack[i].pos < Len(Text.block[S.stack[i].block])}
      n == Innermost(live)
      f == S.stack[n]
  IN IF live = {} THEN Pop(S, 0)
     ELSE IF f.next # "FINISH" THEN Pop(S, n)
     ELSE LET T == Unwatch(Pop(S, n), {Id(f)})
          IN [T EXCEPT !.stack[n] = [f EXCEPT !.pos = @ + 1, !.next = "START", !.iteration = 0]]

(* The script as its next statement finds it: on top, and to be finished   *)
(* unless it asks to be repeated.                                          *)
Started == Mark(Advance(sc), "FINISH")

-----------------------------------------------------------------------------
(* The catch clauses, and the end of a script.                             *)

Clause(x)     == Text.block[x[1]][x[2]].clause
Holds(c, sig) == IF c \in Signals THEN sig[c] > 0 ELSE c \in world
True(S, sig)  == {x \in S.on : Holds(Clause(x), sig)}

(* Mutant: the clauses are evaluated from the innermost outwards.          *)
FirstTrue_Inner(S, sig) ==
  CHOOSE x \in True(S, sig) : \A y \in True(S, sig) : <<x, y>> \notin S.ahead

(* The first of the true clauses in the list.                              *)
FirstTrue(S, sig) ==
  CHOOSE x \in True(S, sig) : \A y \in True(S, sig) : <<y, x>> \notin S.ahead

(* catch_script_events, when a clause is true: the stack is unwound to the *)
(* catch, which no longer watches, and goes on with its remedy.            *)
Catch(S, sig) ==
  LET x == FirstTrue(S, sig)
      I == {i \in 1 .. Depth(S) : Id(S.stack[i]) = x}
  IN IF I = {} THEN [Pop(S, 0) EXCEPT !.state = "ERROR", !.why = "match"]
     ELSE LET n == Innermost(I)
              T == Unwatch(Pop(S, n), {x})
          IN IF Stmt(S.stack[n]).action = None THEN Mark(T, "FINISH")
             ELSE Push(T, Stmt(S.stack[n]).action)

CatchEvents(S, sig) == IF True(S, sig) = {} THEN S ELSE Catch(S, sig)

(* signal_script, in the state S of the script: the signal is counted, then*)
(* the clauses are evaluated from the outermost on. If the evaluation of   *)
(* one fails those after it are not looked at, and all who call ignore the *)
(* error: the script goes on.                                              *)
SignalScript(S, s) ==
  /\ signal[s] < MaxSignals
  /\ signal' = [signal EXCEPT ![s] = @ + 1]
  /\ \/ sc' = CatchEvents(S, signal') /\ missed' = {}
     \/ S.on # {} /\ sc' = S /\ missed' = missed \cup {s}
  /\ UNCHANGED <<prog, world>>

(* Mutant: the handler is run on top of what was being executed.           *)
ExitScript_OnTop(S) ==
  IF Text.cleanup # None /\ S.state = "ACTIVE"
  THEN [Push(S, Text.cleanup) EXCEPT !.state = "EXITING"]
  ELSE [S EXCEPT !.state = "END"]

ExitScript(S) ==
  IF Text.cleanup # None /\ S.state = "ACTIVE"
  THEN [Push(Pop(S, 0), Text.cleanup) EXCEPT !.state = "EXITING"]
  ELSE [S EXCEPT !.state = "END"]

-----------------------------------------------------------------------------
(* step_script: one action for each kind of statement.                     *)

Running == sc.state \in {"ACTIVE", "EXITING"}
Doing(K) == Running /\ Depth(Advance(sc)) > 0 /\ Stmt(Top(Advance(sc))).kind \in K
This     == Stmt(Top(Started))

Goes(S) == sc' = S /\ UNCHANGED <<prog, signal, missed, world>>

(* A declaration, a print or log statement, a command of the program.      *)
Simple == Doing({"simple"}) /\ Goes(Started)

(* Mutant: one iteration too many.                                         *)
Counted_OneMore ==
  /\ Doing({"foreach", "do"})
  /\ LET n == Top(Started).iteration + 1
         S == [Started EXCEPT !.stack[Len(Started.stack)].iteration = n]
     IN Goes(Push(IF n <= This.times THEN Mark(S, "REPEAT") ELSE S, This.body))

Counted ==
  /\ Doing({"foreach", "do"})
  /\ LET n == Top(Started).iteration + 1
         S == [Started EXCEPT !.stack[Len(Started.stack)].iteration = n]
     IN Goes(Push(IF n < This.times THEN Mark(S, "REPEAT") ELSE S, This.body))

(* The catch clauses are evaluated first, all of them.                     *)
Until ==
  /\ Doing({"until"})
  /\ sc' = IF True(Started, signal) # {} THEN Catch(Started, signal)
           ELSE IF Holds(This.clause, signal) THEN Started ELSE Mark(Started, "REPEAT")
  /\ missed' = {}
  /\ UNCHANGED <<prog, signal, world>>

While ==
  /\ Doing({"while"})
  /\ \/ Goes(Started)
     \/ Goes(Push(Mark(Started, "REPEAT"), This.body))

Call == Doing({"call"}) /\ Goes(Push(Started, This.body))

If == /\ Doing({"if"})
      /\ \E b \in {This.body, This.action} : Goes(Push(Started, b))

Break ==
  /\ Doing({"break"})
  /\ LET n == Target(Started, Loops)
         S == Pop(Started, n)
     IN Goes(IF n = 0 THEN [S EXCEPT !.state = "ERROR", !.why = "target"]
             ELSE Mark(S, "FINISH"))

NextIteration ==
  /\ Doing({"next"})
  /\ LET n == Target(Started, Loops)
         S == Pop(Started, n)
     IN Goes(IF n = 0 THEN [S EXCEPT !.state = "ERROR", !.why = "target"] ELSE S)

Return ==
  /\ Doing({"return"})
  /\ LET n == Target(Started, {"call"})
         S == Pop(Started, n)
     IN Goes(IF n = 0 THEN S ELSE Mark(S, "FINISH"))

Exit == Doing({"exit"}) /\ Goes(ExitScript(Started))

CatchStatement ==
  /\ Doing({"catch"})
  /\ Goes(IF Holds(This.clause, signal) THEN Push(Started, This.action)
          ELSE Push(Watch(Started, Id(Top(Started))), This.body))

(* The signal command sends to the running script, here to itself.         *)
SignalSelf == Doing({"signal"}) /\ SignalScript(Started, This.clause)

(* An expression cannot be evaluated, or a command fails.                  *)
Fail ==
  /\ Doing(Kinds \ {"break", "next", "return"})
  /\ Goes([Started EXCEPT !.state = "ERROR", !.why = "evaluation"])

EndOfScript ==
  /\ Running /\ Depth(Advance(sc)) = 0
  /\ Goes(ExitScript(Advance(sc)))

Step == \/ Simple \/ Counted \/ Until \/ While \/ Call \/ If \/ Break \/ NextIteration
        \/ Return \/ Exit \/ CatchStatement \/ SignalSelf \/ Fail \/ EndOfScript

-----------------------------------------------------------------------------
(* What the scheduler thread does with the script, and the world.          *)

Reset(yes) == signal' = IF yes THEN [s \in Signals |-> 0] ELSE signal

(* A script is compiled and staged. The signals are discarded if it comes  *)
(* from the queue, not if it is the start-up script.                       *)
Stage(p, yes) ==
  /\ sc.state = "EMPTY"
  /\ prog' = p
  /\ sc' = [NoScript EXCEPT !.state = "ACTIVE",
              !.stack = IF Program[p].block[Program[p].main] = <<>> THEN <<>>
                        ELSE <<[block |-> Program[p].main, pos |-> 1, next |-> "START", iteration |-> 0]>>]
  /\ missed' = {} /\ Reset(yes)
  /\ UNCHANGED world

(* rewind_script: when the controller goes down; the signals are discarded *)
(* if the script passes through the queue meanwhile.                       *)
Rewind(yes) ==
  /\ sc.state # "EMPTY"
  /\ sc' = [Push(Pop(sc, 0), Text.main) EXCEPT !.state = "ACTIVE", !.why = None]
  /\ missed' = {} /\ Reset(yes)
  /\ UNCHANGED <<prog, world>>

Abort == sc.state # "EMPTY" /\ Goes(ExitScript(sc))

Discard ==
  /\ sc.state \in {"ERROR", "END"}
  /\ prog' = None /\ sc' = NoScript /\ missed' = {}
  /\ UNCHANGED <<signal, world>>

(* sch_signal_schedule: without a script the signal is not recorded.       *)
Signal(s) == sc.state # "EMPTY" /\ SignalScript(sc, s)

ClearSignal(s) ==
  /\ signal[s] > 0
  /\ \E n \in {signal[s] - 1, 0} : signal' = [signal EXCEPT ![s] = n]
  /\ UNCHANGED <<prog, sc, missed, world>>

Change(c) ==
  /\ world' = IF c \in world THEN world \ {c} ELSE world \cup {c}
  /\ UNCHANGED <<prog, sc, signal, missed>>

Next ==
  \/ Step \/ Abort \/ Discard
  \/ \E p \in Scripts, yes \in BOOLEAN : Stage(p, yes)
  \/ \E yes \in BOOLEAN : Rewind(yes)
  \/ \E s \in Signals : Signal(s) \/ ClearSignal(s)
  \/ \E c \in Conditions : Change(c)

Spec == Init /\ [][Next]_vars

-----------------------------------------------------------------------------
(* Every frame stands at a statement of its program, and no loop counts    *)
(* beyond its end.                                                         *)
TypeOK ==
  /\ prog \in IF sc.state = "EMPTY" THEN {None} ELSE Scripts
  /\ sc \in ScriptType
  /\ signal \in [Signals -> 0 .. MaxSignals]
  /\ missed \subseteq Signals
  /\ world \subseteq Conditions
  /\ \A i \in DOMAIN sc.stack :
       /\ sc.stack[i].pos <= Len(Text.block[sc.stack[i].block])
       /\ sc.stack[i].iteration <= Stmt(sc.stack[i]).times

(* The stack follows the text of the program, whatever left its statements *)
(* early: a frame belongs to a block that the statement below it runs, only*)
(* the innermost one has not begun, and at the bottom is the program, or   *)
(* its exit handler while the script is exiting.                           *)
Scoped ==
  LET n == Len(sc.stack) IN
  /\ n > 0 => sc.stack[1].block \in {Text.main, Text.cleanup}
  /\ n > 0 /\ sc.state = "ACTIVE" => sc.stack[1].block = Text.main
  /\ n > 0 /\ sc.state = "EXITING" => sc.stack[1].block = Text.cleanup
  /\ \A i \in 1 .. n - 1 :
       /\ sc.stack[i].next # "START"
       /\ sc.stack[i + 1].block \in {Stmt(sc.stack[i]).body, Stmt(sc.stack[i]).action}

(* The catch list and the stack are separate structures. A clause is       *)
(* watched while the body of its catch is being executed, and only then;   *)
(* none is left behind when statements are left by a break, a return, an   *)
(* exit, another catch or a restart; and the list runs from the outermost  *)
(* catch inwards.                                                          *)
Watching(i) == /\ Stmt(sc.stack[i]).kind = "catch"
               /\ sc.stack[i].next = "FINISH"
               /\ i < Len(sc.stack) => sc.stack[i + 1].block = Stmt(sc.stack[i]).body
CatchesNest ==
  /\ \A x \in sc.on : \E i \in DOMAIN sc.stack : Id(sc.stack[i]) = x /\ Watching(i)
  /\ \A i \in DOMAIN sc.stack :
       i < Len(sc.stack) /\ Watching(i) => Id(sc.stack[i]) \in sc.on
  /\ \A i, j \in DOMAIN sc.stack :
       {Id(sc.stack[i]), Id(sc.stack[j])} \subseteq sc.on =>
         (<<Id(sc.stack[i]), Id(sc.stack[j])>> \in sc.ahead <=> i < j)

(* No signal passes a catch unnoticed but for a clause that fails: a script*)
(* never goes on inside of a catch that waits for a signal which has been  *)
(* received, unless the evaluation of a clause was cut short when it came, *)
(* and the clauses have not all been evaluated since.                      *)
NoSignalMissed ==
  \A x \in sc.on : Clause(x) \in Signals \ missed => signal[Clause(x)] = 0

(* The stack holds what execution unwinds to: a catch whose clause becomes *)
(* true, always; and the loop of a break or a next, except for an exit     *)
(* handler that is written inside of a loop.                               *)
TargetsAreThere ==
  [][sc'.why # sc.why /\ sc'.why \notin {None, "evaluation"} =>
       /\ sc'.why = "target"
       /\ sc.state = "EXITING" /\ Text.cleanup \in Text.looped]_vars

-----------------------------------------------------------------------------
(* Refuted. The parser checks of a break or a next "that there is a loop to*)
(* associate with the statement" (parse_BreakStmt): execution finds it.    *)
LoopIsThere == sc.why # "target"

(* Refuted. That the evaluation of a clause fails is "a fatal error"       *)
(* (catch_script_events): the script does not go on inside of a catch that *)
(* waits for a signal which has been received.                             *)
FailureIsFatal ==
  \A x \in sc.on : Clause(x) \in Signals /\ Running => signal[Clause(x)] = 0

(* Refuted. A next statement "prematurely starts the next iteration of a   *)
(* loop" (script.c, the help on its keyword): after it, a loop is on top.  *)
NextIterates ==
  [][NextIteration /\ sc'.state # "ERROR" =>
       Stmt(Top(sc')).kind \in {"foreach", "do", "while"}]_vars

(* Refuted. The clause of a catch is in "the list of clauses to be         *)
(* evaluated before each statement" (exe_CatchStmt): no statement is       *)
(* executed while one is true.                                             *)
CheckedFirst ==
  [][Simple \/ Counted \/ While \/ Call \/ If => True(Started, signal) = {}]_vars
=============================================================================
