----------------------------- MODULE Scheduler -----------------------------
(***************************************************************************)
(* The scheduler thread of the control program                             *)
(* (control_src/common/genericscheduler.c): the schedule that runs, the    *)
(* queue of pending schedules, the reference counts that decide when a     *)
(* compiled script goes back to the pool, the initialization script of the *)
(* real-time controller (RTC), the autoqueue directory and the replica of  *)
(* the queue that a connected viewer keeps from the status reports.        *)
(*                                                                         *)
(* The thread owns its state: a handler (a message, or a timeout of the    *)
(* select loop) runs to its end before the next one starts.  Its functions *)
(* call each other, so each is an operator from a state S of the thread to *)
(* the state it leaves, and an action applies the whole chain of calls.    *)
(***************************************************************************)
EXTENDS Integers, Sequences, FiniteSets

CONSTANTS
  Script,          \* the script containers that may be compiled into
  File,            \* the names of autoqueue files
  None,            \* NULL: no script, no file
  MaxQueue,        \* bound: length of the queue when a schedule is added
  MaxStmts,        \* bound: statements a script executes before it ends
  MaxRef,          \* bound: references to one container
  InteractiveOps,  \* the commands that clients send
  ScriptOps,       \* the commands that schedules execute
  InsertAt,        \* the queue entries they ask for, -1 for none
  Environment      \* the external events that happen

Ops == {"schedule", "load_reboot_script", "abort_schedule", "suspend_schedule",
        "resume_schedule", "remove_schedule", "move_schedule"}
Events == {"rtc", "rtcpipe", "client", "congestion", "autoqueue", "withdraw",
           "withdraw_pending"}

ASSUME NoneAssumption  == None \notin Script \cup File
ASSUME BoundAssumption == /\ MaxQueue \in Nat \ {0}
                          /\ MaxStmts \in Nat
                          /\ MaxRef \in Nat \ {0}
ASSUME InputAssumption == /\ InteractiveOps \subseteq Ops
                          /\ ScriptOps \subseteq Ops
                          /\ InsertAt \subseteq Nat \cup {-1}
                          /\ Environment \subseteq Events

VARIABLES
  sch,             \* struct Scheduler and the containers it refers to
  rtcFull          \* the pipe of commands for the RTC takes no more of them

vars == <<sch, rtcFull>>

ScriptOrNone == Script \cup {None}
FileOrNone   == File \cup {None}
RunState     == {"EMPTY", "ACTIVE", "EXITING", "END", "ERROR"}

-----------------------------------------------------------------------------
(* The state. The fields are those of struct Scheduler, of Script and of   *)
(* ScheduleData, except:                                                   *)
(*   pc         statements executed since the script was last rewound      *)
(*   args       the scripts compiled as arguments of commands of a script  *)
(*   src        the autoqueue file that a script, not aborted, is a run of *)
(*   startup, initializing, listening                                      *)
(*              the local variable of scheduler_thread, the flag, and      *)
(*              whether cp_initialized has been called                     *)
(*   awaiting   the RTC connected, its initialization script was staged    *)
(*              and the RTC has not been told of the end of it             *)
(*   pendDir, doneDir                                                      *)
(*              the two directories of the autoqueue                       *)
(*   client, viewRun, viewQueue, stale                                     *)
(*              a viewer: whether its pipe takes messages, what it shows,  *)
(*              and whether a change was kept from it since it connected   *)
(*              (what it shows is then no longer followed)                 *)

SchedulerState ==
  [schedule : ScriptOrNone, initialize : ScriptOrNone, startup : ScriptOrNone,
   initializing : BOOLEAN, listening : BOOLEAN, suspend : BOOLEAN,
   online : BOOLEAN, awaiting : BOOLEAN, queue : Seq(Script),
   ref : [Script -> Int], state : [Script -> RunState],
   pc : [Script -> Nat], handler : SUBSET Script,
   args : [Script -> SUBSET Script], src : [Script -> FileOrNone],
   auto : BOOLEAN, pending : BOOLEAN, pendname : FileOrNone,
   pendDir : SUBSET File, doneDir : SUBSET File,
   client : {"none", "open", "full"}, stale : BOOLEAN,
   viewRun : ScriptOrNone, viewQueue : Seq(Script)]

NewScheduler ==
  [schedule |-> None, initialize |-> None, startup |-> None,
   initializing |-> TRUE, listening |-> FALSE, suspend |-> FALSE,
   online |-> FALSE, awaiting |-> FALSE, queue |-> << >>,
   ref |-> [c \in Script |-> 0], state |-> [c \in Script |-> "EMPTY"],
   pc |-> [c \in Script |-> 0], handler |-> {},
   args |-> [c \in Script |-> {}], src |-> [c \in Script |-> None],
   auto |-> FALSE, pending |-> FALSE, pendname |-> None,
   pendDir |-> {}, doneDir |-> {},
   client |-> "none", stale |-> FALSE, viewRun |-> None, viewQueue |-> << >>]

-----------------------------------------------------------------------------
(* Lists: insert_ListNode and del_ListNode, entry numbers from 0.          *)

ListInsert(q, n, c) == SubSeq(q, 1, n) \o <<c>> \o SubSeq(q, n + 1, Len(q))
ListDelete(q, n)    == SubSeq(q, 1, n) \o SubSeq(q, n + 2, Len(q))

Clamp(n, lo, hi) == IF n < lo THEN lo ELSE IF n > hi THEN hi ELSE n

-----------------------------------------------------------------------------
(* Status reports: the message, and what a viewer makes of it. A report is *)
(* queued without waiting, so a full client pipe loses it.                 *)

Mislead(S) ==
  IF S.client = "none" THEN S
  ELSE [S EXCEPT !.stale = TRUE, !.viewRun = None, !.viewQueue = << >>]

Report(S, run, q) ==
  IF S.client = "full" THEN Mislead(S)
  ELSE IF S.client = "none" \/ S.stale THEN S
  ELSE [S EXCEPT !.viewRun = run, !.viewQueue = q]

ReportRun(S, r) == Report(S, r, S.viewQueue)
ReportAdd(S, c) == Report(S, S.viewRun, Append(S.viewQueue, c))
ReportRm(S, n)  ==
  IF n >= Len(S.viewQueue) THEN Report(S, S.viewRun, S.viewQueue)
  ELSE Report(S, S.viewRun, ListDelete(S.viewQueue, n))
ReportMv(S, n, m) ==
  IF n >= Len(S.viewQueue) \/ m \notin 0 .. Len(S.viewQueue) - 1
  THEN Report(S, S.viewRun, S.viewQueue)
  ELSE Report(S, S.viewRun,
              ListInsert(ListDelete(S.viewQueue, n), m, S.viewQueue[n + 1]))

-----------------------------------------------------------------------------
(* Scripts: compilation, rewinding and reference counts.                   *)

Rewind(S, c) ==
  IF S.state[c] = "EMPTY" THEN S
  ELSE [S EXCEPT !.state[c] = "ACTIVE", !.pc[c] = 0]

Reference(S, c) == [S EXCEPT !.ref[c] = @ + 1]

(* Each script of K loses a reference: it is emptied and returned to the   *)
(* pool when that was the last one, and rewound otherwise.                 *)
Unreference(S, K) ==
  LET freed == {c \in K : S.ref[c] = 1}
      kept  == {c \in K \ freed : S.state[c] # "EMPTY"}
  IN [S EXCEPT
        !.ref     = [c \in Script |-> IF c \in K THEN S.ref[c] - 1 ELSE S.ref[c]],
        !.state   = [c \in Script |-> IF c \in freed THEN "EMPTY"
                                      ELSE IF c \in kept THEN "ACTIVE" ELSE S.state[c]],
        !.pc      = [c \in Script |-> IF c \in freed \cup kept THEN 0 ELSE S.pc[c]],
        !.args    = [c \in Script |-> IF c \in freed THEN {} ELSE S.args[c]],
        !.src     = [c \in Script |-> IF c \in freed THEN None ELSE S.src[c]],
        !.handler = @ \ freed]

(* sch_discard_schedule: emptying a script discards the scripts that were  *)
(* compiled as arguments of its commands. Arguments nest one level here.   *)
Discard(S, c) ==
  IF c = None THEN S
  ELSE Unreference(Unreference(S, {c}), IF S.ref[c] = 1 THEN S.args[c] ELSE {})

Pool(S) == {c \in Script : S.state[c] = "EMPTY"}

(* The ways to compile a file: the container, those of the scripts among   *)
(* its arguments, and which of these scripts have an exit handler.         *)
Compilations(S) ==
  {w \in [script : Pool(S), args : SUBSET Pool(S), handler : SUBSET Pool(S)] :
     /\ w.script \notin w.args
     /\ w.handler \subseteq w.args \cup {w.script}}

(* Compile autoqueue file f, or None for another one, in the way w.        *)
Compile(S, w, f) ==
  LET new == w.args \cup {w.script}
  IN [S EXCEPT
        !.ref   = [c \in Script |-> IF c \in new THEN 1 ELSE S.ref[c]],
        !.state = [c \in Script |-> IF c \in new THEN "ACTIVE" ELSE S.state[c]],
        !.args  = [c \in Script |-> IF c = w.script THEN w.args ELSE S.args[c]],
        !.src   = [c \in Script |-> IF c = w.script THEN f ELSE S.src[c]],
        !.handler = @ \cup w.handler]

-----------------------------------------------------------------------------
(* The functions of the scheduler.                                         *)

ResumeSchedule(S) == [S EXCEPT !.suspend = FALSE]

SuspendSchedule(S) ==
  IF S.schedule = None THEN S ELSE [S EXCEPT !.suspend = TRUE]

(* Mutant: the suspension of the previous schedule is not cancelled.       *)
Stage_StaysSuspended(S, c) ==
  LET T == IF c = None THEN S ELSE Rewind(S, c)
  IN [ReportRun(T, c) EXCEPT !.schedule = c]

(* sch_stage_schedule: make c the schedule that runs, or leave none.       *)
Stage(S, c) ==
  LET T == IF c = None THEN S ELSE Rewind(S, c)
  IN ResumeSchedule([ReportRun(T, c) EXCEPT !.schedule = c])

(* sch_remove_pending_file: the rename fails when the file has gone.       *)
RemovePendingFile(S) ==
  IF S.pendname \notin S.pendDir THEN S
  ELSE [S EXCEPT !.pendDir = @ \ {S.pendname},
                 !.doneDir = @ \cup {S.pendname},
                 !.pending = FALSE]

(* Tell the RTC of the end of its initialization script.                   *)
ReportInitEnded(S) ==
  IF S.schedule # None /\ S.schedule = S.initialize
  THEN [S EXCEPT !.awaiting = FALSE] ELSE S

(* sch_init_ended_send fails when the pipe of the RTC is full: a PipeQueue  *)
(* refuses a message at once, whatever time it is given.                   *)
InitEndRefused(S) ==
  /\ rtcFull /\ "rtcpipe" \in Environment
  /\ S.schedule # None /\ S.schedule = S.initialize

(* Drop what runs and stage the head of the queue.                         *)
StartNext(S) ==
  LET S1 == [Discard(ReportInitEnded(S), S.schedule) EXCEPT !.schedule = None]
      S2 == IF S1.pending THEN RemovePendingFile(S1) ELSE S1
  IN IF S2.queue = << >> THEN Stage(S2, None)
     ELSE Stage([ReportRm(S2, 0) EXCEPT !.queue = Tail(S2.queue)], Head(S2.queue))

(* sch_next_schedule: an initialization script whose end cannot be reported*)
(* stays in place, ended; the next timeout tries again.                    *)
NextSchedule(S) == IF InitEndRefused(S) THEN S ELSE StartNext(S)

(* Mutant: a move beyond the ends of the queue is reported as asked for.   *)
MoveSchedule_ReportsRequest(S, n, dn) ==
  LET len == Len(S.queue)
      dst == Clamp(n + dn + (IF dn >= 0 THEN 1 ELSE 0), 0, len)
      ins == ListInsert(S.queue, dst, S.queue[n + 1])
  IN IF n >= len THEN S
     ELSE ReportMv([S EXCEPT !.queue =
                      ListDelete(ins, IF dst <= n THEN n + 1 ELSE n)], n, n + dn)

(* sch_move_schedule: insert entry n again at its destination, then delete *)
(* the original; dst counts entries with the original still in the list.   *)
MoveSchedule(S, n, dn) ==
  LET len == Len(S.queue)
      dst == Clamp(n + dn + (IF dn >= 0 THEN 1 ELSE 0), 0, len)
      new == IF n + dn < 0 THEN 0
             ELSE IF n + dn + (IF dn >= 0 THEN 1 ELSE 0) > len THEN dst - 1
             ELSE n + dn
      ins == ListInsert(S.queue, dst, S.queue[n + 1])
  IN IF n >= len THEN S
     ELSE ReportMv([S EXCEPT !.queue =
                      ListDelete(ins, IF dst <= n THEN n + 1 ELSE n)], n, new)

(* sch_queue_schedule: n < 0 appends, otherwise the entry moves to n.      *)
QueueSchedule(S, c, n) ==
  LET S1 == Reference([ReportAdd(S, c) EXCEPT !.queue = Append(S.queue, c)], c)
      S2 == IF n < 0 THEN S1
            ELSE MoveSchedule(S1, Len(S.queue), n - Len(S.queue))
  IN IF S2.schedule = None THEN NextSchedule(S2) ELSE S2

(* Mutant: a removed schedule keeps the reference of the queue.            *)
RemoveSchedule_KeepsReference(S, n) ==
  IF n >= Len(S.queue) THEN S
  ELSE ReportRm([S EXCEPT !.queue = ListDelete(S.queue, n)], n)

(* sch_remove_schedule.                                                    *)
RemoveSchedule(S, n) ==
  IF n >= Len(S.queue) THEN S
  ELSE ReportRm(Discard([S EXCEPT !.queue = ListDelete(S.queue, n)],
                        S.queue[n + 1]), n)

(* Mutant: a script that is exiting starts its handler again.              *)
ExitScript_Restarts(S, c) ==
  IF c \in S.handler
  THEN [S EXCEPT !.state[c] = "EXITING", !.pc[c] = 0]
  ELSE [S EXCEPT !.state[c] = "END"]

(* exit_script: an exit handler is started once, by a script that runs.    *)
ExitScript(S, c) ==
  IF c \in S.handler /\ S.state[c] = "ACTIVE"
  THEN [S EXCEPT !.state[c] = "EXITING", !.pc[c] = 0]
  ELSE [S EXCEPT !.state[c] = "END"]

(* Mutant: the file of an aborted autoqueue schedule stays pending.        *)
AbortSchedule_StaysPending(S) ==
  IF S.schedule = None THEN S
  ELSE LET S1 == ExitScript([S EXCEPT !.auto = @ /\ ~S.pending,
                                      !.src[S.schedule] = None], S.schedule)
       IN IF S1.state[S.schedule] = "EXITING" THEN S1 ELSE NextSchedule(S1)

(* sch_abort_schedule: the file of an autoqueue schedule is not moved.     *)
AbortSchedule(S) ==
  IF S.schedule = None THEN S
  ELSE LET S1 == ExitScript([S EXCEPT !.auto = @ /\ ~S.pending, !.pending = FALSE,
                                      !.src[S.schedule] = None], S.schedule)
       IN IF S1.state[S.schedule] = "EXITING" THEN S1 ELSE NextSchedule(S1)

(* Mutant: the initialization script is installed without a reference.     *)
ChangeInitScript_NoReference(S, c) ==
  [Discard(S, S.initialize) EXCEPT !.initialize = c]

ChangeInitScript(S, c) ==
  Reference([Discard(S, S.initialize) EXCEPT !.initialize = c], c)

(* Mutant: the schedule is cleared before it is put back.                  *)
Reschedule_ClearsFirst(S) ==
  IF S.schedule = None \/ S.online THEN S
  ELSE LET S1 == Stage(Rewind(S, S.schedule), None)
       IN IF S.schedule = S.initialize THEN S1
          ELSE [S1 EXCEPT !.queue = <<S1.schedule>> \o @]

(* Mutant: the schedule is put back at the end of the queue.               *)
Reschedule_AtEnd(S) ==
  IF S.schedule = None THEN S
  ELSE LET S1 == Rewind(S, S.schedule)
           S2 == IF S.schedule = S.initialize THEN S1
                 ELSE [Mislead(S1) EXCEPT !.queue = Append(@, S.schedule)]
       IN IF S.online THEN S1 ELSE Stage(S2, None)

(* sch_reschedule: rewind what runs; without the RTC, put it back at the   *)
(* head of the queue, unless it is the initialization script.              *)
Reschedule(S) ==
  IF S.schedule = None THEN S
  ELSE LET S1 == Rewind(S, S.schedule)
           S2 == IF S.schedule = S.initialize THEN S1
                 ELSE [Mislead(S1) EXCEPT !.queue = <<S.schedule>> \o @]
       IN IF S.online THEN S1 ELSE Stage(S2, None)

(* The commands, with the script c and the numbers n and dn they take.     *)
Execute(S, op, c, n, dn) ==
  CASE op = "schedule"           -> QueueSchedule(S, c, n)
    [] op = "load_reboot_script" -> ChangeInitScript(S, c)
    [] op = "abort_schedule"     -> AbortSchedule(S)
    [] op = "suspend_schedule"   -> SuspendSchedule(S)
    [] op = "resume_schedule"    -> ResumeSchedule(S)
    [] op = "remove_schedule"    -> RemoveSchedule(S, n)
    [] op = "move_schedule"      -> MoveSchedule(S, n, dn)

ScriptArgOps == {"schedule", "load_reboot_script"}
MayReference(S, c) == S.ref[c] < MaxRef
MayQueue(S)        == Len(S.queue) < MaxQueue

(* The entry numbers and moves a command may give.                         *)
Entry == 0 .. MaxQueue
Moves == -MaxQueue .. MaxQueue

-----------------------------------------------------------------------------
(* The start of the thread: the start-up script is compiled and queued.    *)

Init ==
  /\ rtcFull = FALSE
  /\ \E w \in Compilations(NewScheduler) :
        sch = [QueueSchedule(Compile(NewScheduler, w, None), w.script, -1)
                 EXCEPT !.startup = w.script]

-----------------------------------------------------------------------------
(* SCH_COMMAND: a command of a client is compiled into the interactive     *)
(* script, executed, and discarded with the scripts among its arguments.   *)

CommandWithScript ==
  \E op \in InteractiveOps \cap ScriptArgOps, w \in Compilations(sch) :
     \E n \in IF op = "schedule" THEN InsertAt ELSE {-1} :
        /\ op = "schedule" => MayQueue(sch)
        /\ sch' = Discard(Execute(Compile(sch, w, None), op, w.script, n, 0),
                          w.script)

(* A command that takes no script: entry numbers for those that use them.  *)
Numbers(op) ==
  CASE op = "remove_schedule" -> Entry \X {0}
    [] op = "move_schedule"   -> Entry \X Moves
    [] OTHER                  -> {<<0, 0>>}

Command ==
  \E op \in InteractiveOps \ ScriptArgOps :
     \E w \in Numbers(op) : sch' = Execute(sch, op, None, w[1], w[2])

-----------------------------------------------------------------------------
(* The timeout of the select loop while a schedule runs: step_script, and  *)
(* what the loop makes of the state that it returns.                       *)

(* "Script complete": the first time, the start-up script is released and  *)
(* the control thread told to accept the RTC. Then the next one starts.    *)
Complete(S) ==
  NextSchedule(IF ~S.initializing THEN S
               ELSE [Discard(S, S.startup) EXCEPT
                       !.initializing = FALSE, !.startup = None, !.listening = TRUE])

(* Mutant: a script that has ended is left in place.                       *)
AfterStep_LeavesEnded(S, c) ==
  IF S.state[c] \in {"ACTIVE", "EXITING", "END"} THEN S ELSE Complete(S)

(* c is the script that was stepped: a command of its own may have ended   *)
(* it, emptied it or replaced it as the schedule that runs.                *)
AfterStep(S, c) ==
  IF S.state[c] \in {"ACTIVE", "EXITING"} THEN S ELSE Complete(S)

Running == sch.schedule # None /\ ~sch.suspend

(* The statement at hand, counted: only a script below the bound has one.  *)
Stepped == [sch EXCEPT !.pc[sch.schedule] = @ + 1]
InProgress == Running /\ sch.state[sch.schedule] \in {"ACTIVE", "EXITING"}
HasStatement == InProgress /\ sch.pc[sch.schedule] < MaxStmts

StepStatement == HasStatement /\ sch' = Stepped

StepError ==
  /\ HasStatement
  /\ sch' = Complete([sch EXCEPT !.state[sch.schedule] = "ERROR"])

(* An exit statement, or the end of the statements.                        *)
StepExit ==
  /\ InProgress
  /\ sch' = AfterStep(ExitScript(sch, sch.schedule), sch.schedule)

(* A script that ended earlier and was left in place is not stepped.       *)
StepEnded ==
  /\ Running
  /\ ~InProgress
  /\ sch' = Complete(sch)

StepCommand ==
  /\ HasStatement
  /\ \E op \in ScriptOps \ ScriptArgOps : \E w \in Numbers(op) :
        sch' = AfterStep(Execute(Stepped, op, None, w[1], w[2]), sch.schedule)

StepCommandWithScript ==
  /\ HasStatement
  /\ \E op \in ScriptOps \cap ScriptArgOps, c \in sch.args[sch.schedule] :
        /\ MayReference(sch, c)
        /\ op = "schedule" => MayQueue(sch)
        /\ \E n \in IF op = "schedule" THEN InsertAt ELSE {-1} :
              sch' = AfterStep(Execute(Stepped, op, c, n, 0), sch.schedule)

-----------------------------------------------------------------------------
(* The timeout of the select loop while no schedule runs.                  *)

Polling == sch.schedule = None /\ sch.auto

(* sch_next_auto_file found f. It compiles, and is staged ...              *)
AutoStart ==
  /\ Polling
  /\ \E f \in sch.pendDir, w \in Compilations(sch) :
        sch' = Stage(Compile([sch EXCEPT !.pending = TRUE, !.pendname = f], w, f),
                     w.script)

(* ... or does not, and is moved to the done directory.                    *)
AutoReject ==
  /\ Polling
  /\ \E f \in sch.pendDir :
        sch' = RemovePendingFile([sch EXCEPT !.pending = TRUE, !.pendname = f])

AutoNone ==
  /\ Polling
  /\ sch.pendDir = {}
  /\ sch' = [sch EXCEPT !.pending = FALSE]

-----------------------------------------------------------------------------
(* Messages of other threads, and the outside world.                       *)

(* SCH_RTC_STATE. The RTC can connect once the control thread listens.     *)
RtcState(online) ==
  LET S1 == Reschedule([sch EXCEPT !.online = online, !.awaiting = FALSE])
  IN /\ "rtc" \in Environment
     /\ sch.listening
     /\ IF online /\ sch.initialize # None
        THEN /\ MayReference(sch, sch.initialize)
             /\ sch' = Stage(Reference([S1 EXCEPT !.awaiting = TRUE], S1.initialize),
                             S1.initialize)
        ELSE sch' = S1

(* SCH_AUTO_STATE.                                                         *)
AutoState(on) ==
  /\ "autoqueue" \in Environment
  /\ sch' = [sch EXCEPT !.auto = on]

(* SCH_ADD_CLIENT: the new viewer is sent the state of the queue.          *)
AddClient ==
  /\ "client" \in Environment
  /\ sch.client = "none"
  /\ sch' = [sch EXCEPT !.client = "open", !.stale = FALSE,
                        !.viewRun = sch.schedule, !.viewQueue = sch.queue]

(* SCH_REM_CLIENT.                                                         *)
RemClient ==
  /\ sch.client # "none"
  /\ sch' = [sch EXCEPT !.client = "none", !.stale = FALSE,
                        !.viewRun = None, !.viewQueue = << >>]

(* The pipe of the viewer fills up, or is emptied by the control thread.   *)
ClientPipe ==
  /\ "congestion" \in Environment
  /\ sch.client # "none"
  /\ sch' = [sch EXCEPT !.client = IF @ = "full" THEN "open" ELSE "full"]

(* A file is put in the pending directory, or withdrawn from it: before it *)
(* is worked at, or also meanwhile.                                        *)
DropFile(f) ==
  /\ "autoqueue" \in Environment
  /\ f \notin sch.pendDir \cup sch.doneDir
  /\ sch' = [sch EXCEPT !.pendDir = @ \cup {f}]

WithdrawFile(f) ==
  /\ "withdraw" \in Environment
  /\ sch.pending /\ sch.pendname = f => "withdraw_pending" \in Environment
  /\ f \in sch.pendDir
  /\ sch' = [sch EXCEPT !.pendDir = @ \ {f}]

-----------------------------------------------------------------------------
(* The pipe of commands for the RTC fills up, or is drained.               *)
RtcPipe ==
  /\ "rtcpipe" \in Environment
  /\ rtcFull' = ~rtcFull
  /\ UNCHANGED sch

Timeout == \/ StepStatement \/ StepError \/ StepExit \/ StepEnded
           \/ StepCommand \/ StepCommandWithScript
           \/ AutoStart \/ AutoReject \/ AutoNone

Message == \/ CommandWithScript \/ Command
           \/ \E b \in BOOLEAN : RtcState(b) \/ AutoState(b)
           \/ AddClient \/ RemClient

World == ClientPipe \/ \E f \in File : DropFile(f) \/ WithdrawFile(f)

Next == \/ (Timeout \/ Message \/ World) /\ UNCHANGED rtcFull
        \/ RtcPipe

Spec == Init /\ [][Next]_vars

(* select() counts its interval down through the arrival of messages, so   *)
(* the timeout comes at the first moment the pipe is empty after it ended. *)
(* This is weak fairness of Timeout while a schedule runs, when it can     *)
(* always be taken (and changes the state, if the RTC's pipe is drained).  *)
FairSpec == Spec /\ ([]<>~Running \/ []<><<Timeout>>_sch)

-----------------------------------------------------------------------------
(* Type correctness of the state of the thread.                            *)
TypeOK == sch \in SchedulerState /\ rtcFull \in BOOLEAN

(* The uses of a container: what runs, the queue entries that hold it, the *)
(* initialization script, the start-up script, arguments of other scripts. *)
Count(b) == IF b THEN 1 ELSE 0

Uses(c) ==
  Count(sch.schedule = c) + Count(sch.initialize = c) + Count(sch.startup = c)
    + Cardinality({i \in DOMAIN sch.queue : sch.queue[i] = c})
    + Cardinality({p \in Script : c \in sch.args[p]})

(* No container that is still used is returned to the pool, where the next *)
(* compilation would overwrite it: ScheduleData.ref_count covers the uses, *)
(* whatever order of commands, completions and RTC losses led here.        *)
RefsCoverUses ==
  \A c \in Script : /\ sch.ref[c] >= Uses(c)
                    /\ sch.ref[c] = 0 <=> sch.state[c] = "EMPTY"

(* Without RTC events the count is exact: no container is lost to the pool *)
(* by any order of queueing, removal, abortion and replacement.            *)
RefsCountUses == \A c \in Script : sch.ref[c] = Uses(c)

(* Between two handlers the schedule that runs can be stepped, and each    *)
(* queued one can be started: sch_next_schedule never stages what has been *)
(* emptied, nor is a schedule that has ended left in place (unless the RTC *)
(* cannot be told of the end of its initialization script).                *)
Runnable ==
  /\ sch.schedule # None => sch.state[sch.schedule] \in {"ACTIVE", "EXITING"}
  /\ \A i \in DOMAIN sch.queue : sch.state[sch.queue[i]] \in {"ACTIVE", "EXITING"}

(* A suspension never outlives the schedule it was meant for: whatever     *)
(* ends a suspended schedule, what is staged next runs.                    *)
SuspendedIsRunning == sch.suspend => sch.schedule # None

(* A viewer shows the queue as it is, unless a report was lost or withheld:*)
(* the indexes of RM and MV mean the same entries on both sides, although  *)
(* the scheduler inserts before it deletes and the viewer deletes first.   *)
ViewAgrees ==
  sch.client # "none" /\ ~sch.stale =>
     sch.viewRun = sch.schedule /\ sch.viewQueue = sch.queue

-----------------------------------------------------------------------------
(* What a step may do.                                                     *)

(* A schedule whose RTC reconnects is not lost: "arrange for the           *)
(* initialization script to be executed first" leaves what was running to  *)
(* be run afterwards.                                                      *)
Holds(S) == {S.schedule, S.initialize} \cup {S.queue[i] : i \in DOMAIN S.queue}

InitScriptFirst ==
  [][sch'.awaiting /\ sch.schedule # None => sch.schedule \in Holds(sch')]_vars

(* "It will then be restarted when the controller reboots": when the RTC   *)
(* connects, a schedule that waits in the queue does not leave the         *)
(* scheduler idle.                                                         *)
RestartedOnReboot ==
  [][~sch.online /\ sch'.online => sch'.queue = << >> \/ sch'.schedule # None]_vars

(* The control thread is told to listen for the RTC once the start-up      *)
(* script has ended, however it ended.                                     *)
ListensOnceStarted ==
  sch.listening \/ sch.startup \in {sch.schedule} \cup {sch.queue[i] : i \in DOMAIN sch.queue}

(* The RTC is told of the end of the initialization script it waits for,   *)
(* in the step in which that script stops running.                         *)
InitEndReported ==
  [][sch.awaiting /\ sch'.schedule \notin {sch.schedule, sch'.initialize}
       => ~sch'.awaiting]_vars

(* "Discard it and start the next script in the queue": no step takes two  *)
(* schedules off the queue.                                                *)
OneLeavesQueue == [][Len(sch'.queue) >= Len(sch.queue) - 1]_vars

(* An autoqueue file is moved to the done directory only when the schedule *)
(* compiled from it has run, or when it did not compile.                   *)
DoneWasRun ==
  [][\A f \in sch'.doneDir \ sch.doneDir :
        \/ sch.schedule = None /\ sch'.schedule = None
        \/ sch.schedule # None /\ sch.src[sch.schedule] = f]_vars

(* A schedule that waits in the queue is started, while nobody suspends    *)
(* the schedules before it.                                                *)
QueuedIsStarted ==
  \A c \in Script : (\E i \in DOMAIN sch.queue : sch.queue[i] = c)
                       ~> (sch.schedule = c \/ sch.suspend)

-----------------------------------------------------------------------------
(* The discipline of the queue, as ScheduleQueue states it.                *)
Abstract == INSTANCE ScheduleQueue WITH running <- sch.schedule, waiting <- sch.queue
QueueDiscipline == Abstract!Spec
=============================================================================
