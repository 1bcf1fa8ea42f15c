# TLA+ models of the GCP/C-BASS control system

Formal models of the parts of the telescope control system under
`src/gcpCbass` whose correctness depends on the order in which threads,
messages and failures happen, with TLC runs over small instances and TLAPS
proofs for every instance. Paths below are relative to `src/gcpCbass`;
`CS` is `control/code/unix/control_src/common`.

## 1. The system

An operator's clients talk to the **control program** (one UNIX process, a
thread per task, connected by pipes); it is connected to the **mediator** (the
real-time controller, "RTC"), which gathers the registers of the antenna and
of the other devices into a *frame* a second and sends it to the control
program, where it is integrated and archived.

    clients/viewer <-> control thread <-> scheduler thread (runs schedules)
                           |   |              |       ^
                  RTC commands |  ARC_* pipe  v       | transaction answers
                           |   +--------> archiver thread --> archive files
                           v   frames
    mediator:  Master (timers) -> Scanner task <- antenna consumer <- antenna computer

| component (sources) | state | operations | what is hard | correct means | here |
|---|---|---|---|---|---|
| Scheduler thread: `CS/genericscheduler.c`, with `libscript_src/script.c`, `libunix_src/common/list.c` | the running schedule, queue, pool of compiled scripts with reference counts, initialization script, autoqueue directories, suspension | queue, remove, move, abort, suspend, resume, reload; script steps on timeouts; RTC lost and connected; client added | commands that the running schedule gives to itself; RTC events in any state; a replica in each viewer | a container in use is never reused; one schedule at a time in queue order; nothing left behind | `Scheduler`, `ScheduleQueue` |
| Archiver thread: `CS/archiver.c`, `CS/ArchiverWriterFrame.c` | the frame buffer shared with the control thread (mutex + condition variable), message pipe, file, counts, clients | integrate, hand over, save, write, rotate, configure, answer transactions | two threads, fields used without the mutex, a pipe that refuses | each frame in exactly one integration; no lost wakeup or request; clients told | `Archiver` |
| Mediator frames: `util/common/FrameBuffer.cc`, `mediator/cbass/Scanner.cc` | ring of 10 frames, map from second to slot, send state of the network | create a frame, dispatch, sent, overflow, disconnect, late antenna data | two threads on the ring; overflow; a connection lost while sending | frames whole, in order, never with another second's data | `FrameBuffer` |
| Control thread: `CS/genericcontrol.c`, with `CS/navigator.c` | list of watched channels, client slots, RTC connection, a write buffer per thread | serve the first ready channel; stage a message; connect, lose and close | channels are taken off the list by one handler and put back by another; one write buffer for several senders | no connection goes deaf; the threads learn who is there; no client starves | `ControlLoop` |
| Script engine: `libscript_src/{statement,script}.c` | stack of executing statements, list of watched catch clauses, signals, exit handler | step, signal, abort, exit, rewind | statements left many at a time; a catch list beside the stack | the list agrees with the stack; no signal passes a catch that waits | `ScriptEngine` |
| Pipes of the tasks: `util/common/{Pipe,PipeQ}` | kernel pipe, `unread_`, two condition variables | read and write with time-outs, from any thread | short reads, wakeups, cancelled readers | a stream of bytes; nobody sleeps over what it waits for | `Pipe`, `ByteStream` |
| Transactions: `CS/TransactionStatus.c`, `CS/genericscript.c` | sequence number and done flag per device | start, answer, `acquired()` | answers late, skipped, or of an earlier one | done means done | frame, mark and tv_offset in `Archiver` |
| Script commands and types: `CS/genericscript.c`, `generictypes.c`, `controlscript.c` | - | pack messages | - | - | the commands that change state are inputs of the modules |
| PipeQueue, locks: `util/common/{PipeQueue,CircBuf,DoubleBuffer,Mutex,CondVar,IoLock}` | bounded buffers, owner of a lock | try to read, try to write | a full pipe refuses at once | FIFO | a bounded sequence that refuses, in `Archiver` and `ControlLoop` |
| Mediator connections: `mediator/cbass/{Master,Control,AntennaControl,AntennaConsumerNormal,...}.cc` | connections, timers | connect, forward commands, heartbeat | reconnection | progress | timer, reconnection, the consumer's write in `FrameBuffer` |
| Parser, grabber thread, task framework, antenna computer, pointing arithmetic, register maps, dirfile writer, frame grabber, viewer, libraries and data | | | | | see section 7 |

`PROJECT.json` has the same inventory with the files of each part, and under
`hazards` the lines where each difficulty bites with the property that watches it.

## 2. Plan

Done in this order: `Scheduler` with the abstract `ScheduleQueue`, `Archiver`,
`FrameBuffer`; then `ControlLoop` (which composes the control thread with
the scheduler and navigator threads at the other end of its pipes),
`ScriptEngine` and `Pipe` with the abstract `ByteStream`; and the proofs of
section 5. What a next step would take up:

1. theorems about the divergences of section 6 under the weakest condition that rules
   each out, as `ImplementsQueue` and `DoneHasRun` are now; an abstract queue of
   frames that `FrameBuffer` implements while the control program keeps up;
2. the transactions of the drive and of the other devices, with a restart of the control
   program while answers are under way;
3. heartbeats and restarts of the task framework; the grabber thread.

Every module is written so that it can be proved about: constants with named
assumptions, an action per operation, no RECURSIVE operator.

## 3. Modules

**Scheduler.** The scheduler thread owns its state, so a message handler or a
timeout runs to its end before the next: one variable `sch` holds `struct
Scheduler` and the containers, each C function is an operator from a state to
the state it leaves, and an action applies the whole chain of calls
(`AbortSchedule` discards, moves the pending file and stages the next one, as
`sch_abort_schedule` does through `sch_next_schedule`). A script is a
container with a reference count, a state, the scripts that are arguments of
its commands and a supply of statements that may be any command in `ScriptOps`;
what it computes is left out. The pipe of commands for the RTC may be full (`rtcFull`): the end of
the initialization script then cannot be reported, `sch_next_schedule` returns, and the script
stays in place, ended, until the next timeout (`InitEndRefused`, `StepEnded`). A viewer's replica of the queue is computed from
the reports exactly as `viewer.tcl` does, deleting before it inserts. A file of
the autoqueue may be withdrawn, but not while it is worked at.

**ScheduleQueue** says what a user is promised: one schedule runs, the head is
next, a schedule leaves the queue only to run or because it was removed; and
what runs gives way only to the next one, when the RTC is lost, or to the
initialization script when the RTC is back (`Preempt`).
`Scheduler!QueueDiscipline` is that `Scheduler` implements it with
`running <- sch.schedule, waiting <- sch.queue`.

**Archiver.** Two threads. The control thread (`control.at`) receives a frame,
locks the buffer, waits while an integration is being handed over, adds the
frame, and sends `ARC_FRAME` with the mutex still held. The pipe never waits:
when it is full the message is refused, and the control thread goes back to its
event loop ("select"). The archiver (`arc.at`) takes messages one by one and saves an
integration: it copies the buffer under the mutex and signals, and only then
reads the mark and feature registers, answers transactions and writes. Steps
are split where another thread's access matters: `AddFirst`/`CopyFirst`
because the buffer is zeroed and then filled, `TestMark`/`SendMark`/`SetMark`
because the code reads the register three times. A frame is its number (the
first and last one of an integration), a mark number and whether it has
features; frame numbers count modulo `Wrap`. All messages of the thread are
handled but `ARC_REM_CLIENT`, which no code sends: sampling, filter, file size,
directory, open, close, flush, shutdown, new clients, and the end of a tv_offset.
`client` is one slot of the control clients: how often the list holds
its pipe, the settings it was last told, and those whose last report it missed.
A tv_offset is numbered as the transaction `pmac` and answered as `tv`, as in the code; `TvOffsetDone` is the control
program's handler; the C-BASS mediator itself never sends that message.
`Faults` are failures of opening a file and of writing a record, and the messages that full pipes refuse:
reports to the scheduler (`"report"`: of a mark, a new frame, a tv_offset, each made again
after the next integration or record), messages to the client (`"reply"`: dropped in silence)
and the announcement of a client (`"connect"`).

**FrameBuffer.** The ring's slots and three pointers, the map, the Scanner's
message queue and network state, an antenna consumer and a clock. A frame is
the second it was made for, the second of the shared registers in it and that
of its antenna data. `Dispatch` and `DispatchNextFrame` are one message handler in two
steps, because it changes the map without the guard that `getFrame` holds;
the consumer's search, its unlocked copy and its locked mark are three steps.
`out` is the frame at the moment it is given to the network. The connection
is down at first; an error may strike at any moment between handlers. `Tick` is
the Master's timer, which may signal twice in a second (`getFrame` then finds
the frame it has). The clock does not step back.

**ControlLoop.** The control thread serves one channel at a time, the first
ready one of its active list (`cp.on`, with the order `cp.ahead`), and takes
it off; the handler puts it back, or leaves that to the handler that finishes
what it started. Handlers are operators from a state of the thread to the next,
named as in the source (`AddSchedulerChannel`, `RemSchedulerChannel`,
`CloseRtc`...). A staged message for the scheduler or the navigator is in
`schBuf`/`navBuf` while the write aspect of its pipe is watched. The other ends of
the pipes are modelled as far as they answer: the scheduler keeps its
`rtc_online` and the slots it reports to and replies to commands; the navigator
answers an RTC that has come with its sources, scans and sites. Clients and the
RTC connect, send, and leave at any moment. The logger's pipe accepts, unless `Faults` says that it may refuse: then a handler of a client that
comes or goes returns before the scheduler is told (`Announced`), and a message of the RTC for the
log, or the like, drops its connection. A write to a pipe is only tried when `select`
finds room in it, so it succeeds.

**ScriptEngine.** The program is data that the parser accepts (`Parsed`: blocks properly nested, and
break and next only inside the text of a loop, which includes a command or an exit
handler that is written in one). A
state of the script is its stack of frames (block, position, what is next,
iteration), the catch list (`on`, `ahead`), and why it failed. Each statement
is an action that does what `exe_*` does, with the unwinding that break, next,
return, exit and a catch share (`Pop`). Conditions are chosen freely, and every
evaluation may fail: in a statement that ends the script, in a clause that is
looked at because of a signal it does not, and `missed` remembers the signal that was counted
(`SignalScript`). The scheduler's side (stage, rewind, abort, discard,
signal, clear) is in the module as well.

**Pipe** and **ByteStream.** Readers and writers share a mutex, the kernel pipe
and `unread_`; one pass of the loop in `read` or `write` is a step, because the
mutex is given up only in the wait. A short read is two. Waits may wake up
spuriously or expire, and a thread may be cancelled in one (`Mortal`, the readers in the run). `IsStream` is the refinement of `ByteStream`, with
`stream <- unread \o kernel`.

The `MC` modules extend these for TLC.
Definitions whose comment starts with "Mutant:" are wrong versions of the
definition that follows them: with one of them in its place, the property
that `PROJECT.json` names must fail, which shows that it can.

## 4. Runs

| run (cfg) | checks | shows |
|---|---|---|
| queue (`MCScheduler_queue`) | RefsCountUses, Runnable, SuspendedIsRunning, ViewAgrees | with all queue commands from clients and schedules, and a viewer that comes, goes and is congested: counts are exact, what is staged can run, suspensions end, the viewer agrees |
| rtc (`MCScheduler_rtc`) | TypeOK, RefsCoverUses, QueueDiscipline | with the RTC coming and going, its pipe full or not, and the initialization script replaced, no used container reaches the pool (a count may stay too high: a container is then kept for ever, not reused), and the queue is kept as `ScheduleQueue` promises, when schedules do not abort or replace the initialization script themselves |
| progress (`MCScheduler_progress`) | DoneWasRun, QueuedIsStarted | the autoqueue moves a file only when its schedule has ended, and every queued schedule is started |
| buffer (`MCArchiver_buffer`) | TypeOK, OneHandOver, NoLostWakeup, NewFrameKept, RecordsFollow | the hand-over in every interleaving, with new frames, changes of the sampling, full pipes of the archiver and of the scheduler, and failing files |
| archived (`MCArchiver_progress`) | CountIsOfFile, ClientKnows, FrameIsIntegrated, FrameIsDone | every configuration command, every failure of a file, a client whose pipe is full, or that is not announced, at any moment, and reports that the scheduler refuses; liveness while the pipe of the archiver has room |
| turn (`MCFrameBuffer_turn`) | EachInTurn, OldEnough, QueueDrains | no overflow (a full ring stops the clock), no error: every frame whole and in its turn, never early, and the queue drains, with antenna data arbitrarily late |
| order (`MCFrameBuffer_order`) | TypeOK, InOrder | overflow and a lost connection: no older frame after a newer one |
| loop (`MCControlLoop_loop`) | TypeOK, NobodyDeaf, StatusOnItsWay, ListOnItsWay, InitFirst | two clients and an RTC that come, send and go: nobody goes deaf, and the other threads know, or are about to learn, who is connected (the scheduler, as long as the logger refuses nothing) |
| served (`MCControlLoop_served`) | CommandIsRead, RtcIsBriefed | liveness with full pipes, a logger that refuses, and any number of messages |
| bug_starve (`MCControlLoop_bug_starve`) | CommandIsRead: violated | see section 6 |
| script (`MCScriptEngine_script`) | TypeOK, Scoped, CatchesNest, NoSignalMissed, TargetsAreThere | every program of one shape, signalled, aborted, failing and run again |
| pipe (`MCPipe_pipe`) | TypeOK, NoLostWakeup, NoStandstill, IsStream | two readers and two writers, time-outs, cancelled readers |

**Bounds.** Scheduler: three or four containers, queues of two or three (four
containers are needed so that one runs, two wait and a fourth is compiled); a
script executes one statement before it ends (`MaxStmts`), after which
it is rewound and run again, so that longer ones add no new states of the
queue; `MaxRef` 4 is above the uses a container can have at once. Containers are
interchangeable, hence the symmetry, left out where liveness is checked.
Archiver: frame numbers count modulo `Wrap`, 4 in `buffer`, above the number of
frames that can be between the RTC and the archiver (three), so that two
of them differ; two commands under way (samplings 0 and 2), one mark, a pipe of two messages,
which overflows; records are counted up to 2. In `archived` the pipe holds 4, two more
than the commands, so that it never refuses; two configuration commands (sampling 2, a file size of
two records, one other directory), connections of clients included, are enough to list a client and change a
setting, heard or unheard, and to fill or to fail in the middle of a file.
FrameBuffer: a ring of 6 in place of 10, with the code's `MIN_FRAMES_IN_QUEUE`
of 4, so that it is above the minimum with one slot to spare, and the slots are
reused, and sent again, within the 11 seconds of `MaxTime`; one network error.
`Twice` bounds the seconds in which the timer may signal again; it holds the last one, so
that the timer goes on when the clock has reached its bound.
`Overflow`, `Antenna`, `Prompt` select the situation of a run: `Prompt` says
that no task is late by a whole second (section 6, bug_early, for what
happens if one is).
ControlLoop: in `loop` two clients, two slots, pipes that never fill, four
connections made or lost and two messages, which is enough for a client to leave and another to
come while a message is staged and the RTC is lost and back; the only refusal there is of the archiver
(a `TV_OFFSET_DONE`), which drops the RTC; in `served` one client,
pipes of one message, three connections, no bound on the messages, and the refusals are the logger's.
ScriptEngine: programs of three nested blocks, a remedy and an exit handler: an
outer while, foreach or catch; in it a call, if, foreach or catch; in that an
until or a signal followed by until, return, exit, break or next; the remedy and the handler may
hold a break.
Pipe: messages of 2 and 3 bytes, `PIPE_BUF` 3, a kernel pipe of 4, so that it
fills with one message and a half, and `unread_` holds up to a message; the
tasks of the program use messages of one size, the class allows any.
`CHECK_DEADLOCK FALSE` appears where a bound on the world's events or on the clock ends a
behaviour, or a message that a full pipe refused.

**Fairness.** Scheduler: `select` comes back with a timeout again and again while a schedule
runs (`FairSpec`), as its interval is counted down also through messages.
Archiver: weak fairness of each thread and of
the RTC's frames, as the threads are scheduled by the operating system and
block only where the guards say; strong fairness of `TvOffsetDone`, whose channel the
round-robin active list serves in its turn, and of `FrameReported`, a report that is accepted: the
scheduler goes on reading its pipe, so it does not refuse for ever. FrameBuffer: weak fairness of the network, the Master's
reconnection and the consumer; strong fairness of the Scanner's message
handling and of the timer, whose model guard (`Prompt`) comes and goes with the consumer.
ControlLoop: weak fairness of the three threads, none of the clients or the RTC: which
channel the thread serves is what its list says, and that is where
`bug_starve` fails.

## 5. Proofs

`tlapm` proves, for every value of the constants that satisfies the modules'
assumptions (names of bounds and sets, and sizes that are natural numbers):

- `SchedulerProofs`: `TypeCorrect` (`[]TypeOK`) and `SuspensionEnds`
  (`[]SuspendedIsRunning`) from `SoundAlways`. The inductive invariant `Sound`
  joins the type of the state with "suspended implies that something is
  staged". One lemma per C function says what it preserves, and every action is
  the composition of a few. `ViewersAgree` (`[]ViewAgrees`) adds `AllSeen`: a viewer that
  follows shows what is. The work is in the move of a schedule: the scheduler inserts
  the new entry and deletes the old one, the viewer deletes and then inserts, with the
  numbers of the report; `MoveEitherWay` and the lemmas before it show that both give the
  same list, at its ends too.
- `SchedulerRefsProofs`: `ReferencesCoverUses` (`[]RefsCoverUses`), `ReferencesCountUses`
  (`[]RefsCountUses`) and `StagedCanRun` (`[]Runnable`). The counts are not inductive by
  themselves, as a handler takes a reference before or after the use it belongs to. The
  proof keeps books: `Surplus` is the references of a container beyond its uses, each
  operator has a lemma that says which surplus it adds or takes, and a handler
  is shown to be `Balanced`. The invariant is `Orderly`: the books are in order (`Kept`, with arguments
  one level deep), no surplus is negative (`Solvent`), and what is compiled has not
  ended (`Fit`). `StagedCanRun` assumes that the pipe of the RTC never fills (`"rtcpipe"` is not in
  `Environment`): otherwise an ended initialization script stays in place. `ReferencesCountUses` assumes that `"rtc"` is not in `Environment`:
  when the RTC is lost while the initialization script runs, the reference of running
  is kept (`RtcBooks`), and the count stays one too high. But for these assumptions all three hold with the
  RTC coming and going and its pipe full.
- `SchedulerQueueProofs`: `ImplementsQueue`, the refinement of `ScheduleQueue`, by
  `QueueStep`: what a handler does to the schedule that runs and to the queue is one
  step of the abstract queue, or none. It assumes that `"abort_schedule"` is not in
  `ScriptOps`, that is that no schedule aborts itself: then one
  handler drops two schedules (section 6, bug_selfabort); and that the pipe of the RTC has room, for
  `Runnable` is one of its premises (the run `rtc` has no counterexample with the pipe full). `DoneHasRun` (`DoneWasRun`)
  from `Carried`: the file at work is in the pending directory and the schedule that runs was
  compiled from it. It assumes that the RTC keeps its state (section 6, bug_done) and
  that the file at work is not withdrawn (`"withdraw_pending"`). Both rest on
  `Orderly`, for which a container that runs cannot be compiled again meanwhile.
- `ArchiverProofs`: `TypeCorrect`, where `Typed` adds that the RTC
  and the scheduler agree on the number of the last mark (otherwise a frame's
  mark has no bound); `TurnsTaken` (`[]OneHandOver`) and `WakeupsKept`
  (`[]NoLostWakeup`) from `Turns`, which adds `Guarded`: the mutex is held exactly where
  the control thread owns the buffer, and it adds a frame only in its turn. Without
  `Guarded` a hand-over could start while another is under way.
  In the same module: `RequestsKept` (`[]NewFrameKept`, inductive given the
  types, although its flag is set without the mutex and the report may be refused any number of times), `RecordsInOrder`
  (`RecordsFollow`) from `Chained`: the frame in the control thread's hands, or the
  next one of the RTC, follows the last one in the buffer, and the first one in the
  buffer follows the last one that was copied; `CountKept` (`[]CountIsOfFile`) and
  `ClientsTold` (`[]ClientKnows`), through every failure. `ClientKnows` speaks of the settings whose last
  report was not dropped: a client that missed one learns it with the next report of it, and
  nothing in the code could tell it before.
- `FrameBufferProofs`: `TypeCorrect`, and `SentInOrder`: under `Keeping` (`Prompt`, and
  a minimum of at least two frames; the code has four) `InOrder` holds. The
  inductive invariant `Orderly` says that the waiting slots are those from `send` to
  `free`, in the order of their seconds, none older than the frame sent last; and
  `Enough`: no more than two requests are under way, so that the ring still has a
  waiting frame when one is carried out. Without `Enough` dispatch could run past `free`.
  `SentInTurn` (`EachInTurn`) and `SentWhenOld` (`OldEnough`) are proved under `KeepingUp`:
  `Prompt`, no `Overflow`, and a minimum of three frames, for the second of four,
  both satisfied by the mediator's 4. `InTurn` adds to `Orderly`: the waiting frames are
  of consecutive seconds, the map finds just these, all but the last hold the shared registers of their
  second (`Rank`); a second is started before anything else is done in it (`Due`); and a consumer
  past its search, which has no lock, writes to a frame of its second, not in the slot
  that is handed out next (`Aimed`). Without `Aimed` late data could land in the next frame.
  Lost connections are included, any number of them.
- `ControlLoopProofs`: `TypeCorrect` and `NobodyIsDeaf` (`[]NobodyDeaf`), with a lemma
  for what each operator on the active list does to the list and to the connections;
  `InitIsFirst` (`[]InitFirst`) from `Greeting`, and `NavigatorIsTold`, without further
  assumptions. `StatusWithRoom` (`[]StatusOnItsWay`) and `ListIsOnItsWay` (`[]ListOnItsWay`) say
  `Spec /\ []Room => ...`, with `Room` that the scheduler's pipe is not full when the
  thread looks; `ListIsOnItsWay` also assumes that the logger refuses nothing (`"LOG"` is not in
  `Faults`; section 6, bug_list). The scheduler's list holds a pipe once for each message that adds it, so the
  invariant has besides that, in its pipe, what adds a slot and what removes it take turns (`InTurn`). With a full pipe the thread idles with a message staged, and the command of a
  client that connects is packed over it (section 6, bug_overwrite): the state is then
  lost, and both properties fail. `Room` holds throughout the run `loop`, whose pipes
  never fill and where the logger takes everything, so the hypotheses are met by behaviours with every other event.
  `StatusIsOnItsWay` says it more sharply: `StagedIsKept` is enough.
- `ScriptEngineProofs`: `TypeCorrect`, `StackFollowsText` (`Scoped`), `CatchesAgree`
  (`CatchesNest`), `SignalsAreCaught` (`NoSignalMissed`), `TargetsFound` (`TargetsAreThere`), for
  every program that is `Parsed`, with the invariant `IInv`: blocks on the stack get deeper
  (so none is there twice), each frame's block is a part of the statement below it, a
  block that may hold a break has a loop around it, but in an exit handler that is one itself; the catch list is exactly
  the catches whose body is being executed; and each of these that waits for a signal waits for
  one that has not come, or is in `missed`, which grows only when a clause fails as a signal
  comes (`SignalScript`) and is cleared as soon as all clauses have been evaluated.
- `PipeProofs`: `TypeCorrect`, `WakeupsKept`, `NeverStandsStill` from `IInv == TypeOK /\
  NoLostWakeup /\ Drained` (a reader that waits has left the kernel pipe empty), and
  `ImplementsStream`: every step of `Pipe` maps to a `Put`, a `Take` or a stutter of
  `ByteStream`.

Every invariant, action property and refinement that a run checks is a theorem, some under the
assumptions named above. Only model-checked: all liveness (out of the prover's reach:
`QueuedIsStarted`, `FrameIsIntegrated`, `FrameIsDone`, `QueueDrains`, `CommandIsRead`,
`RtcIsBriefed`), and that `Room` holds in `loop`.

## 6. Where the code and its comments disagree

One run shows a violation under the fairness that the code has:

- **CommandIsRead** (`bug_starve`). When a staged message has gone,
  `rem_scheduler_channel` puts the sockets of all clients back in the order of their slots
  (`genericcontrol.c:4204-4208`): a busy client in the first slot is always before the others,
  although "no channel can starve out the rest" (`:1390-1392`).

The other statements are kept as properties with a cfg each, which can be run
as `tlc -config MC..._bug_<name>.cfg MC...`; TLC finds each violated:

- `bug_list`, ListOnItsWay: When the logger's pipe is full, `connect_control_client` and
  `cc_sock_cond_fn` return before the scheduler is told of the client that comes or goes
  (`genericcontrol.c:3484-3486, 3593-3595`): a client is served but gets no report of the scheduler, or one
  that has left stays listed.
- `bug_tvoffset`, TvIsDone: `sc_tv_offset_cmd` numbers the command by `TRANS_PMAC`
  (`genericscript.c:4534-4535`), the answer is compared with the number of `TRANS_TVOFF`
  (`genericscheduler.c:965-969`), which stays 0: no tv_offset is ever done. (`acquired()` does not
  notice: of its targets, `ACQ_TV_OFFSET`, `control_src/cbass/specifictypes.h:50`, is never looked at,
  `control_src/cbass/specificscript.c:399-452`.) Besides, the record that fills its file
  skips the answer until the next one (`archiver.c:1208`).
- `bug_break`, LoopIsThere: The parser looks for the loop of a break through an exit handler
  (`statement.c:3049-3060, 1555-1595`), so one in a handler that is written inside a loop is accepted;
  the handler runs without the loop, and the script ends in an error (`:2845`).
- `bug_signal`, FailureIsFatal: `signal_script` counts the signal, then evaluates the clauses; if that of an
  outer catch fails, those inside are not looked at (`statement.c:3158-3163, 3191-3197`), the error is ignored
  (`genericscript.c:2751`), and the script goes on inside a catch that waits for the signal.
- `bug_selfabort`, OneLeavesQueue: a schedule that aborts itself takes the
  next one with it: `sch_abort_schedule` stages the next schedule inside the
  command, and the step loop then finds "the" script finished and calls
  `sch_next_schedule` again (`genericscheduler.c:1498-1533, 1016-1040`).
- `bug_reboot`, RestartedOnReboot: a schedule put back when the RTC was lost is not
  restarted when it reboots without an initialization script (`genericscheduler.c:888, 1234`).
- `bug_initfirst`, InitScriptFirst: the initialization script replaces the
  running schedule, which is not put back (`:896-899`).
- `bug_startup`, ListensOnceStarted: aborting the start-up script leaves the control thread
  deaf to the RTC until another schedule ends (`:1029, 1498`).
- `bug_initend`, InitEndReported: the end of an initialization script that was replaced
  while it ran is not reported (`:1168`).
- `bug_done`, DoneWasRun: with an initialization script, its end moves the pending file of
  the schedule that it replaced (`:1180`).
- `bug_mark`, MarkDoneIsSaved, and, when that line is taken out of the cfg, MarkIsDone: the archiver reads the
  mark number from the buffer after it gave it back (`archiver.c:1156, 1168-1172`).
- `bug_filter`, FilteredIsMarked: likewise the features (`archiver.c:1194`).
- `bug_pipe`, FrameIsIntegrated: `archiver.c:283-296` says that a timeout of -1 waits for room, but
  `PipeQueue` never waits (`util/common/PipeQueue.cc:36-119`): a full pipe refuses `ARC_FRAME` at
  once, after the integration was marked as handed over (`archiver.c:831-836`), the RTC's
  connection is closed, and the next frame waits in `cond_wait` for ever.
- `bug_listed`, ListedOnce: nothing takes a client off the archiver's list; the pipe of its slot
  is listed again for the next one (`archiver.c:1274`).
- `bug_stuck`, QueueDrains: a connection lost while a frame is being sent
  leaves `dispatchPending_` set, and no frame is ever sent again
  (`Scanner.cc:1326-1338, 1350, 1401`).
- `bug_sent` and `bug_unlocked`, SentUnmodified: a full ring hands out the slot being sent
  (`FrameBuffer.cc:125`); the consumer writes without the frame's lock (`Scanner.cc:331`).
- `bug_cleared`, ClearsSentFrame: after a long disconnection dispatch clears a fresh frame
  (`FrameBuffer.cc:94`).
- `bug_guard`, MapExclusive: the map is changed without its guard (`FrameBuffer.cc:82, 280`).
- `bug_early`, OldEnough without `Prompt`: dispatch requests are made when the queue is long
  and carried out when it is not (`Scanner.cc:712, 1410`).
- `bug_overwrite`, StagedIsKept: the command of a client that connects, or a message of the RTC,
  is packed over a message for the scheduler that was not sent yet
  (`genericcontrol.c:3476, 3877`).
- `bug_reply`, ReplyIsOwn: a reply for a client that has left is read by the next one of its slot
  (`genericcontrol.c:4397`).
- `bug_next`, NextIterates: `next` inside an until or a catch ends that statement instead of
  starting an iteration of the loop around it (`statement.c:2858-2871`; every statement that evaluates repeatedly has `stmt->loop`).
- `bug_catch`, CheckedFirst: catch clauses are looked at when a signal comes, not before each
  statement (`statement.c:2973`).

## 7. Not modelled

Out of reach or without behaviour to check: the parser's translation of text to closures
(its checks are `Parsed`); the pointing arithmetic and ephemerides (floating point); register
maps, network buffers and containers (layout); the antenna computer, the frame grabber and the
ROACH (hardware); the dirfile writer (the same interface, pure I/O); the viewer but for its
replica; cfitsio, slalib, pgutil, matlab, idl and the data files, which are most of the
repository. Not reached: the grabber thread (it repeats the archiver's hand-over for images),
monitor and image clients, heartbeats and restarts of the task framework, the transactions of
the other devices, shutdown of the control program.

Seen while reading: the interval is copied to the timer of `select` only once
(`genericscheduler.c:847`); registers of the archive callback are read without synchronisation (`archiver.c:1376`); a change of the
clients is lost when the scheduler's pipe is full (`genericcontrol.c:3491`); `rtc_offline` always
answers 0 (`controlscript.c:158`); signals are not reset when the initialization script, a file of the
autoqueue or a rescheduled script starts (`genericscheduler.c:1205`); a second abort
cuts the exit handler short; `lock()` in `Mutex.cc:78` returns when the caller holds the
lock, so that the unlock of the inner pair releases the outer one; a read of `Pipe` with a
limit may return silently (`Pipe.cc:317`); a task that writes to its own full queue waits for itself
(`GenericTask.h:508`); a clock that steps back (`Scanner.cc:500`); the last mark number that the archiver
remembers outlives a restart of the numbering; a file of the autoqueue that is withdrawn while its
schedule runs, and dropped again, is marked as done.
