------------------------------ MODULE Archiver ------------------------------
(***************************************************************************)
(* The frame buffer of the control program and the two threads that share  *)
(* it (control_src/common/archiver.c). The control thread adds each frame  *)
(* that the real-time controller (RTC) sends to the current integration;   *)
(* when the integration is complete it hands the buffer to the archiver    *)
(* thread, which copies it, hands it back, tells the scheduler which mark, *)
(* newFrame and tv_offset transactions are done, and writes the copy to a  *)
(* file. Clients are told of every change of the settings of the archiver. *)
(*                                                                         *)
(* An action is what a thread does between two points where the other one  *)
(* can interfere: the mutex fb->guard, the pipe of the archiver, and each  *)
(* access to the buffer that the code makes without the mutex.             *)
(*                                                                         *)
(* Every pipe is a gcp::util::PipeQueue, which does not look at its        *)
(* timeout: a message that finds it full is lost, and its sender told so   *)
(* at once. The pipe of the archiver is modelled; that those of the        *)
(* scheduler and of the clients are full is one of the Faults.             *)
(***************************************************************************)
EXTENDS Integers, Sequences

CONSTANTS
  Wrap,         \* bound: the frames of the RTC are numbered modulo Wrap
  PipeSize,     \* messages that the pipe of the archiver holds
  Commands,     \* the messages that users have sent to the archiver
  Samplings,    \* frames per integration that users ask for
  FileSizes,    \* records per file that users ask for
  Directories,  \* the directories that users name; 0 stands for none
  MaxCommands,  \* bound: messages that users send
  MaxMarks,     \* bound: mark commands
  MaxRecords,   \* bound: the records of a file are counted up to here
  Faults        \* what may fail: "open" and "write" of the file; the messages to
                \* the scheduler, "report", and to a client, "reply"; those
                \* that the control thread sends before ARC_ADD_CLIENT, "connect"

CommandTypes == {"ARC_OPEN", "ARC_CLOSE", "ARC_FLUSH", "ARC_CHDIR", "ARC_SAMPLING",
                 "ARC_FILTER", "ARC_FILE_SIZE", "ARC_NEW_FRAME", "ARC_ADD_CLIENT",
                 "ARC_TV_OFFSET_DONE", "ARC_SHUTDOWN"}

ASSUME SizeAssumption    == /\ Wrap \in Nat \ {0, 1}
                            /\ PipeSize \in Nat \ {0}
                            /\ MaxCommands \in Nat
                            /\ MaxMarks \in Nat
                            /\ MaxRecords \in Nat
ASSUME CommandAssumption == /\ Commands \subseteq CommandTypes
                            /\ Samplings \subseteq Nat
                            /\ FileSizes \subseteq 0 .. MaxRecords
                            /\ Directories \subseteq Nat
                            /\ Faults \subseteq {"open", "write", "report", "reply", "connect"}

VARIABLES
  rtc,      \* the Scanner task of the mediator: features_ and the next frame
  control,  \* the control thread in arc_integrate_frame, and rts->frame
  fb,       \* struct FrameBuffer; locked: its guard is held between actions
  pipe,     \* the messages on their way to the archiver thread
  arc,      \* the archiver thread: struct Archiver and the private part of fb
  trans,    \* the transactions of the scheduler that the archiver completes
  client,   \* a slot of the control clients: how often the archiver lists it,
            \* the settings as its client was last told, and those of
            \* which it has missed the last report
  users     \* messages that users have sent

vars == <<rtc, control, fb, pipe, arc, trans, client, users>>

-----------------------------------------------------------------------------
(* A frame, and an integration of the frames first to last. The archiver   *)
(* looks at two registers: markSeq, the last value of which is kept, and   *)
(* features, of which only whether any is set matters.                     *)
FrameNumber == 0 .. Wrap - 1
Following(n) == (n + 1) % Wrap

Frame == [first : FrameNumber, last : FrameNumber,
          markSeq : 0 .. MaxMarks, features : BOOLEAN]

Zeroed == [first |-> 0, last |-> 0, markSeq |-> 0, features |-> FALSE]

Sum(f, g) == [f EXCEPT !.last = g.last, !.markSeq = g.markSeq,
                       !.features = @ \/ g.features]

Message == [type : CommandTypes \cup {"ARC_FRAME"}, arg : Nat]
Transaction == [seq : Nat, done : BOOLEAN]

(* The settings of the archiver, of which its clients are told.            *)
SettingNames == {"filter", "file_size", "open", "dir", "sampling"}

Init ==
  /\ rtc = [next |-> 0, markSeq |-> 0, transient |-> FALSE, persistent |-> FALSE, tv |-> 0]
  /\ control = [at |-> "select", frame |-> Zeroed]
  /\ fb = [locked |-> FALSE, integrate |-> TRUE, nframe |-> 1, count |-> 0,
           newFrame |-> FALSE, frame |-> Zeroed]
  /\ pipe = << >>
  /\ arc = [at |-> "select", arg |-> 0, net |-> [Zeroed EXCEPT !.last = Wrap - 1],
            lastSeq |-> 0, currFrameSeq |-> 0, lastFrameSeq |-> 0, refused |-> FALSE,
            open |-> FALSE, records |-> 0, nrecorded |-> 0,
            filter |-> FALSE, file_size |-> 0, dir |-> 0,
            tv_offset |-> [pending |-> FALSE, seq |-> 0]]
  /\ trans = LET none == [seq |-> 0, done |-> FALSE]
             IN [mark |-> none, frame |-> none, pmac |-> none, tv |-> none]
  /\ client = [listed |-> 0, view |-> [s \in SettingNames |-> 0], missed |-> SettingNames]
  /\ users = 0

-----------------------------------------------------------------------------
(* Commands. A transaction gets the next sequence number when it is issued.*)

NextSeq(t) == [seq |-> t.seq + 1, done |-> FALSE]

(* A completion message counts when it is that of the latest transaction.  *)
Complete(t, seq) == IF t.seq = seq THEN [t EXCEPT !.done = TRUE] ELSE t

(* mark add, mark remove and mark one.                                     *)
Mark(mode) ==
  /\ rtc.markSeq < MaxMarks
  /\ trans' = [trans EXCEPT !.mark = NextSeq(@)]
  /\ rtc' = [rtc EXCEPT !.markSeq = trans'.mark.seq,
                        !.persistent = (@ \/ mode = "add") /\ mode # "remove",
                        !.transient = @ \/ mode \in {"add", "one"}]
  /\ UNCHANGED <<control, fb, pipe, arc, client, users>>

(* A full pipe loses the message.                                          *)
Send(type, arg) ==
  pipe' = IF Len(pipe) < PipeSize THEN Append(pipe, [type |-> type, arg |-> arg]) ELSE pipe

UserSends == users < MaxCommands /\ users' = users + 1

Command(type, arg) ==
  /\ type \in Commands
  /\ UserSends
  /\ Send(type, arg)
  /\ UNCHANGED <<rtc, control, fb, arc, client>>

NewFrame == /\ trans' = [trans EXCEPT !.frame = NextSeq(@)]
            /\ Command("ARC_NEW_FRAME", trans'.frame.seq)

Configure == /\ \/ \E d \in Directories \cup {0} : Command("ARC_OPEN", d)
                \/ Command("ARC_CLOSE", 0)
                \/ Command("ARC_FLUSH", 0)
                \/ \E d \in Directories : Command("ARC_CHDIR", d)
                \/ \E n \in Samplings : Command("ARC_SAMPLING", n)
                \/ \E n \in FileSizes : Command("ARC_FILE_SIZE", n)
                \/ \E b \in {0, 1} : Command("ARC_FILTER", b)
             /\ UNCHANGED trans

(* A client connects, which has been told nothing yet. The control thread  *)
(* announces it, unless the pipe of the logger or of the scheduler, who    *)
(* are told first, is full. One that was connected in the same slot before *)
(* has never been taken from the list.                                     *)
Connect ==
  /\ control.at = "select"
  /\ "ARC_ADD_CLIENT" \in Commands
  /\ UserSends
  /\ client' = [client EXCEPT !.missed = SettingNames]
  /\ \/ Send("ARC_ADD_CLIENT", 0)
     \/ "connect" \in Faults /\ pipe' = pipe
  /\ UNCHANGED <<rtc, control, fb, arc, trans>>

(* tv_offset goes to the RTC, whose answer the control thread passes on.   *)
(* Its number is the next one of the pmac transactions.                    *)
TvOffset ==
  /\ "ARC_TV_OFFSET_DONE" \in Commands
  /\ UserSends
  /\ trans' = [trans EXCEPT !.pmac = NextSeq(@)]
  /\ UNCHANGED <<rtc, control, fb, pipe, arc, client>>

TvOffsetDone ==
  /\ control.at = "select"
  /\ rtc.tv < trans.pmac.seq
  /\ rtc' = [rtc EXCEPT !.tv = @ + 1]
  /\ Send("ARC_TV_OFFSET_DONE", rtc.tv + 1)
  /\ UNCHANGED <<control, fb, arc, trans, client, users>>

(* The end of the control thread's loop.                                   *)
Shutdown ==
  /\ control.at = "select"
  /\ "ARC_SHUTDOWN" \in Commands
  /\ Send("ARC_SHUTDOWN", 0)
  /\ control' = [control EXCEPT !.at = "ended"]
  /\ UNCHANGED <<rtc, fb, arc, trans, client, users>>

-----------------------------------------------------------------------------
(* The control thread. It reads the next frame of the RTC once it is done  *)
(* with the last one; the RTC forgets the features it has put in a frame.  *)
Receive ==
  /\ control.at = "select"
  /\ control' = [at |-> "lock",
                 frame |-> [first |-> rtc.next, last |-> rtc.next, markSeq |-> rtc.markSeq,
                            features |-> rtc.transient \/ rtc.persistent]]
  /\ rtc' = [rtc EXCEPT !.next = Following(@), !.transient = FALSE]
  /\ UNCHANGED <<fb, pipe, arc, trans, client, users>>

(* Mutant: the request for a new frame is forgotten by the next frame.     *)
Lock_ClearsRequest ==
  /\ control.at = "lock" /\ ~fb.locked
  /\ IF fb.integrate
     THEN /\ control' = [control EXCEPT !.at = "add"]
          /\ fb' = [fb EXCEPT !.locked = TRUE, !.newFrame = FALSE]
     ELSE /\ control' = [control EXCEPT !.at = "wait"]
          /\ fb' = fb
  /\ UNCHANGED <<rtc, pipe, arc, trans, client, users>>

(* Mutant: the buffer is taken although it is to be copied.                *)
Lock_NoTurn ==
  /\ control.at = "lock" /\ ~fb.locked
  /\ control' = [control EXCEPT !.at = "add"]
  /\ fb' = [fb EXCEPT !.locked = TRUE]
  /\ UNCHANGED <<rtc, pipe, arc, trans, client, users>>

(* pthread_mutex_lock, or the end of pthread_cond_wait once signalled: the *)
(* buffer is taken only while it is the turn of the control thread.        *)
Lock ==
  /\ control.at = "lock" /\ ~fb.locked
  /\ IF fb.integrate
     THEN /\ control' = [control EXCEPT !.at = "add"]
          /\ fb' = [fb EXCEPT !.locked = TRUE]
     ELSE /\ control' = [control EXCEPT !.at = "wait"]
          /\ fb' = fb
  /\ UNCHANGED <<rtc, pipe, arc, trans, client, users>>

(* The first frame is copied, which clears the buffer before it fills it.  *)
AddFirst ==
  /\ control.at = "add" /\ fb.count = 0
  /\ control' = [control EXCEPT !.at = "copy"]
  /\ fb' = [fb EXCEPT !.frame = Zeroed]
  /\ UNCHANGED <<rtc, pipe, arc, trans, client, users>>

(* The buffer now holds f: the integration is complete, or is left to be   *)
(* continued by the next frame.                                            *)
Added(f) ==
  LET full == fb.count + 1 >= fb.nframe \/ fb.newFrame
  IN /\ control' = [control EXCEPT !.at = IF full THEN "complete" ELSE "select"]
     /\ fb' = [fb EXCEPT !.frame = f, !.count = @ + 1, !.locked = full]
     /\ UNCHANGED <<rtc, pipe, arc, trans, client, users>>

CopyFirst == control.at = "copy" /\ Added(control.frame)

AddNext == /\ control.at = "add" /\ fb.count > 0
           /\ Added(Sum(fb.frame, control.frame))

HandOver ==
  /\ control.at = "complete"
  /\ control' = [control EXCEPT !.at = "send"]
  /\ fb' = [fb EXCEPT !.integrate = FALSE, !.newFrame = FALSE]
  /\ UNCHANGED <<rtc, pipe, arc, trans, client, users>>

(* Mutant: the frame is kept, to be added again, once it has been sent.     *)
SendFrame_KeepsFrame ==
  /\ control.at = "send"
  /\ Send("ARC_FRAME", 0)
  /\ control' = [control EXCEPT !.at = "lock"]
  /\ fb' = [fb EXCEPT !.locked = FALSE]
  /\ UNCHANGED <<rtc, arc, trans, client, users>>

(* The message is sent before the unlock. When it is lost the control      *)
(* thread drops the connection of the RTC, which connects again.           *)
SendFrame ==
  /\ control.at = "send"
  /\ Send("ARC_FRAME", 0)
  /\ control' = [control EXCEPT !.at = "select"]
  /\ fb' = [fb EXCEPT !.locked = FALSE]
  /\ UNCHANGED <<rtc, arc, trans, client, users>>

-----------------------------------------------------------------------------
(* The archiver thread: the next message of the pipe.                      *)

Take(type) ==
  /\ arc.at = "select"
  /\ pipe # << >>
  /\ Head(pipe).type = type
  /\ pipe' = Tail(pipe)
  /\ UNCHANGED <<rtc, control, trans, users>>

(* What the clients are to know; 0 and 1 stand for no and yes.             *)
Settings ==
  [s \in SettingNames |->
     CASE s = "filter"    -> IF arc.filter THEN 1 ELSE 0
       [] s = "file_size" -> arc.file_size
       [] s = "open"      -> IF arc.open THEN 1 ELSE 0
       [] s = "dir"       -> arc.dir
       [] s = "sampling"  -> fb.nframe]

(* A message of its own for each of the named settings. It is lost, and    *)
(* nobody told so, if it finds the reply pipe of the client full.          *)
Report(names, listed) ==
  \E lost \in SUBSET names :
    /\ lost # {} => "reply" \in Faults
    /\ client' = [listed |-> listed,
                  view   |-> [s \in SettingNames |-> IF s \in names \ lost THEN Settings'[s]
                                                     ELSE client.view[s]],
                  missed |-> (client.missed \ names) \cup lost]

Tell(names) == IF client.listed = 0 THEN client' = client
               ELSE Report(names, client.listed)

TakeFrame == /\ Take("ARC_FRAME")
             /\ arc' = [arc EXCEPT !.at = "save"]
             /\ UNCHANGED <<fb, client>>

(* The flag of the frame buffer is set without the mutex.                  *)
TakeNewFrame == /\ Take("ARC_NEW_FRAME")
                /\ fb' = [fb EXCEPT !.newFrame = TRUE]
                /\ arc' = [arc EXCEPT !.currFrameSeq = Head(pipe).arg, !.refused = FALSE]
                /\ UNCHANGED client

TakeSampling == /\ Take("ARC_SAMPLING")
                /\ arc' = [arc EXCEPT !.at = "sampling", !.arg = Head(pipe).arg]
                /\ UNCHANGED <<fb, client>>

(* Mutant: a request for no frames is taken as it is.                      *)
UpdateSampling_AsGiven ==
  /\ arc.at = "sampling" /\ ~fb.locked
  /\ fb' = [fb EXCEPT !.nframe = arc.arg]
  /\ arc' = [arc EXCEPT !.at = "select"]
  /\ Tell({"sampling"})
  /\ UNCHANGED <<rtc, control, pipe, trans, users>>

UpdateSampling ==
  /\ arc.at = "sampling" /\ ~fb.locked
  /\ fb' = [fb EXCEPT !.nframe = IF arc.arg > 0 THEN arc.arg ELSE 1]
  /\ arc' = [arc EXCEPT !.at = "select"]
  /\ Tell({"sampling"})
  /\ UNCHANGED <<rtc, control, pipe, trans, users>>

TakeFilter == /\ Take("ARC_FILTER")
              /\ arc' = [arc EXCEPT !.filter = Head(pipe).arg # 0]
              /\ UNCHANGED fb
              /\ Tell({"filter"})

TakeFileSize == /\ Take("ARC_FILE_SIZE")
                /\ arc' = [arc EXCEPT !.file_size = Head(pipe).arg]
                /\ UNCHANGED fb
                /\ Tell({"file_size"})

(* A slot that is listed already is listed once more.                      *)
TakeAddClient == /\ Take("ARC_ADD_CLIENT")
                 /\ UNCHANGED <<arc, fb>>
                 /\ Report(SettingNames, client.listed + 1)

TakeTvOffsetDone ==
  /\ Take("ARC_TV_OFFSET_DONE")
  /\ arc' = [arc EXCEPT !.tv_offset = [pending |-> TRUE, seq |-> Head(pipe).arg]]
  /\ UNCHANGED <<fb, client>>

-----------------------------------------------------------------------------
(* The archive file.                                                       *)

(* Mutant: the count of records is not reset.                              *)
Closed_KeepsCount(a) == [a EXCEPT !.open = FALSE, !.records = 0]

Closed(a) == [a EXCEPT !.open = FALSE, !.records = 0, !.nrecorded = 0]

Entered(a, dir) == IF dir = 0 THEN a ELSE [a EXCEPT !.dir = dir]

(* The directory is told of when it is named.                              *)
Named(dir) == IF dir = 0 THEN {} ELSE {"dir"}

(* The last file is closed once the new one is open. The new one is closed *)
(* again when its first records cannot be written. Of the messages that    *)
(* tell so only the last one matters.                                      *)
Opened(a) == {[Closed(a) EXCEPT !.open = TRUE]}
               \cup (IF "open" \in Faults THEN {Closed(a)} ELSE {})

(* Mutant: the directory is not told of when the file could not be opened. *)
Open_Silent(a, names) == \/ arc' \in Opened(a) /\ Tell(names \cup {"open"})
                         \/ "open" \in Faults /\ arc' = a /\ Tell({})

(* Open a file; the clients are told of the settings "names" besides.      *)
Open(a, names) == \/ arc' \in Opened(a) /\ Tell(names \cup {"open"})
                  \/ "open" \in Faults /\ arc' = a /\ Tell(names)

TakeChdir == /\ Take("ARC_CHDIR")
             /\ arc' = Entered(arc, Head(pipe).arg)
             /\ UNCHANGED fb
             /\ Tell(Named(Head(pipe).arg))

TakeOpen == /\ Take("ARC_OPEN")
            /\ UNCHANGED fb
            /\ Open(Entered(arc, Head(pipe).arg), Named(Head(pipe).arg))

TakeClose == /\ Take("ARC_CLOSE")
             /\ arc' = Closed(arc)
             /\ UNCHANGED fb
             /\ Tell({"open"})

TakeFlush == /\ Take("ARC_FLUSH")
             /\ UNCHANGED fb
             /\ \/ UNCHANGED <<arc, client>>
                \/ /\ arc.open /\ "write" \in Faults
                   /\ arc' = Closed(arc)
                   /\ Tell({"open"})

(* The archiver thread ends.                                               *)
TakeShutdown == /\ Take("ARC_SHUTDOWN")
                /\ arc' = [Closed(arc) EXCEPT !.at = "exited"]
                /\ UNCHANGED fb
                /\ Tell({"open"})

-----------------------------------------------------------------------------
(* arc_save_integration.                                                   *)

(* Mutant: the frame count of the next integration is not reset.           *)
Save_KeepsCount ==
  /\ arc.at = "save" /\ ~fb.locked
  /\ arc' = [arc EXCEPT !.net = fb.frame, !.at = "mark"]
  /\ fb' = [fb EXCEPT !.integrate = TRUE]
  /\ control' = [control EXCEPT !.at = IF @ = "wait" THEN "lock" ELSE @]
  /\ UNCHANGED <<rtc, pipe, trans, client, users>>

(* Mutant: the control thread is not signalled.                            *)
Save_NoSignal ==
  /\ arc.at = "save" /\ ~fb.locked
  /\ arc' = [arc EXCEPT !.net = fb.frame, !.at = "mark"]
  /\ fb' = [fb EXCEPT !.integrate = TRUE, !.count = 0]
  /\ UNCHANGED <<rtc, control, pipe, trans, client, users>>

(* Under the mutex: copy the integration to the network buffer, give the   *)
(* frame buffer back, and wake the control thread if it waits.             *)
Save ==
  /\ arc.at = "save" /\ ~fb.locked
  /\ arc' = [arc EXCEPT !.net = fb.frame, !.at = "mark"]
  /\ fb' = [fb EXCEPT !.integrate = TRUE, !.count = 0]
  /\ control' = [control EXCEPT !.at = IF @ = "wait" THEN "lock" ELSE @]
  /\ UNCHANGED <<rtc, pipe, trans, client, users>>

ArchiverOnly == UNCHANGED <<rtc, control, fb, pipe, users>>

Silently == ArchiverOnly /\ UNCHANGED client

(* Without it: *fb->markSeq is read three times, to test it, to send it    *)
(* and to remember it, from the buffer that has been given back.           *)
TestMark ==
  /\ arc.at = "mark"
  /\ arc' = [arc EXCEPT !.at = IF arc.lastSeq < fb.frame.markSeq
                               THEN "sendmark" ELSE "frame"]
  /\ Silently /\ UNCHANGED trans

(* A message that is refused leaves lastSeq as it is.                      *)
SendMark ==
  /\ arc.at = "sendmark"
  /\ \/ /\ trans' = [trans EXCEPT !.mark = Complete(@, fb.frame.markSeq)]
        /\ arc' = [arc EXCEPT !.at = "setmark"]
     \/ /\ "report" \in Faults
        /\ trans' = trans
        /\ arc' = [arc EXCEPT !.at = "frame"]
  /\ Silently

SetMark ==
  /\ arc.at = "setmark"
  /\ arc' = [arc EXCEPT !.lastSeq = fb.frame.markSeq, !.at = "frame"]
  /\ Silently /\ UNCHANGED trans

(* The last request for a new frame has not been reported yet.             *)
Due == arc.lastFrameSeq < arc.currFrameSeq

(* Mutant: a request counts as reported although its report was refused.   *)
ReportFrame_Once ==
  /\ arc.at = "frame"
  /\ \/ /\ Due
        /\ \/ trans' = [trans EXCEPT !.frame = Complete(@, arc.currFrameSeq)]
           \/ "report" \in Faults /\ trans' = trans
        /\ arc' = [arc EXCEPT !.at = "write", !.lastFrameSeq = arc.currFrameSeq]
     \/ ~Due /\ trans' = trans /\ arc' = [arc EXCEPT !.at = "write"]
  /\ Silently

(* A report that is refused is made again after the next integration.      *)
ReportFrame ==
  /\ arc.at = "frame"
  /\ \/ /\ Due
        /\ trans' = [trans EXCEPT !.frame = Complete(@, arc.currFrameSeq)]
        /\ arc' = [arc EXCEPT !.at = "write", !.lastFrameSeq = arc.currFrameSeq,
                              !.refused = FALSE]
     \/ /\ Due /\ "report" \in Faults
        /\ trans' = trans
        /\ arc' = [arc EXCEPT !.at = "write", !.refused = TRUE]
     \/ ~Due /\ trans' = trans /\ arc' = [arc EXCEPT !.at = "write"]
  /\ Silently

(* Whether the record is wanted: the features too are read from the buffer *)
(* that has been given back.                                               *)
Wanted == arc.open /\ (~arc.filter \/ fb.frame.features)

Counted(n) == IF n < MaxRecords THEN n + 1 ELSE n

Recorded(a) == [a EXCEPT !.records = Counted(@),
                         !.nrecorded = IF a.file_size > 0 THEN Counted(@) ELSE @]

Full(a) == a.file_size > 0 /\ a.nrecorded >= a.file_size

(* The record is written, or the file is closed. A file that has reached   *)
(* its size is replaced; if it has not, a tv_offset is reported done, again *)
(* with the next record if the report is refused.                          *)
Write ==
  /\ arc.at = "write"
  /\ ArchiverOnly
  /\ LET a == [arc EXCEPT !.at = "select"]
         b == Recorded(a)
         reported == [b EXCEPT !.tv_offset.pending = FALSE]
     IN \/ ~Wanted /\ arc' = a /\ UNCHANGED <<trans, client>>
        \/ /\ Wanted /\ "write" \in Faults
           /\ arc' = Closed(a) /\ trans' = trans /\ Tell({"open"})
        \/ Wanted /\ Full(b) /\ trans' = trans /\ Open(b, {})
        \/ /\ Wanted /\ ~Full(b) /\ client' = client
           /\ \/ /\ ~arc.tv_offset.pending \/ "report" \in Faults
                 /\ arc' = b /\ trans' = trans
              \/ /\ arc.tv_offset.pending
                 /\ arc' = reported
                 /\ trans' = [trans EXCEPT !.tv = Complete(@, arc.tv_offset.seq)]

-----------------------------------------------------------------------------
User == \/ NewFrame \/ Configure \/ TvOffset
        \/ \E mode \in {"add", "remove", "one"} : Mark(mode)

Control == Lock \/ AddFirst \/ CopyFirst \/ AddNext \/ HandOver \/ SendFrame

(* What the control thread does for its other connections.                 *)
Serve == Connect \/ TvOffsetDone

Archive == \/ TakeFrame \/ TakeNewFrame \/ TakeSampling \/ TakeFilter \/ TakeFileSize
           \/ TakeAddClient \/ TakeTvOffsetDone \/ TakeChdir \/ TakeOpen \/ TakeClose
           \/ TakeFlush \/ TakeShutdown
           \/ UpdateSampling \/ Save \/ TestMark \/ SendMark \/ SetMark
           \/ ReportFrame \/ Write

Next == User \/ Serve \/ Shutdown \/ Receive \/ Control \/ Archive

Spec == Init /\ [][Next]_vars

(* The two threads run, and the RTC sends a frame every second. The loop   *)
(* of the control thread serves its connections in turn.                   *)
(* The scheduler reads its pipe, so not every report to it is refused.      *)
FrameReported == ReportFrame /\ arc'.lastFrameSeq # arc.lastFrameSeq

FairSpec == /\ Spec /\ WF_vars(Receive) /\ WF_vars(Control) /\ WF_vars(Archive)
            /\ SF_vars(TvOffsetDone) /\ SF_vars(FrameReported)

-----------------------------------------------------------------------------
(* Type correctness.                                                       *)
RtcState == [next : FrameNumber, markSeq : 0 .. MaxMarks,
             transient : BOOLEAN, persistent : BOOLEAN, tv : Nat]

ControlState ==
  [at : {"select", "lock", "wait", "add", "copy", "complete", "send", "ended"},
   frame : Frame]

BufferState == [locked : BOOLEAN, integrate : BOOLEAN, nframe : Nat \ {0},
                count : Nat, newFrame : BOOLEAN, frame : Frame]

TvOffsetState == [pending : BOOLEAN, seq : Nat]

ArchiverState ==
  [at : {"select", "sampling", "save", "mark", "sendmark", "setmark", "frame", "write",
         "exited"},
   arg : Nat, net : Frame, lastSeq : 0 .. MaxMarks, currFrameSeq : Nat,
   lastFrameSeq : Nat, refused : BOOLEAN, open : BOOLEAN, records : 0 .. MaxRecords,
   nrecorded : 0 .. MaxRecords, filter : BOOLEAN, file_size : Nat, dir : Nat,
   tv_offset : TvOffsetState]

Transactions == [mark : Transaction, frame : Transaction,
                 pmac : Transaction, tv : Transaction]

ClientState == [listed : Nat, view : [SettingNames -> Nat], missed : SUBSET SettingNames]

TypeOK == /\ rtc \in RtcState
          /\ control \in ControlState
          /\ fb \in BufferState
          /\ pipe \in Seq(Message)
          /\ arc \in ArchiverState
          /\ trans \in Transactions
          /\ client \in ClientState
          /\ users \in 0 .. MaxCommands

(* The turns of the frame buffer: a complete integration has at most one   *)
(* ARC_FRAME on its way until the archiver has copied it, and one that is  *)
(* not complete has none, so the archiver never copies an integration      *)
(* twice or unfinished, whatever messages are lost.                        *)
FramesIn(q) == {i \in DOMAIN q : q[i].type = "ARC_FRAME"}

OneHandOver ==
  /\ FramesIn(pipe) # {} \/ arc.at = "save" \/ control.at = "send" => ~fb.integrate
  /\ FramesIn(pipe) # {} => arc.at # "save" /\ control.at # "send"
  /\ arc.at = "save" => control.at # "send"
  /\ \A i, j \in FramesIn(pipe) : i = j

(* The control thread never waits for a signal that has been given: while  *)
(* it waits, the buffer is still to be copied.                             *)
NoLostWakeup == control.at = "wait" => ~fb.integrate

(* A request for a new frame is not lost, although its flag is set without *)
(* the mutex that the control thread clears it under: until its completion *)
(* is reported the flag is up, or the frame it asked for is complete and   *)
(* its report still to be made, for the first time or once more.           *)
NewFrameKept ==
  Due => \/ fb.newFrame \/ ~fb.integrate \/ control.at = "complete"
         \/ arc.at \in {"mark", "sendmark", "setmark", "frame"}
         \/ arc.refused

(* The count that decides when a file is full is of the records in it.     *)
CountIsOfFile == arc.nrecorded <= arc.records

(* A listed client knows each setting whose last report it did not miss:  *)
(* whatever changes one, the failures that close the file and the          *)
(* replacement of a full file included, a message says so in the same step *)
(* of the archiver. A client that is not announced hears only of changes.  *)
ClientKnows ==
  client.listed > 0 =>
    \A s \in SettingNames \ client.missed : client.view[s] = Settings[s]

(* The records follow each other: every frame that the RTC has sent is in  *)
(* exactly one of the integrations that the archiver copies.               *)
RecordsFollow ==
  [][arc'.net # arc.net => arc'.net.first = Following(arc.net.last)]_vars

(* While no message is lost a frame that has been received gets into the   *)
(* buffer, so the control thread returns to its other connections.         *)
FrameIsIntegrated == control.at # "select" ~> control.at = "select"

(* A newFrame transaction is reported done, however often the scheduler    *)
(* refuses the report before it accepts one.                               *)
FrameIsDone == trans.frame.seq > 0 /\ ~trans.frame.done ~> trans.frame.done

-----------------------------------------------------------------------------
(* What the comments promise, and the accesses without the mutex break.    *)

(* "If the effects of a new mark command are being saved" the scheduler is *)
(* told so: a mark that is done is in a record.                            *)
MarkDoneIsSaved == trans.mark.done => trans.mark.seq <= arc.net.markSeq

(* ... and it is told so: each mark transaction is reported done.          *)
MarkIsDone == trans.mark.seq > 0 /\ ~trans.mark.done ~> trans.mark.done

(* "When the effects of this command have been seen by the archiver and    *)
(* recorded in the archive, the archiver tells the scheduler that the      *)
(* transaction has been completed": so is each tv_offset, while a file is  *)
(* open and records are not filtered.                                      *)
TvIsDone == arc.open /\ trans.pmac.seq > 0 /\ ~trans.tv.done ~> trans.tv.done

(* "If true only record frames that contain feature markers."              *)
FilteredIsMarked ==
  [][arc.filter /\ arc'.records > arc.records => arc.net.features]_vars

(* The list of "control-clients" that are told is of those connected: it   *)
(* has no slot twice.                                                      *)
ListedOnce == client.listed <= 1
=============================================================================
