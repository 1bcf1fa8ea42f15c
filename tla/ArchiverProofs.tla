--------------------------- MODULE ArchiverProofs ---------------------------
(***************************************************************************)
(* Theorems about Archiver, for every number of marks and commands, every  *)
(* size of the pipe and of the integrations: the turns of the frame buffer *)
(* are kept, no request for a new frame is lost, and every frame gets into *)
(* one record. Then two about the archive file: the count of its records   *)
(* and what the clients are told of it.                                    *)
(***************************************************************************)
EXTENDS Archiver, SequenceTheorems, TLAPS

-----------------------------------------------------------------------------
(* Type correctness.                                                       *)

LEMMA SendType ==
  ASSUME NEW type \in CommandTypes \cup {"ARC_FRAME"}, NEW arg \in Nat,
         pipe \in Seq(Message), Send(type, arg)
  PROVE  pipe' \in Seq(Message)
<1>1. [type |-> type, arg |-> arg] \in Message
  BY DEF Message
<1> QED
  BY <1>1, AppendProperties DEF Send

LEMMA TakeType ==
  ASSUME NEW type, pipe \in Seq(Message), Take(type)
  PROVE  pipe' \in Seq(Message) /\ Head(pipe) \in Message
  BY HeadTailProperties DEF Take

LEMMA NumberType ==
  /\ 0 \in FrameNumber /\ Wrap - 1 \in FrameNumber
  /\ \A n \in FrameNumber : Following(n) \in FrameNumber
  BY SizeAssumption, Z3 DEF FrameNumber, Following

LEMMA FrameType ==
  /\ Zeroed \in Frame
  /\ \A f, g \in Frame : Sum(f, g) \in Frame
<1>1. Zeroed \in Frame
  BY SizeAssumption, NumberType DEF Zeroed, Frame
<1>2. ASSUME NEW f \in Frame, NEW g \in Frame
      PROVE  Sum(f, g) \in Frame
  <2> DEFINE b == f.features \/ g.features
  <2>1. b \in BOOLEAN
    OBVIOUS
  <2>2. Sum(f, g) = [f EXCEPT !.last = g.last, !.markSeq = g.markSeq, !.features = b]
    BY DEF Sum
  <2> HIDE DEF b
  <2> QED
    BY <2>1, <2>2 DEF Frame
<1> QED
  BY <1>1, <1>2

LEMMA TransType ==
  ASSUME NEW t \in Transaction, NEW seq \in Nat
  PROVE  /\ NextSeq(t) \in Transaction /\ NextSeq(t).seq = t.seq + 1
         /\ Complete(t, seq) \in Transaction /\ Complete(t, seq).seq = t.seq
<1>1. FALSE \in BOOLEAN /\ TRUE \in BOOLEAN
  OBVIOUS
<1>2. NextSeq(t) \in Transaction /\ NextSeq(t).seq = t.seq + 1
  BY <1>1 DEF Transaction, NextSeq
<1>3. [t EXCEPT !.done = TRUE] \in Transaction /\ [t EXCEPT !.done = TRUE].seq = t.seq
  BY <1>1 DEF Transaction
<1>4. Complete(t, seq) \in {t, [t EXCEPT !.done = TRUE]}
  BY DEF Complete
<1> QED
  BY <1>2, <1>3, <1>4

(* The RTC and the scheduler agree on the number of the last mark: without *)
(* this the bound of the marks of a frame is not inductive.                *)
Typed == TypeOK /\ rtc.markSeq = trans.mark.seq

LEMMA InitType == Init => Typed
<1> SUFFICES ASSUME Init PROVE Typed
  OBVIOUS
<1>1. [Zeroed EXCEPT !.last = Wrap - 1] \in Frame
  BY FrameType, NumberType DEF Frame
<1> QED
  BY <1>1, SizeAssumption, NumberType, FrameType, EmptySeq
     DEF Init, Typed, TypeOK, Transaction, RtcState, ControlState, BufferState, ArchiverState, TvOffsetState, Transactions, ClientState

-----------------------------------------------------------------------------
(* The steps of the users.                                                 *)

LEMMA CommandType ==
  ASSUME TypeOK, NEW type \in CommandTypes, NEW arg \in Nat, Command(type, arg)
  PROVE  /\ pipe' \in Seq(Message) /\ users' \in 0 .. MaxCommands
         /\ UNCHANGED <<rtc, control, fb, arc, client>>
<1>1. pipe' \in Seq(Message)
  BY SendType DEF Command, TypeOK
<1> QED
  BY <1>1, SizeAssumption DEF Command, UserSends, TypeOK

LEMMA ConfigureCommand ==
  ASSUME Configure
  PROVE  \E type \in CommandTypes, arg \in Nat : Command(type, arg)
BY CommandAssumption, SizeAssumption DEF Configure, CommandTypes

LEMMA UserType == Typed /\ User => Typed'
<1> SUFFICES ASSUME Typed, User PROVE Typed'
  OBVIOUS
<1> USE DEF Typed
<1>1. CASE NewFrame
  <2>1. NextSeq(trans.frame) \in Transaction
    BY TransType DEF TypeOK, Transaction, Transactions
  <2>2. /\ trans' \in Transactions
        /\ trans'.mark = trans.mark
    BY <1>1, <2>1 DEF NewFrame, TypeOK, Transactions
  <2>3. trans'.frame.seq \in Nat /\ "ARC_NEW_FRAME" \in CommandTypes
    BY <2>2 DEF Transactions, Transaction, CommandTypes
  <2>4. Command("ARC_NEW_FRAME", trans'.frame.seq)
    BY <1>1 DEF NewFrame
  <2> QED
    BY <2>2, <2>3, <2>4, CommandType DEF TypeOK
<1>2. CASE Configure
  <2>1. PICK type \in CommandTypes, arg \in Nat : Command(type, arg)
    BY <1>2, ConfigureCommand
  <2>2. trans' = trans
    BY <1>2 DEF Configure
  <2> QED
    BY <2>1, <2>2, CommandType DEF TypeOK
<1>3. ASSUME NEW mode \in {"add", "remove", "one"}, Mark(mode)
      PROVE  Typed'
  <2> DEFINE persistent == (rtc.persistent \/ mode = "add") /\ mode # "remove"
             transient  == rtc.transient \/ mode \in {"add", "one"}
  <2>1. persistent \in BOOLEAN /\ transient \in BOOLEAN
    OBVIOUS
  <2>2. /\ NextSeq(trans.mark) \in Transaction
        /\ NextSeq(trans.mark).seq = trans.mark.seq + 1
    BY TransType DEF TypeOK, Transactions
  <2>3. /\ trans' \in Transactions
        /\ trans'.mark.seq = trans.mark.seq + 1
    BY <1>3, <2>2 DEF Mark, TypeOK, Transactions
  <2>4. trans'.mark.seq \in 0 .. MaxMarks
    <3>1. rtc.markSeq \in 0 .. MaxMarks /\ rtc.markSeq < MaxMarks
      BY <1>3 DEF Mark, TypeOK, RtcState
    <3> QED
      BY <3>1, <2>3, SizeAssumption
  <2>5. rtc' = [rtc EXCEPT !.markSeq = trans'.mark.seq, !.persistent = persistent,
                           !.transient = transient]
    BY <1>3 DEF Mark
  <2> HIDE DEF persistent, transient
  <2>6. /\ rtc' \in RtcState
        /\ rtc'.markSeq = trans'.mark.seq
    BY <2>1, <2>4, <2>5 DEF TypeOK, RtcState
  <2> QED
    BY <1>3, <2>3, <2>6 DEF Mark, TypeOK
<1>4. CASE TvOffset
  <2>1. NextSeq(trans.pmac) \in Transaction
    BY TransType DEF TypeOK, Transactions
  <2>2. /\ trans' \in Transactions
        /\ trans'.mark = trans.mark
    BY <1>4, <2>1 DEF TvOffset, TypeOK, Transactions
  <2>3. users' \in 0 .. MaxCommands
    BY <1>4, SizeAssumption DEF TvOffset, UserSends, TypeOK
  <2> QED
    BY <1>4, <2>2, <2>3 DEF TvOffset, TypeOK
<1> QED
  BY <1>1, <1>2, <1>3, <1>4 DEF User

-----------------------------------------------------------------------------
(* The steps of the control thread.                                        *)

LEMMA TurnSteps ==
  ASSUME Typed, control' \in ControlState, fb' \in BufferState,
         UNCHANGED <<rtc, pipe, arc, trans, client, users>>
  PROVE  Typed'
BY DEF Typed, TypeOK

LEMMA ReceiveType == Typed /\ Receive => Typed'
<1> SUFFICES ASSUME Typed, Receive PROVE Typed'
  OBVIOUS
<1> DEFINE features == rtc.transient \/ rtc.persistent
<1>1. features \in BOOLEAN
  OBVIOUS
<1>2. control' = [at |-> "lock",
                  frame |-> [first |-> rtc.next, last |-> rtc.next,
                             markSeq |-> rtc.markSeq, features |-> features]]
  BY DEF Receive
<1> HIDE DEF features
<1>3. control'.frame \in Frame
  BY <1>1, <1>2 DEF Typed, TypeOK, Frame, RtcState
<1>4. control' \in ControlState
  BY <1>2, <1>3 DEF ControlState
<1>5. rtc' = [rtc EXCEPT !.next = Following(@), !.transient = FALSE]
  BY DEF Receive
<1>6. /\ rtc' \in RtcState
      /\ rtc'.markSeq = rtc.markSeq
  BY <1>5, NumberType DEF Typed, TypeOK, RtcState
<1> QED
  BY <1>4, <1>6 DEF Receive, Typed, TypeOK

LEMMA AddedType ==
  ASSUME Typed, NEW f \in Frame, Added(f)
  PROVE  Typed'
<1> DEFINE full == fb.count + 1 >= fb.nframe \/ fb.newFrame
<1>1. full \in BOOLEAN
  OBVIOUS
<1>2. /\ control' = [control EXCEPT !.at = IF full THEN "complete" ELSE "select"]
      /\ fb' = [fb EXCEPT !.frame = f, !.count = @ + 1, !.locked = full]
      /\ UNCHANGED <<rtc, pipe, arc, trans, client, users>>
  BY DEF Added
<1> HIDE DEF full
<1>3. control' \in ControlState
  <2>1. control'.at \in {"complete", "select"} /\ control' = [control EXCEPT !.at = control'.at]
    BY <1>2 DEF Typed, TypeOK, ControlState
  <2> QED
    BY <2>1 DEF Typed, TypeOK, ControlState
<1>4. fb.count + 1 \in Nat
  BY DEF Typed, TypeOK, BufferState
<1>5. fb' \in BufferState
  BY <1>1, <1>2, <1>4 DEF Typed, TypeOK, BufferState
<1> QED
  BY <1>2, <1>3, <1>5, TurnSteps

LEMMA ControlType == Typed /\ Control => Typed'
<1> SUFFICES ASSUME Typed, Control PROVE Typed'
  OBVIOUS
<1>1. CASE Lock
  <2>1. fb' \in {fb, [fb EXCEPT !.locked = TRUE]}
    BY <1>1 DEF Lock
  <2>2. control' \in {[control EXCEPT !.at = "add"], [control EXCEPT !.at = "wait"]}
    BY <1>1 DEF Lock
  <2>3. fb' \in BufferState
    BY <2>1 DEF BufferState, Typed, TypeOK
  <2>4. control' \in ControlState
    BY <2>2 DEF ControlState, Typed, TypeOK
  <2> QED
    BY <1>1, <2>3, <2>4, TurnSteps DEF Lock
<1>2. CASE AddFirst
  BY <1>2, FrameType DEF AddFirst, Typed, TypeOK, ControlState, BufferState
<1>3. CASE CopyFirst
  BY <1>3, AddedType DEF CopyFirst, Typed, TypeOK, ControlState
<1>4. CASE AddNext
  BY <1>4, AddedType, FrameType DEF AddNext, Typed, TypeOK, ControlState, BufferState
<1>5. CASE HandOver
  BY <1>5 DEF HandOver, Typed, TypeOK, ControlState, BufferState
<1>6. CASE SendFrame
  BY <1>6, SendType DEF SendFrame, Typed, TypeOK, ControlState, BufferState
<1> QED
  BY <1>1, <1>2, <1>3, <1>4, <1>5, <1>6 DEF Control

LEMMA ServeType == Typed /\ (Serve \/ Shutdown) => Typed'
<1> SUFFICES ASSUME Typed, Serve \/ Shutdown PROVE Typed'
  OBVIOUS
<1>0. 0 \in Nat /\ {"ARC_ADD_CLIENT", "ARC_TV_OFFSET_DONE", "ARC_SHUTDOWN"} \subseteq CommandTypes
  BY DEF CommandTypes
<1>1. CASE Connect
  <2>1. pipe' \in Seq(Message)
    BY <1>0, <1>1, SendType DEF Connect, Typed, TypeOK
  <2>2. client' \in ClientState
    BY <1>1 DEF Connect, Typed, TypeOK, ClientState
  <2>3. users' \in 0 .. MaxCommands
    BY <1>1, SizeAssumption DEF Connect, UserSends, Typed, TypeOK
  <2> QED
    BY <1>1, <2>1, <2>2, <2>3 DEF Connect, Typed, TypeOK
<1>2. CASE TvOffsetDone
  <2>1. rtc.tv + 1 \in Nat
    BY DEF Typed, TypeOK, RtcState
  <2>2. pipe' \in Seq(Message)
    BY <1>0, <1>2, <2>1, SendType DEF TvOffsetDone, Typed, TypeOK
  <2> QED
    BY <1>2, <2>1, <2>2 DEF TvOffsetDone, Typed, TypeOK, RtcState
<1>3. CASE Shutdown
  <2>1. pipe' \in Seq(Message)
    BY <1>0, <1>3, SendType DEF Shutdown, Typed, TypeOK
  <2> QED
    BY <1>3, <2>1 DEF Shutdown, Typed, TypeOK, ControlState
<1> QED
  BY <1>1, <1>2, <1>3 DEF Serve

-----------------------------------------------------------------------------
(* The steps of the archiver thread.                                       *)

LEMMA SettingsType ==
  ASSUME arc' \in ArchiverState, fb' \in BufferState
  PROVE  \A s \in SettingNames : Settings'[s] \in Nat
<1> USE DEF Settings, SettingNames
<1>1. Settings'["filter"] \in Nat /\ Settings'["open"] \in Nat
  OBVIOUS
<1>2. Settings'["file_size"] \in Nat /\ Settings'["dir"] \in Nat
  BY DEF ArchiverState
<1>3. Settings'["sampling"] \in Nat
  BY DEF BufferState
<1> QED
  BY <1>1, <1>2, <1>3

LEMMA ReportType ==
  ASSUME Typed, arc' \in ArchiverState, fb' \in BufferState,
         NEW names \in SUBSET SettingNames, NEW listed \in Nat, Report(names, listed)
  PROVE  client' \in ClientState
<1>1. PICK lost \in SUBSET names :
        client' = [listed |-> listed,
                   view   |-> [s \in SettingNames |-> IF s \in names \ lost THEN Settings'[s]
                                                      ELSE client.view[s]],
                   missed |-> (client.missed \ names) \cup lost]
  BY DEF Report
<1>2. client.view \in [SettingNames -> Nat] /\ client.missed \in SUBSET SettingNames
  BY DEF Typed, TypeOK, ClientState
<1>3. [s \in SettingNames |-> IF s \in names \ lost THEN Settings'[s]
                              ELSE client.view[s]] \in [SettingNames -> Nat]
  BY <1>2, SettingsType
<1>4. (client.missed \ names) \cup lost \in SUBSET SettingNames
  BY <1>2
<1> QED
  BY <1>1, <1>3, <1>4 DEF ClientState

LEMMA TellType ==
  ASSUME Typed, arc' \in ArchiverState, fb' \in BufferState,
         NEW names \in SUBSET SettingNames, Tell(names)
  PROVE  client' \in ClientState
<1>1. client \in ClientState /\ client.listed \in Nat
  BY DEF Typed, TypeOK, ClientState
<1> QED
  BY <1>1, ReportType DEF Tell

LEMMA OpenType ==
  ASSUME Typed, arc' \in ArchiverState, fb' \in BufferState,
         NEW a, NEW names \in SUBSET SettingNames, Open(a, names)
  PROVE  client' \in ClientState
<1>1. names \cup {"open"} \in SUBSET SettingNames
  BY DEF SettingNames
<1> QED
  BY <1>1, TellType DEF Open

LEMMA FileType ==
  ASSUME NEW a \in ArchiverState
  PROVE  /\ Closed(a) \in ArchiverState
         /\ Opened(a) \subseteq ArchiverState
         /\ Recorded(a) \in ArchiverState
         /\ \A d \in Nat : Entered(a, d) \in ArchiverState
         /\ \A names : Open(a, names) => arc' \in Opened(a) \cup {a}
<1>1. 0 \in 0 .. MaxRecords /\ TRUE \in BOOLEAN /\ FALSE \in BOOLEAN
  BY SizeAssumption
<1>2. Closed(a) \in ArchiverState
  BY <1>1 DEF Closed, ArchiverState
<1>3. [Closed(a) EXCEPT !.open = TRUE] \in ArchiverState
  BY <1>1, <1>2 DEF ArchiverState
<1>4. Opened(a) \subseteq {[Closed(a) EXCEPT !.open = TRUE], Closed(a)}
  BY DEF Opened
<1>5. \A n \in 0 .. MaxRecords : Counted(n) \in 0 .. MaxRecords
  BY SizeAssumption DEF Counted
<1> DEFINE n == IF a.file_size > 0 THEN Counted(a.nrecorded) ELSE a.nrecorded
<1>6. n \in 0 .. MaxRecords /\ Counted(a.records) \in 0 .. MaxRecords
  BY <1>5 DEF ArchiverState
<1>7. Recorded(a) = [a EXCEPT !.records = Counted(a.records), !.nrecorded = n]
  BY DEF Recorded
<1>8. Recorded(a) \in ArchiverState
  <2> HIDE DEF n
  <2> QED
    BY <1>6, <1>7 DEF ArchiverState
<1>9. \A d \in Nat : Entered(a, d) \in ArchiverState
  BY DEF Entered, ArchiverState
<1>10. \A names : Open(a, names) => arc' \in Opened(a) \cup {a}
  BY DEF Open
<1> QED
  BY <1>2, <1>3, <1>4, <1>8, <1>9, <1>10

LEMMA TakeSteps ==
  ASSUME Typed, NEW type, Take(type), arc' \in ArchiverState, client' \in ClientState,
         fb' = fb \/ fb' = [fb EXCEPT !.newFrame = TRUE]
  PROVE  Typed'
<1>1. pipe' \in Seq(Message)
  BY TakeType DEF Typed, TypeOK
<1> QED
  BY <1>1 DEF Take, Typed, TypeOK, BufferState

(* The messages of the pipe.                                               *)
LEMMA TakesType ==
  ASSUME Typed,
         \/ TakeFrame \/ TakeNewFrame \/ TakeSampling \/ TakeFilter \/ TakeFileSize
         \/ TakeAddClient \/ TakeTvOffsetDone \/ TakeChdir \/ TakeOpen \/ TakeClose
         \/ TakeFlush \/ TakeShutdown
  PROVE  Typed'
<1>0. arc \in ArchiverState /\ pipe \in Seq(Message) /\ client \in ClientState
  BY DEF Typed, TypeOK
<1> DEFINE arg == Head(pipe).arg
<1>a. ASSUME NEW type, Take(type) PROVE arg \in Nat
  BY <1>0, <1>a, TakeType DEF Message
<1> HIDE DEF arg
<1>b. ASSUME NEW names \in SUBSET SettingNames, Tell(names),
             arc' \in ArchiverState, fb' = fb
      PROVE  client' \in ClientState
  BY <1>b, TellType DEF Typed, TypeOK
<1>c. {"filter"} \in SUBSET SettingNames /\ {"file_size"} \in SUBSET SettingNames
      /\ {"open"} \in SUBSET SettingNames /\ \A d : Named(d) \in SUBSET SettingNames
  BY DEF SettingNames, Named
<1>1. CASE TakeFrame
  <2>1. arc' \in ArchiverState /\ client' \in ClientState
    BY <1>0, <1>1 DEF TakeFrame, ArchiverState
  <2> QED
    BY <1>1, <2>1, TakeSteps DEF TakeFrame
<1>2. CASE TakeNewFrame
  <2>1. arc' \in ArchiverState /\ client' \in ClientState
    BY <1>0, <1>2, <1>a DEF TakeNewFrame, ArchiverState, arg
  <2> QED
    BY <1>2, <2>1, TakeSteps DEF TakeNewFrame
<1>3. CASE TakeSampling
  <2>1. arc' \in ArchiverState /\ client' \in ClientState
    BY <1>0, <1>3, <1>a DEF TakeSampling, ArchiverState, arg
  <2> QED
    BY <1>3, <2>1, TakeSteps DEF TakeSampling
<1>4. CASE TakeFilter
  <2> DEFINE filter == Head(pipe).arg # 0
  <2>1. filter \in BOOLEAN
    OBVIOUS
  <2>2. arc' = [arc EXCEPT !.filter = filter]
    BY <1>4 DEF TakeFilter
  <2> HIDE DEF filter
  <2>3. arc' \in ArchiverState
    BY <1>0, <2>1, <2>2 DEF ArchiverState
  <2>4. client' \in ClientState
    BY <1>4, <1>b, <1>c, <2>3 DEF TakeFilter
  <2> QED
    BY <1>4, <2>3, <2>4, TakeSteps DEF TakeFilter
<1>5. CASE TakeFileSize
  <2>1. arc' \in ArchiverState
    BY <1>0, <1>5, <1>a DEF TakeFileSize, ArchiverState, arg
  <2>2. client' \in ClientState
    BY <1>5, <1>b, <1>c, <2>1 DEF TakeFileSize
  <2> QED
    BY <1>5, <2>1, <2>2, TakeSteps DEF TakeFileSize
<1>6. CASE TakeAddClient
  <2>1. /\ client.listed + 1 \in Nat /\ arc' \in ArchiverState /\ fb' \in BufferState
        /\ SettingNames \in SUBSET SettingNames
    BY <1>0, <1>6 DEF TakeAddClient, ClientState, Typed, TypeOK
  <2>2. client' \in ClientState
    BY <1>6, <2>1, ReportType DEF TakeAddClient
  <2> QED
    BY <1>0, <1>6, <2>2, TakeSteps DEF TakeAddClient
<1>7. CASE TakeTvOffsetDone
  <2>1. arc' = [arc EXCEPT !.tv_offset = [pending |-> TRUE, seq |-> arg]]
    BY <1>7 DEF TakeTvOffsetDone, arg
  <2>2. [pending |-> TRUE, seq |-> arg] \in TvOffsetState
    BY <1>7, <1>a DEF TakeTvOffsetDone, TvOffsetState
  <2>3. arc' \in ArchiverState /\ client' \in ClientState
    BY <1>0, <1>7, <2>1, <2>2 DEF TakeTvOffsetDone, ArchiverState
  <2> QED
    BY <1>7, <2>3, TakeSteps DEF TakeTvOffsetDone
<1>8. CASE TakeChdir
  <2>1. arc' \in ArchiverState
    BY <1>0, <1>8, <1>a, FileType DEF TakeChdir, arg
  <2>2. client' \in ClientState
    BY <1>8, <1>b, <1>c, <2>1 DEF TakeChdir
  <2> QED
    BY <1>8, <2>1, <2>2, TakeSteps DEF TakeChdir
<1>9. CASE TakeOpen
  <2>0. Entered(arc, arg) \in ArchiverState
    BY <1>0, <1>9, <1>a, FileType DEF TakeOpen
  <2>1. arc' \in ArchiverState
    BY <1>9, <2>0, FileType DEF TakeOpen, arg
  <2>2. client' \in ClientState
    BY <1>0, <1>9, <1>c, <2>1, OpenType DEF TakeOpen, Typed, TypeOK
  <2> QED
    BY <1>9, <2>1, <2>2, TakeSteps DEF TakeOpen
<1>10. CASE TakeClose
  <2>1. arc' \in ArchiverState
    BY <1>0, <1>10, FileType DEF TakeClose
  <2>2. client' \in ClientState
    BY <1>10, <1>b, <1>c, <2>1 DEF TakeClose
  <2> QED
    BY <1>10, <2>1, <2>2, TakeSteps DEF TakeClose
<1>11. CASE TakeFlush
  <2>1. arc' \in ArchiverState
    BY <1>0, <1>11, FileType DEF TakeFlush
  <2>2. client' \in ClientState
    BY <1>0, <1>11, <1>b, <1>c, <2>1 DEF TakeFlush
  <2> QED
    BY <1>11, <2>1, <2>2, TakeSteps DEF TakeFlush
<1>12. CASE TakeShutdown
  <2>1. Closed(arc) \in ArchiverState
    BY <1>0, FileType
  <2>2. arc' \in ArchiverState
    BY <1>12, <2>1 DEF TakeShutdown, ArchiverState
  <2>3. client' \in ClientState
    BY <1>12, <1>b, <1>c, <2>2 DEF TakeShutdown
  <2> QED
    BY <1>12, <2>2, <2>3, TakeSteps DEF TakeShutdown
<1> QED
  BY <1>1, <1>2, <1>3, <1>4, <1>5, <1>6, <1>7, <1>8, <1>9, <1>10, <1>11, <1>12

(* What is written, of the file and of the transactions.                   *)
LEMMA WriteType ==
  ASSUME Typed, Write
  PROVE  /\ arc' \in ArchiverState
         /\ trans' \in Transactions
         /\ trans'.mark = trans.mark
<1>0. arc \in ArchiverState
  BY DEF Typed, TypeOK
<1> DEFINE a == [arc EXCEPT !.at = "select"]
           b == Recorded(a)
           d == [b EXCEPT !.tv_offset.pending = FALSE]
<1>1. a \in ArchiverState
  BY <1>0 DEF ArchiverState
<1>2. b \in ArchiverState
  <2> HIDE DEF a
  <2> QED
    BY <1>1, FileType
<1>3. Closed(a) \in ArchiverState /\ Opened(b) \subseteq ArchiverState
  <2> HIDE DEF a, b
  <2> QED
    BY <1>1, <1>2, FileType
<1>4. d \in ArchiverState
  <2> HIDE DEF b
  <2>1. [b.tv_offset EXCEPT !.pending = FALSE] \in TvOffsetState
    BY <1>2 DEF ArchiverState, TvOffsetState
  <2>2. d = [b EXCEPT !.tv_offset = [b.tv_offset EXCEPT !.pending = FALSE]]
    OBVIOUS
  <2> HIDE DEF d
  <2> QED
    BY <1>2, <2>1, <2>2 DEF ArchiverState
<1>5. arc' \in {a, Closed(a), b, d} \cup Opened(b)
  BY DEF Write, Open
<1>6. arc' \in ArchiverState
  <2> HIDE DEF a, b, d
  <2> QED
    BY <1>1, <1>2, <1>3, <1>4, <1>5
<1>7. Complete(trans.tv, arc.tv_offset.seq) \in Transaction
  BY <1>0, TransType DEF Typed, TypeOK, ArchiverState, Transactions, TvOffsetState
<1>8. trans' \in {trans, [trans EXCEPT !.tv = Complete(@, arc.tv_offset.seq)]}
  BY DEF Write, Open
<1>9. /\ trans' \in Transactions
      /\ trans'.mark = trans.mark
  BY <1>7, <1>8 DEF Typed, TypeOK, Transactions
<1> QED
  BY <1>6, <1>9

LEMMA ArchiveType == Typed /\ Archive => Typed'
<1> SUFFICES ASSUME Typed, Archive PROVE Typed'
  OBVIOUS
<1>0. arc \in ArchiverState /\ client \in ClientState
  BY DEF Typed, TypeOK
<1>8. CASE UpdateSampling
  <2> DEFINE n == IF arc.arg > 0 THEN arc.arg ELSE 1
  <2>1. n \in Nat \ {0}
    BY <1>0 DEF ArchiverState
  <2>2. fb' = [fb EXCEPT !.nframe = n]
    BY <1>8 DEF UpdateSampling
  <2> HIDE DEF n
  <2>3. fb' \in BufferState /\ fb'.nframe \in Nat
    BY <2>1, <2>2 DEF Typed, TypeOK, BufferState
  <2>4. arc' \in ArchiverState
    BY <1>0, <1>8 DEF UpdateSampling, ArchiverState
  <2>5. {"sampling"} \in SUBSET SettingNames
    BY DEF SettingNames
  <2>6. client' \in ClientState
    BY <1>8, <2>3, <2>4, <2>5, TellType DEF UpdateSampling
  <2> QED
    BY <1>8, <2>3, <2>4, <2>6
       DEF UpdateSampling, Typed, TypeOK
<1>9. CASE Save
  BY <1>9 DEF Save, Typed, TypeOK, BufferState, ControlState, ArchiverState
<1>10. CASE TestMark
  BY <1>10 DEF TestMark, Silently, ArchiverOnly, Typed, TypeOK, ArchiverState
<1>11. CASE SendMark
  <2>1. /\ Complete(trans.mark, fb.frame.markSeq) \in Transaction
        /\ Complete(trans.mark, fb.frame.markSeq).seq = trans.mark.seq
    BY TransType DEF Typed, TypeOK, Frame, Transactions, BufferState
  <2> QED
    BY <1>11, <2>1 DEF SendMark, Silently, ArchiverOnly, Typed, TypeOK, Transactions, ArchiverState
<1>12. CASE SetMark
  BY <1>12 DEF SetMark, Silently, ArchiverOnly, Typed, TypeOK, Frame, ArchiverState, BufferState
<1>13. CASE ReportFrame
  <2>1. Complete(trans.frame, arc.currFrameSeq) \in Transaction
    BY TransType DEF Typed, TypeOK, Transactions, ArchiverState
  <2>2. trans' \in {trans, [trans EXCEPT !.frame = Complete(@, arc.currFrameSeq)]}
    BY <1>13 DEF ReportFrame
  <2>3. /\ trans' \in Transactions
        /\ trans'.mark = trans.mark
    BY <2>1, <2>2 DEF Typed, TypeOK, Transactions
  <2>4. arc' \in {[arc EXCEPT !.at = "write", !.lastFrameSeq = arc.currFrameSeq,
                               !.refused = FALSE],
                  [arc EXCEPT !.at = "write", !.refused = TRUE],
                  [arc EXCEPT !.at = "write"]}
    BY <1>13 DEF ReportFrame
  <2>5. arc' \in ArchiverState
    <3>1. CASE arc' = [arc EXCEPT !.at = "write", !.lastFrameSeq = arc.currFrameSeq,
                                  !.refused = FALSE]
      BY <1>0, <3>1 DEF ArchiverState
    <3>2. CASE arc' = [arc EXCEPT !.at = "write", !.refused = TRUE]
      BY <1>0, <3>2 DEF ArchiverState
    <3>3. CASE arc' = [arc EXCEPT !.at = "write"]
      BY <1>0, <3>3 DEF ArchiverState
    <3> QED
      BY <2>4, <3>1, <3>2, <3>3
  <2> QED
    BY <1>13, <2>3, <2>5 DEF ReportFrame, Silently, ArchiverOnly, Typed, TypeOK
<1>14. CASE Write
  <2>1. {"open"} \in SUBSET SettingNames /\ {} \in SUBSET SettingNames
        /\ arc' \in ArchiverState /\ fb' \in BufferState
    BY <1>14, WriteType DEF SettingNames, Write, ArchiverOnly, Typed, TypeOK
  <2>2. client' \in ClientState
    BY <1>0, <1>14, <2>1, TellType, OpenType DEF Write
  <2> QED
    BY <1>14, <2>2, WriteType
       DEF Write, ArchiverOnly, Typed, TypeOK
<1> QED
  BY <1>8, <1>9, <1>10, <1>11, <1>12, <1>13, <1>14, TakesType DEF Archive

LEMMA StepType == Typed /\ [Next]_vars => Typed'
<1>1. Typed /\ UNCHANGED vars => Typed'
  BY DEF Typed, TypeOK, vars
<1> QED
  BY <1>1, UserType, ServeType, ReceiveType, ControlType, ArchiveType DEF Next

(* The state of the two threads, of the pipe and of the scheduler keeps    *)
(* its type: no sampling rate of zero, no sequence number of a mark beyond *)
(* the last one issued.                                                    *)
THEOREM TypeCorrect == Spec => []TypeOK
<1>1. Spec => []Typed
  BY InitType, StepType, PTL DEF Spec
<1>2. Typed => TypeOK
  BY DEF Typed
<1> QED
  BY <1>1, <1>2, PTL

-----------------------------------------------------------------------------
(* The turns of the buffer. The frames to be saved that are in the pipe    *)
(* change only when one is sent or taken.                                  *)

LEMMA FramesAppend ==
  ASSUME NEW q \in Seq(Message), NEW m \in Message
  PROVE  FramesIn(Append(q, m)) =
           FramesIn(q) \cup (IF m.type = "ARC_FRAME" THEN {Len(q) + 1} ELSE {})
<1>1. DOMAIN Append(q, m) = DOMAIN q \cup {Len(q) + 1}
  BY AppendProperties, LenProperties
<1>2. /\ \A i \in DOMAIN q : Append(q, m)[i] = q[i]
      /\ Append(q, m)[Len(q) + 1] = m
  BY AppendProperties, LenProperties
<1> QED
  BY <1>1, <1>2 DEF FramesIn

LEMMA FramesTail ==
  ASSUME NEW q \in Seq(Message), q # << >>, \A i, j \in FramesIn(q) : i = j
  PROVE  /\ \A i, j \in FramesIn(Tail(q)) : i = j
         /\ Head(q).type = "ARC_FRAME" => FramesIn(q) # {} /\ FramesIn(Tail(q)) = {}
         /\ Head(q).type # "ARC_FRAME" => (FramesIn(Tail(q)) = {} <=> FramesIn(q) = {})
<1>1. /\ Len(q) \in Nat \ {0} /\ DOMAIN q = 1 .. Len(q)
      /\ DOMAIN Tail(q) = 1 .. (Len(q) - 1)
      /\ Head(q) = q[1]
      /\ \A i \in 1 .. (Len(q) - 1) : Tail(q)[i] = q[i + 1]
  BY HeadTailProperties, LenProperties, EmptySeq
<1>2. ASSUME NEW i \in FramesIn(Tail(q))
      PROVE  i \in Nat \ {0} /\ i + 1 \in FramesIn(q)
  BY <1>1 DEF FramesIn
<1>3. ASSUME NEW i \in FramesIn(q), i # 1
      PROVE  i - 1 \in FramesIn(Tail(q))
  BY <1>1, <1>3 DEF FramesIn
<1>4. 1 \in FramesIn(q) <=> Head(q).type = "ARC_FRAME"
  BY <1>1 DEF FramesIn
<1>5. \A i, j \in FramesIn(Tail(q)) : i = j
  BY <1>2
<1>6. CASE Head(q).type = "ARC_FRAME"
  <2>1. FramesIn(q) # {}
    BY <1>4, <1>6
  <2>2. ASSUME NEW i \in FramesIn(Tail(q)) PROVE FALSE
    BY <1>2, <1>4, <1>6
  <2> QED
    BY <1>5, <1>6, <2>1, <2>2
<1>7. CASE Head(q).type # "ARC_FRAME"
  <2>1. \A i \in FramesIn(q) : i - 1 \in FramesIn(Tail(q))
    BY <1>3, <1>4, <1>7
  <2> QED
    BY <1>2, <1>5, <1>7, <2>1
<1> QED
  BY <1>6, <1>7

(* The mutex is held at the points where the control thread owns the       *)
(* buffer, and it owns the buffer only in its turn.                        *)
Guarded == /\ fb.locked <=> control.at \in {"add", "copy", "complete", "send"}
           /\ control.at \in {"add", "copy", "complete"} => fb.integrate

Turns == OneHandOver /\ NoLostWakeup /\ Guarded

(* A step that leaves the turns of the buffer as they are.                 *)
QuietPipe == /\ FramesIn(pipe') = {} <=> FramesIn(pipe) = {}
             /\ \A i, j \in FramesIn(pipe') : i = j

QuietBuffer == /\ fb'.locked = fb.locked /\ fb'.integrate = fb.integrate
               /\ fb'.count = fb.count /\ fb'.frame = fb.frame

Quiet == QuietPipe /\ QuietBuffer /\ arc'.at # "save" /\ arc.at # "save" /\ arc'.net = arc.net
         /\ UNCHANGED <<rtc, control>>

LEMMA QuietSend ==
  ASSUME Typed, OneHandOver, NEW type \in CommandTypes, NEW arg \in Nat, Send(type, arg)
  PROVE  QuietPipe
<1> DEFINE m == [type |-> type, arg |-> arg]
<1>1. m \in Message /\ m.type # "ARC_FRAME"
  BY DEF Message, CommandTypes
<1>2. pipe' \in {pipe, Append(pipe, m)} /\ pipe \in Seq(Message)
  BY DEF Send, Typed, TypeOK
<1> HIDE DEF m
<1>3. FramesIn(Append(pipe, m)) = FramesIn(pipe)
  BY <1>1, <1>2, FramesAppend
<1>4. FramesIn(pipe') = FramesIn(pipe)
  BY <1>2, <1>3 DEF FramesIn
<1> QED
  BY <1>4 DEF QuietPipe, OneHandOver

LEMMA QuietTake ==
  ASSUME Typed, OneHandOver, NEW type \in CommandTypes, Take(type)
  PROVE  QuietPipe
<1>1. type # "ARC_FRAME"
  BY DEF CommandTypes
<1> QED
  BY <1>1, FramesTail DEF Take, Typed, TypeOK, QuietPipe, OneHandOver

(* What is done to the file does not concern the buffer.                   *)
Same(x, y) == /\ x.at = y.at /\ x.net = y.net
              /\ x.currFrameSeq = y.currFrameSeq /\ x.lastFrameSeq = y.lastFrameSeq
              /\ x.refused = y.refused

LEMMA FileKeeps ==
  ASSUME NEW a \in ArchiverState
  PROVE  /\ Same(Closed(a), a)
         /\ \A x \in Opened(a) : Same(x, a)
         /\ Same(Recorded(a), a)
         /\ \A d \in Nat : Same(Entered(a, d), a)
<1>1. Same(Closed(a), a)
  BY DEF Closed, ArchiverState, Same
<1>2. Same([Closed(a) EXCEPT !.open = TRUE], a)
  BY DEF Closed, ArchiverState, Same
<1>3. \A x \in Opened(a) : Same(x, a)
  BY <1>1, <1>2 DEF Opened, Same
<1>4. \A n, m : Same([a EXCEPT !.records = n, !.nrecorded = m], a)
  BY DEF ArchiverState, Same
<1>5. Same(Recorded(a), a)
  BY <1>4 DEF Recorded
<1>6. \A d \in Nat : Same(Entered(a, d), a)
  BY DEF Entered, ArchiverState, Same
<1> QED
  BY <1>1, <1>3, <1>5, <1>6

LEMMA WriteKeeps ==
  ASSUME Typed, Write
  PROVE  /\ arc.at = "write" /\ arc'.at = "select" /\ arc'.net = arc.net
         /\ arc'.currFrameSeq = arc.currFrameSeq /\ arc'.lastFrameSeq = arc.lastFrameSeq
         /\ arc'.refused = arc.refused
<1> DEFINE a == [arc EXCEPT !.at = "select"]
           b == Recorded(a)
           d == [b EXCEPT !.tv_offset.pending = FALSE]
<1>1. /\ arc \in ArchiverState /\ a \in ArchiverState /\ a.at = "select" /\ a.net = arc.net
      /\ a.currFrameSeq = arc.currFrameSeq /\ a.lastFrameSeq = arc.lastFrameSeq
      /\ a.refused = arc.refused
  BY DEF Typed, TypeOK, ArchiverState
<1>2. arc.at = "write" /\ arc' \in {a, Closed(a), b, d} \cup Opened(b)
  BY DEF Write, Open
<1>3. b \in ArchiverState /\ Same(b, a) /\ Same(Closed(a), a)
  <2> HIDE DEF a
  <2> QED
    BY <1>1, FileKeeps, FileType
<1>4. Same(d, b) /\ \A x \in Opened(b) : Same(x, b)
  <2> HIDE DEF b
  <2> QED
    BY <1>3, FileKeeps DEF Same, ArchiverState
<1> HIDE DEF a, b, d
<1> QED
  BY <1>1, <1>2, <1>3, <1>4 DEF Same

LEMMA TakeKeeps ==
  ASSUME Typed, TakeChdir \/ TakeOpen \/ TakeClose \/ TakeFlush
  PROVE  Same(arc', arc)
<1>1. arc \in ArchiverState
  BY DEF Typed, TypeOK
<1>2. Head(pipe).arg \in Nat
  BY TakeType DEF Typed, TypeOK, TakeChdir, TakeOpen, TakeClose, TakeFlush, Message
<1>3. Same(Closed(arc), arc) /\ Same(arc, arc)
  BY <1>1, FileKeeps DEF Same
<1>4. /\ Entered(arc, Head(pipe).arg) \in ArchiverState
      /\ Same(Entered(arc, Head(pipe).arg), arc)
  BY <1>1, <1>2, FileKeeps, FileType
<1>5. \A x \in Opened(Entered(arc, Head(pipe).arg)) : Same(x, arc)
  BY <1>4, FileKeeps DEF Same
<1> QED
  BY <1>3, <1>4, <1>5 DEF TakeChdir, TakeOpen, TakeClose, TakeFlush, Open

LEMMA QuietUser ==
  ASSUME Typed, OneHandOver, User \/ Serve
  PROVE  QuietPipe /\ UNCHANGED <<control, fb, arc>> /\ rtc'.next = rtc.next
<1>0. QuietPipe \/ pipe' # pipe
  BY DEF OneHandOver, QuietPipe
<1>1. CASE NewFrame
  <2>1. trans'.frame.seq \in Nat /\ "ARC_NEW_FRAME" \in CommandTypes
    BY <1>1, TransType DEF NewFrame, Typed, TypeOK, Transaction, CommandTypes, Transactions
  <2> QED
    BY <1>1, <2>1, QuietSend DEF NewFrame, Command
<1>2. CASE Configure
  <2>1. PICK type \in CommandTypes, arg \in Nat : Command(type, arg)
    BY <1>2, ConfigureCommand
  <2> QED
    BY <2>1, QuietSend DEF Command
<1>3. ASSUME NEW mode \in {"add", "remove", "one"}, Mark(mode)
      PROVE  QuietPipe /\ UNCHANGED <<control, fb, arc>> /\ rtc'.next = rtc.next
  BY <1>0, <1>3 DEF Mark, Typed, TypeOK, RtcState
<1>4. CASE TvOffset
  BY <1>0, <1>4 DEF TvOffset
<1>5. CASE Connect
  BY <1>0, <1>5, QuietSend DEF Connect, CommandTypes
<1>6. CASE TvOffsetDone
  <2>1. rtc.tv + 1 \in Nat /\ "ARC_TV_OFFSET_DONE" \in CommandTypes
    BY DEF Typed, TypeOK, CommandTypes, RtcState
  <2> QED
    BY <1>6, <2>1, QuietSend DEF TvOffsetDone, Typed, TypeOK, RtcState
<1> QED
  BY <1>1, <1>2, <1>3, <1>4, <1>5, <1>6 DEF User, Serve

(* What a step of the archiver thread other than TakeFrame and Save keeps. *)
LEMMA QuietArchive ==
  ASSUME Typed, OneHandOver, Archive
  PROVE  TakeFrame \/ Save \/ Quiet
<1>0. arc \in ArchiverState /\ fb \in BufferState
  BY DEF Typed, TypeOK
<1>1. QuietPipe \/ pipe' # pipe
  BY DEF OneHandOver, QuietPipe
<1>2. ASSUME NEW type \in CommandTypes, Take(type),
             fb' = fb \/ fb' = [fb EXCEPT !.newFrame = TRUE],
             arc'.at \in {"select", "sampling", "exited"}, arc'.net = arc.net
      PROVE  Quiet
  BY <1>0, <1>2, QuietTake DEF Take, Quiet, QuietBuffer, BufferState
<1>3. CASE TakeNewFrame
  BY <1>0, <1>2, <1>3 DEF TakeNewFrame, Take, CommandTypes, ArchiverState
<1>4. CASE TakeSampling
  BY <1>0, <1>2, <1>4 DEF TakeSampling, Take, CommandTypes, ArchiverState
<1>5. CASE TakeFilter
  BY <1>0, <1>2, <1>5 DEF TakeFilter, Take, CommandTypes, ArchiverState
<1>6. CASE TakeFileSize
  BY <1>0, <1>2, <1>6 DEF TakeFileSize, Take, CommandTypes, ArchiverState
<1>7. CASE TakeAddClient
  BY <1>0, <1>2, <1>7 DEF TakeAddClient, Take, CommandTypes
<1>8. CASE TakeTvOffsetDone
  BY <1>0, <1>2, <1>8 DEF TakeTvOffsetDone, Take, CommandTypes, ArchiverState
<1>9. CASE TakeChdir \/ TakeOpen \/ TakeClose \/ TakeFlush
  <2>1. Same(arc', arc)
    BY <1>9, TakeKeeps
  <2> QED
    BY <1>0, <1>2, <1>9, <2>1
       DEF TakeChdir, TakeOpen, TakeClose, TakeFlush, Take, CommandTypes, Same
<1>10. CASE TakeShutdown
  <2>1. Closed(arc) \in ArchiverState /\ Closed(arc).net = arc.net
    BY <1>0, FileKeeps, FileType DEF Same
  <2>2. arc'.at = "exited" /\ arc'.net = arc.net
    BY <1>10, <2>1 DEF TakeShutdown, ArchiverState
  <2> QED
    BY <1>2, <1>10, <2>2 DEF TakeShutdown, CommandTypes
<1>11. ASSUME UNCHANGED <<rtc, control, pipe>>, QuietBuffer,
              arc.at # "save", arc'.at # "save", arc'.net = arc.net
       PROVE  Quiet
  BY <1>1, <1>11 DEF Quiet
<1>12. CASE UpdateSampling
  BY <1>0, <1>11, <1>12 DEF UpdateSampling, QuietBuffer, ArchiverState, BufferState
<1>13. CASE TestMark \/ SendMark \/ SetMark \/ ReportFrame
  BY <1>0, <1>11, <1>13
     DEF TestMark, SendMark, SetMark, ReportFrame, Silently, ArchiverOnly, QuietBuffer,
         ArchiverState
<1>14. CASE Write
  BY <1>11, <1>14, WriteKeeps DEF Write, ArchiverOnly, QuietBuffer
<1> QED
  BY <1>3, <1>4, <1>5, <1>6, <1>7, <1>8, <1>9, <1>10, <1>12, <1>13, <1>14 DEF Archive

LEMMA TurnsQuiet ==
  ASSUME Turns, QuietPipe, QuietBuffer, control' = control,
         arc.at # "save", arc'.at # "save"
  PROVE  Turns'
BY DEF Turns, QuietPipe, QuietBuffer, OneHandOver, NoLostWakeup, Guarded

LEMMA TurnsKeep ==
  ASSUME Turns, QuietPipe, QuietBuffer, control' = control, arc'.at = arc.at
  PROVE  Turns'
BY DEF Turns, QuietPipe, QuietBuffer, OneHandOver, NoLostWakeup, Guarded

LEMMA InitTurns == Init => Turns
BY DEF Init, Turns, OneHandOver, NoLostWakeup, Guarded, FramesIn

LEMMA StepTurns == Typed /\ Turns /\ [Next]_vars => Turns'
<1> SUFFICES ASSUME Typed, Turns, [Next]_vars PROVE Turns'
  OBVIOUS
<1>0. /\ OneHandOver /\ NoLostWakeup /\ Guarded
      /\ control \in ControlState /\ fb \in BufferState /\ arc \in ArchiverState
      /\ pipe \in Seq(Message)
  BY DEF Turns, Typed, TypeOK
<1>1. CASE UNCHANGED vars
  BY <1>1 DEF vars, Turns, OneHandOver, NoLostWakeup, Guarded, FramesIn
<1>2. CASE User \/ Serve
  BY <1>0, <1>2, QuietUser, TurnsKeep DEF QuietBuffer
<1>3. ASSUME UNCHANGED <<pipe, arc>>
      PROVE  QuietPipe
  BY <1>0, <1>3 DEF QuietPipe, OneHandOver
<1>4. CASE Receive
  <2>1. control.at = "select" /\ control'.at = "lock" /\ UNCHANGED <<fb, pipe, arc>>
    BY <1>4 DEF Receive
  <2> QED
    BY <1>0, <2>1 DEF Turns, OneHandOver, NoLostWakeup, Guarded, FramesIn
<1>5. CASE Lock
  <2>1. /\ control.at = "lock" /\ ~fb.locked /\ UNCHANGED <<pipe, arc>>
        /\ fb'.integrate = fb.integrate
        /\ fb.integrate => control'.at = "add" /\ fb'.locked
        /\ ~fb.integrate => control'.at = "wait" /\ ~fb'.locked
    BY <1>0, <1>5 DEF Lock, ControlState, BufferState
  <2> QED
    BY <1>0, <2>1 DEF Turns, OneHandOver, NoLostWakeup, Guarded, FramesIn
<1>6. CASE AddFirst
  <2>1. /\ control.at = "add" /\ control'.at = "copy" /\ UNCHANGED <<pipe, arc>>
        /\ fb'.integrate = fb.integrate /\ fb'.locked = fb.locked
    BY <1>0, <1>6 DEF AddFirst, ControlState, BufferState
  <2> QED
    BY <1>0, <2>1 DEF Turns, OneHandOver, NoLostWakeup, Guarded, FramesIn
<1>7. ASSUME NEW f, Added(f), control.at \in {"add", "copy"}
      PROVE  Turns'
  <2>1. /\ UNCHANGED <<pipe, arc>> /\ fb'.integrate = fb.integrate
        /\ control'.at \in {"complete", "select"}
        /\ fb'.locked <=> control'.at = "complete"
    BY <1>0, <1>7 DEF Added, ControlState, BufferState
  <2> QED
    BY <1>0, <1>7, <2>1 DEF Turns, OneHandOver, NoLostWakeup, Guarded, FramesIn
<1>8. CASE CopyFirst \/ AddNext
  BY <1>7, <1>8 DEF CopyFirst, AddNext
<1>9. CASE HandOver
  <2>1. /\ control.at = "complete" /\ control'.at = "send" /\ UNCHANGED <<pipe, arc>>
        /\ ~fb'.integrate /\ fb'.locked = fb.locked
    BY <1>0, <1>9 DEF HandOver, ControlState, BufferState
  <2> QED
    BY <1>0, <2>1 DEF Turns, OneHandOver, NoLostWakeup, Guarded, FramesIn
<1>10. CASE SendFrame
  <2> DEFINE m == [type |-> "ARC_FRAME", arg |-> 0]
  <2>1. /\ control.at = "send" /\ control'.at = "select" /\ UNCHANGED arc
        /\ fb'.integrate = fb.integrate /\ ~fb'.locked
        /\ pipe' \in {pipe, Append(pipe, m)}
    BY <1>0, <1>10 DEF SendFrame, Send, ControlState, BufferState
  <2>2. m \in Message /\ m.type = "ARC_FRAME"
    BY DEF Message
  <2>3. ~fb.integrate /\ FramesIn(pipe) = {} /\ arc.at # "save"
    BY <1>0, <2>1 DEF OneHandOver
  <2> HIDE DEF m
  <2>4. FramesIn(Append(pipe, m)) = {Len(pipe) + 1}
    BY <1>0, <2>2, <2>3, FramesAppend
  <2>5. FramesIn(pipe') \in {{}, {Len(pipe) + 1}}
    BY <2>1, <2>3, <2>4 DEF FramesIn
  <2> QED
    BY <1>0, <2>1, <2>3, <2>5 DEF Turns, OneHandOver, NoLostWakeup, Guarded
<1>11. CASE Archive
  <2>1. CASE TakeFrame
    <3>1. /\ arc.at = "select" /\ arc'.at = "save" /\ UNCHANGED <<control, fb>>
          /\ pipe # << >> /\ Head(pipe).type = "ARC_FRAME" /\ pipe' = Tail(pipe)
      BY <1>0, <2>1 DEF TakeFrame, Take, ArchiverState
    <3>2. FramesIn(pipe) # {} /\ FramesIn(Tail(pipe)) = {}
      BY <1>0, <3>1, FramesTail DEF OneHandOver
    <3>3. FramesIn(pipe') = {}
      BY <3>1, <3>2 DEF FramesIn
    <3> QED
      BY <1>0, <3>1, <3>2, <3>3 DEF Turns, OneHandOver, NoLostWakeup, Guarded
  <2>2. CASE Save
    <3>1. /\ arc.at = "save" /\ arc'.at = "mark" /\ ~fb.locked
          /\ fb'.integrate /\ ~fb'.locked /\ pipe' = pipe
          /\ control'.at = IF control.at = "wait" THEN "lock" ELSE control.at
      BY <1>0, <2>2 DEF Save, ArchiverState, BufferState, ControlState
    <3>2. ~fb.integrate /\ FramesIn(pipe) = {} /\ control.at # "send"
      BY <1>0, <3>1 DEF OneHandOver
    <3> QED
      BY <1>0, <3>1, <3>2 DEF Turns, OneHandOver, NoLostWakeup, Guarded, FramesIn
  <2>3. CASE Quiet
    BY <2>3, TurnsQuiet DEF Quiet
  <2> QED
    BY <1>0, <1>11, <2>1, <2>2, <2>3, QuietArchive
<1>12. CASE Shutdown
  <2>1. QuietPipe
    BY <1>0, <1>12, QuietSend DEF Shutdown, CommandTypes
  <2>2. control.at = "select" /\ control'.at = "ended" /\ UNCHANGED <<fb, arc>>
    BY <1>0, <1>12 DEF Shutdown, ControlState
  <2> QED
    BY <1>0, <2>1, <2>2 DEF Turns, QuietPipe, OneHandOver, NoLostWakeup, Guarded
<1> QED
  BY <1>1, <1>2, <1>4, <1>5, <1>6, <1>8, <1>9, <1>10, <1>11, <1>12 DEF Next, Control

(* A complete integration is handed over at most once, and one that is not *)
(* complete never, even if messages are lost in a full pipe.               *)
THEOREM TurnsTaken == Spec => []OneHandOver
<1>1. Spec => [](Typed /\ Turns)
  BY InitType, StepType, InitTurns, StepTurns, PTL DEF Spec
<1>2. Typed /\ Turns => OneHandOver
  BY DEF Turns
<1> QED
  BY <1>1, <1>2, PTL

(* The control thread waits only for a buffer that is still to be copied.  *)
THEOREM WakeupsKept == Spec => []NoLostWakeup
<1>1. Spec => [](Typed /\ Turns)
  BY InitType, StepType, InitTurns, StepTurns, PTL DEF Spec
<1>2. Typed /\ Turns => NoLostWakeup
  BY DEF Turns
<1> QED
  BY <1>1, <1>2, PTL

-----------------------------------------------------------------------------
(* Requests for a new frame. NewFrameKept is inductive as it stands.       *)

LEMMA KeptQuiet ==
  ASSUME NewFrameKept, fb'.newFrame = fb.newFrame, fb'.integrate = fb.integrate,
         control.at = "complete" => control'.at = "complete",
         arc'.lastFrameSeq = arc.lastFrameSeq, arc'.currFrameSeq = arc.currFrameSeq,
         arc'.refused = arc.refused,
         arc.at \in {"mark", "sendmark", "setmark", "frame"} =>
           arc'.at \in {"mark", "sendmark", "setmark", "frame"}
  PROVE  NewFrameKept'
BY DEF NewFrameKept, Due

LEMMA StepKept == Typed /\ NewFrameKept /\ [Next]_vars => NewFrameKept'
<1> SUFFICES ASSUME Typed, NewFrameKept, [Next]_vars PROVE NewFrameKept'
  OBVIOUS
<1>0. /\ control \in ControlState /\ fb \in BufferState /\ arc \in ArchiverState
      /\ arc.lastFrameSeq \in Int /\ arc.currFrameSeq \in Int
  BY DEF Typed, TypeOK, ArchiverState
<1>1. CASE UNCHANGED vars
  BY <1>1, KeptQuiet DEF vars
<1>2. CASE User \/ Serve
  <2>1. UNCHANGED <<control, fb, arc>>
    BY <1>2 DEF User, NewFrame, Configure, Command, Mark, TvOffset, Serve, Connect, TvOffsetDone
  <2> QED
    BY <2>1, KeptQuiet
<1>3. CASE Receive \/ Lock \/ AddFirst \/ SendFrame \/ Shutdown
  <2>1. /\ UNCHANGED arc /\ control.at # "complete"
        /\ fb'.newFrame = fb.newFrame /\ fb'.integrate = fb.integrate
    BY <1>0, <1>3 DEF Receive, Lock, AddFirst, SendFrame, Shutdown, BufferState
  <2> QED
    BY <2>1, KeptQuiet
<1>4. CASE CopyFirst \/ AddNext
  <2>1. /\ UNCHANGED arc /\ control.at # "complete"
        /\ fb'.newFrame = fb.newFrame /\ fb'.integrate = fb.integrate
    BY <1>0, <1>4 DEF CopyFirst, AddNext, Added, BufferState
  <2> QED
    BY <2>1, KeptQuiet
<1>5. CASE HandOver
  BY <1>0, <1>5 DEF HandOver, NewFrameKept, Due, BufferState
<1>6. CASE TakeNewFrame
  BY <1>0, <1>6 DEF TakeNewFrame, NewFrameKept, BufferState
<1>7. ASSUME NEW type, Take(type), fb' = fb,
             arc'.lastFrameSeq = arc.lastFrameSeq, arc'.currFrameSeq = arc.currFrameSeq,
             arc'.refused = arc.refused
      PROVE  NewFrameKept'
  BY <1>7, KeptQuiet DEF Take
<1>8. CASE TakeFrame \/ TakeSampling \/ TakeFilter \/ TakeFileSize \/ TakeAddClient
            \/ TakeTvOffsetDone
  BY <1>0, <1>7, <1>8
     DEF TakeFrame, TakeSampling, TakeFilter, TakeFileSize, TakeAddClient,
         TakeTvOffsetDone, ArchiverState
<1>9. CASE TakeChdir \/ TakeOpen \/ TakeClose \/ TakeFlush
  BY <1>7, <1>9, TakeKeeps DEF TakeChdir, TakeOpen, TakeClose, TakeFlush, Same
<1>15. CASE TakeShutdown
  <2>1. Closed(arc) \in ArchiverState /\ Same(Closed(arc), arc)
    BY <1>0, FileKeeps, FileType
  <2>2. /\ arc'.lastFrameSeq = arc.lastFrameSeq /\ arc'.currFrameSeq = arc.currFrameSeq
        /\ arc'.refused = arc.refused
    BY <1>15, <2>1 DEF TakeShutdown, Same, ArchiverState
  <2> QED
    BY <1>7, <1>15, <2>2 DEF TakeShutdown
<1>10. CASE UpdateSampling
  <2>1. /\ control' = control /\ arc.at = "sampling"
        /\ fb'.newFrame = fb.newFrame /\ fb'.integrate = fb.integrate
        /\ arc'.lastFrameSeq = arc.lastFrameSeq /\ arc'.currFrameSeq = arc.currFrameSeq
        /\ arc'.refused = arc.refused
    BY <1>0, <1>10 DEF UpdateSampling, BufferState, ArchiverState
  <2> QED
    BY <2>1, KeptQuiet
<1>11. CASE Save
  BY <1>0, <1>11 DEF Save, NewFrameKept, Due, ArchiverState
<1>12. CASE TestMark \/ SendMark \/ SetMark
  BY <1>0, <1>12, KeptQuiet DEF TestMark, SendMark, SetMark, Silently, ArchiverOnly, ArchiverState
<1>13. CASE ReportFrame
  <2>1. CASE arc' = [arc EXCEPT !.at = "write", !.lastFrameSeq = arc.currFrameSeq,
                                !.refused = FALSE]
    <3>1. arc'.lastFrameSeq = arc'.currFrameSeq /\ arc'.currFrameSeq \in Int
      BY <1>0, <2>1 DEF ArchiverState
    <3>2. ~Due'
      BY <3>1 DEF Due
    <3> QED
      BY <3>2 DEF NewFrameKept
  <2>2. CASE arc' = [arc EXCEPT !.at = "write", !.refused = TRUE]
    BY <1>0, <2>2 DEF NewFrameKept, ArchiverState
  <2>3. CASE ~Due /\ arc' = [arc EXCEPT !.at = "write"]
    BY <1>0, <2>3 DEF NewFrameKept, Due, ArchiverState
  <2> QED
    BY <1>13, <2>1, <2>2, <2>3 DEF ReportFrame
<1>14. CASE Write
  BY <1>14, WriteKeeps, KeptQuiet DEF Write, ArchiverOnly
<1> QED
  BY <1>1, <1>2, <1>3, <1>4, <1>5, <1>6, <1>8, <1>9, <1>10, <1>11, <1>12, <1>13, <1>14,
     <1>15 DEF Next, Control, Archive

(* A request for a new frame that has reached the archiver stays pending   *)
(* until the scheduler accepts its report: it is never lost to the         *)
(* unguarded write of the flag, however that write and the hand-over       *)
(* interleave and however often the report is refused.                     *)
THEOREM RequestsKept == Spec => []NewFrameKept
<1>1. Init => NewFrameKept
  BY DEF Init, NewFrameKept, Due
<1> QED
  BY <1>1, InitType, StepType, StepKept, PTL DEF Spec

-----------------------------------------------------------------------------
(* The records. NextFrame is the first frame that is not yet in the buffer *)
(* or in a record; the buffer and the last record end just before it.      *)

Carried == control.at \in {"lock", "wait", "add", "copy"}

NextFrame == IF Carried THEN control.frame.first ELSE rtc.next

Chained ==
  /\ Carried => /\ control.frame.last = control.frame.first
                /\ rtc.next = Following(control.frame.first)
  /\ fb.count > 0 => /\ fb.frame.first = Following(arc.net.last)
                     /\ NextFrame = Following(fb.frame.last)
  /\ fb.count = 0 => NextFrame = Following(arc.net.last)
  /\ ~fb.integrate \/ control.at \in {"complete", "send"} => fb.count > 0
  /\ control.at = "copy" => fb.count = 0

LEMMA InitChained == Init => Chained
<1>1. (Wrap - 1 + 1) % Wrap = 0
  BY SizeAssumption, Z3
<1> QED
  BY <1>1, SizeAssumption DEF Init, Chained, Carried, NextFrame, Following, Zeroed

LEMMA ChainedQuiet ==
  ASSUME Chained, UNCHANGED control, rtc'.next = rtc.next, fb'.integrate = fb.integrate,
         fb'.count = fb.count, fb'.frame = fb.frame, arc'.net = arc.net
  PROVE  Chained'
BY DEF Chained, Carried, NextFrame, Following

(* A frame that is added ends the buffer, and the next one follows it.     *)
LEMMA ChainedAdded ==
  ASSUME Typed, Chained, control.at \in {"add", "copy"}, NEW f \in Frame, Added(f),
         f.last = control.frame.last,
         f.first = IF fb.count = 0 THEN control.frame.first ELSE fb.frame.first
  PROVE  Chained'
<1>1. /\ UNCHANGED <<rtc, arc>>
      /\ fb'.frame = f /\ fb'.count = fb.count + 1 /\ fb'.integrate = fb.integrate
      /\ control'.at \in {"complete", "select"}
  BY DEF Added, Typed, TypeOK, BufferState, ControlState
<1>2. Carried /\ ~Carried' /\ NextFrame = control.frame.first /\ NextFrame' = rtc.next
  BY <1>1 DEF Carried, NextFrame
<1>3. fb.count \in Nat
  BY DEF Typed, TypeOK, BufferState
<1>4. rtc.next = Following(f.last) /\ f.first = Following(arc.net.last)
  BY <1>2, <1>3 DEF Chained
<1>5. NextFrame' = Following(fb'.frame.last) /\ fb'.frame.first = Following(arc'.net.last)
  BY <1>1, <1>2, <1>4 DEF Following
<1>6. fb'.count > 0 /\ fb'.count # 0
  BY <1>1, <1>3
<1> QED
  BY <1>1, <1>2, <1>5, <1>6 DEF Chained, Following

LEMMA StepChained == Typed /\ Turns /\ Chained /\ [Next]_vars => Chained'
<1> SUFFICES ASSUME Typed, Turns, Chained, [Next]_vars PROVE Chained'
  OBVIOUS
<1>0. /\ OneHandOver /\ Guarded
      /\ rtc \in RtcState
      /\ control \in ControlState /\ fb \in BufferState /\ arc \in ArchiverState
      /\ fb.count \in Nat
  BY DEF Turns, Typed, TypeOK, BufferState
<1>1. CASE UNCHANGED vars
  BY <1>1, ChainedQuiet DEF vars
<1>2. CASE User \/ Serve
  BY <1>0, <1>2, QuietUser, ChainedQuiet
<1>3. CASE Receive
  <2>1. /\ control.at = "select" /\ control'.at = "lock" /\ UNCHANGED <<fb, arc>>
        /\ control'.frame.first = rtc.next /\ control'.frame.last = rtc.next
        /\ rtc'.next = Following(rtc.next)
    BY <1>0, <1>3 DEF Receive
  <2>2. ~Carried /\ Carried' /\ NextFrame' = NextFrame
    BY <2>1 DEF Carried, NextFrame
  <2> QED
    BY <2>1, <2>2 DEF Chained, Following
<1>4. CASE Lock
  <2>1. /\ control.at = "lock" /\ control'.at \in {"add", "wait"}
        /\ control'.frame = control.frame /\ UNCHANGED <<rtc, arc>>
        /\ fb'.integrate = fb.integrate /\ fb'.count = fb.count /\ fb'.frame = fb.frame
    BY <1>0, <1>4 DEF Lock, ControlState, BufferState
  <2>2. Carried /\ Carried' /\ NextFrame' = NextFrame
    BY <2>1 DEF Carried, NextFrame
  <2> QED
    BY <2>1, <2>2 DEF Chained, Following
<1>5. CASE AddFirst
  <2>1. /\ control.at = "add" /\ control'.at = "copy" /\ fb.count = 0
        /\ control'.frame = control.frame /\ UNCHANGED <<rtc, arc>>
        /\ fb'.integrate = fb.integrate /\ fb'.count = fb.count
    BY <1>0, <1>5 DEF AddFirst, ControlState, BufferState
  <2>2. Carried /\ Carried' /\ NextFrame' = NextFrame
    BY <2>1 DEF Carried, NextFrame
  <2> QED
    BY <2>1, <2>2 DEF Chained, Following
<1>6. CASE CopyFirst
  <2>1. control.frame \in Frame /\ fb.count = 0
    BY <1>0, <1>6 DEF CopyFirst, Chained, ControlState
  <2> QED
    BY <1>6, <2>1, ChainedAdded DEF CopyFirst
<1>7. CASE AddNext
  <2> DEFINE f == Sum(fb.frame, control.frame)
  <2>1. f \in Frame
    BY <1>0, FrameType DEF ControlState, BufferState
  <2>2. f.last = control.frame.last /\ f.first = fb.frame.first
    BY <1>0 DEF Sum, Frame, BufferState
  <2>3. Added(f) /\ control.at = "add" /\ fb.count # 0
    BY <1>0, <1>7 DEF AddNext
  <2> HIDE DEF f
  <2> QED
    BY <2>1, <2>2, <2>3, ChainedAdded
<1>8. CASE HandOver
  <2>1. /\ control.at = "complete" /\ control'.at = "send" /\ UNCHANGED <<rtc, arc>>
        /\ fb'.count = fb.count /\ fb'.frame = fb.frame
    BY <1>0, <1>8 DEF HandOver, ControlState, BufferState
  <2>2. ~Carried /\ ~Carried' /\ NextFrame' = NextFrame
    BY <2>1 DEF Carried, NextFrame
  <2> QED
    BY <2>1, <2>2 DEF Chained, Following
<1>9. CASE SendFrame
  <2>1. /\ control.at = "send" /\ control'.at = "select" /\ UNCHANGED <<rtc, arc>>
        /\ fb'.integrate = fb.integrate /\ fb'.count = fb.count /\ fb'.frame = fb.frame
    BY <1>0, <1>9 DEF SendFrame, ControlState, BufferState
  <2>2. ~Carried /\ ~Carried' /\ NextFrame' = NextFrame
    BY <2>1 DEF Carried, NextFrame
  <2> QED
    BY <2>1, <2>2 DEF Chained, Following
<1>10. CASE TakeFrame
  <2>1. UNCHANGED <<rtc, control, fb>> /\ arc'.net = arc.net
    BY <1>0, <1>10 DEF TakeFrame, Take, ArchiverState
  <2> QED
    BY <2>1, ChainedQuiet
<1>11. CASE Save
  <2>1. /\ arc.at = "save" /\ ~fb.locked /\ arc'.net = fb.frame /\ UNCHANGED rtc
        /\ fb'.integrate /\ fb'.count = 0
        /\ control'.at = IF control.at = "wait" THEN "lock" ELSE control.at
        /\ control'.frame = control.frame
    BY <1>0, <1>11 DEF Save, ArchiverState, BufferState, ControlState
  <2>2. ~fb.integrate /\ fb.count > 0
    BY <1>0, <2>1 DEF OneHandOver, Chained
  <2>3. control.at \notin {"add", "copy", "complete", "send"}
    BY <1>0, <2>1 DEF Guarded
  <2>4. (Carried' <=> Carried) /\ NextFrame' = NextFrame
    BY <2>1 DEF Carried, NextFrame
  <2>5. NextFrame' = Following(arc'.net.last)
    BY <2>1, <2>2, <2>4 DEF Chained, Following
  <2> QED
    BY <2>1, <2>3, <2>4, <2>5 DEF Chained, Following
<1>12. CASE Archive
  BY <1>0, <1>10, <1>11, <1>12, QuietArchive, ChainedQuiet DEF Quiet, QuietBuffer
<1>13. CASE Shutdown
  <2>1. /\ control.at = "select" /\ control'.at = "ended" /\ UNCHANGED <<rtc, fb, arc>>
    BY <1>0, <1>13 DEF Shutdown, ControlState
  <2>2. ~Carried /\ ~Carried' /\ NextFrame' = NextFrame
    BY <2>1 DEF Carried, NextFrame
  <2> QED
    BY <2>1, <2>2 DEF Chained, Following
<1> QED
  BY <1>1, <1>2, <1>3, <1>4, <1>5, <1>6, <1>7, <1>8, <1>9, <1>12, <1>13 DEF Next, Control

(* The record changes only when an integration is copied, which starts     *)
(* with the frame that follows the last record.                            *)
LEMMA StepRecords ==
  Typed /\ Turns /\ Chained /\ [Next]_vars =>
    (arc'.net # arc.net => arc'.net.first = Following(arc.net.last))
<1> SUFFICES ASSUME Typed, Turns, Chained, [Next]_vars, arc'.net # arc.net
             PROVE  arc'.net.first = Following(arc.net.last)
  OBVIOUS
<1>0. OneHandOver /\ arc \in ArchiverState
  BY DEF Turns, Typed, TypeOK
<1>1. Archive
  <2>1. Receive \/ Shutdown \/ Control \/ UNCHANGED vars => arc' = arc
    BY DEF Receive, Shutdown, Control, Lock, AddFirst, CopyFirst, AddNext, Added, HandOver,
           SendFrame, vars
  <2>2. User \/ Serve => arc' = arc
    BY <1>0, QuietUser
  <2> QED
    BY <2>1, <2>2 DEF Next
<1>2. Save
  BY <1>0, <1>1, QuietArchive DEF Quiet, TakeFrame, ArchiverState
<1>3. arc.at = "save" /\ arc'.net = fb.frame
  BY <1>0, <1>2 DEF Save, ArchiverState
<1>4. fb.count > 0
  BY <1>0, <1>3 DEF OneHandOver, Chained
<1> QED
  BY <1>3, <1>4 DEF Chained

(* No frame of the RTC is lost and none is added twice: the integrations   *)
(* that the archiver copies follow each other without gap or overlap.      *)
THEOREM RecordsInOrder == Spec => RecordsFollow
<1>1. Init => Typed /\ Turns /\ Chained
  BY InitType, InitTurns, InitChained
<1>2. Typed /\ Turns /\ Chained /\ [Next]_vars => (Typed /\ Turns /\ Chained)'
  BY StepType, StepTurns, StepChained
<1>3. Typed /\ Turns /\ Chained /\ [Next]_vars =>
        [arc'.net # arc.net => arc'.net.first = Following(arc.net.last)]_vars
  BY StepRecords
<1> QED
  BY <1>1, <1>2, <1>3, PTL DEF Spec, RecordsFollow
-----------------------------------------------------------------------------
(* The file. CountIsOfFile is inductive as it stands.                      *)

FileCount(a) == a.nrecorded <= a.records

LEMMA FileCounts ==
  ASSUME NEW a \in ArchiverState, FileCount(a)
  PROVE  /\ FileCount(Closed(a))
         /\ \A x \in Opened(a) : FileCount(x)
         /\ FileCount(Recorded(a))
         /\ \A d \in Nat : FileCount(Entered(a, d))
<1>1. FileCount(Closed(a))
  BY DEF Closed, ArchiverState, FileCount
<1>2. FileCount([Closed(a) EXCEPT !.open = TRUE])
  BY DEF Closed, ArchiverState, FileCount
<1>3. \A x \in Opened(a) : FileCount(x)
  BY <1>1, <1>2 DEF Opened
<1>4. \A n \in 0 .. MaxRecords, m \in 0 .. MaxRecords :
        n <= m => n <= Counted(m) /\ Counted(n) <= Counted(m)
  BY SizeAssumption DEF Counted
<1> DEFINE n == IF a.file_size > 0 THEN Counted(a.nrecorded) ELSE a.nrecorded
           m == Counted(a.records)
<1>5. n <= m
  BY <1>4 DEF ArchiverState, FileCount
<1>6. Recorded(a) = [a EXCEPT !.records = m, !.nrecorded = n]
  BY DEF Recorded
<1>7. FileCount(Recorded(a))
  <2> HIDE DEF n, m
  <2> QED
    BY <1>5, <1>6 DEF ArchiverState, FileCount
<1>8. \A d \in Nat : FileCount(Entered(a, d))
  BY DEF Entered, ArchiverState, FileCount
<1> QED
  BY <1>1, <1>3, <1>7, <1>8

LEMMA WriteCounts ==
  ASSUME Typed, CountIsOfFile, Write
  PROVE  CountIsOfFile'
<1> DEFINE a == [arc EXCEPT !.at = "select"]
           b == Recorded(a)
           d == [b EXCEPT !.tv_offset.pending = FALSE]
<1>1. a \in ArchiverState /\ FileCount(a)
  BY DEF Typed, TypeOK, ArchiverState, CountIsOfFile, FileCount
<1>2. arc' \in {a, Closed(a), b, d} \cup Opened(b)
  BY DEF Write, Open
<1>3. b \in ArchiverState /\ FileCount(b) /\ FileCount(Closed(a))
  <2> HIDE DEF a
  <2> QED
    BY <1>1, FileCounts, FileType
<1>4. FileCount(d) /\ \A x \in Opened(b) : FileCount(x)
  <2> HIDE DEF b
  <2> QED
    BY <1>3, FileCounts DEF FileCount, ArchiverState
<1>5. FileCount(arc')
  <2> HIDE DEF a, b, d
  <2> QED
    BY <1>1, <1>2, <1>3, <1>4
<1> QED
  BY <1>5 DEF CountIsOfFile, FileCount

LEMMA StepCount == Typed /\ CountIsOfFile /\ [Next]_vars => CountIsOfFile'
<1> SUFFICES ASSUME Typed, CountIsOfFile, [Next]_vars PROVE CountIsOfFile'
  OBVIOUS
<1>0. arc \in ArchiverState /\ FileCount(arc)
  BY DEF Typed, TypeOK, CountIsOfFile, FileCount
<1>1. ASSUME arc'.nrecorded = arc.nrecorded, arc'.records = arc.records
      PROVE  CountIsOfFile'
  BY <1>1 DEF CountIsOfFile
<1>2. CASE UNCHANGED vars
  BY <1>1, <1>2 DEF vars
<1>3. CASE User \/ Serve \/ Shutdown \/ Receive \/ Control
  <2>1. arc' = arc
    BY <1>3 DEF User, NewFrame, Configure, Command, Mark, TvOffset, Serve, Connect,
       TvOffsetDone, Shutdown, Receive, Control, Lock, AddFirst, CopyFirst, AddNext,
       Added, HandOver, SendFrame
  <2> QED
    BY <1>1, <2>1
<1>4. CASE TakeFrame \/ TakeNewFrame \/ TakeSampling \/ TakeFilter \/ TakeFileSize
            \/ TakeAddClient \/ TakeTvOffsetDone
  BY <1>0, <1>1, <1>4
     DEF TakeFrame, TakeNewFrame, TakeSampling, TakeFilter, TakeFileSize, TakeAddClient,
         TakeTvOffsetDone, ArchiverState
<1>5. CASE TakeChdir \/ TakeOpen \/ TakeClose \/ TakeFlush
  <2>1. Head(pipe).arg \in Nat
    BY <1>5, TakeType DEF Typed, TypeOK, TakeChdir, TakeOpen, TakeClose, TakeFlush, Message
  <2>2. /\ Entered(arc, Head(pipe).arg) \in ArchiverState
        /\ FileCount(Entered(arc, Head(pipe).arg))
    BY <1>0, <2>1, FileCounts, FileType
  <2>3. FileCount(arc')
    BY <1>0, <1>5, <2>2, FileCounts DEF TakeChdir, TakeOpen, TakeClose, TakeFlush, Open
  <2> QED
    BY <2>3 DEF CountIsOfFile, FileCount
<1>6. CASE TakeShutdown
  <2>1. Closed(arc) \in ArchiverState /\ FileCount(Closed(arc))
    BY <1>0, FileCounts, FileType
  <2> QED
    BY <1>6, <2>1 DEF TakeShutdown, ArchiverState, CountIsOfFile, FileCount
<1>7. CASE UpdateSampling \/ Save \/ TestMark \/ SendMark \/ SetMark \/ ReportFrame
  BY <1>0, <1>1, <1>7
     DEF UpdateSampling, Save, TestMark, SendMark, SetMark, ReportFrame, ArchiverState
<1>8. CASE Write
  BY <1>8, WriteCounts
<1> QED
  BY <1>2, <1>3, <1>4, <1>5, <1>6, <1>7, <1>8 DEF Next, Archive

(* A file is never taken for full on account of the records of another: of *)
(* the records that are counted, none was written to an earlier file.      *)
THEOREM CountKept == Spec => []CountIsOfFile
<1>1. Init => CountIsOfFile
  BY DEF Init, CountIsOfFile
<1> QED
  BY <1>1, InitType, StepType, StepCount, PTL DEF Spec

-----------------------------------------------------------------------------
(* The clients. A step that tells the settings it changes leaves every     *)
(* client with settings that are right or whose report it has missed.      *)

LEMMA SettingsKept ==
  /\ arc'.filter = arc.filter => Settings'["filter"] = Settings["filter"]
  /\ arc'.file_size = arc.file_size => Settings'["file_size"] = Settings["file_size"]
  /\ arc'.open = arc.open => Settings'["open"] = Settings["open"]
  /\ arc'.dir = arc.dir => Settings'["dir"] = Settings["dir"]
  /\ fb'.nframe = fb.nframe => Settings'["sampling"] = Settings["sampling"]
BY DEF Settings, SettingNames

(* The settings other than those of names stay as they are.                *)
Others(names) == \A s \in SettingNames \ names : Settings'[s] = Settings[s]

LEMMA OthersKept ==
  ASSUME NEW names,
         "filter" \in names \/ arc'.filter = arc.filter,
         "file_size" \in names \/ arc'.file_size = arc.file_size,
         "open" \in names \/ arc'.open = arc.open,
         "dir" \in names \/ arc'.dir = arc.dir,
         "sampling" \in names \/ fb'.nframe = fb.nframe
  PROVE  Others(names)
BY SettingsKept DEF Others, SettingNames

LEMMA Reported ==
  ASSUME NEW names \in SUBSET SettingNames, NEW listed, Report(names, listed), Others(names),
         \A s \in (SettingNames \ names) \ client.missed : client.view[s] = Settings[s]
  PROVE  ClientKnows'
<1>1. PICK lost \in SUBSET names :
        client' = [listed |-> listed,
                   view   |-> [s \in SettingNames |-> IF s \in names \ lost THEN Settings'[s]
                                                      ELSE client.view[s]],
                   missed |-> (client.missed \ names) \cup lost]
  BY DEF Report
<1>2. SUFFICES ASSUME NEW s \in SettingNames \ client'.missed
               PROVE  client'.view[s] = Settings'[s]
  BY DEF ClientKnows
<1>3. /\ client'.view[s] = IF s \in names \ lost THEN Settings'[s] ELSE client.view[s]
      /\ s \in names \ lost \/ (s \notin names /\ s \notin client.missed)
  BY <1>1
<1> QED
  BY <1>3 DEF Others

LEMMA Told ==
  ASSUME Typed, ClientKnows, NEW names \in SUBSET SettingNames, Tell(names), Others(names)
  PROVE  ClientKnows'
<1>1. CASE client.listed = 0
  BY <1>1 DEF Tell, ClientKnows
<1>2. CASE client.listed # 0
  <2>1. client.listed > 0
    BY <1>2 DEF Typed, TypeOK, ClientState
  <2>2. \A s \in (SettingNames \ names) \ client.missed : client.view[s] = Settings[s]
    BY <2>1 DEF ClientKnows
  <2> QED
    BY <1>2, <2>2, Reported DEF Tell
<1> QED
  BY <1>1, <1>2

LEMMA NotTold ==
  ASSUME ClientKnows, client' = client, Others({})
  PROVE  ClientKnows'
BY DEF ClientKnows, Others

LEMMA Names ==
  /\ {} \in SUBSET SettingNames /\ SettingNames \in SUBSET SettingNames
  /\ \A s \in SettingNames : {s} \in SUBSET SettingNames
  /\ \A d : Named(d) \cup {"open"} \in SUBSET SettingNames
  /\ \A d : Named(d) \in SUBSET SettingNames
  /\ "filter" \in SettingNames /\ "file_size" \in SettingNames /\ "open" \in SettingNames
  /\ "sampling" \in SettingNames
BY DEF Named, SettingNames

LEMMA FileSettings ==
  ASSUME NEW a \in ArchiverState
  PROVE  LET Kept(x) == x.filter = a.filter /\ x.file_size = a.file_size
         IN /\ Kept(Closed(a)) /\ Closed(a).dir = a.dir
            /\ \A x \in Opened(a) : Kept(x) /\ x.dir = a.dir
            /\ Kept(Recorded(a)) /\ Recorded(a).dir = a.dir /\ Recorded(a).open = a.open
            /\ \A d \in Nat : Kept(Entered(a, d)) /\ Entered(a, d).open = a.open
            /\ \A d \in Nat : "dir" \in Named(d) \/ Entered(a, d).dir = a.dir
<1> DEFINE Kept(x) == x.filter = a.filter /\ x.file_size = a.file_size
<1>1. Kept(Closed(a)) /\ Closed(a).dir = a.dir
  BY DEF Closed, ArchiverState
<1>2. LET x == [Closed(a) EXCEPT !.open = TRUE] IN Kept(x) /\ x.dir = a.dir
  BY DEF Closed, ArchiverState
<1>3. \A x \in Opened(a) : Kept(x) /\ x.dir = a.dir
  BY <1>1, <1>2 DEF Opened
<1>4. \A n, m : LET x == [a EXCEPT !.records = n, !.nrecorded = m]
                IN Kept(x) /\ x.dir = a.dir /\ x.open = a.open
  BY DEF ArchiverState
<1>5. Kept(Recorded(a)) /\ Recorded(a).dir = a.dir /\ Recorded(a).open = a.open
  BY <1>4 DEF Recorded
<1>6. \A d \in Nat : Kept(Entered(a, d)) /\ Entered(a, d).open = a.open
  BY DEF Entered, ArchiverState
<1>7. \A d \in Nat : "dir" \in Named(d) \/ Entered(a, d).dir = a.dir
  BY DEF Entered, Named
<1> QED
  BY <1>1, <1>3, <1>5, <1>6, <1>7

(* A file is opened, or not, from a state of the archiver that differs     *)
(* from the present one in the settings "names" at most.                   *)
LEMMA OpenTold ==
  ASSUME Typed, ClientKnows, fb' = fb, NEW a \in ArchiverState,
         NEW d \in Nat, Open(a, Named(d)),
         a.filter = arc.filter, a.file_size = arc.file_size, a.open = arc.open,
         "dir" \in Named(d) \/ a.dir = arc.dir
  PROVE  ClientKnows'
<1>1. CASE arc' \in Opened(a) /\ Tell(Named(d) \cup {"open"})
  <2>1. /\ arc'.filter = arc.filter /\ arc'.file_size = arc.file_size
        /\ arc'.dir = a.dir
    BY <1>1, FileSettings
  <2>2. Others(Named(d) \cup {"open"})
    BY <2>1, OthersKept
  <2> QED
    BY <1>1, <2>2, Names, Told
<1>2. CASE arc' = a /\ Tell(Named(d))
  <2>1. Others(Named(d))
    BY <1>2, OthersKept
  <2> QED
    BY <1>2, <2>1, Names, Told
<1> QED
  BY <1>1, <1>2 DEF Open

LEMMA WriteTold ==
  ASSUME Typed, ClientKnows, Write
  PROVE  ClientKnows'
<1> DEFINE a == [arc EXCEPT !.at = "select"]
           b == Recorded(a)
           d == [b EXCEPT !.tv_offset.pending = FALSE]
           Kept(x) == x.filter = arc.filter /\ x.file_size = arc.file_size /\ x.dir = arc.dir
<1>0. fb' = fb
  BY DEF Write, ArchiverOnly
<1>1. a \in ArchiverState /\ Kept(a) /\ a.open = arc.open
  BY DEF Typed, TypeOK, ArchiverState
<1>2. /\ b \in ArchiverState /\ Kept(b) /\ b.open = arc.open
      /\ Kept(Closed(a))
  <2> HIDE DEF a
  <2> QED
    BY <1>1, FileSettings, FileType
<1>3. Kept(d) /\ d.open = arc.open
  <2> HIDE DEF b
  <2> QED
    BY <1>2 DEF ArchiverState
<1>4. \/ arc' \in {a, b, d} /\ client' = client
      \/ arc' = Closed(a) /\ Tell({"open"})
      \/ Open(b, {})
  BY DEF Write
<1> HIDE DEF a, b, d
<1>5. CASE arc' \in {a, b, d} /\ client' = client
  <2>1. Kept(arc') /\ arc'.open = arc.open
    BY <1>1, <1>2, <1>3, <1>5
  <2>2. Others({})
    BY <1>0, <2>1, OthersKept
  <2> QED
    BY <1>5, <2>2, NotTold
<1>6. CASE arc' = Closed(a) /\ Tell({"open"})
  <2>1. Others({"open"})
    BY <1>0, <1>2, <1>6, OthersKept
  <2> QED
    BY <1>6, <2>1, Names, Told
<1>7. CASE Open(b, {})
  <2>1. 0 \in Nat /\ Open(b, Named(0))
    BY <1>7 DEF Named
  <2> QED
    BY <1>0, <1>2, <2>1, OpenTold
<1> QED
  BY <1>4, <1>5, <1>6, <1>7

LEMMA StepKnows == Typed /\ ClientKnows /\ [Next]_vars => ClientKnows'
<1> SUFFICES ASSUME Typed, ClientKnows, [Next]_vars PROVE ClientKnows'
  OBVIOUS
<1>0. arc \in ArchiverState /\ fb \in BufferState
  BY DEF Typed, TypeOK
<1>1. ASSUME client' = client, fb'.nframe = fb.nframe,
             arc'.filter = arc.filter, arc'.file_size = arc.file_size,
             arc'.open = arc.open, arc'.dir = arc.dir
      PROVE  ClientKnows'
  BY <1>1, OthersKept, NotTold
<1>2. CASE UNCHANGED vars
  BY <1>1, <1>2 DEF vars
<1>3. CASE User \/ TvOffsetDone \/ Shutdown \/ Receive \/ Control
  <2>1. arc' = arc /\ client' = client
    BY <1>3 DEF User, NewFrame, Configure, Command, Mark, TvOffset,
       TvOffsetDone, Shutdown, Receive, Control, Lock, AddFirst, CopyFirst, AddNext,
       Added, HandOver, SendFrame
  <2>2. fb'.nframe = fb.nframe
    BY <1>0, <1>3 DEF User, NewFrame, Configure, Command, Mark, TvOffset,
       TvOffsetDone, Shutdown, Receive, Control, Lock, AddFirst, CopyFirst, AddNext,
       Added, HandOver, SendFrame, BufferState
  <2> QED
    BY <1>1, <2>1, <2>2
<1>4. CASE Connect
  <2>1. client'.missed = SettingNames
    BY <1>4 DEF Connect, Typed, TypeOK, ClientState
  <2> QED
    BY <2>1 DEF ClientKnows
<1>5. CASE TakeFrame \/ TakeNewFrame \/ TakeSampling \/ TakeTvOffsetDone
  BY <1>0, <1>1, <1>5
     DEF TakeFrame, TakeNewFrame, TakeSampling, TakeTvOffsetDone, ArchiverState, BufferState
<1>6. CASE TakeFilter
  <2>1. Others({"filter"})
    BY <1>0, <1>6, OthersKept DEF TakeFilter, ArchiverState
  <2> QED
    BY <1>6, <2>1, Names, Told DEF TakeFilter
<1>7. CASE TakeFileSize
  <2>1. Others({"file_size"})
    BY <1>0, <1>7, OthersKept DEF TakeFileSize, ArchiverState
  <2> QED
    BY <1>7, <2>1, Names, Told DEF TakeFileSize
<1>8. CASE TakeAddClient
  BY <1>8, Names, Reported DEF TakeAddClient, Others
<1>9. CASE TakeChdir \/ TakeOpen
  <2>0. Head(pipe).arg \in Nat
    BY <1>9, TakeType DEF Typed, TypeOK, TakeChdir, TakeOpen, Message
  <2> DEFINE d == Head(pipe).arg
             e == Entered(arc, d)
  <2>1. /\ e \in ArchiverState /\ e.filter = arc.filter /\ e.file_size = arc.file_size
        /\ e.open = arc.open /\ ("dir" \in Named(d) \/ e.dir = arc.dir)
    BY <1>0, <2>0, FileSettings, FileType
  <2>2. fb' = fb
    BY <1>9 DEF TakeChdir, TakeOpen
  <2>3. CASE TakeChdir
    <3>1. arc' = e /\ Tell(Named(d))
      BY <2>3 DEF TakeChdir
    <3> HIDE DEF d, e
    <3>2. Others(Named(d))
      BY <2>1, <2>2, <3>1, OthersKept
    <3> QED
      BY <3>1, <3>2, Names, Told
  <2>4. CASE TakeOpen
    <3>1. Open(e, Named(d)) /\ d \in Nat
      BY <2>0, <2>4 DEF TakeOpen
    <3> HIDE DEF d, e
    <3> QED
      BY <2>1, <2>2, <3>1, OpenTold
  <2> QED
    BY <1>9, <2>3, <2>4
<1>10. CASE TakeClose \/ TakeFlush \/ TakeShutdown
  <2>1. /\ Closed(arc).filter = arc.filter /\ Closed(arc).file_size = arc.file_size
        /\ Closed(arc).dir = arc.dir /\ Closed(arc) \in ArchiverState
    BY <1>0, FileSettings, FileType
  <2>2. CASE UNCHANGED <<arc, fb, client>>
    BY <1>1, <2>2
  <2>3. CASE arc' \in {Closed(arc), [Closed(arc) EXCEPT !.at = "exited"]} /\ fb' = fb
             /\ Tell({"open"})
    <3>1. arc'.filter = arc.filter /\ arc'.file_size = arc.file_size /\ arc'.dir = arc.dir
      BY <2>1, <2>3 DEF ArchiverState
    <3>2. Others({"open"})
      BY <2>3, <3>1, OthersKept
    <3> QED
      BY <2>3, <3>2, Names, Told
  <2> QED
    BY <1>10, <2>2, <2>3 DEF TakeClose, TakeFlush, TakeShutdown
<1>11. CASE UpdateSampling
  <2>1. arc'.filter = arc.filter /\ arc'.file_size = arc.file_size /\ arc'.open = arc.open
        /\ arc'.dir = arc.dir
    BY <1>0, <1>11 DEF UpdateSampling, ArchiverState
  <2>2. Others({"sampling"})
    BY <2>1, OthersKept
  <2> QED
    BY <1>11, <2>2, Names, Told DEF UpdateSampling
<1>12. CASE Save \/ TestMark \/ SendMark \/ SetMark \/ ReportFrame
  <2>1. client' = client
    BY <1>12 DEF Save, TestMark, SendMark, SetMark, ReportFrame, Silently
  <2>2. fb'.nframe = fb.nframe
    BY <1>0, <1>12
       DEF Save, TestMark, SendMark, SetMark, ReportFrame, Silently, ArchiverOnly, BufferState
  <2>3. /\ arc'.filter = arc.filter /\ arc'.file_size = arc.file_size
        /\ arc'.open = arc.open /\ arc'.dir = arc.dir
    <3>1. CASE Save \/ TestMark \/ SendMark \/ SetMark
      BY <1>0, <3>1 DEF Save, TestMark, SendMark, SetMark, ArchiverState
    <3>2. CASE ReportFrame
      BY <1>0, <3>2 DEF ReportFrame, ArchiverState
    <3> QED
      BY <1>12, <3>1, <3>2
  <2> QED
    BY <1>1, <2>1, <2>2, <2>3
<1>13. CASE Write
  BY <1>13, WriteTold
<1> QED
  BY <1>2, <1>3, <1>4, <1>5, <1>6, <1>7, <1>8, <1>9, <1>10, <1>11, <1>12, <1>13
     DEF Next, Serve, Archive

(* A client that the archiver lists has been told every setting as it is,  *)
(* those that a failure changes included, except the settings whose last   *)
(* report found its reply pipe full.                                       *)
THEOREM ClientsTold == Spec => []ClientKnows
<1>1. Init => ClientKnows
  BY DEF Init, ClientKnows
<1> QED
  BY <1>1, InitType, StepType, StepKnows, PTL DEF Spec
=============================================================================
