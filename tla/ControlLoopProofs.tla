-------------------------- MODULE ControlLoopProofs --------------------------
(***************************************************************************)
(* Proofs about the event loop of the control thread, for any number of    *)
(* clients and any size of the pipes: that its state keeps its type, that  *)
(* no connection goes deaf, that an RTC is initialized before it is told   *)
(* anything else, and that the navigator and, as long as nothing is lost,  *)
(* the scheduler are on their way to know the truth. The handlers are made *)
(* of a few operators on the active list; each has a lemma that says what  *)
(* it does to the list and to the connections, and another what it leaves  *)
(* of the rest, and the steps cite those.                                  *)
(***************************************************************************)
EXTENDS ControlLoop, TLAPS

(* The part of TypeOK that the thread itself owns.                         *)
Good(S) == S \in LoopState /\ S.ahead \subseteq S.on \X S.on

(* Two states of the thread with the same connections; and, staged for the *)
(* scheduler or not, the same message in its buffer.                       *)
Linked(S, T) == T.slot = S.slot /\ T.rtc = S.rtc
Same(S, T)   == Linked(S, T) /\ T.schBuf = S.schBuf

-----------------------------------------------------------------------------
(* The active list.                                                        *)

(* A channel that is watched is in the list; the rest does not change.     *)
LEMMA WatchLemma ==
  ASSUME NEW S, Good(S), NEW x \in Aspect
  PROVE  Good(Watch(S, x)) /\ Same(S, Watch(S, x)) /\ Watch(S, x).on = S.on \cup {x}
  BY DEF Good, Same, Linked, Watch, LoopState

(* A channel that is no longer watched is not in the list.                 *)
LEMMA UnwatchLemma ==
  ASSUME NEW S, Good(S), NEW X
  PROVE  Good(Unwatch(S, X)) /\ Same(S, Unwatch(S, X)) /\ Unwatch(S, X).on = S.on \ X
<1>1. Unwatch(S, X).ahead \subseteq S.ahead
  BY DEF Unwatch, Good, LoopState
<1>2. Unwatch(S, X).on = S.on \ X
  BY DEF Unwatch, Good, LoopState
<1>3. Unwatch(S, X) \in LoopState /\ Same(S, Unwatch(S, X))
  BY DEF Unwatch, Good, LoopState, Same, Linked
<1>4. \A p \in Unwatch(S, X).ahead : p \in (S.on \ X) \X (S.on \ X)
  BY DEF Unwatch, Good, LoopState
<1> QED
  BY <1>1, <1>2, <1>3, <1>4 DEF Good

(* The sockets of the connected clients are aspects.                       *)
LEMMA ConnectedLemma == ASSUME NEW S PROVE Connected(S) \subseteq SockReads
  BY DEF Connected, SockReads

(* All connected clients are watched at once.                              *)
LEMMA WatchClientsLemma ==
  ASSUME NEW S, Good(S)
  PROVE  /\ Good(WatchClients(S)) /\ Same(S, WatchClients(S))
         /\ WatchClients(S).on = S.on \cup Connected(S)
<1> DEFINE X == Connected(S) \ S.on
           A == S.ahead \cup (S.on \X X) \cup {p \in X \X X : p[1][3] < p[2][3]}
<1>1. X \subseteq Aspect
  BY ConnectedLemma DEF Aspect
<1>2. A \subseteq (S.on \cup X) \X (S.on \cup X)
  BY DEF Good
<1>3. S.on \cup X = S.on \cup Connected(S)
  OBVIOUS
<1>4. S.on \cup X \subseteq Aspect
  BY <1>1 DEF Good, LoopState
<1>5. A \subseteq Aspect \X Aspect
  BY <1>2, <1>4
<1>6. WatchClients(S) = [S EXCEPT !.on = S.on \cup X, !.ahead = A]
  BY DEF WatchClients, Good, LoopState
<1> HIDE DEF X, A
<1> QED
  BY <1>2, <1>3, <1>4, <1>5, <1>6 DEF Good, Same, Linked, LoopState

(* The RTC is watched unless something is staged that it could overwrite.  *)
LEMMA WatchRtcLemma ==
  ASSUME NEW S, Good(S)
  PROVE  LET T == WatchRtcReadability(S) IN
         /\ Good(T) /\ Same(S, T)
         /\ S.on \subseteq T.on /\ T.on \subseteq S.on \cup {RtcRead}
         /\ S.rtc => {RtcRead, SchWrite, NavWrite} \cap T.on # {}
  BY WatchLemma DEF WatchRtcReadability, Aspect, Good, Same, Linked

(* The aspects that the properties speak of are told apart.                *)
LEMMA Distinct ==
  /\ \A i \in Slot : /\ SockRead(i) \in SockReads
                     /\ SockWrite(i) \notin SockReads /\ ReplyRead(i) \notin SockReads
                     /\ {SockRead(i), SockWrite(i), ReplyRead(i)} \cap
                        {RtcRead, RtcWrite, RtcPipeRead, SchWrite, NavWrite} = {}
  /\ \A i, j \in Slot : /\ SockRead(i) = SockRead(j) => i = j
                        /\ SockWrite(i) = SockWrite(j) => i = j
                        /\ ReplyRead(i) = ReplyRead(j) => i = j
                        /\ SockRead(i) # SockWrite(j) /\ SockRead(i) # ReplyRead(j)
                        /\ SockWrite(i) # ReplyRead(j)
  /\ {RtcRead, RtcWrite, RtcPipeRead, SchWrite, NavWrite} \cap SockReads = {}
  /\ RtcRead # RtcWrite /\ RtcRead # RtcPipeRead /\ RtcRead # SchWrite /\ RtcRead # NavWrite
  /\ RtcWrite # RtcPipeRead /\ RtcWrite # SchWrite /\ RtcWrite # NavWrite
  /\ RtcPipeRead # SchWrite /\ RtcPipeRead # NavWrite /\ SchWrite # NavWrite
  /\ \A i \in Slot : {SockRead(i), SockWrite(i), ReplyRead(i)} \subseteq Aspect
  /\ {RtcRead, RtcWrite, RtcPipeRead, SchWrite, NavWrite} \subseteq Aspect
  BY DEF SockReads, SockRead, SockWrite, ReplyRead, RtcRead, RtcWrite, RtcPipeRead,
         SchWrite, NavWrite, Aspect

-----------------------------------------------------------------------------
(* The fields that have nothing to do with the list.                       *)

LEMMA BufferLemma ==
  ASSUME NEW S, Good(S)
  PROVE  /\ \A m \in SchedulerMessage \cup {None} :
              LET T == [S EXCEPT !.schBuf = m] IN
              Good(T) /\ Linked(S, T) /\ T.schBuf = m /\ T.on = S.on
         /\ \A b \in BOOLEAN :
              LET T == [S EXCEPT !.navBuf = b] IN Good(T) /\ Same(S, T) /\ T.on = S.on
         /\ \A b \in BOOLEAN :
              LET T == [S EXCEPT !.online = b] IN Good(T) /\ Same(S, T) /\ T.on = S.on
         /\ \A c \in RtcCommand \cup {None} :
              LET T == [S EXCEPT !.rtcOut = c] IN Good(T) /\ Same(S, T) /\ T.on = S.on
         /\ \A q \in Seq(RtcCommand) :
              LET T == [S EXCEPT !.rtcPipe = q] IN Good(T) /\ Same(S, T) /\ T.on = S.on
         /\ \A q \in Seq(SchedulerMessage) :
              LET T == [S EXCEPT !.schPipe = q] IN Good(T) /\ Same(S, T) /\ T.on = S.on
         /\ \A q \in Seq(BOOLEAN) :
              LET T == [S EXCEPT !.navPipe = q] IN Good(T) /\ Same(S, T) /\ T.on = S.on
         /\ \A i \in Slot, u \in UserOrNone :
              LET T == [S EXCEPT !.out[i] = u] IN Good(T) /\ Same(S, T) /\ T.on = S.on
         /\ \A i \in Slot, q \in Seq(User) :
              LET T == [S EXCEPT !.reply[i] = q] IN Good(T) /\ Same(S, T) /\ T.on = S.on
<1>1. \A m \in SchedulerMessage \cup {None} :
        LET T == [S EXCEPT !.schBuf = m] IN
        Good(T) /\ Linked(S, T) /\ T.schBuf = m /\ T.on = S.on
  BY DEF Good, Same, Linked, LoopState
<1>2. \A b \in BOOLEAN :
        LET T == [S EXCEPT !.navBuf = b] IN
        Good(T) /\ Same(S, T) /\ T.on = S.on
  BY DEF Good, Same, Linked, LoopState
<1>3. \A b \in BOOLEAN :
        LET T == [S EXCEPT !.online = b] IN
        Good(T) /\ Same(S, T) /\ T.on = S.on
  BY DEF Good, Same, Linked, LoopState
<1>4. \A c \in RtcCommand \cup {None} :
        LET T == [S EXCEPT !.rtcOut = c] IN
        Good(T) /\ Same(S, T) /\ T.on = S.on
  BY DEF Good, Same, Linked, LoopState
<1>5. \A q \in Seq(RtcCommand) :
        LET T == [S EXCEPT !.rtcPipe = q] IN
        Good(T) /\ Same(S, T) /\ T.on = S.on
  BY DEF Good, Same, Linked, LoopState
<1>6. \A q \in Seq(SchedulerMessage) :
        LET T == [S EXCEPT !.schPipe = q] IN
        Good(T) /\ Same(S, T) /\ T.on = S.on
  BY DEF Good, Same, Linked, LoopState
<1>7. \A q \in Seq(BOOLEAN) :
        LET T == [S EXCEPT !.navPipe = q] IN
        Good(T) /\ Same(S, T) /\ T.on = S.on
  BY DEF Good, Same, Linked, LoopState
<1>8. \A i \in Slot, u \in UserOrNone :
        LET T == [S EXCEPT !.out[i] = u] IN
        Good(T) /\ Same(S, T) /\ T.on = S.on
  BY DEF Good, Same, Linked, LoopState
<1>9. \A i \in Slot, q \in Seq(User) :
        LET T == [S EXCEPT !.reply[i] = q] IN
        Good(T) /\ Same(S, T) /\ T.on = S.on
  BY DEF Good, Same, Linked, LoopState
<1> QED
  BY <1>1, <1>2, <1>3, <1>4, <1>5, <1>6, <1>7, <1>8, <1>9

(* The messages are messages.                                              *)
LEMMA MessageLemma ==
  /\ \A u \in User, i \in Slot : Command(u, i) \in SchedulerMessage
  /\ \A i \in Slot : AddClient(i) \in SchedulerMessage /\ RemClient(i) \in SchedulerMessage
  /\ \A b \in BOOLEAN : RtcState(b) \in SchedulerMessage
  /\ RtcNetMsg \in SchedulerMessage
  BY DEF Command, AddClient, RemClient, RtcState, RtcNetMsg, SchedulerMessage

(* A full pipe stays as it is.                                             *)
LEMMA QueuedLemma ==
  ASSUME NEW T, NEW q \in Seq(T), NEW m \in T
  PROVE  Queued(q, m) \in Seq(T)
  BY DEF Queued

(* What a pipe holds, and what is left of it.                              *)
LEMMA TailLemma ==
  ASSUME NEW T, NEW q \in Seq(T), q # <<>>
  PROVE  Tail(q) \in Seq(T)
  OBVIOUS

LEMMA HeadLemma ==
  ASSUME NEW T, NEW q \in Seq(T), q # <<>>
  PROVE  Head(q) \in T
  OBVIOUS

LEMMA SendLemma ==
  ASSUME NEW S, Good(S), NEW m \in SchedulerMessage
  PROVE  LET T == SendScheduler(S, m) IN Good(T) /\ Same(S, T) /\ T.on = S.on
<1>1. S.schPipe \in Seq(SchedulerMessage)
  BY DEF Good, LoopState
<1>2. Queued(S.schPipe, m) \in Seq(SchedulerMessage)
  BY <1>1, QueuedLemma
<1>3. SendScheduler(S, m) = [S EXCEPT !.schPipe = Queued(S.schPipe, m)]
  BY DEF SendScheduler
<1> QED
  BY <1>2, <1>3, BufferLemma

(* The scheduler is told, or the logger has refused and it is not.         *)
LEMMA AnnouncedLemma ==
  ASSUME NEW S, Good(S), NEW m \in SchedulerMessage, NEW T \in Announced(S, m)
  PROVE  Good(T) /\ Same(S, T) /\ T.on = S.on
<1>1. CASE T = SendScheduler(S, m)
  BY <1>1, SendLemma
<1>2. CASE T = S
  BY <1>2 DEF Same, Linked
<1> QED
  BY <1>1, <1>2 DEF Announced

(* Staging a message for the scheduler: no client is watched, nor the RTC. *)
LEMMA AddSchedulerLemma ==
  ASSUME NEW S, Good(S)
  PROVE  LET T == AddSchedulerChannel(S) IN
         /\ Good(T) /\ Same(S, T)
         /\ T.on = (S.on \cup {SchWrite}) \ (Connected(S) \cup {RtcRead})
<1>1. LET T == Watch(S, SchWrite) IN Good(T) /\ Same(S, T) /\ T.on = S.on \cup {SchWrite}
  BY WatchLemma, Distinct
<1>2. Connected(Watch(S, SchWrite)) = Connected(S)
  BY <1>1 DEF Connected, Same, Linked
<1> QED
  BY <1>1, <1>2, UnwatchLemma DEF AddSchedulerChannel, Same, Linked

LEMMA AddNavigatorLemma ==
  ASSUME NEW S, Good(S)
  PROVE  LET T == AddNavigatorChannel(S) IN
         Good(T) /\ Same(S, T) /\ T.on = (S.on \cup {NavWrite}) \ {RtcRead}
<1>1. LET T == Watch(S, NavWrite) IN Good(T) /\ Same(S, T) /\ T.on = S.on \cup {NavWrite}
  BY WatchLemma, Distinct
<1> QED
  BY <1>1, UnwatchLemma DEF AddNavigatorChannel, Same, Linked

(* A message has been sent: all clients are watched again, and the RTC if  *)
(* nothing else is staged.                                                 *)
LEMMA RemSchedulerLemma ==
  ASSUME NEW S, Good(S)
  PROVE  LET T == RemSchedulerChannel(S) IN
         /\ Good(T) /\ Same(S, T)
         /\ (S.on \ {SchWrite}) \cup Connected(S) \subseteq T.on
         /\ T.on \subseteq (S.on \ {SchWrite}) \cup Connected(S) \cup {RtcRead}
         /\ S.rtc => {RtcRead, SchWrite, NavWrite} \cap T.on # {}
<1> DEFINE U == Unwatch(S, {SchWrite})
           W == WatchClients(U)
<1>1. Good(U) /\ Same(S, U) /\ U.on = S.on \ {SchWrite}
  BY UnwatchLemma
<1>2. Connected(U) = Connected(S)
  BY <1>1 DEF Connected, Same, Linked
<1>3. Good(W) /\ Same(U, W) /\ W.on = U.on \cup Connected(U)
  BY <1>1, WatchClientsLemma
<1>4. RemSchedulerChannel(S) = WatchRtcReadability(W)
  BY DEF RemSchedulerChannel
<1> HIDE DEF U, W
<1> QED
  BY <1>1, <1>2, <1>3, <1>4, WatchRtcLemma DEF Same, Linked

LEMMA RemNavigatorLemma ==
  ASSUME NEW S, Good(S)
  PROVE  LET T == RemNavigatorChannel(S) IN
         /\ Good(T) /\ Same(S, T)
         /\ S.on \ {NavWrite} \subseteq T.on /\ T.on \subseteq S.on \cup {RtcRead}
         /\ S.rtc => {RtcRead, SchWrite, NavWrite} \cap T.on # {}
<1>1. LET U == Unwatch(S, {NavWrite}) IN Good(U) /\ Same(S, U) /\ U.on = S.on \ {NavWrite}
  BY UnwatchLemma
<1> QED
  BY <1>1, WatchRtcLemma DEF RemNavigatorChannel, Same, Linked

(* The state of the RTC is staged for both threads.                        *)
LEMMA RecordLemma ==
  ASSUME NEW S, Good(S), NEW b \in BOOLEAN
  PROVE  LET T == RecordRtcStatus(S, b) IN
         /\ Good(T) /\ Linked(S, T) /\ T.schBuf \in SchedulerMessage
         /\ T.on = (S.on \cup {SchWrite, NavWrite}) \ (Connected(S) \cup {RtcRead})
<1> DEFINE A == [S EXCEPT !.online = b]
           B == [A EXCEPT !.schBuf = RtcState(b)]
           C == AddSchedulerChannel(B)
           D == [C EXCEPT !.navBuf = b]
<1>1. Good(A) /\ Same(S, A) /\ A.on = S.on
  BY BufferLemma
<1>2. Good(B) /\ Linked(A, B) /\ B.schBuf = RtcState(b) /\ B.on = A.on
  BY <1>1, BufferLemma, MessageLemma
<1>3. Connected(B) = Connected(S)
  BY <1>1, <1>2 DEF Connected, Same, Linked
<1>4. Good(C) /\ Same(B, C) /\ C.on = (B.on \cup {SchWrite}) \ (Connected(S) \cup {RtcRead})
  BY <1>2, <1>3, AddSchedulerLemma
<1>5. Good(D) /\ Same(C, D) /\ D.on = C.on
  BY <1>4, BufferLemma
<1>6. RecordRtcStatus(S, b) = AddNavigatorChannel(D)
  BY DEF RecordRtcStatus
<1>7. NavWrite \notin Connected(S)
  BY ConnectedLemma, Distinct
<1> HIDE DEF A, B, C, D
<1>8. LET T == RecordRtcStatus(S, b) IN
      Good(T) /\ Same(D, T) /\ T.on = (D.on \cup {NavWrite}) \ {RtcRead}
  BY <1>5, <1>6, AddNavigatorLemma
<1> QED
  BY <1>1, <1>2, <1>4, <1>5, <1>7, <1>8, Distinct, MessageLemma DEF Same, Linked

(* The connection to the RTC is closed: the scheduler is told, and the     *)
(* pipe of the RTC is watched.                                             *)
LEMMA CloseRtcLemma ==
  ASSUME NEW S, Good(S)
  PROVE  LET T == CloseRtc(S) IN
         /\ Good(T) /\ T.slot = S.slot /\ ~T.rtc /\ T.schBuf \in SchedulerMessage
         /\ T.on = ((S.on \ (Connected(S) \cup {RtcRead, RtcWrite}))
                      \cup {SchWrite, NavWrite, RtcPipeRead})
<1> DEFINE U == Unwatch(S, {RtcRead, RtcWrite})
           V == [U EXCEPT !.rtc = FALSE]
           W == [V EXCEPT !.rtcOut = None]
           R == RecordRtcStatus(W, FALSE)
<1>1. Good(U) /\ Same(S, U) /\ U.on = S.on \ {RtcRead, RtcWrite}
  BY UnwatchLemma
<1>2. Good(V) /\ V.slot = U.slot /\ ~V.rtc /\ V.on = U.on
  BY <1>1 DEF Good, LoopState
<1>3. Good(W) /\ Same(V, W) /\ W.on = V.on
  BY <1>2, BufferLemma
<1>4. Connected(W) = Connected(S)
  BY <1>1, <1>2, <1>3 DEF Connected, Same, Linked
<1>5. CloseRtc(S) = Watch(R, RtcPipeRead)
  BY DEF CloseRtc, RtcCond
<1> HIDE DEF U, V, W
<1>6. /\ Good(R) /\ Linked(W, R) /\ R.schBuf \in SchedulerMessage
      /\ R.on = (W.on \cup {SchWrite, NavWrite}) \ (Connected(S) \cup {RtcRead})
  BY <1>3, <1>4, RecordLemma
<1> HIDE DEF R
<1>7. /\ Good(CloseRtc(S)) /\ Same(R, CloseRtc(S))
      /\ CloseRtc(S).on = R.on \cup {RtcPipeRead}
  BY <1>5, <1>6, WatchLemma, Distinct
<1>8. {SchWrite, NavWrite, RtcPipeRead} \cap (Connected(S) \cup {RtcRead, RtcWrite}) = {}
  BY ConnectedLemma, Distinct
<1> QED
  BY <1>1, <1>2, <1>3, <1>6, <1>7, <1>8, Distinct DEF Same, Linked

(* A client is gone: its socket is not watched, nor anything else changed. *)
LEMMA CloseClientLemma ==
  ASSUME NEW S, Good(S), NEW i \in Slot, NEW T \in CloseClient(S, i)
  PROVE  /\ Good(T) /\ T.slot = [S.slot EXCEPT ![i] = None] /\ T.rtc = S.rtc
         /\ T.schBuf = S.schBuf /\ T.on = S.on \ {SockRead(i), SockWrite(i)}
<1> DEFINE U == Unwatch(S, {SockRead(i), SockWrite(i)})
           V == [U EXCEPT !.slot[i] = None]
           W == [V EXCEPT !.out[i] = None]
<1>1. Good(U) /\ Same(S, U) /\ U.on = S.on \ {SockRead(i), SockWrite(i)}
  BY UnwatchLemma
<1>2. /\ Good(V) /\ V.slot = [U.slot EXCEPT ![i] = None]
      /\ V.rtc = U.rtc /\ V.schBuf = U.schBuf /\ V.on = U.on
  BY <1>1 DEF Good, LoopState, UserOrNone
<1>3. Good(W) /\ Same(V, W) /\ W.on = V.on
  <2>1. None \in UserOrNone
    BY DEF UserOrNone
  <2> HIDE DEF V
  <2> QED
    BY <1>2, <2>1, BufferLemma
<1>4. T \in Announced(W, RemClient(i))
  BY DEF CloseClient
<1> HIDE DEF U, V, W
<1>5. Good(T) /\ Same(W, T) /\ T.on = W.on
  BY <1>3, <1>4, AnnouncedLemma, MessageLemma
<1> QED
  BY <1>1, <1>2, <1>3, <1>5 DEF Same, Linked

-----------------------------------------------------------------------------
(* The invariant: the two halves of NobodyDeaf for any state of the        *)
(* thread, and what keeps its type when a message is staged or sent.       *)

Heard(S) ==
  /\ \A i \in Slot : S.slot[i] # None =>
                      /\ {SockRead(i), SchWrite} \cap S.on # {}
                      /\ {ReplyRead(i), SockWrite(i)} \cap S.on # {}
  /\ S.rtc => /\ {RtcRead, SchWrite, NavWrite} \cap S.on # {}
              /\ {RtcPipeRead, RtcWrite} \cap S.on # {}

Sound(S) == /\ Good(S)
            /\ Heard(S)
            /\ SchWrite \in S.on => S.schBuf \in SchedulerMessage
            /\ \A i \in Slot : SockRead(i) \in S.on => S.slot[i] # None

(* What is neither read from a client or the RTC nor staged.               *)
Others == {ReplyRead(i) : i \in Slot} \cup {SockWrite(i) : i \in Slot} \cup {RtcPipeRead, RtcWrite}

LEMMA OthersLemma ==
  /\ Others \cap (SockReads \cup {RtcRead, SchWrite, NavWrite}) = {}
  /\ \A i \in Slot : ReplyRead(i) \in Others /\ SockWrite(i) \in Others
  /\ SockReads \cap {RtcRead, SchWrite, NavWrite} = {}
  /\ SchWrite # RtcRead /\ SchWrite # NavWrite /\ NavWrite # RtcRead
  BY DEF Others, SockReads, SockRead, SockWrite, ReplyRead, RtcRead, RtcWrite, RtcPipeRead,
         SchWrite, NavWrite

(* A channel is in the list when it is served, and what it reads is there. *)
LEMMA ReadyLemma ==
  /\ \A i \in Slot : IsFirst(ReplyRead(i)) => cp.reply[i] # <<>>
  /\ IsFirst(RtcPipeRead) => cp.rtcPipe # <<>>
  /\ \A x : IsFirst(x) => x \in cp.on
<1>1. ASSUME NEW i \in Slot, IsFirst(ReplyRead(i)) PROVE cp.reply[i] # <<>>
  <2>1. Ready(ReplyRead(i))
    BY <1>1 DEF IsFirst
  <2>2. ReplyRead(i)[1] = "reply" /\ ReplyRead(i)[3] = i
    BY DEF ReplyRead
  <2> QED
    BY <2>1, <2>2 DEF Ready
<1>2. ASSUME IsFirst(RtcPipeRead) PROVE cp.rtcPipe # <<>>
  <2>1. Ready(RtcPipeRead)
    BY <1>2 DEF IsFirst
  <2>2. RtcPipeRead[1] = "rtcpipe"
    BY DEF RtcPipeRead
  <2> QED
    BY <2>1, <2>2 DEF Ready
<1> QED
  BY <1>1, <1>2 DEF IsFirst

(* Taking a channel from the list, before it is served.                    *)
LEMMA ServedLemma ==
  ASSUME Sound(cp), NEW x
  PROVE  Good(Served(x)) /\ Same(cp, Served(x)) /\ Served(x).on = cp.on \ {x}
  BY UnwatchLemma DEF Sound, Served

(* A message for the scheduler has been staged: that is all a connection   *)
(* needs in order to be heard again.                                       *)
LEMMA StagedLemma ==
  ASSUME Sound(cp), NEW T, Good(T), T.slot = cp.slot,
         T.rtc => {RtcPipeRead, RtcWrite} \cap T.on # {},
         SchWrite \in T.on, T.schBuf \in SchedulerMessage,
         T.on \cap SockReads \subseteq cp.on,
         Others \cap cp.on \subseteq T.on \cup {RtcPipeRead, RtcWrite}
  PROVE  Sound(T)
<1>1. ASSUME NEW i \in Slot, T.slot[i] # None
      PROVE  /\ {SockRead(i), SchWrite} \cap T.on # {}
             /\ {ReplyRead(i), SockWrite(i)} \cap T.on # {}
  <2>1. {ReplyRead(i), SockWrite(i)} \cap cp.on # {}
    BY <1>1 DEF Sound, Heard
  <2>2. {ReplyRead(i), SockWrite(i)} \cap {RtcPipeRead, RtcWrite} = {}
    BY Distinct
  <2> QED
    BY <2>1, <2>2, OthersLemma
<1>2. ASSUME NEW i \in Slot, SockRead(i) \in T.on PROVE T.slot[i] # None
  BY <1>2, Distinct DEF Sound
<1> QED
  BY <1>1, <1>2 DEF Sound, Heard

LEMMA ClientCommandSound ==
  ASSUME Sound(cp), NEW i \in Slot, ClientCommand(i) PROVE Sound(cp')
<1> DEFINE S == Served(SockRead(i))
           T == [S EXCEPT !.schBuf = Command(cp.slot[i], i)]
<1>1. Good(S) /\ Same(cp, S) /\ S.on = cp.on \ {SockRead(i)}
  BY ServedLemma
<1>2. Command(cp.slot[i], i) \in SchedulerMessage
  <2>1. SockRead(i) \in cp.on
    BY ReadyLemma DEF ClientCommand
  <2>2. cp.slot[i] \in User
    BY <2>1 DEF Sound, Good, LoopState, UserOrNone
  <2> QED
    BY <2>2, MessageLemma
<1>3. /\ Good(T) /\ Linked(S, T) /\ T.on = S.on
      /\ T.schBuf = Command(cp.slot[i], i)
  BY <1>1, <1>2, BufferLemma
<1>4. cp' = AddSchedulerChannel(T)
  BY DEF ClientCommand
<1> HIDE DEF S, T
<1>5. /\ Good(cp') /\ Same(T, cp')
      /\ cp'.on = (T.on \cup {SchWrite}) \ (Connected(T) \cup {RtcRead})
  BY <1>3, <1>4, AddSchedulerLemma
<1>6. Connected(T) \subseteq SockReads
  BY ConnectedLemma
<1>7. cp'.slot = cp.slot /\ cp'.rtc = cp.rtc /\ cp'.schBuf \in SchedulerMessage
  BY <1>1, <1>2, <1>3, <1>5 DEF Same, Linked
<1>8. SockRead(i) \in SockReads
  BY Distinct
<1>9. /\ SchWrite \in cp'.on
      /\ cp'.on \cap SockReads \subseteq cp.on
      /\ Others \cap cp.on \subseteq cp'.on
  BY <1>1, <1>3, <1>5, <1>6, <1>8, OthersLemma
<1>10. cp'.rtc => {RtcPipeRead, RtcWrite} \cap cp'.on # {}
  BY <1>7, <1>9 DEF Sound, Heard, Others
<1> QED
  BY <1>5, <1>7, <1>9, <1>10, StagedLemma

(* Nothing is staged, and what served the connections still does.          *)
LEMMA KeepLemma ==
  ASSUME Sound(cp), NEW T, Good(T), Same(cp, T),
         T.on \cap SockReads \subseteq cp.on,
         SockReads \cap cp.on \subseteq T.on,
         SchWrite \in T.on <=> SchWrite \in cp.on,
         \A i \in Slot : T.slot[i] # None => {ReplyRead(i), SockWrite(i)} \cap T.on # {},
         T.rtc => /\ {RtcRead, SchWrite, NavWrite} \cap T.on # {}
                  /\ {RtcPipeRead, RtcWrite} \cap T.on # {}
  PROVE  Sound(T)
<1>1. T.slot = cp.slot /\ T.rtc = cp.rtc /\ T.schBuf = cp.schBuf
  BY DEF Same, Linked
<1>2. ASSUME NEW i \in Slot, T.slot[i] # None PROVE {SockRead(i), SchWrite} \cap T.on # {}
  BY <1>1, <1>2, Distinct DEF Sound, Heard
<1>3. ASSUME NEW i \in Slot, SockRead(i) \in T.on PROVE T.slot[i] # None
  BY <1>1, <1>3, Distinct DEF Sound
<1> QED
  BY <1>1, <1>2, <1>3 DEF Sound, Heard

(* The same list, whatever becomes of the pipes.                           *)
LEMMA SameListLemma ==
  ASSUME Sound(cp), NEW T, Good(T), Same(cp, T), T.on = cp.on
  PROVE  Sound(T)
  BY DEF Sound, Heard, Same, Linked

LEMMA ClientGoneSound ==
  ASSUME Sound(cp), NEW i \in Slot, NEW x \in {SockRead(i), SockWrite(i)},
         cp' \in CloseClient(Served(x), i)
  PROVE  Sound(cp')
<1> DEFINE S == Served(x)
<1>1. Good(S) /\ Same(cp, S) /\ S.on = cp.on \ {x}
  BY ServedLemma
<1> HIDE DEF S
<1>2. /\ Good(cp') /\ cp'.slot = [S.slot EXCEPT ![i] = None] /\ cp'.rtc = S.rtc
      /\ cp'.schBuf = S.schBuf /\ cp'.on = S.on \ {SockRead(i), SockWrite(i)}
  BY <1>1, CloseClientLemma DEF S
<1>3. /\ cp'.on = cp.on \ {SockRead(i), SockWrite(i)} /\ cp'.schBuf = cp.schBuf
      /\ cp'.rtc = cp.rtc
  BY <1>1, <1>2 DEF Same, Linked
<1>4. cp.slot \in [Slot -> UserOrNone]
  BY DEF Sound, Good, LoopState
<1>5. \A j \in Slot : cp'.slot[j] = IF j = i THEN None ELSE cp.slot[j]
  BY <1>1, <1>2, <1>4 DEF Same, Linked
<1>6. \A j \in Slot \ {i} :
        {SockRead(j), SockWrite(j), ReplyRead(j)} \cap {SockRead(i), SockWrite(i)} = {}
  BY Distinct
<1>7. {SchWrite, RtcRead, NavWrite, RtcPipeRead, RtcWrite}
        \cap {SockRead(i), SockWrite(i)} = {}
  BY Distinct
<1>8. ASSUME NEW j \in Slot, cp'.slot[j] # None
      PROVE  /\ {SockRead(j), SchWrite} \cap cp'.on # {}
             /\ {ReplyRead(j), SockWrite(j)} \cap cp'.on # {}
  <2>1. j # i /\ cp.slot[j] # None
    BY <1>5, <1>8
  <2>2. /\ {SockRead(j), SchWrite} \cap cp.on # {}
        /\ {ReplyRead(j), SockWrite(j)} \cap cp.on # {}
    BY <2>1 DEF Sound, Heard
  <2> QED
    BY <1>3, <1>6, <1>7, <2>1, <2>2
<1>9. cp'.rtc => /\ {RtcRead, SchWrite, NavWrite} \cap cp'.on # {}
                 /\ {RtcPipeRead, RtcWrite} \cap cp'.on # {}
  <2>1. cp.rtc => /\ {RtcRead, SchWrite, NavWrite} \cap cp.on # {}
                  /\ {RtcPipeRead, RtcWrite} \cap cp.on # {}
    BY DEF Sound, Heard
  <2> QED
    BY <1>3, <1>7, <2>1
<1>10. ASSUME NEW j \in Slot, SockRead(j) \in cp'.on PROVE cp'.slot[j] # None
  BY <1>3, <1>5, <1>10 DEF Sound
<1> QED
  BY <1>2, <1>3, <1>8, <1>9, <1>10 DEF Sound, Heard

LEMMA ReplyReceivedSound ==
  ASSUME Sound(cp), NEW i \in Slot, ReplyReceived(i) PROVE Sound(cp')
<1> DEFINE S == Served(ReplyRead(i))
           T == [S EXCEPT !.reply[i] = Tail(S.reply[i])]
           V == [T EXCEPT !.out[i] = Head(cp.reply[i])]
<1>1. Good(S) /\ Same(cp, S) /\ S.on = cp.on \ {ReplyRead(i)}
  BY ServedLemma
<1>2. cp.reply[i] \in Seq(User) /\ S.reply[i] = cp.reply[i] /\ cp.reply[i] # <<>>
  BY ReadyLemma DEF ReplyReceived, Sound, Good, LoopState, Served, Unwatch
<1>3. Tail(S.reply[i]) \in Seq(User) /\ Head(cp.reply[i]) \in UserOrNone
  BY <1>2 DEF UserOrNone
<1>4. cp' = IF cp.slot[i] = None THEN T ELSE Watch(V, SockWrite(i))
  BY DEF ReplyReceived
<1> HIDE DEF S
<1>5. Good(T) /\ Same(S, T) /\ T.on = S.on
  <2>1. \A q \in Seq(User) :
          LET U == [S EXCEPT !.reply[i] = q] IN Good(U) /\ Same(S, U) /\ U.on = S.on
    BY <1>1, BufferLemma
  <2> QED
    BY <1>3, <2>1
<1> HIDE DEF T
<1>6. Good(V) /\ Same(T, V) /\ V.on = T.on
  <2>1. \A u \in UserOrNone :
          LET U == [T EXCEPT !.out[i] = u] IN Good(U) /\ Same(T, U) /\ U.on = T.on
    BY <1>5, BufferLemma
  <2> QED
    BY <1>3, <2>1
<1> HIDE DEF V
<1>7. /\ Good(cp') /\ Same(cp, cp')
      /\ cp'.on = (cp.on \ {ReplyRead(i)})
                     \cup (IF cp.slot[i] = None THEN {} ELSE {SockWrite(i)})
  <2>1. CASE cp.slot[i] = None
    BY <1>1, <1>4, <1>5, <2>1 DEF Same, Linked
  <2>2. CASE cp.slot[i] # None
    <3>1. SockWrite(i) \in Aspect
      BY Distinct
    <3>2. cp' = Watch(V, SockWrite(i))
      BY <1>4, <2>2
    <3>3. Good(cp') /\ Same(V, cp') /\ cp'.on = V.on \cup {SockWrite(i)}
      BY <1>6, <3>1, <3>2, WatchLemma
    <3> QED
      BY <1>1, <1>5, <1>6, <2>2, <3>3 DEF Same, Linked
  <2> QED
    BY <2>1, <2>2
<1>8. ASSUME NEW j \in Slot, cp'.slot[j] # None
      PROVE  {ReplyRead(j), SockWrite(j)} \cap cp'.on # {}
  <2>1. cp.slot[j] # None /\ {ReplyRead(j), SockWrite(j)} \cap cp.on # {}
    BY <1>7, <1>8 DEF Sound, Heard, Same, Linked
  <2>2. ReplyRead(j) = ReplyRead(i) => j = i
    BY Distinct
  <2>3. SockWrite(j) # ReplyRead(i)
    BY Distinct
  <2> QED
    BY <1>7, <2>1, <2>2, <2>3
<1>9. {ReplyRead(i), SockWrite(i)}
        \cap (SockReads \cup {SchWrite, RtcRead, NavWrite, RtcPipeRead, RtcWrite}) = {}
  BY DEF SockReads, SockRead, SockWrite, ReplyRead, RtcRead, RtcWrite, RtcPipeRead,
         SchWrite, NavWrite
<1>10. /\ cp'.on \cap SockReads \subseteq cp.on /\ SockReads \cap cp.on \subseteq cp'.on
       /\ SchWrite \in cp'.on <=> SchWrite \in cp.on
       /\ {RtcRead, SchWrite, NavWrite, RtcPipeRead, RtcWrite} \cap cp.on \subseteq cp'.on
  BY <1>7, <1>9
<1>11. cp'.rtc => /\ {RtcRead, SchWrite, NavWrite} \cap cp'.on # {}
                  /\ {RtcPipeRead, RtcWrite} \cap cp'.on # {}
  BY <1>7, <1>10 DEF Sound, Heard, Same, Linked
<1> QED
  BY <1>7, <1>8, <1>10, <1>11, KeepLemma

LEMMA ReplySentSound ==
  ASSUME Sound(cp), NEW i \in Slot, ReplySent(i) PROVE Sound(cp')
<1> DEFINE S == Served(SockWrite(i))
           T == [S EXCEPT !.out[i] = None]
<1>1. Good(S) /\ Same(cp, S) /\ S.on = cp.on \ {SockWrite(i)}
  BY ServedLemma
<1>2. cp' = Watch(T, ReplyRead(i))
  BY DEF ReplySent
<1> HIDE DEF S
<1>3. Good(T) /\ Same(S, T) /\ T.on = S.on
  <2>1. \A u \in UserOrNone :
          LET U == [S EXCEPT !.out[i] = u] IN Good(U) /\ Same(S, U) /\ U.on = S.on
    BY <1>1, BufferLemma
  <2> QED
    BY <2>1 DEF UserOrNone
<1> HIDE DEF T
<1>4. Good(cp') /\ Same(T, cp') /\ cp'.on = T.on \cup {ReplyRead(i)}
  <2>1. ReplyRead(i) \in Aspect
    BY Distinct
  <2> QED
    BY <1>2, <1>3, <2>1, WatchLemma
<1>5. Good(cp') /\ Same(cp, cp') /\ cp'.on = (cp.on \ {SockWrite(i)}) \cup {ReplyRead(i)}
  BY <1>1, <1>3, <1>4 DEF Same, Linked
<1>6. ASSUME NEW j \in Slot, cp'.slot[j] # None
      PROVE  {ReplyRead(j), SockWrite(j)} \cap cp'.on # {}
  <2>1. cp.slot[j] # None /\ {ReplyRead(j), SockWrite(j)} \cap cp.on # {}
    BY <1>5, <1>6 DEF Sound, Heard, Same, Linked
  <2>2. SockWrite(j) = SockWrite(i) => j = i
    BY Distinct
  <2>3. ReplyRead(j) # SockWrite(i)
    BY Distinct
  <2> QED
    BY <1>5, <2>1, <2>2, <2>3
<1>7. {ReplyRead(i), SockWrite(i)}
        \cap (SockReads \cup {SchWrite, RtcRead, NavWrite, RtcPipeRead, RtcWrite}) = {}
  BY DEF SockReads, SockRead, SockWrite, ReplyRead, RtcRead, RtcWrite, RtcPipeRead,
         SchWrite, NavWrite
<1>8. /\ cp'.on \cap SockReads \subseteq cp.on /\ SockReads \cap cp.on \subseteq cp'.on
      /\ SchWrite \in cp'.on <=> SchWrite \in cp.on
      /\ {RtcRead, SchWrite, NavWrite, RtcPipeRead, RtcWrite} \cap cp.on \subseteq cp'.on
  BY <1>5, <1>7
<1>9. cp'.rtc => /\ {RtcRead, SchWrite, NavWrite} \cap cp'.on # {}
                 /\ {RtcPipeRead, RtcWrite} \cap cp'.on # {}
  BY <1>5, <1>8 DEF Sound, Heard, Same, Linked
<1> QED
  BY <1>5, <1>6, <1>8, <1>9, KeepLemma

(* The RTC's side of the list: as long as one of its two channels for      *)
(* output is in it, the clients are not concerned.                         *)
LEMMA RtcOnlyLemma ==
  ASSUME Sound(cp), NEW T, Good(T), Same(cp, T),
         cp.on \ {RtcRead, NavWrite, RtcPipeRead, RtcWrite} \subseteq T.on,
         T.on \subseteq cp.on \cup {RtcRead, NavWrite, RtcPipeRead, RtcWrite},
         T.rtc => /\ {RtcRead, SchWrite, NavWrite} \cap T.on # {}
                  /\ {RtcPipeRead, RtcWrite} \cap T.on # {}
  PROVE  Sound(T)
<1>1. {RtcRead, NavWrite, RtcPipeRead, RtcWrite} \cap (SockReads \cup {SchWrite}) = {}
  BY DEF SockReads, SockRead, RtcRead, RtcWrite, RtcPipeRead, SchWrite, NavWrite
<1>2. \A i \in Slot : {RtcRead, NavWrite, RtcPipeRead, RtcWrite}
                        \cap {ReplyRead(i), SockWrite(i)} = {}
  BY DEF SockWrite, ReplyRead, RtcRead, RtcWrite, RtcPipeRead, NavWrite
<1>3. ASSUME NEW i \in Slot, T.slot[i] # None
      PROVE  {ReplyRead(i), SockWrite(i)} \cap T.on # {}
  <2>1. {ReplyRead(i), SockWrite(i)} \cap cp.on # {}
    BY <1>3 DEF Sound, Heard, Same, Linked
  <2> QED
    BY <1>2, <2>1
<1>4. /\ T.on \cap SockReads \subseteq cp.on /\ SockReads \cap cp.on \subseteq T.on
      /\ SchWrite \in T.on <=> SchWrite \in cp.on
  BY <1>1
<1> QED
  BY <1>3, <1>4, KeepLemma

(* The connection to the RTC is lost while a channel of it is served.      *)
LEMMA RtcLostSound ==
  ASSUME Sound(cp), NEW x \in {RtcRead, RtcWrite}, cp' = CloseRtc(Served(x))
  PROVE  Sound(cp')
<1> DEFINE S == Served(x)
<1>1. Good(S) /\ Same(cp, S) /\ S.on = cp.on \ {x}
  BY ServedLemma
<1> HIDE DEF S
<1>2. /\ Good(cp') /\ cp'.slot = S.slot /\ ~cp'.rtc /\ cp'.schBuf \in SchedulerMessage
      /\ cp'.on = ((S.on \ (Connected(S) \cup {RtcRead, RtcWrite}))
                     \cup {SchWrite, NavWrite, RtcPipeRead})
  BY <1>1, CloseRtcLemma DEF S
<1>3. {RtcPipeRead, RtcWrite} \cap (SockReads \cup {SchWrite, NavWrite}) = {}
  BY DEF SockReads, SockRead, RtcWrite, RtcPipeRead, SchWrite, NavWrite
<1>4. /\ SchWrite \in cp'.on /\ cp'.on \cap SockReads \subseteq cp.on
      /\ Others \cap cp.on \subseteq cp'.on \cup {RtcPipeRead, RtcWrite}
  BY <1>1, <1>2, <1>3, OthersLemma, ConnectedLemma
<1> QED
  BY <1>1, <1>2, <1>4, StagedLemma DEF Same, Linked

LEMMA RtcReceivedSound == ASSUME Sound(cp), RtcReceived PROVE Sound(cp')
<1> DEFINE S == Served(RtcRead)
<1>1. Good(S) /\ Same(cp, S) /\ S.on = cp.on \ {RtcRead}
  BY ServedLemma
<1>2. RtcRead \in cp.on
  BY ReadyLemma DEF RtcReceived
<1>3. CASE cp' = Watch(S, RtcRead)
  <2>1. Good(cp') /\ Same(S, cp') /\ cp'.on = S.on \cup {RtcRead}
    BY <1>1, <1>3, WatchLemma, Distinct
  <2>2. Good(cp') /\ Same(cp, cp') /\ cp'.on = cp.on
    BY <1>1, <1>2, <2>1 DEF Same, Linked
  <2> QED
    BY <2>2, SameListLemma
<1>4. CASE cp' = CloseRtc(S)
  BY <1>4, RtcLostSound
<1>5. CASE cp' = Watch(AddNavigatorChannel([S EXCEPT !.navBuf = TRUE]), RtcRead)
  <2> DEFINE T == [S EXCEPT !.navBuf = TRUE]
             U == AddNavigatorChannel(T)
  <2> HIDE DEF S
  <2>1. Good(T) /\ Same(S, T) /\ T.on = S.on
    BY <1>1, BufferLemma
  <2> HIDE DEF T
  <2>2. Good(U) /\ Same(T, U) /\ U.on = (T.on \cup {NavWrite}) \ {RtcRead}
    BY <2>1, AddNavigatorLemma
  <2> HIDE DEF U
  <2>3. Good(cp') /\ Same(U, cp') /\ cp'.on = U.on \cup {RtcRead}
    BY <1>5, <2>2, WatchLemma, Distinct DEF T, U
  <2>4. Good(cp') /\ Same(cp, cp') /\ cp'.on = cp.on \cup {NavWrite, RtcRead}
    BY <1>1, <1>2, <2>1, <2>2, <2>3 DEF Same, Linked
  <2>5. cp'.rtc => {RtcPipeRead, RtcWrite} \cap cp'.on # {}
    BY <2>4 DEF Sound, Heard, Same, Linked
  <2> QED
    BY <2>4, <2>5, RtcOnlyLemma
<1>6. CASE cp' = AddSchedulerChannel([S EXCEPT !.schBuf = RtcNetMsg])
  <2> DEFINE T == [S EXCEPT !.schBuf = RtcNetMsg]
  <2> HIDE DEF S
  <2>1. Good(T) /\ Linked(S, T) /\ T.schBuf = RtcNetMsg /\ T.on = S.on
    BY <1>1, BufferLemma, MessageLemma
  <2> HIDE DEF T
  <2>2. /\ Good(cp') /\ Same(T, cp')
        /\ cp'.on = (T.on \cup {SchWrite}) \ (Connected(T) \cup {RtcRead})
    BY <1>6, <2>1, AddSchedulerLemma DEF T
  <2>3. /\ cp'.slot = cp.slot /\ cp'.rtc = cp.rtc /\ cp'.schBuf \in SchedulerMessage
    BY <1>1, <2>1, <2>2, MessageLemma DEF Same, Linked
  <2>4. /\ SchWrite \in cp'.on /\ cp'.on \cap SockReads \subseteq cp.on
        /\ Others \cap cp.on \subseteq cp'.on
    BY <1>1, <2>1, <2>2, OthersLemma, ConnectedLemma
  <2>5. cp'.rtc => {RtcPipeRead, RtcWrite} \cap cp'.on # {}
    BY <2>3, <2>4 DEF Sound, Heard, Others
  <2> QED
    BY <2>2, <2>3, <2>4, <2>5, StagedLemma
<1> QED
  BY <1>3, <1>4, <1>5, <1>6 DEF RtcReceived

LEMMA RtcSentSound == ASSUME Sound(cp), RtcSent PROVE Sound(cp')
<1> DEFINE S == Served(RtcWrite)
           T == [S EXCEPT !.rtcOut = None]
<1>1. Good(S) /\ Same(cp, S) /\ S.on = cp.on \ {RtcWrite}
  BY ServedLemma
<1>2. cp' = Watch(T, RtcPipeRead)
  BY DEF RtcSent
<1> HIDE DEF S
<1>3. Good(T) /\ Same(S, T) /\ T.on = S.on
  BY <1>1, BufferLemma
<1> HIDE DEF T
<1>4. Good(cp') /\ Same(T, cp') /\ cp'.on = T.on \cup {RtcPipeRead}
  BY <1>2, <1>3, WatchLemma, Distinct
<1>5. Good(cp') /\ Same(cp, cp') /\ cp'.on = (cp.on \ {RtcWrite}) \cup {RtcPipeRead}
  BY <1>1, <1>3, <1>4 DEF Same, Linked
<1>6. cp'.rtc => {RtcRead, SchWrite, NavWrite} \cap cp'.on # {}
  BY <1>5, Distinct DEF Sound, Heard, Same, Linked
<1> QED
  BY <1>5, <1>6, RtcOnlyLemma

LEMMA RtcPipeReceivedSound == ASSUME Sound(cp), RtcPipeReceived PROVE Sound(cp')
<1> DEFINE S == Served(RtcPipeRead)
           T == [S EXCEPT !.rtcPipe = Tail(S.rtcPipe)]
           V == [T EXCEPT !.rtcOut = Head(cp.rtcPipe)]
<1>1. Good(S) /\ Same(cp, S) /\ S.on = cp.on \ {RtcPipeRead}
  BY ServedLemma
<1>2. cp.rtcPipe \in Seq(RtcCommand) /\ S.rtcPipe = cp.rtcPipe /\ cp.rtcPipe # <<>>
  BY ReadyLemma DEF RtcPipeReceived, Sound, Good, LoopState, Served, Unwatch
<1>3. Tail(S.rtcPipe) \in Seq(RtcCommand) /\ Head(cp.rtcPipe) \in RtcCommand
  BY <1>2
<1>4. cp' = IF cp.rtc THEN Watch(V, RtcWrite) ELSE Watch(T, RtcPipeRead)
  BY DEF RtcPipeReceived
<1> HIDE DEF S
<1>5. Good(T) /\ Same(S, T) /\ T.on = S.on
  BY <1>1, <1>3, BufferLemma
<1> HIDE DEF T
<1>6. Good(V) /\ Same(T, V) /\ V.on = T.on
  BY <1>3, <1>5, BufferLemma
<1> HIDE DEF V
<1>7. /\ Good(cp') /\ Same(cp, cp')
      /\ cp'.on = (cp.on \ {RtcPipeRead})
                    \cup {IF cp.rtc THEN RtcWrite ELSE RtcPipeRead}
  <2>1. CASE cp.rtc
    <3>1. Good(cp') /\ Same(V, cp') /\ cp'.on = V.on \cup {RtcWrite}
      BY <1>4, <1>6, <2>1, WatchLemma, Distinct
    <3> QED
      BY <1>1, <1>5, <1>6, <2>1, <3>1 DEF Same, Linked
  <2>2. CASE ~cp.rtc
    <3>1. Good(cp') /\ Same(T, cp') /\ cp'.on = T.on \cup {RtcPipeRead}
      BY <1>4, <1>5, <2>2, WatchLemma, Distinct
    <3> QED
      BY <1>1, <1>5, <2>2, <3>1 DEF Same, Linked
  <2> QED
    BY <2>1, <2>2
<1>8. cp'.rtc => /\ {RtcRead, SchWrite, NavWrite} \cap cp'.on # {}
                 /\ {RtcPipeRead, RtcWrite} \cap cp'.on # {}
  BY <1>7, Distinct DEF Sound, Heard, Same, Linked
<1> QED
  BY <1>7, <1>8, RtcOnlyLemma

(* The message has gone: whoever was held back by it is watched again.     *)
LEMMA SchedulerSentSound == ASSUME Sound(cp), SchedulerSent PROVE Sound(cp')
<1> DEFINE S == Served(SchWrite)
           T == [S EXCEPT !.schPipe = Append(S.schPipe, cp.schBuf)]
           V == [T EXCEPT !.schBuf = None]
<1>1. Good(S) /\ Same(cp, S) /\ S.on = cp.on \ {SchWrite}
  BY ServedLemma
<1>2. cp.schBuf \in SchedulerMessage
  BY ReadyLemma DEF SchedulerSent, Sound
<1>3. Append(S.schPipe, cp.schBuf) \in Seq(SchedulerMessage)
  BY <1>1, <1>2 DEF Good, LoopState
<1>4. cp' = RemSchedulerChannel(V)
  BY DEF SchedulerSent
<1> HIDE DEF S
<1>5. Good(T) /\ Same(S, T) /\ T.on = S.on
  BY <1>1, <1>3, BufferLemma
<1> HIDE DEF T
<1>6. Good(V) /\ Linked(T, V) /\ V.on = T.on
  BY <1>5, BufferLemma
<1> HIDE DEF V
<1>7. /\ Good(cp') /\ Same(V, cp')
      /\ (V.on \ {SchWrite}) \cup Connected(V) \subseteq cp'.on
      /\ cp'.on \subseteq (V.on \ {SchWrite}) \cup Connected(V) \cup {RtcRead}
      /\ V.rtc => {RtcRead, SchWrite, NavWrite} \cap cp'.on # {}
  BY <1>4, <1>6, RemSchedulerLemma
<1>8. cp'.slot = cp.slot /\ cp'.rtc = cp.rtc /\ V.slot = cp.slot /\ V.rtc = cp.rtc
  BY <1>1, <1>5, <1>6, <1>7 DEF Same, Linked
<1>9. /\ (cp.on \ {SchWrite}) \cup Connected(cp) \subseteq cp'.on
      /\ cp'.on \subseteq (cp.on \ {SchWrite}) \cup Connected(cp) \cup {RtcRead}
  BY <1>1, <1>5, <1>6, <1>7, <1>8 DEF Connected
<1>10. SchWrite \notin cp'.on
  BY <1>9, ConnectedLemma, OthersLemma
<1>11. ASSUME NEW i \in Slot, cp'.slot[i] # None
       PROVE  /\ {SockRead(i), SchWrite} \cap cp'.on # {}
              /\ {ReplyRead(i), SockWrite(i)} \cap cp'.on # {}
  <2>1. SockRead(i) \in Connected(cp)
    BY <1>8, <1>11 DEF Connected
  <2>2. {ReplyRead(i), SockWrite(i)} \cap cp.on # {}
    BY <1>8, <1>11 DEF Sound, Heard
  <2> QED
    BY <1>9, <2>1, <2>2, Distinct
<1>12. cp'.rtc => /\ {RtcRead, SchWrite, NavWrite} \cap cp'.on # {}
                  /\ {RtcPipeRead, RtcWrite} \cap cp'.on # {}
  BY <1>7, <1>8, <1>9, Distinct DEF Sound, Heard
<1>13. ASSUME NEW i \in Slot, SockRead(i) \in cp'.on PROVE cp'.slot[i] # None
  <2>1. SockRead(i) \in cp.on \cup Connected(cp)
    BY <1>9, <1>13, Distinct
  <2> QED
    BY <1>8, <2>1, Distinct DEF Sound, Connected
<1> QED
  BY <1>7, <1>10, <1>11, <1>12, <1>13 DEF Sound, Heard

LEMMA NavigatorSentSound == ASSUME Sound(cp), NavigatorSent PROVE Sound(cp')
<1> DEFINE S == Served(NavWrite)
           T == [S EXCEPT !.navPipe = Append(S.navPipe, cp.navBuf)]
<1>1. Good(S) /\ Same(cp, S) /\ S.on = cp.on \ {NavWrite}
  BY ServedLemma
<1>2. Append(S.navPipe, cp.navBuf) \in Seq(BOOLEAN)
  BY <1>1 DEF Good, LoopState, Sound
<1>3. cp' = RemNavigatorChannel(T)
  BY DEF NavigatorSent
<1> HIDE DEF S
<1>4. Good(T) /\ Same(S, T) /\ T.on = S.on
  BY <1>1, <1>2, BufferLemma
<1> HIDE DEF T
<1>5. /\ Good(cp') /\ Same(T, cp')
      /\ T.on \ {NavWrite} \subseteq cp'.on /\ cp'.on \subseteq T.on \cup {RtcRead}
      /\ T.rtc => {RtcRead, SchWrite, NavWrite} \cap cp'.on # {}
  BY <1>3, <1>4, RemNavigatorLemma
<1>6. /\ Same(cp, cp') /\ cp.on \ {NavWrite} \subseteq cp'.on /\ cp'.on \subseteq cp.on \cup {RtcRead}
      /\ cp'.rtc => {RtcRead, SchWrite, NavWrite} \cap cp'.on # {}
  BY <1>1, <1>4, <1>5 DEF Same, Linked
<1>7. cp'.rtc => {RtcPipeRead, RtcWrite} \cap cp'.on # {}
  BY <1>6, Distinct DEF Sound, Heard, Same, Linked
<1> QED
  BY <1>5, <1>6, <1>7, RtcOnlyLemma

(* A new client: its socket and the pipe of its replies are watched.       *)
LEMMA ConnectControlClientSound ==
  ASSUME Sound(cp), ConnectControlClient PROVE Sound(cp')
<1>1. CASE FreeSlots = {}
  <2>1. cp' = cp
    BY <1>1 DEF ConnectControlClient
  <2> QED
    BY <2>1
<1>2. CASE FreeSlots # {}
  <2>1. PICK u \in User, i \in Slot :
          LET S == [cp EXCEPT !.slot[i] = u, !.reply[i] = <<>>] IN
          cp' \in Announced(Watch(Watch(S, SockRead(i)), ReplyRead(i)), AddClient(i))
    BY <1>2 DEF ConnectControlClient, Knocking, FreeSlots
  <2> DEFINE R == [cp EXCEPT !.slot[i] = u]
             S == [R EXCEPT !.reply[i] = <<>>]
             T == Watch(S, SockRead(i))
             V == Watch(T, ReplyRead(i))
  <2>2. /\ Good(R) /\ R.slot = [cp.slot EXCEPT ![i] = u] /\ R.rtc = cp.rtc
        /\ R.schBuf = cp.schBuf /\ R.on = cp.on
    BY DEF Sound, Good, LoopState, UserOrNone
  <2>3. cp' \in Announced(V, AddClient(i))
    BY <2>1
  <2> HIDE DEF R
  <2>4. Good(S) /\ Same(R, S) /\ S.on = R.on
    <3>1. \A q \in Seq(User) :
            LET U == [R EXCEPT !.reply[i] = q] IN Good(U) /\ Same(R, U) /\ U.on = R.on
      BY <2>2, BufferLemma
    <3>2. <<>> \in Seq(User)
      OBVIOUS
    <3> QED
      BY <3>1, <3>2
  <2> HIDE DEF S
  <2>5. Good(T) /\ Same(S, T) /\ T.on = S.on \cup {SockRead(i)}
    <3>1. SockRead(i) \in Aspect
      BY Distinct
    <3> QED
      BY <2>4, <3>1, WatchLemma
  <2> HIDE DEF T
  <2>6. Good(V) /\ Same(T, V) /\ V.on = T.on \cup {ReplyRead(i)}
    <3>1. ReplyRead(i) \in Aspect
      BY Distinct
    <3> QED
      BY <2>5, <3>1, WatchLemma
  <2> HIDE DEF V
  <2>7. Good(cp') /\ Same(V, cp') /\ cp'.on = V.on
    BY <2>3, <2>6, AnnouncedLemma, MessageLemma
  <2>8. /\ cp'.slot = [cp.slot EXCEPT ![i] = u] /\ cp'.rtc = cp.rtc
        /\ cp'.schBuf = cp.schBuf /\ cp'.on = cp.on \cup {SockRead(i), ReplyRead(i)}
    BY <2>2, <2>4, <2>5, <2>6, <2>7 DEF Same, Linked
  <2>9. \A j \in Slot : cp'.slot[j] = IF j = i THEN u ELSE cp.slot[j]
    BY <2>8 DEF Sound, Good, LoopState
  <2>10. ASSUME NEW j \in Slot, cp'.slot[j] # None
         PROVE  /\ {SockRead(j), SchWrite} \cap cp'.on # {}
                /\ {ReplyRead(j), SockWrite(j)} \cap cp'.on # {}
    <3>1. CASE j = i
      BY <2>8, <3>1
    <3>2. CASE j # i
      BY <2>8, <2>9, <2>10, <3>2 DEF Sound, Heard
    <3> QED
      BY <3>1, <3>2
  <2>11. cp'.rtc => /\ {RtcRead, SchWrite, NavWrite} \cap cp'.on # {}
                    /\ {RtcPipeRead, RtcWrite} \cap cp'.on # {}
    BY <2>8 DEF Sound, Heard
  <2>12. SchWrite \in cp'.on => cp'.schBuf \in SchedulerMessage
    BY <2>8, Distinct DEF Sound
  <2>13. ASSUME NEW j \in Slot, SockRead(j) \in cp'.on PROVE cp'.slot[j] # None
    <3>1. CASE j = i
      BY <2>9, <3>1, NoneAssumption
    <3>2. CASE j # i
      <4>1. SockRead(j) # SockRead(i) /\ SockRead(j) # ReplyRead(i)
        BY <3>2, Distinct
      <4>2. SockRead(j) \in cp.on
        BY <2>8, <2>13, <4>1
      <4> QED
        BY <2>9, <3>2, <4>2 DEF Sound
    <3> QED
      BY <3>1, <3>2
  <2> QED
    BY <2>7, <2>10, <2>11, <2>12, <2>13 DEF Sound, Heard
<1> QED
  BY <1>1, <1>2

(* An RTC that connects takes the place of one that is still connected;    *)
(* its pipe is not watched until it has been greeted.                      *)
LEMMA ConnectControllerSound == ASSUME Sound(cp), ConnectController PROVE Sound(cp')
<1> DEFINE S == IF cp.rtc THEN CloseRtc(cp) ELSE cp
           Q == [S EXCEPT !.rtc = TRUE]
           T == WatchRtcReadability(Q)
           G == [T EXCEPT !.rtcOut = "INIT"]
           U == Watch(G, RtcWrite)
           W == Unwatch(U, {RtcPipeRead})
           V == [W EXCEPT !.rtcPipe = <<>>]
<1> DEFINE L == {RtcRead, RtcWrite, RtcPipeRead, SchWrite, NavWrite}
<1>1. Good(S) /\ S.slot = cp.slot /\ S.on \subseteq cp.on \cup L
      /\ cp.on \subseteq S.on \cup SockReads \cup L
  <2>1. CASE cp.rtc
    <3>1. /\ Good(CloseRtc(cp)) /\ CloseRtc(cp).slot = cp.slot
          /\ CloseRtc(cp).on = ((cp.on \ (Connected(cp) \cup {RtcRead, RtcWrite}))
                                  \cup {SchWrite, NavWrite, RtcPipeRead})
      BY CloseRtcLemma DEF Sound
    <3> QED
      BY <2>1, <3>1, ConnectedLemma
  <2>2. CASE ~cp.rtc
    BY <2>2 DEF Sound
  <2> QED
    BY <2>1, <2>2
<1>2. cp' = RecordRtcStatus(V, TRUE)
  BY DEF ConnectController
<1> HIDE DEF S
<1>3. Good(Q) /\ Q.slot = S.slot /\ Q.on = S.on
  BY <1>1 DEF Good, LoopState
<1> HIDE DEF Q
<1>4. Good(T) /\ Same(Q, T) /\ Q.on \subseteq T.on /\ T.on \subseteq Q.on \cup {RtcRead}
  BY <1>3, WatchRtcLemma
<1> HIDE DEF T
<1>5. Good(G) /\ Same(T, G) /\ G.on = T.on
  BY <1>4, BufferLemma DEF RtcCommand
<1> HIDE DEF G
<1>6. Good(U) /\ Same(G, U) /\ U.on = G.on \cup {RtcWrite}
  BY <1>5, WatchLemma, Distinct
<1> HIDE DEF U
<1>7. Good(W) /\ Same(U, W) /\ W.on = U.on \ {RtcPipeRead}
  BY <1>6, UnwatchLemma
<1> HIDE DEF W
<1>8. Good(V) /\ Same(W, V) /\ V.on = W.on
  <2>1. <<>> \in Seq(RtcCommand)
    OBVIOUS
  <2> QED
    BY <1>7, <2>1, BufferLemma
<1> HIDE DEF V
<1>9. /\ Good(cp') /\ Linked(V, cp') /\ cp'.schBuf \in SchedulerMessage
      /\ cp'.on = (V.on \cup {SchWrite, NavWrite}) \ (Connected(V) \cup {RtcRead})
  BY <1>2, <1>8, RecordLemma
<1>10. cp'.slot = cp.slot
  BY <1>1, <1>3, <1>4, <1>5, <1>6, <1>7, <1>8, <1>9 DEF Same, Linked
<1>11. V.on \subseteq cp.on \cup L /\ RtcWrite \in V.on
       /\ cp.on \subseteq V.on \cup SockReads \cup L
  BY <1>1, <1>3, <1>4, <1>5, <1>6, <1>7, <1>8, Distinct
<1>12. L \cap SockReads = {} /\ Others \cap {RtcRead, SchWrite, NavWrite} = {}
       /\ Others \cap SockReads = {}
  BY OthersLemma, Distinct
<1>13. SchWrite \in cp'.on /\ RtcWrite \in cp'.on
  BY <1>9, <1>11, ConnectedLemma, Distinct
<1>14. cp'.on \cap SockReads \subseteq cp.on
  BY <1>9, <1>11, <1>12
<1>15. Others \cap cp.on \subseteq cp'.on \cup {RtcPipeRead, RtcWrite}
  BY <1>9, <1>11, <1>12, ConnectedLemma
<1> QED
  BY <1>9, <1>10, <1>13, <1>14, <1>15, StagedLemma

-----------------------------------------------------------------------------
(* The other threads only take messages from their pipes and fill others.  *)

LEMMA SchedulerThreadSound == ASSUME Sound(cp), SchedulerThread PROVE Sound(cp')
<1> DEFINE m == Head(cp.schPipe)
           S == [cp EXCEPT !.schPipe = Tail(cp.schPipe)]
<1>1. cp.schPipe \in Seq(SchedulerMessage) /\ cp.schPipe # <<>>
  BY DEF SchedulerThread, Sound, Good, LoopState
<1>2. Tail(cp.schPipe) \in Seq(SchedulerMessage) /\ m \in SchedulerMessage
  BY <1>1
<1>3. Good(S) /\ Same(cp, S) /\ S.on = cp.on
  BY <1>2, BufferLemma DEF Sound
<1>4. CASE Execute(m)
  <2>1. PICK q \in {cp.rtcPipe} \cup {Queued(cp.rtcPipe, c) : c \in ForRtc} :
          cp' = [cp EXCEPT !.schPipe = Tail(@), !.rtcPipe = q,
                           !.reply[m.slot] = Queued(@, m.user)]
    BY <1>4 DEF Execute
  <2> DEFINE T == [S EXCEPT !.rtcPipe = q]
             r == Queued(cp.reply[m.slot], m.user)
  <2>2. m.slot \in Slot /\ m.user \in User
    BY <1>2, <1>4 DEF Execute, SchedulerMessage
  <2>3. q \in Seq(RtcCommand)
    <3>1. cp.rtcPipe \in Seq(RtcCommand)
      BY DEF Sound, Good, LoopState
    <3>2. \A c \in ForRtc : Queued(cp.rtcPipe, c) \in Seq(RtcCommand)
      BY <3>1, QueuedLemma, InputAssumption DEF RtcCommand
    <3> QED
      BY <2>1, <3>1, <3>2
  <2>4. r \in Seq(User)
    <3>1. cp.reply[m.slot] \in Seq(User)
      BY <2>2 DEF Sound, Good, LoopState
    <3> QED
      BY <2>2, <3>1, QueuedLemma
  <2>5. cp' = [T EXCEPT !.reply[m.slot] = r]
    BY <2>1
  <2> HIDE DEF S
  <2>6. Good(T) /\ Same(S, T) /\ T.on = S.on
    BY <1>3, <2>3, BufferLemma
  <2> HIDE DEF T, r, m
  <2>7. Good(cp') /\ Same(T, cp') /\ cp'.on = T.on
    <3>1. \A v \in Seq(User) :
            LET U == [T EXCEPT !.reply[m.slot] = v] IN Good(U) /\ Same(T, U) /\ U.on = T.on
      BY <2>2, <2>6, BufferLemma
    <3> QED
      BY <2>4, <2>5, <3>1
  <2> QED
    BY <1>3, <2>6, <2>7, SameListLemma DEF Same, Linked
<1>5. CASE Adopt(m)
  <2>1. cp' = S
    BY <1>5 DEF Adopt
  <2> QED
    BY <1>3, <2>1, SameListLemma
<1> QED
  BY <1>4, <1>5 DEF SchedulerThread

LEMMA NavigatorThreadSound == ASSUME Sound(cp), NavigatorThread PROVE Sound(cp')
<1> DEFINE S == [cp EXCEPT !.navPipe = Tail(cp.navPipe)]
           q == IF Head(cp.navPipe) THEN Queued(cp.rtcPipe, "SITE") ELSE cp.rtcPipe
<1>1. cp.navPipe \in Seq(BOOLEAN) /\ cp.navPipe # <<>> /\ cp.rtcPipe \in Seq(RtcCommand)
  BY DEF NavigatorThread, Sound, Good, LoopState
<1>2. Tail(cp.navPipe) \in Seq(BOOLEAN)
  BY <1>1, TailLemma
<1>3. q \in Seq(RtcCommand)
  BY <1>1, QueuedLemma DEF RtcCommand
<1>4. Good(S) /\ Same(cp, S) /\ S.on = cp.on
  BY <1>2, BufferLemma DEF Sound
<1>5. cp' = [S EXCEPT !.rtcPipe = q]
  BY DEF NavigatorThread
<1> HIDE DEF S, q
<1>6. Good(cp') /\ Same(S, cp') /\ cp'.on = S.on
  BY <1>3, <1>4, <1>5, BufferLemma
<1> QED
  BY <1>4, <1>6, SameListLemma DEF Same, Linked

-----------------------------------------------------------------------------
(* The theorems.                                                           *)

LEMMA WorldSame == ASSUME World PROVE cp' = cp
  BY DEF World

LEMMA InitSound == ASSUME Init PROVE Sound(cp)
<1>1. cp.on = {} /\ cp.ahead = {} /\ cp.rtc = FALSE /\ cp.slot = [i \in Slot |-> None]
  BY DEF Init
<1>2. cp \in LoopState
  <2>1. <<>> \in Seq(User) /\ <<>> \in Seq(SchedulerMessage) /\ <<>> \in Seq(BOOLEAN)
        /\ <<>> \in Seq(RtcCommand)
    OBVIOUS
  <2> QED
    BY <2>1 DEF Init, LoopState, UserOrNone
<1> QED
  BY <1>1, <1>2 DEF Sound, Good, Heard

LEMMA NextSound == ASSUME Sound(cp), [Next]_vars PROVE Sound(cp')
<1>1. CASE Serve
  <2>1. ASSUME NEW i \in Slot, ClientClosed(i) PROVE Sound(cp')
    BY <2>1, ClientGoneSound DEF ClientClosed
  <2>2. ASSUME NEW i \in Slot, ReplyFailed(i) PROVE Sound(cp')
    BY <2>2, ClientGoneSound DEF ReplyFailed
  <2>3. CASE RtcClosed
    BY <2>3, RtcLostSound DEF RtcClosed
  <2>4. CASE RtcFailed
    BY <2>4, RtcLostSound DEF RtcFailed
  <2> QED
    BY <1>1, <2>1, <2>2, <2>3, <2>4, ClientCommandSound, ReplyReceivedSound, ReplySentSound,
       RtcReceivedSound, RtcSentSound, RtcPipeReceivedSound, SchedulerSentSound,
       NavigatorSentSound, ConnectControlClientSound, ConnectControllerSound DEF Serve
<1>2. CASE World \/ UNCHANGED vars
  BY <1>2, WorldSame DEF vars
<1> QED
  BY <1>1, <1>2, SchedulerThreadSound, NavigatorThreadSound DEF Next

(* No connection of a client or of the RTC goes deaf, for any number of    *)
(* clients and any size of the pipes: a channel that the loop does not     *)
(* watch waits for another that it does.                                   *)
THEOREM NobodyIsDeaf == Spec => []NobodyDeaf
<1>1. Init => Sound(cp)
  BY InitSound
<1>2. Sound(cp) /\ [Next]_vars => Sound(cp)'
  BY NextSound
<1>3. Sound(cp) => NobodyDeaf
  BY DEF Sound, Heard, NobodyDeaf, ClientHeard, RtcHeard
<1> QED
  BY <1>1, <1>2, <1>3, PTL DEF Spec

-----------------------------------------------------------------------------
(* The types of what the thread does not own.                              *)

UserType == [User -> [at : {"out", "knocks", "in", "left"}, sent : BOOLEAN]]

Typed ==
  /\ sch \in [online : BOOLEAN, listed : [Slot -> Nat]]
  /\ nav \in [online : BOOLEAN]
  /\ user \in UserType
  /\ peer \in [knocks : BOOLEAN, up : BOOLEAN, in : Seq(RtcMessages),
               greeted : BOOLEAN, site : BOOLEAN]
  /\ events \in [moves : Nat, messages : Nat]

(* Wherever a client moves, and whatever it sends, it is one still.        *)
LEMMA UserMoved ==
  ASSUME user \in UserType, NEW u, NEW a \in {"out", "knocks", "in", "left"},
         user' = [user EXCEPT ![u].at = a]
  PROVE  user' \in UserType
  BY DEF UserType

LEMMA UserSent ==
  ASSUME user \in UserType, NEW u, NEW b \in BOOLEAN, user' = [user EXCEPT ![u].sent = b]
  PROVE  user' \in UserType
  BY DEF UserType

LEMMA UserGone ==
  ASSUME user \in UserType, NEW u,
         user' = [user EXCEPT ![u] = [at |-> "out", sent |-> FALSE]]
  PROVE  user' \in UserType
  BY DEF UserType

LEMMA InitTyped == ASSUME Init PROVE Typed
  BY DEF Init, Typed, UserType

LEMMA ServeTyped == ASSUME Typed, Serve PROVE Typed'
<1>1. ASSUME NEW i \in Slot,
             ClientCommand(i) \/ ClientClosed(i) \/ ReplyReceived(i) \/ ReplySent(i)
               \/ ReplyFailed(i)
      PROVE  Typed'
  <2>1. UNCHANGED <<sch, nav, peer, events>>
    BY <1>1 DEF ClientCommand, ClientClosed, ReplyReceived, ReplySent, ReplyFailed
  <2>2. \/ user' = user
        \/ user' = [user EXCEPT ![cp.slot[i]].sent = FALSE]
        \/ user' = [user EXCEPT ![cp.slot[i]].at = "out"]
        \/ user' = [user EXCEPT ![cp.slot[i]] = [at |-> "out", sent |-> FALSE]]
    BY <1>1 DEF ClientCommand, ClientClosed, ReplyReceived, ReplySent, ReplyFailed
  <2>3. user' \in UserType
    BY <2>2, UserMoved, UserSent, UserGone DEF Typed
  <2> QED
    BY <2>1, <2>3 DEF Typed
<1>2. CASE RtcReceived
  <2>1. peer.in # <<>> /\ peer.in \in Seq(RtcMessages)
    BY <1>2 DEF RtcReceived, Typed
  <2>2. Tail(peer.in) \in Seq(RtcMessages) /\ <<>> \in Seq(RtcMessages)
    BY <2>1
  <2> QED
    BY <1>2, <2>2 DEF Typed, RtcReceived
<1>3. CASE RtcClosed \/ RtcPipeReceived \/ SchedulerSent \/ NavigatorSent
  <2>1. UNCHANGED <<sch, nav, user, peer, events>>
    BY <1>3 DEF RtcClosed, RtcPipeReceived, SchedulerSent, NavigatorSent
  <2> QED
    BY <2>1 DEF Typed
<1>7. CASE RtcFailed
  <2>1. peer' = [peer EXCEPT !.in = <<>>] /\ UNCHANGED <<sch, nav, user, events>>
    BY <1>7 DEF RtcFailed
  <2>2. <<>> \in Seq(RtcMessages)
    OBVIOUS
  <2> QED
    BY <2>1, <2>2 DEF Typed
<1>4. CASE RtcSent
  BY <1>4 DEF Typed, RtcSent
<1>5. CASE ConnectControlClient
  <2>1. UNCHANGED <<sch, nav, peer, events>>
    BY <1>5 DEF ConnectControlClient
  <2>2. PICK u \in User :
          user' = [user EXCEPT ![u].at = "out"] \/ user' = [user EXCEPT ![u].at = "in"]
    BY <1>5 DEF ConnectControlClient, Knocking
  <2>3. user' \in UserType
    BY <2>2, UserMoved DEF Typed
  <2> QED
    BY <2>1, <2>3 DEF Typed
<1>6. CASE ConnectController
  <2>1. <<>> \in Seq(RtcMessages)
    OBVIOUS
  <2> QED
    BY <1>6, <2>1 DEF Typed, ConnectController
<1> QED
  BY <1>1, <1>2, <1>3, <1>4, <1>5, <1>6, <1>7 DEF Serve

LEMMA SchedulerThreadTyped == ASSUME Sound(cp), Typed, SchedulerThread PROVE Typed'
<1> DEFINE m == Head(cp.schPipe)
<1>1. m \in SchedulerMessage
  BY DEF SchedulerThread, Sound, Good, LoopState
<1>2. CASE Execute(m)
  BY <1>2 DEF Execute, SchedulerThread, Typed
<1>3. CASE Adopt(m)
  <2>1. m.type = "SCH_RTC_STATE" => m.online \in BOOLEAN
    BY <1>1 DEF SchedulerMessage
  <2>2. m.type \in {"SCH_ADD_CLIENT", "SCH_REM_CLIENT"} => m.slot \in Slot
    BY <1>1 DEF SchedulerMessage
  <2>3. m.type \in {"SCH_RTC_STATE", "SCH_ADD_CLIENT", "SCH_REM_CLIENT", "SCH_RTCNETMSG"}
    BY <1>1, <1>3 DEF SchedulerMessage, Adopt
  <2> HIDE DEF m
  <2>4. sch' \in [online : BOOLEAN, listed : [Slot -> Nat]]
    BY <1>3, <2>1, <2>2, <2>3 DEF Adopt, Typed
  <2> QED
    BY <2>4 DEF Typed, SchedulerThread
<1> QED
  BY <1>2, <1>3 DEF SchedulerThread

LEMMA NavigatorThreadTyped == ASSUME Sound(cp), Typed, NavigatorThread PROVE Typed'
<1>1. Head(cp.navPipe) \in BOOLEAN
  <2>1. \A q \in Seq(BOOLEAN) : q # <<>> => Head(q) \in BOOLEAN
    BY HeadLemma
  <2> QED
    BY <2>1 DEF NavigatorThread, Sound, Good, LoopState
<1> QED
  BY <1>1 DEF NavigatorThread, Typed

LEMMA WorldTyped == ASSUME Typed, World PROVE Typed'
<1>1. events' \in [moves : Nat, messages : Nat]
  BY DEF World, Moves, Sends, Typed
<1>2. sch' = sch /\ nav' = nav
  BY DEF World
<1>3. ASSUME NEW u \in User, UserConnects(u) \/ UserLeaves(u) \/ UserSends(u) PROVE Typed'
  <2>1. /\ \/ user' = [user EXCEPT ![u].at = "knocks"]
           \/ user' = [user EXCEPT ![u].at = "left"]
           \/ user' = [user EXCEPT ![u].sent = TRUE]
        /\ peer' = peer
    BY <1>3 DEF UserConnects, UserLeaves, UserSends
  <2>2. user' \in UserType
    BY <2>1, UserMoved, UserSent DEF Typed
  <2> QED
    BY <1>1, <1>2, <2>1, <2>2 DEF Typed
<1>4. CASE RtcConnects \/ RtcLeaves
  BY <1>1, <1>2, <1>4 DEF Typed, RtcConnects, RtcLeaves
<1>5. CASE RtcSends
  <2>1. PICK t \in RtcTypes : peer' = [peer EXCEPT !.in = <<t>>]
    BY <1>5 DEF RtcSends
  <2>2. <<t>> \in Seq(RtcMessages)
    BY InputAssumption
  <2> QED
    BY <1>1, <1>2, <1>5, <2>1, <2>2 DEF Typed, RtcSends
<1> QED
  BY <1>3, <1>4, <1>5 DEF World

LEMMA NextTyped == ASSUME Sound(cp), Typed, [Next]_vars PROVE Typed'
<1>1. Typed /\ UNCHANGED vars => Typed'
  BY DEF Typed, vars
<1> QED
  BY <1>1, ServeTyped, SchedulerThreadTyped, NavigatorThreadTyped, WorldTyped DEF Next

(* All fields keep their types, and the neighbours of a channel in the     *)
(* active list are in the list as well.                                    *)
THEOREM TypeCorrect == Spec => []TypeOK
<1>1. Init => Sound(cp) /\ Typed
  BY InitSound, InitTyped
<1>2. Sound(cp) /\ Typed /\ [Next]_vars => Typed'
  BY NextTyped
<1>3. Sound(cp) /\ [Next]_vars => Sound(cp)'
  BY NextSound
<1>4. Sound(cp) /\ Typed => TypeOK
  BY DEF Sound, Good, Typed, TypeOK, UserType
<1> QED
  BY <1>1, <1>2, <1>3, <1>4, PTL DEF Spec

-----------------------------------------------------------------------------
(* The messages on their way to the scheduler and to the navigator. What a *)
(* handler does to the list says nothing of the messages: these are what   *)
(* they leave of the rest of the state.                                    *)

(* What the list has no part in.                                           *)
Rest(S) == <<S.slot, S.rtc, S.rtcOut, S.schBuf, S.navBuf, S.schPipe, S.navPipe>>

(* To watch and to unwatch changes nothing but the list.                   *)
LEMMA ListOnlyLemma ==
  ASSUME NEW S, Good(S)
  PROVE  /\ \A x \in Aspect : Rest(Watch(S, x)) = Rest(S)
         /\ \A X : Rest(Unwatch(S, X)) = Rest(S)
         /\ Rest(WatchClients(S)) = Rest(S)
         /\ Rest(WatchRtcReadability(S)) = Rest(S)
<1>1. \A x \in Aspect : Rest(Watch(S, x)) = Rest(S)
  BY DEF Good, LoopState, Watch, Rest
<1>2. \A X : Rest(Unwatch(S, X)) = Rest(S)
  BY DEF Good, LoopState, Unwatch, Rest
<1>3. Rest(WatchClients(S)) = Rest(S)
  BY DEF Good, LoopState, WatchClients, Rest
<1>4. Rest(WatchRtcReadability(S)) = Rest(S)
  BY <1>1, Distinct DEF WatchRtcReadability
<1> QED
  BY <1>1, <1>2, <1>3, <1>4

(* Nor does staging: the message itself is put in the buffer before.       *)
LEMMA StagingLemma ==
  ASSUME NEW S, Good(S)
  PROVE  /\ Rest(AddSchedulerChannel(S)) = Rest(S)
         /\ Rest(AddNavigatorChannel(S)) = Rest(S)
         /\ Rest(RemSchedulerChannel(S)) = Rest(S)
         /\ Rest(RemNavigatorChannel(S)) = Rest(S)
<1>1. Rest(AddSchedulerChannel(S)) = Rest(S)
  <2>1. Good(Watch(S, SchWrite)) /\ Rest(Watch(S, SchWrite)) = Rest(S)
    BY WatchLemma, ListOnlyLemma, Distinct
  <2> QED
    BY <2>1, ListOnlyLemma DEF AddSchedulerChannel
<1>2. Rest(AddNavigatorChannel(S)) = Rest(S)
  <2>1. Good(Watch(S, NavWrite)) /\ Rest(Watch(S, NavWrite)) = Rest(S)
    BY WatchLemma, ListOnlyLemma, Distinct
  <2> QED
    BY <2>1, ListOnlyLemma DEF AddNavigatorChannel
<1>3. Rest(RemSchedulerChannel(S)) = Rest(S)
  <2> DEFINE U == Unwatch(S, {SchWrite})
             W == WatchClients(U)
  <2>1. Good(U) /\ Rest(U) = Rest(S)
    BY UnwatchLemma, ListOnlyLemma
  <2>2. RemSchedulerChannel(S) = WatchRtcReadability(W)
    BY DEF RemSchedulerChannel
  <2> HIDE DEF U
  <2>3. Good(W) /\ Rest(W) = Rest(U)
    BY <2>1, WatchClientsLemma, ListOnlyLemma
  <2> HIDE DEF W
  <2> QED
    BY <2>1, <2>2, <2>3, ListOnlyLemma
<1>4. Rest(RemNavigatorChannel(S)) = Rest(S)
  <2>1. Good(Unwatch(S, {NavWrite})) /\ Rest(Unwatch(S, {NavWrite})) = Rest(S)
    BY UnwatchLemma, ListOnlyLemma
  <2> QED
    BY <2>1, ListOnlyLemma DEF RemNavigatorChannel
<1> QED
  BY <1>1, <1>2, <1>3, <1>4

(* The state of the RTC replaces what both buffers hold.                   *)
LEMMA RecordRest ==
  ASSUME NEW S, Good(S), NEW b \in BOOLEAN
  PROVE  Rest(RecordRtcStatus(S, b))
           = <<S.slot, S.rtc, S.rtcOut, RtcState(b), b, S.schPipe, S.navPipe>>
<1> DEFINE B == [S EXCEPT !.online = b, !.schBuf = RtcState(b)]
           C == AddSchedulerChannel(B)
           D == [C EXCEPT !.navBuf = b]
<1>1. /\ Good(B)
      /\ Rest(B) = <<S.slot, S.rtc, S.rtcOut, RtcState(b), S.navBuf, S.schPipe, S.navPipe>>
  BY MessageLemma DEF Good, LoopState, Rest
<1>2. RecordRtcStatus(S, b) = AddNavigatorChannel(D)
  BY DEF RecordRtcStatus
<1> HIDE DEF B
<1>3. Good(C) /\ Rest(C) = Rest(B)
  BY <1>1, AddSchedulerLemma, StagingLemma
<1> HIDE DEF C
<1>4. /\ Good(D)
      /\ Rest(D) = <<S.slot, S.rtc, S.rtcOut, RtcState(b), b, S.schPipe, S.navPipe>>
  BY <1>1, <1>3 DEF Good, LoopState, Rest
<1> HIDE DEF D
<1> QED
  BY <1>2, <1>4, StagingLemma

(* With the connection to the RTC goes what was being sent to it.          *)
LEMMA CloseRtcRest ==
  ASSUME NEW S, Good(S)
  PROVE  Rest(CloseRtc(S))
           = <<S.slot, FALSE, None, RtcState(FALSE), FALSE, S.schPipe, S.navPipe>>
<1> DEFINE U == Unwatch(S, {RtcRead, RtcWrite})
           W == [U EXCEPT !.rtc = FALSE, !.rtcOut = None]
           R == RecordRtcStatus(W, FALSE)
<1>1. Good(U) /\ Rest(U) = Rest(S)
  BY UnwatchLemma, ListOnlyLemma
<1>2. CloseRtc(S) = Watch(R, RtcPipeRead)
  BY DEF CloseRtc, RtcCond
<1> HIDE DEF U
<1>3. Good(W) /\ Rest(W) = <<S.slot, FALSE, None, S.schBuf, S.navBuf, S.schPipe, S.navPipe>>
  BY <1>1 DEF Good, LoopState, Rest
<1> HIDE DEF W
<1>4. /\ Good(R)
      /\ Rest(R) = <<S.slot, FALSE, None, RtcState(FALSE), FALSE, S.schPipe, S.navPipe>>
  BY <1>3, RecordLemma, RecordRest DEF Rest
<1> HIDE DEF R
<1>5. Rest(Watch(R, RtcPipeRead)) = Rest(R)
  BY <1>4, ListOnlyLemma, Distinct
<1> QED
  BY <1>2, <1>4, <1>5

(* What becomes of the pipe of the scheduler when a client comes or goes.  *)
Told(q, m) == {Queued(q, m)} \cup (IF "LOG" \in Faults THEN {q} ELSE {})

LEMMA AnnouncedRest ==
  ASSUME NEW S, Good(S), NEW m, NEW T \in Announced(S, m)
  PROVE  /\ T.on = S.on
         /\ \E q \in Told(S.schPipe, m) :
              Rest(T) = <<S.slot, S.rtc, S.rtcOut, S.schBuf, S.navBuf, q, S.navPipe>>
<1>1. CASE T = [S EXCEPT !.schPipe = Queued(S.schPipe, m)]
  BY <1>1 DEF Told, Rest, Good, LoopState
<1>2. CASE T = S /\ "LOG" \in Faults
  BY <1>2 DEF Told, Rest
<1> QED
  BY <1>1, <1>2 DEF Announced, SendScheduler

(* With a client goes its slot, and a message says so.                     *)
LEMMA CloseClientRest ==
  ASSUME NEW S, Good(S), NEW i \in Slot, NEW T \in CloseClient(S, i)
  PROVE  \E q \in Told(S.schPipe, RemClient(i)) :
           Rest(T) = <<[S.slot EXCEPT ![i] = None], S.rtc, S.rtcOut, S.schBuf, S.navBuf,
                       q, S.navPipe>>
<1> DEFINE U == Unwatch(S, {SockRead(i), SockWrite(i)})
           W == [U EXCEPT !.slot[i] = None, !.out[i] = None]
<1>1. Good(U) /\ Rest(U) = Rest(S)
  BY UnwatchLemma, ListOnlyLemma
<1>2. T \in Announced(W, RemClient(i))
  BY DEF CloseClient
<1> HIDE DEF U
<1>3. /\ Rest(W) = <<[S.slot EXCEPT ![i] = None], S.rtc, S.rtcOut, S.schBuf, S.navBuf,
                     S.schPipe, S.navPipe>>
      /\ Good(W)
  BY <1>1 DEF Good, LoopState, Rest, UserOrNone
<1> HIDE DEF W
<1>4. \E q \in Told(W.schPipe, RemClient(i)) :
        Rest(T) = <<W.slot, W.rtc, W.rtcOut, W.schBuf, W.navBuf, q, W.navPipe>>
  BY <1>2, <1>3, AnnouncedRest
<1> QED
  BY <1>3, <1>4 DEF Rest

(* The last message of a pipe that is about a matter settles it: it is one *)
(* of G, or there is none on its way and the reader has settled it.        *)
Settled(q, M, G, now) ==
  \/ \E n \in DOMAIN q : q[n] \in M \cap G /\ \A m \in DOMAIN q : q[m] \in M => m <= n
  \/ (\A n \in DOMAIN q : q[n] \notin M) /\ now

(* A message about the matter settles it.                                  *)
LEMMA SettledByLast ==
  ASSUME NEW q \in Seq(SchedulerMessage), NEW M, NEW G, NEW m \in SchedulerMessage \cap M \cap G,
         NEW now
  PROVE  Settled(Append(q, m), M, G, now)
<1> DEFINE r == Append(q, m)
<1>1. Len(r) = Len(q) + 1 /\ DOMAIN r = 1 .. (Len(q) + 1) /\ r[Len(q) + 1] = m
  OBVIOUS
<1> HIDE DEF r
<1>2. Len(q) + 1 \in DOMAIN r /\ \A n \in DOMAIN r : n <= Len(q) + 1
  BY <1>1
<1> QED
  BY <1>1, <1>2 DEF Settled, r

(* Any other leaves it as it was, also when the pipe is full.              *)
LEMMA SettledByOthers ==
  ASSUME NEW q \in Seq(SchedulerMessage), NEW M, NEW G, NEW m \in SchedulerMessage, m \notin M,
         NEW now, Settled(q, M, G, now)
  PROVE  Settled(Append(q, m), M, G, now) /\ Settled(Queued(q, m), M, G, now)
<1> DEFINE r == Append(q, m)
<1>1. /\ DOMAIN r = 1 .. (Len(q) + 1) /\ r[Len(q) + 1] = m /\ DOMAIN q = 1 .. Len(q)
      /\ Len(q) \in Nat /\ \A n \in DOMAIN q : r[n] = q[n]
  OBVIOUS
<1> HIDE DEF r
<1>2. \A n \in DOMAIN r : n \in DOMAIN q \/ r[n] \notin M
  BY <1>1
<1>3. DOMAIN q \subseteq DOMAIN r
  BY <1>1
<1>4. Settled(r, M, G, now)
  BY <1>1, <1>2, <1>3 DEF Settled
<1> QED
  BY <1>4 DEF Queued, r

(* The reader takes a message, and acts on it if it is about the matter.   *)
LEMMA SettledByReader ==
  ASSUME NEW q \in Seq(SchedulerMessage), q # <<>>, NEW M, NEW G, NEW now, NEW then,
         Settled(q, M, G, now),
         Head(q) \notin M => (now => then),
         Head(q) \in M \cap G => then
  PROVE  Settled(Tail(q), M, G, then)
<1> DEFINE r == Tail(q)
<1>1. /\ Len(q) \in Nat \ {0} /\ DOMAIN q = 1 .. Len(q) /\ DOMAIN r = 1 .. (Len(q) - 1)
      /\ \A n \in 1 .. (Len(q) - 1) : r[n] = q[n + 1]
      /\ Head(q) = q[1]
  OBVIOUS
<1> HIDE DEF r
<1>2. ASSUME NEW n \in DOMAIN q, q[n] \in M \cap G, \A m \in DOMAIN q : q[m] \in M => m <= n
      PROVE  Settled(r, M, G, then)
  <2>1. CASE n = 1
    <3>1. \A m \in DOMAIN r : r[m] \notin M
      BY <1>1, <1>2, <2>1
    <3> QED
      BY <1>1, <1>2, <2>1, <3>1 DEF Settled
  <2>2. CASE n # 1
    <3>1. n - 1 \in DOMAIN r /\ r[n - 1] \in M \cap G
      BY <1>1, <1>2, <2>2
    <3>2. \A m \in DOMAIN r : r[m] \in M => m <= n - 1
      BY <1>1, <1>2, <2>2
    <3> QED
      BY <3>1, <3>2 DEF Settled
  <2> QED
    BY <2>1, <2>2
<1>3. ASSUME \A n \in DOMAIN q : q[n] \notin M, now PROVE Settled(r, M, G, then)
  BY <1>1, <1>3 DEF Settled
<1> QED
  BY <1>2, <1>3 DEF Settled, r

(* The RTC is watched when neither thread has a message staged.            *)
LEMMA WatchRtcOn ==
  ASSUME NEW S, Good(S)
  PROVE  WatchRtcReadability(S).on
           = S.on \cup (IF S.rtc /\ {NavWrite, SchWrite} \cap S.on = {} THEN {RtcRead} ELSE {})
  BY WatchLemma, Distinct DEF WatchRtcReadability

(* What a step leaves alone of the list, for the messages that are staged. *)
Still(S, T) == \A x \in SockReads \cup {SchWrite, NavWrite, RtcRead} : x \in T.on <=> x \in S.on

(* A channel has been taken from the list; the rest is as it was.          *)
LEMMA ServedRest ==
  ASSUME Sound(cp), NEW x
  PROVE  Good(Served(x)) /\ Rest(Served(x)) = Rest(cp) /\ Served(x).on = cp.on \ {x}
  BY ServedLemma, ListOnlyLemma DEF Sound, Served

(* A command is staged: neither the clients nor the RTC are watched.       *)
LEMMA ClientCommandEffect ==
  ASSUME Sound(cp), NEW i \in Slot, ClientCommand(i)
  PROVE  /\ \E u \in User :
              Rest(cp') = <<cp.slot, cp.rtc, cp.rtcOut, Command(u, i), cp.navBuf,
                            cp.schPipe, cp.navPipe>>
         /\ cp'.on = (cp.on \cup {SchWrite}) \ (Connected(cp) \cup {RtcRead, SockRead(i)})
<1> DEFINE S == Served(SockRead(i))
           u == cp.slot[i]
           T == [S EXCEPT !.schBuf = Command(u, i)]
<1>1. Good(S) /\ Rest(S) = Rest(cp) /\ S.on = cp.on \ {SockRead(i)}
  BY ServedRest
<1>2. u \in User
  BY ReadyLemma DEF ClientCommand, Sound, Good, LoopState, UserOrNone
<1>3. cp' = AddSchedulerChannel(T)
  BY DEF ClientCommand
<1> HIDE DEF S
<1>4. /\ Good(T) /\ T.on = S.on
      /\ Rest(T) = <<cp.slot, cp.rtc, cp.rtcOut, Command(u, i), cp.navBuf, cp.schPipe, cp.navPipe>>
  BY <1>1, <1>2, MessageLemma DEF Good, LoopState, Rest
<1>5. Connected(T) = Connected(cp)
  BY <1>4 DEF Connected, Rest
<1> HIDE DEF T
<1>6. SockRead(i) # SchWrite
  BY Distinct
<1> QED
  BY <1>1, <1>2, <1>3, <1>4, <1>5, <1>6, AddSchedulerLemma, StagingLemma

(* So is the message that a drive is done.                                 *)
LEMMA DriveDoneEffect ==
  ASSUME Sound(cp), cp' = AddSchedulerChannel([Served(RtcRead) EXCEPT !.schBuf = RtcNetMsg])
  PROVE  /\ Rest(cp') = <<cp.slot, cp.rtc, cp.rtcOut, RtcNetMsg, cp.navBuf, cp.schPipe, cp.navPipe>>
         /\ cp'.on = (cp.on \cup {SchWrite}) \ (Connected(cp) \cup {RtcRead})
<1> DEFINE S == Served(RtcRead)
           T == [S EXCEPT !.schBuf = RtcNetMsg]
<1>1. Good(S) /\ Rest(S) = Rest(cp) /\ S.on = cp.on \ {RtcRead}
  BY ServedRest
<1> HIDE DEF S
<1>2. /\ Good(T) /\ T.on = S.on
      /\ Rest(T) = <<cp.slot, cp.rtc, cp.rtcOut, RtcNetMsg, cp.navBuf, cp.schPipe, cp.navPipe>>
  BY <1>1, MessageLemma DEF Good, LoopState, Rest
<1>3. Connected(T) = Connected(cp)
  BY <1>2 DEF Connected, Rest
<1>4. cp' = AddSchedulerChannel(T)
  BY DEF S
<1> HIDE DEF T
<1> QED
  BY <1>1, <1>2, <1>3, <1>4, AddSchedulerLemma, StagingLemma

(* A client is gone.                                                       *)
LEMMA ClientGoneEffect ==
  ASSUME Sound(cp), NEW i \in Slot, NEW x \in {SockRead(i), SockWrite(i)},
         cp' \in CloseClient(Served(x), i)
  PROVE  /\ \E q \in Told(cp.schPipe, RemClient(i)) :
              Rest(cp') = <<[cp.slot EXCEPT ![i] = None], cp.rtc, cp.rtcOut, cp.schBuf,
                            cp.navBuf, q, cp.navPipe>>
         /\ cp'.on = cp.on \ {SockRead(i), SockWrite(i)}
<1> DEFINE S == Served(x)
<1>1. Good(S) /\ Rest(S) = Rest(cp) /\ S.on = cp.on \ {x}
  BY ServedRest
<1> HIDE DEF S
<1>2. \E q \in Told(S.schPipe, RemClient(i)) :
        Rest(cp') = <<[S.slot EXCEPT ![i] = None], S.rtc, S.rtcOut, S.schBuf, S.navBuf,
                      q, S.navPipe>>
  BY <1>1, CloseClientRest DEF S
<1>3. cp'.on = S.on \ {SockRead(i), SockWrite(i)}
  BY <1>1, CloseClientLemma DEF S
<1> QED
  BY <1>1, <1>2, <1>3 DEF Rest

(* The RTC is gone.                                                        *)
LEMMA RtcLostEffect ==
  ASSUME Sound(cp), NEW x \in {RtcRead, RtcWrite}, cp' = CloseRtc(Served(x))
  PROVE  /\ Rest(cp') = <<cp.slot, FALSE, None, RtcState(FALSE), FALSE, cp.schPipe, cp.navPipe>>
         /\ cp'.on = (cp.on \ (Connected(cp) \cup {RtcRead, RtcWrite}))
                        \cup {SchWrite, NavWrite, RtcPipeRead}
<1> DEFINE S == Served(x)
<1>1. Good(S) /\ Rest(S) = Rest(cp) /\ S.on = cp.on \ {x}
  BY ServedRest
<1> HIDE DEF S
<1>2. Connected(S) = Connected(cp)
  BY <1>1 DEF Connected, Rest
<1>3. /\ Rest(cp') = <<S.slot, FALSE, None, RtcState(FALSE), FALSE, S.schPipe, S.navPipe>>
      /\ cp'.on = (S.on \ (Connected(S) \cup {RtcRead, RtcWrite}))
                        \cup {SchWrite, NavWrite, RtcPipeRead}
  BY <1>1, CloseRtcRest, CloseRtcLemma DEF S
<1> QED
  BY <1>1, <1>2, <1>3 DEF Rest

(* The navigator shall send what it has: nothing else changes.             *)
LEMMA NavUpdateEffect ==
  ASSUME Sound(cp), RtcRead \in cp.on,
         cp' = Watch(AddNavigatorChannel([Served(RtcRead) EXCEPT !.navBuf = TRUE]), RtcRead)
  PROVE  /\ Rest(cp') = <<cp.slot, cp.rtc, cp.rtcOut, cp.schBuf, TRUE, cp.schPipe, cp.navPipe>>
         /\ cp'.on = cp.on \cup {NavWrite}
<1> DEFINE S == Served(RtcRead)
           T == [S EXCEPT !.navBuf = TRUE]
           U == AddNavigatorChannel(T)
<1>1. Good(S) /\ Rest(S) = Rest(cp) /\ S.on = cp.on \ {RtcRead}
  BY ServedRest
<1>2. cp' = Watch(U, RtcRead)
  OBVIOUS
<1> HIDE DEF S
<1>3. /\ Good(T) /\ T.on = S.on
      /\ Rest(T) = <<cp.slot, cp.rtc, cp.rtcOut, cp.schBuf, TRUE, cp.schPipe, cp.navPipe>>
  BY <1>1 DEF Good, LoopState, Rest
<1> HIDE DEF T
<1>4. Good(U) /\ U.on = (T.on \cup {NavWrite}) \ {RtcRead} /\ Rest(U) = Rest(T)
  BY <1>3, AddNavigatorLemma, StagingLemma
<1> HIDE DEF U
<1>5. cp'.on = U.on \cup {RtcRead} /\ Rest(cp') = Rest(U)
  BY <1>2, <1>4, WatchLemma, ListOnlyLemma, Distinct
<1> QED
  BY <1>1, <1>3, <1>4, <1>5

(* The staged message is in the pipe, and everybody is watched again, the  *)
(* RTC unless the navigator's message is staged.                           *)
LEMMA SchedulerSentEffect ==
  ASSUME Sound(cp), SchedulerSent
  PROVE  /\ Rest(cp') = <<cp.slot, cp.rtc, cp.rtcOut, None, cp.navBuf,
                          Append(cp.schPipe, cp.schBuf), cp.navPipe>>
         /\ SchWrite \in cp.on /\ cp.schBuf \in SchedulerMessage
         /\ cp'.on = (cp.on \ {SchWrite}) \cup Connected(cp)
                       \cup (IF cp.rtc /\ NavWrite \notin cp.on THEN {RtcRead} ELSE {})
<1> DEFINE S == Served(SchWrite)
           T == [S EXCEPT !.schPipe = Append(S.schPipe, cp.schBuf), !.schBuf = None]
           U == Unwatch(T, {SchWrite})
           W == WatchClients(U)
<1>1. Good(S) /\ Rest(S) = Rest(cp) /\ S.on = cp.on \ {SchWrite}
  BY ServedRest
<1>2. SchWrite \in cp.on /\ cp.schBuf \in SchedulerMessage
  BY ReadyLemma DEF SchedulerSent, Sound
<1>3. cp' = RemSchedulerChannel(T)
  BY DEF SchedulerSent
<1> HIDE DEF S
<1>4. /\ Good(T) /\ T.on = S.on
      /\ Rest(T) = <<cp.slot, cp.rtc, cp.rtcOut, None, cp.navBuf,
                     Append(cp.schPipe, cp.schBuf), cp.navPipe>>
  <2>1. Append(S.schPipe, cp.schBuf) \in Seq(SchedulerMessage) /\ S.schPipe = cp.schPipe
    BY <1>1, <1>2 DEF Rest, Good, LoopState
  <2> QED
    BY <1>1, <2>1 DEF Good, LoopState, Rest
<1> HIDE DEF T
<1>5. Good(U) /\ Rest(U) = Rest(T) /\ U.on = T.on \ {SchWrite}
  BY <1>4, UnwatchLemma, ListOnlyLemma
<1>6. cp' = WatchRtcReadability(W)
  BY <1>3 DEF RemSchedulerChannel
<1> HIDE DEF U
<1>7. Connected(U) = Connected(cp)
  BY <1>4, <1>5 DEF Connected, Rest
<1>8. Good(W) /\ Rest(W) = Rest(U) /\ W.on = U.on \cup Connected(cp)
  BY <1>5, <1>7, WatchClientsLemma, ListOnlyLemma
<1> HIDE DEF W
<1>9. W.rtc = cp.rtc
  BY <1>4, <1>5, <1>8 DEF Rest
<1>10. SchWrite \notin W.on /\ (NavWrite \in W.on <=> NavWrite \in cp.on)
  BY <1>1, <1>4, <1>5, <1>8, ConnectedLemma, Distinct
<1>11. {NavWrite, SchWrite} \cap W.on = {} <=> NavWrite \notin cp.on
  BY <1>10
<1>12. cp'.on = W.on \cup (IF cp.rtc /\ NavWrite \notin cp.on THEN {RtcRead} ELSE {})
  BY <1>6, <1>8, <1>9, <1>11, WatchRtcOn
<1>13. Rest(cp') = Rest(T)
  BY <1>5, <1>6, <1>8, ListOnlyLemma
<1> QED
  BY <1>1, <1>2, <1>4, <1>5, <1>8, <1>12, <1>13

(* The same of the navigator's, which holds back only the RTC.             *)
LEMMA NavigatorSentEffect ==
  ASSUME Sound(cp), NavigatorSent
  PROVE  /\ Rest(cp') = <<cp.slot, cp.rtc, cp.rtcOut, cp.schBuf, cp.navBuf,
                          cp.schPipe, Append(cp.navPipe, cp.navBuf)>>
         /\ NavWrite \in cp.on
         /\ cp'.on = (cp.on \ {NavWrite})
                       \cup (IF cp.rtc /\ SchWrite \notin cp.on THEN {RtcRead} ELSE {})
<1> DEFINE S == Served(NavWrite)
           T == [S EXCEPT !.navPipe = Append(S.navPipe, cp.navBuf)]
           U == Unwatch(T, {NavWrite})
<1>1. Good(S) /\ Rest(S) = Rest(cp) /\ S.on = cp.on \ {NavWrite}
  BY ServedRest
<1>2. NavWrite \in cp.on
  BY ReadyLemma DEF NavigatorSent
<1>3. cp' = RemNavigatorChannel(T)
  BY DEF NavigatorSent
<1> HIDE DEF S
<1>4. /\ Good(T) /\ T.on = S.on
      /\ Rest(T) = <<cp.slot, cp.rtc, cp.rtcOut, cp.schBuf, cp.navBuf,
                     cp.schPipe, Append(cp.navPipe, cp.navBuf)>>
  <2>1. Append(S.navPipe, cp.navBuf) \in Seq(BOOLEAN) /\ S.navPipe = cp.navPipe
    <3>1. S.navPipe = cp.navPipe /\ cp.navPipe \in Seq(BOOLEAN) /\ cp.navBuf \in BOOLEAN
      BY <1>1 DEF Rest, Sound, Good, LoopState
    <3> QED
      BY <3>1
  <2> QED
    BY <1>1, <2>1 DEF Good, LoopState, Rest
<1> HIDE DEF T
<1>5. Good(U) /\ Rest(U) = Rest(T) /\ U.on = T.on \ {NavWrite}
  BY <1>4, UnwatchLemma, ListOnlyLemma
<1>6. cp' = WatchRtcReadability(U)
  BY <1>3 DEF RemNavigatorChannel
<1> HIDE DEF U
<1>7. U.rtc = cp.rtc
  BY <1>4, <1>5 DEF Rest
<1>8. {NavWrite, SchWrite} \cap U.on = {} <=> SchWrite \notin cp.on
  BY <1>1, <1>4, <1>5, Distinct
<1>9. cp'.on = U.on \cup (IF cp.rtc /\ SchWrite \notin cp.on THEN {RtcRead} ELSE {})
  BY <1>5, <1>6, <1>7, <1>8, WatchRtcOn
<1>10. Rest(cp') = Rest(T)
  BY <1>5, <1>6, ListOnlyLemma
<1> QED
  BY <1>1, <1>2, <1>4, <1>5, <1>9, <1>10

(* A new client is watched, if there is a slot for it.                     *)
LEMMA ConnectClientEffect ==
  ASSUME Sound(cp), ConnectControlClient
  PROVE  \/ cp' = cp
         \/ \E u \in User, i \in FreeSlots :
              /\ \E q \in Told(cp.schPipe, AddClient(i)) :
                   Rest(cp') = <<[cp.slot EXCEPT ![i] = u], cp.rtc, cp.rtcOut, cp.schBuf,
                                 cp.navBuf, q, cp.navPipe>>
              /\ cp'.on = cp.on \cup {SockRead(i), ReplyRead(i)}
<1>1. CASE FreeSlots = {}
  BY <1>1 DEF ConnectControlClient
<1>2. CASE FreeSlots # {}
  <2>1. PICK u \in User, i \in FreeSlots :
          LET S == [cp EXCEPT !.slot[i] = u, !.reply[i] = <<>>] IN
          cp' \in Announced(Watch(Watch(S, SockRead(i)), ReplyRead(i)), AddClient(i))
    BY <1>2 DEF ConnectControlClient, Knocking
  <2>0. i \in Slot
    BY DEF FreeSlots
  <2> DEFINE S == [cp EXCEPT !.slot[i] = u, !.reply[i] = <<>>]
             T == Watch(S, SockRead(i))
             V == Watch(T, ReplyRead(i))
  <2>2. /\ Good(S) /\ S.on = cp.on
        /\ Rest(S) = <<[cp.slot EXCEPT ![i] = u], cp.rtc, cp.rtcOut, cp.schBuf, cp.navBuf,
                       cp.schPipe, cp.navPipe>>
    <3>1. <<>> \in Seq(User)
      OBVIOUS
    <3> QED
      BY <2>0, <3>1 DEF Sound, Good, LoopState, UserOrNone, Rest
  <2>3. cp' \in Announced(V, AddClient(i))
    BY <2>1
  <2> HIDE DEF S
  <2>4. Good(T) /\ Rest(T) = Rest(S) /\ T.on = S.on \cup {SockRead(i)}
    BY <2>0, <2>2, Distinct, WatchLemma, ListOnlyLemma
  <2> HIDE DEF T
  <2>5. Good(V) /\ Rest(V) = Rest(T) /\ V.on = T.on \cup {ReplyRead(i)}
    BY <2>0, <2>4, Distinct, WatchLemma, ListOnlyLemma
  <2> HIDE DEF V
  <2>6. /\ cp'.on = V.on
        /\ \E q \in Told(V.schPipe, AddClient(i)) :
             Rest(cp') = <<V.slot, V.rtc, V.rtcOut, V.schBuf, V.navBuf, q, V.navPipe>>
    BY <2>3, <2>5, AnnouncedRest
  <2> QED
    BY <2>2, <2>4, <2>5, <2>6 DEF Rest
<1> QED
  BY <1>1, <1>2

(* A new RTC is greeted; its pipe is not watched.                          *)
LEMMA ConnectControllerEffect ==
  ASSUME Sound(cp), ConnectController
  PROVE  /\ Rest(cp') = <<cp.slot, TRUE, "INIT", RtcState(TRUE), TRUE, cp.schPipe, cp.navPipe>>
         /\ {RtcRead, RtcPipeRead} \cap cp'.on = {} /\ {SchWrite, NavWrite} \subseteq cp'.on
         /\ SockReads \cap cp'.on = {}
<1> DEFINE S == IF cp.rtc THEN CloseRtc(cp) ELSE cp
           Q == [S EXCEPT !.rtc = TRUE]
           T == WatchRtcReadability(Q)
           G == [T EXCEPT !.rtcOut = "INIT"]
           U == Watch(G, RtcWrite)
           W == Unwatch(U, {RtcPipeRead})
           V == [W EXCEPT !.rtcPipe = <<>>]
<1>1. /\ Good(S) /\ S.slot = cp.slot /\ S.schPipe = cp.schPipe /\ S.navPipe = cp.navPipe
      /\ S.on \cap SockReads \subseteq Connected(cp)
  <2>1. cp.on \cap SockReads \subseteq Connected(cp)
    BY DEF Sound, Connected, SockReads
  <2>2. CASE cp.rtc
    <3>1. /\ Good(CloseRtc(cp))
          /\ Rest(CloseRtc(cp)) = <<cp.slot, FALSE, None, RtcState(FALSE), FALSE,
                                    cp.schPipe, cp.navPipe>>
          /\ CloseRtc(cp).on = ((cp.on \ (Connected(cp) \cup {RtcRead, RtcWrite}))
                                  \cup {SchWrite, NavWrite, RtcPipeRead})
      BY CloseRtcLemma, CloseRtcRest DEF Sound
    <3> QED
      BY <2>1, <2>2, <3>1, Distinct DEF Rest
  <2>3. CASE ~cp.rtc
    BY <2>1, <2>3 DEF Sound
  <2> QED
    BY <2>2, <2>3
<1>2. cp' = RecordRtcStatus(V, TRUE)
  BY DEF ConnectController
<1> HIDE DEF S
<1>3. /\ Good(Q) /\ Q.on = S.on
      /\ Rest(Q) = <<S.slot, TRUE, S.rtcOut, S.schBuf, S.navBuf, S.schPipe, S.navPipe>>
  BY <1>1 DEF Good, LoopState, Rest
<1> HIDE DEF Q
<1>4. Good(T) /\ Rest(T) = Rest(Q) /\ T.on \subseteq Q.on \cup {RtcRead}
  BY <1>3, WatchRtcLemma, ListOnlyLemma
<1> HIDE DEF T
<1>5. /\ Good(G) /\ G.on = T.on
      /\ Rest(G) = <<T.slot, T.rtc, "INIT", T.schBuf, T.navBuf, T.schPipe, T.navPipe>>
  BY <1>4 DEF Good, LoopState, Rest, RtcCommand
<1> HIDE DEF G
<1>6. Good(U) /\ Rest(U) = Rest(G) /\ U.on = G.on \cup {RtcWrite}
  BY <1>5, WatchLemma, ListOnlyLemma, Distinct
<1> HIDE DEF U
<1>7. Good(W) /\ Rest(W) = Rest(U) /\ W.on = U.on \ {RtcPipeRead}
  BY <1>6, UnwatchLemma, ListOnlyLemma
<1> HIDE DEF W
<1>8. Good(V) /\ Rest(V) = Rest(W) /\ V.on = W.on
  <2>1. <<>> \in Seq(RtcCommand)
    OBVIOUS
  <2> QED
    BY <1>7, <2>1 DEF Good, LoopState, Rest
<1> HIDE DEF V
<1>9. /\ Rest(cp') = <<V.slot, V.rtc, V.rtcOut, RtcState(TRUE), TRUE, V.schPipe, V.navPipe>>
      /\ cp'.on = (V.on \cup {SchWrite, NavWrite}) \ (Connected(V) \cup {RtcRead})
  BY <1>2, <1>8, RecordRest, RecordLemma
<1>10. /\ V.slot = cp.slot /\ V.rtc = TRUE /\ V.rtcOut = "INIT"
       /\ V.schPipe = cp.schPipe /\ V.navPipe = cp.navPipe
  BY <1>1, <1>3, <1>4, <1>5, <1>6, <1>7, <1>8 DEF Rest
<1>11. Connected(V) = Connected(cp)
  BY <1>10 DEF Connected
<1>12. V.on \cap SockReads \subseteq Connected(cp) /\ RtcPipeRead \notin V.on
  BY <1>1, <1>3, <1>4, <1>5, <1>6, <1>7, <1>8, Distinct
<1>13. /\ {RtcRead, RtcPipeRead} \cap cp'.on = {}
       /\ SockReads \cap cp'.on = {}
  BY <1>9, <1>11, <1>12, Distinct
<1>14. {SchWrite, NavWrite} \subseteq cp'.on
  BY <1>9, <1>11, ConnectedLemma, Distinct
<1> QED
  BY <1>9, <1>10, <1>13, <1>14

(* The steps that have to do with neither what is staged nor who is        *)
(* connected.                                                              *)
Quiet(S, T) ==
  /\ T.slot = S.slot /\ T.rtc = S.rtc /\ T.schBuf = S.schBuf /\ T.navBuf = S.navBuf
  /\ T.schPipe = S.schPipe /\ T.navPipe = S.navPipe
  /\ Still(S, T)

(* Replies have to do with the sockets of the clients only.                *)
LEMMA ReplyEffect ==
  ASSUME Sound(cp), NEW i \in Slot, ReplyReceived(i) \/ ReplySent(i)
  PROVE  /\ Quiet(cp, cp') /\ cp'.rtcOut = cp.rtcOut
         /\ RtcPipeRead \in cp'.on => RtcPipeRead \in cp.on
<1>1. {SockWrite(i), ReplyRead(i)} \cap (SockReads \cup {SchWrite, NavWrite, RtcRead, RtcPipeRead}) = {}
  BY Distinct
<1>2. CASE ReplyReceived(i)
  <2> DEFINE S == Served(ReplyRead(i))
             T == [S EXCEPT !.reply[i] = Tail(S.reply[i])]
             V == [T EXCEPT !.out[i] = Head(cp.reply[i])]
  <2>1. Good(S) /\ Rest(S) = Rest(cp) /\ S.on = cp.on \ {ReplyRead(i)}
    BY ServedRest
  <2>2. cp.reply[i] \in Seq(User) /\ S.reply[i] = cp.reply[i] /\ cp.reply[i] # <<>>
    BY <1>2, ReadyLemma DEF ReplyReceived, Sound, Good, LoopState, Served, Unwatch
  <2>3. Tail(S.reply[i]) \in Seq(User) /\ Head(cp.reply[i]) \in UserOrNone
    BY <2>2 DEF UserOrNone
  <2>4. cp' = IF cp.slot[i] = None THEN T ELSE Watch(V, SockWrite(i))
    BY <1>2 DEF ReplyReceived
  <2> HIDE DEF S
  <2>5. Good(T) /\ Rest(T) = Rest(S) /\ T.on = S.on
    BY <2>1, <2>3 DEF Good, LoopState, Rest
  <2> HIDE DEF T
  <2>6. Good(V) /\ Rest(V) = Rest(T) /\ V.on = T.on
    BY <2>5, <2>3 DEF Good, LoopState, Rest
  <2> HIDE DEF V
  <2>7. Rest(Watch(V, SockWrite(i))) = Rest(V) /\ Watch(V, SockWrite(i)).on = V.on \cup {SockWrite(i)}
    BY <2>6, WatchLemma, ListOnlyLemma, Distinct
  <2>8. Rest(cp') = Rest(cp) /\ cp'.on \ {SockWrite(i)} = cp.on \ {ReplyRead(i), SockWrite(i)}
    BY <2>1, <2>4, <2>5, <2>6, <2>7
  <2> QED
    BY <1>1, <2>8 DEF Quiet, Still, Rest
<1>3. CASE ReplySent(i)
  <2> DEFINE S == Served(SockWrite(i))
             T == [S EXCEPT !.out[i] = None]
  <2>1. Good(S) /\ Rest(S) = Rest(cp) /\ S.on = cp.on \ {SockWrite(i)}
    BY ServedRest
  <2>2. cp' = Watch(T, ReplyRead(i))
    BY <1>3 DEF ReplySent
  <2> HIDE DEF S
  <2>3. Good(T) /\ Rest(T) = Rest(S) /\ T.on = S.on
    BY <2>1 DEF Good, LoopState, Rest, UserOrNone
  <2> HIDE DEF T
  <2>4. Rest(cp') = Rest(cp) /\ cp'.on = (cp.on \ {SockWrite(i)}) \cup {ReplyRead(i)}
    BY <2>1, <2>2, <2>3, WatchLemma, ListOnlyLemma, Distinct
  <2> QED
    BY <1>1, <2>4 DEF Quiet, Still, Rest
<1> QED
  BY <1>2, <1>3

(* A message that is passed on leaves everything as it was.                *)
LEMMA ForwardEffect ==
  ASSUME Sound(cp), RtcRead \in cp.on, cp' = Watch(Served(RtcRead), RtcRead)
  PROVE  Rest(cp') = Rest(cp) /\ cp'.on = cp.on
<1> DEFINE S == Served(RtcRead)
<1>1. Good(S) /\ Rest(S) = Rest(cp) /\ S.on = cp.on \ {RtcRead}
  BY ServedRest
<1> HIDE DEF S
<1>2. Rest(Watch(S, RtcRead)) = Rest(S) /\ Watch(S, RtcRead).on = S.on \cup {RtcRead}
  BY <1>1, WatchLemma, ListOnlyLemma, Distinct
<1> QED
  BY <1>1, <1>2 DEF S

(* The output to the RTC, from its pipe to its socket, has to do with      *)
(* nothing else.                                                           *)
LEMMA RtcSentEffect ==
  ASSUME Sound(cp), RtcSent
  PROVE  Quiet(cp, cp')
<1> DEFINE S == Served(RtcWrite)
           T == [S EXCEPT !.rtcOut = None]
<1>1. Good(S) /\ Rest(S) = Rest(cp) /\ S.on = cp.on \ {RtcWrite}
  BY ServedRest
<1>2. cp' = Watch(T, RtcPipeRead)
  BY DEF RtcSent
<1> HIDE DEF S
<1>3. /\ Good(T) /\ T.on = S.on
      /\ Rest(T) = <<S.slot, S.rtc, None, S.schBuf, S.navBuf, S.schPipe, S.navPipe>>
  BY <1>1 DEF Good, LoopState, Rest
<1> HIDE DEF T
<1>4. Rest(cp') = Rest(T) /\ cp'.on = T.on \cup {RtcPipeRead}
  BY <1>2, <1>3, WatchLemma, ListOnlyLemma, Distinct
<1> QED
  BY <1>1, <1>3, <1>4, Distinct DEF Quiet, Still, Rest

LEMMA RtcPipeReceivedEffect ==
  ASSUME Sound(cp), RtcPipeReceived
  PROVE  Quiet(cp, cp') /\ RtcPipeRead \in cp.on
<1> DEFINE S == Served(RtcPipeRead)
           T == [S EXCEPT !.rtcPipe = Tail(S.rtcPipe)]
           V == [T EXCEPT !.rtcOut = Head(cp.rtcPipe)]
<1>1. Good(S) /\ Rest(S) = Rest(cp) /\ S.on = cp.on \ {RtcPipeRead}
  BY ServedRest
<1>2. cp.rtcPipe \in Seq(RtcCommand) /\ S.rtcPipe = cp.rtcPipe /\ cp.rtcPipe # <<>>
  BY ReadyLemma DEF RtcPipeReceived, Sound, Good, LoopState, Served, Unwatch
<1>3. Tail(S.rtcPipe) \in Seq(RtcCommand) /\ Head(cp.rtcPipe) \in RtcCommand
  BY <1>2
<1>4. cp' = IF cp.rtc THEN Watch(V, RtcWrite) ELSE Watch(T, RtcPipeRead)
  BY DEF RtcPipeReceived
<1> HIDE DEF S
<1>5. Good(T) /\ Rest(T) = Rest(S) /\ T.on = S.on
  BY <1>1, <1>3 DEF Good, LoopState, Rest
<1> HIDE DEF T
<1>6. /\ Good(V) /\ V.on = T.on
      /\ \E c : Rest(V) = <<T.slot, T.rtc, c, T.schBuf, T.navBuf, T.schPipe, T.navPipe>>
  BY <1>5, <1>3 DEF Good, LoopState, Rest
<1> HIDE DEF V
<1>7. /\ Rest(Watch(V, RtcWrite)) = Rest(V) /\ Watch(V, RtcWrite).on = V.on \cup {RtcWrite}
      /\ Rest(Watch(T, RtcPipeRead)) = Rest(T) /\ Watch(T, RtcPipeRead).on = T.on \cup {RtcPipeRead}
  BY <1>5, <1>6, WatchLemma, ListOnlyLemma, Distinct
<1>8. \E x \in {RtcWrite, RtcPipeRead} : cp'.on = (cp.on \ {RtcPipeRead}) \cup {x}
  BY <1>1, <1>4, <1>5, <1>6, <1>7
<1>9. \E c : Rest(cp') = <<cp.slot, cp.rtc, c, cp.schBuf, cp.navBuf, cp.schPipe, cp.navPipe>>
  BY <1>1, <1>4, <1>5, <1>6, <1>7 DEF Rest
<1>10. RtcPipeRead \in cp.on
  BY ReadyLemma DEF RtcPipeReceived
<1> QED
  BY <1>8, <1>9, <1>10, Distinct DEF Quiet, Still, Rest

(* What a step is to the threads and to the messages on their way to them. *)
QuietStep == Quiet(cp, cp') /\ sch' = sch /\ nav' = nav

MessageStep ==
  /\ \E m \in SchedulerMessage :
       /\ m.type \in {"SCH_COMMAND", "SCH_RTCNETMSG"}
       /\ Rest(cp') = <<cp.slot, cp.rtc, cp.rtcOut, m, cp.navBuf, cp.schPipe, cp.navPipe>>
  /\ (SockReads \cup {RtcRead}) \cap cp.on # {}
  /\ SchWrite \in cp'.on /\ (SockReads \cup {RtcRead}) \cap cp'.on = {}
  /\ NavWrite \in cp'.on <=> NavWrite \in cp.on
  /\ sch' = sch /\ nav' = nav

StatusStep ==
  /\ \E b \in BOOLEAN : \E c :
       Rest(cp') = <<cp.slot, b, c, RtcState(b), b, cp.schPipe, cp.navPipe>>
  /\ SchWrite \in cp'.on /\ NavWrite \in cp'.on /\ (SockReads \cup {RtcRead}) \cap cp'.on = {}
  /\ sch' = sch /\ nav' = nav

UpdateStep ==
  /\ Rest(cp') = <<cp.slot, cp.rtc, cp.rtcOut, cp.schBuf, TRUE, cp.schPipe, cp.navPipe>>
  /\ RtcRead \in cp.on /\ cp'.on = cp.on \cup {NavWrite}
  /\ sch' = sch /\ nav' = nav

GoneStep ==
  /\ \E i \in Slot : \E q \in Told(cp.schPipe, RemClient(i)) :
       Rest(cp') = <<[cp.slot EXCEPT ![i] = None], cp.rtc, cp.rtcOut, cp.schBuf, cp.navBuf,
                     q, cp.navPipe>>
  /\ cp'.on \cap SockReads \subseteq cp.on
  /\ \A x \in {SchWrite, NavWrite, RtcRead} : x \in cp'.on <=> x \in cp.on
  /\ sch' = sch /\ nav' = nav

ComeStep ==
  /\ Idle
  /\ \E u \in User, i \in FreeSlots : \E q \in Told(cp.schPipe, AddClient(i)) :
       Rest(cp') = <<[cp.slot EXCEPT ![i] = u], cp.rtc, cp.rtcOut, cp.schBuf, cp.navBuf,
                     q, cp.navPipe>>
  /\ \A x \in {SchWrite, NavWrite, RtcRead} : x \in cp'.on <=> x \in cp.on
  /\ sch' = sch /\ nav' = nav

SchedulerTakes ==
  /\ Rest(cp') = <<cp.slot, cp.rtc, cp.rtcOut, cp.schBuf, cp.navBuf, Tail(cp.schPipe), cp.navPipe>>
  /\ cp'.on = cp.on
  /\ nav' = nav

NavigatorTakes ==
  /\ Rest(cp') = <<cp.slot, cp.rtc, cp.rtcOut, cp.schBuf, cp.navBuf, cp.schPipe, Tail(cp.navPipe)>>
  /\ cp'.on = cp.on
  /\ sch' = sch

(* A thread takes a message from its pipe.                                 *)
LEMMA ThreadEffect ==
  ASSUME Sound(cp)
  PROVE  /\ SchedulerThread => SchedulerTakes
         /\ NavigatorThread => NavigatorTakes
  BY DEF SchedulerThread, NavigatorThread, Execute, Adopt, SchedulerTakes, NavigatorTakes,
         Rest, Sound, Good, LoopState

(* Only the sockets of connected clients are in the list.                  *)
LEMMA SocksAreConnected == ASSUME Sound(cp) PROVE SockReads \cap cp.on \subseteq Connected(cp)
  BY DEF Sound, Connected, SockReads

(* Each handler is one of these steps.                                     *)
LEMMA ServeSteps ==
  ASSUME Sound(cp), Serve
  PROVE  \/ QuietStep \/ MessageStep \/ StatusStep \/ UpdateStep \/ GoneStep \/ ComeStep
         \/ SchedulerSent \/ NavigatorSent
<1>1. ASSUME NEW i \in Slot, ClientCommand(i) PROVE MessageStep
  <2>1. /\ \E u \in User :
              Rest(cp') = <<cp.slot, cp.rtc, cp.rtcOut, Command(u, i), cp.navBuf,
                            cp.schPipe, cp.navPipe>>
        /\ cp'.on = (cp.on \cup {SchWrite}) \ (Connected(cp) \cup {RtcRead, SockRead(i)})
    BY <1>1, ClientCommandEffect
  <2>2. SockRead(i) \in cp.on
    BY <1>1, ReadyLemma DEF ClientCommand
  <2>3. \A u \in User : Command(u, i) \in SchedulerMessage /\ Command(u, i).type = "SCH_COMMAND"
    BY MessageLemma DEF Command
  <2>4. sch' = sch /\ nav' = nav
    BY <1>1 DEF ClientCommand
  <2>5. /\ (SockReads \cup {RtcRead}) \cap cp.on # {}
        /\ SchWrite \in cp'.on /\ (SockReads \cup {RtcRead}) \cap cp'.on = {}
        /\ NavWrite \in cp'.on <=> NavWrite \in cp.on
    BY <2>1, <2>2, SocksAreConnected, ConnectedLemma, Distinct
  <2> QED
    BY <2>1, <2>3, <2>4, <2>5 DEF MessageStep
<1>2. ASSUME NEW i \in Slot, ClientClosed(i) \/ ReplyFailed(i) PROVE GoneStep
  <2>1. PICK x \in {SockRead(i), SockWrite(i)} : cp' \in CloseClient(Served(x), i)
    BY <1>2 DEF ClientClosed, ReplyFailed
  <2>2. /\ \E q \in Told(cp.schPipe, RemClient(i)) :
             Rest(cp') = <<[cp.slot EXCEPT ![i] = None], cp.rtc, cp.rtcOut, cp.schBuf,
                           cp.navBuf, q, cp.navPipe>>
        /\ cp'.on = cp.on \ {SockRead(i), SockWrite(i)}
    BY <2>1, ClientGoneEffect
  <2>3. sch' = sch /\ nav' = nav
    BY <1>2 DEF ClientClosed, ReplyFailed
  <2> QED
    BY <2>2, <2>3, Distinct DEF GoneStep
<1>3. ASSUME NEW i \in Slot, ReplyReceived(i) \/ ReplySent(i) PROVE QuietStep
  BY <1>3, ReplyEffect DEF QuietStep, ReplyReceived, ReplySent
<1>4. ASSUME NEW x \in {RtcRead, RtcWrite}, cp' = CloseRtc(Served(x)), sch' = sch, nav' = nav
      PROVE  StatusStep
  <2>1. /\ Rest(cp') = <<cp.slot, FALSE, None, RtcState(FALSE), FALSE, cp.schPipe, cp.navPipe>>
        /\ cp'.on = (cp.on \ (Connected(cp) \cup {RtcRead, RtcWrite}))
                        \cup {SchWrite, NavWrite, RtcPipeRead}
    BY <1>4, RtcLostEffect
  <2>2. /\ SchWrite \in cp'.on /\ NavWrite \in cp'.on
        /\ (SockReads \cup {RtcRead}) \cap cp'.on = {}
    BY <2>1, SocksAreConnected, Distinct
  <2> QED
    BY <1>4, <2>1, <2>2 DEF StatusStep
<1>5. CASE RtcReceived
  <2>1. RtcRead \in cp.on /\ sch' = sch /\ nav' = nav
    BY <1>5, ReadyLemma DEF RtcReceived
  <2>2. CASE cp' = Watch(Served(RtcRead), RtcRead)
    <3>1. Rest(cp') = Rest(cp) /\ cp'.on = cp.on
      BY <2>1, <2>2, ForwardEffect
    <3> QED
      BY <2>1, <3>1 DEF QuietStep, Quiet, Still, Rest
  <2>3. CASE cp' = CloseRtc(Served(RtcRead))
    BY <1>4, <2>1, <2>3
  <2>4. CASE cp' = Watch(AddNavigatorChannel([Served(RtcRead) EXCEPT !.navBuf = TRUE]), RtcRead)
    BY <2>1, <2>4, NavUpdateEffect DEF UpdateStep
  <2>5. CASE cp' = AddSchedulerChannel([Served(RtcRead) EXCEPT !.schBuf = RtcNetMsg])
    <3>1. /\ Rest(cp') = <<cp.slot, cp.rtc, cp.rtcOut, RtcNetMsg, cp.navBuf, cp.schPipe, cp.navPipe>>
          /\ cp'.on = (cp.on \cup {SchWrite}) \ (Connected(cp) \cup {RtcRead})
      BY <2>5, DriveDoneEffect
    <3>2. RtcNetMsg \in SchedulerMessage /\ RtcNetMsg.type = "SCH_RTCNETMSG"
      BY MessageLemma DEF RtcNetMsg
    <3>3. /\ SchWrite \in cp'.on /\ (SockReads \cup {RtcRead}) \cap cp'.on = {}
          /\ NavWrite \in cp'.on <=> NavWrite \in cp.on
      BY <3>1, SocksAreConnected, ConnectedLemma, Distinct
    <3> QED
      BY <2>1, <3>1, <3>2, <3>3 DEF MessageStep
  <2> QED
    BY <1>5, <2>2, <2>3, <2>4, <2>5 DEF RtcReceived
<1>6. CASE RtcClosed \/ RtcFailed
  BY <1>4, <1>6 DEF RtcClosed, RtcFailed
<1>7. CASE RtcSent \/ RtcPipeReceived
  <2>1. sch' = sch /\ nav' = nav
    BY <1>7 DEF RtcSent, RtcPipeReceived
  <2> QED
    BY <1>7, <2>1, RtcSentEffect, RtcPipeReceivedEffect DEF QuietStep
<1>8. CASE ConnectControlClient
  <2>1. Idle /\ sch' = sch /\ nav' = nav
    BY <1>8 DEF ConnectControlClient
  <2>2. CASE cp' = cp
    BY <2>1, <2>2 DEF QuietStep, Quiet, Still
  <2>3. CASE cp' # cp
    <3>1. PICK u \in User, i \in FreeSlots :
              /\ \E q \in Told(cp.schPipe, AddClient(i)) :
                   Rest(cp') = <<[cp.slot EXCEPT ![i] = u], cp.rtc, cp.rtcOut, cp.schBuf,
                                 cp.navBuf, q, cp.navPipe>>
              /\ cp'.on = cp.on \cup {SockRead(i), ReplyRead(i)}
      BY <1>8, <2>3, ConnectClientEffect
    <3>2. \A x \in {SchWrite, NavWrite, RtcRead} : x \in cp'.on <=> x \in cp.on
      BY <3>1, Distinct DEF FreeSlots
    <3> QED
      BY <2>1, <3>1, <3>2 DEF ComeStep
  <2> QED
    BY <2>2, <2>3
<1>9. CASE ConnectController
  BY <1>9, ConnectControllerEffect DEF StatusStep, ConnectController
<1> QED
  BY <1>1, <1>2, <1>3, <1>5, <1>6, <1>7, <1>8, <1>9 DEF Serve

LEMMA Steps ==
  ASSUME Sound(cp), [Next]_vars
  PROVE  \/ QuietStep \/ MessageStep \/ StatusStep \/ UpdateStep \/ GoneStep \/ ComeStep
         \/ SchedulerSent \/ NavigatorSent \/ SchedulerThread \/ NavigatorThread
<1>1. CASE World \/ UNCHANGED vars
  BY <1>1 DEF World, vars, QuietStep, Quiet, Still
<1> QED
  BY <1>1, ServeSteps DEF Next

-----------------------------------------------------------------------------
(* The navigator.                                                          *)

NavigatorInv ==
  /\ RtcRead \in cp.on => cp.rtc
  /\ NavigatorTold

(* The last message stays the last when others are taken.                  *)
LEMMA LastOfTail ==
  ASSUME NEW T, NEW q \in Seq(T), q # <<>>
  PROVE  IF Tail(q) = <<>> THEN Head(q) = q[Len(q)]
         ELSE Tail(q)[Len(Tail(q))] = q[Len(q)]
<1> DEFINE r == Tail(q)
<1>1. /\ Len(q) \in Nat \ {0} /\ Len(r) = Len(q) - 1 /\ Head(q) = q[1]
      /\ \A n \in 1 .. (Len(q) - 1) : r[n] = q[n + 1]
      /\ r \in Seq(T)
  OBVIOUS
<1> HIDE DEF r
<1>2. \A s \in Seq(T) : (s = <<>> => Len(s) = 0) /\ (s # <<>> => Len(s) \in Nat \ {0})
  OBVIOUS
<1> QED
  BY <1>1, <1>2 DEF r

(* Every step keeps what the navigator is told true: the RTC is read only  *)
(* while it is connected, so an update never claims more.                  *)
LEMMA NavigatorStep ==
  ASSUME Sound(cp), Sound(cp)', Typed, NavigatorInv, [Next]_vars
  PROVE  NavigatorInv'
<1>0. cp.navPipe \in Seq(BOOLEAN) /\ cp.rtc \in BOOLEAN /\ cp.navBuf \in BOOLEAN
      /\ nav.online \in BOOLEAN
  BY DEF Sound, Good, LoopState, Typed
<1>1. CASE QuietStep \/ GoneStep \/ ComeStep
  <2>1. /\ cp'.rtc = cp.rtc /\ cp'.navBuf = cp.navBuf /\ cp'.navPipe = cp.navPipe /\ nav' = nav
        /\ RtcRead \in cp'.on <=> RtcRead \in cp.on
        /\ NavWrite \in cp'.on <=> NavWrite \in cp.on
    BY <1>1 DEF QuietStep, Quiet, Still, GoneStep, ComeStep, Rest
  <2> QED
    BY <2>1 DEF NavigatorInv, NavigatorTold
<1>2. CASE MessageStep
  <2>1. /\ cp'.rtc = cp.rtc /\ cp'.navBuf = cp.navBuf /\ cp'.navPipe = cp.navPipe /\ nav' = nav
        /\ RtcRead \notin cp'.on
        /\ NavWrite \in cp'.on <=> NavWrite \in cp.on
    BY <1>2 DEF MessageStep, Rest
  <2> QED
    BY <2>1 DEF NavigatorInv, NavigatorTold
<1>3. CASE StatusStep
  <2>1. PICK b \in BOOLEAN : cp'.rtc = b /\ cp'.navBuf = b
    BY <1>3 DEF StatusStep, Rest
  <2>2. RtcRead \notin cp'.on /\ NavWrite \in cp'.on
    BY <1>3 DEF StatusStep
  <2> QED
    BY <2>1, <2>2 DEF NavigatorInv, NavigatorTold
<1>4. CASE UpdateStep
  <2>1. /\ cp'.rtc = cp.rtc /\ cp'.navBuf = TRUE /\ RtcRead \in cp.on /\ NavWrite \in cp'.on
    BY <1>4 DEF UpdateStep, Rest
  <2>2. cp.rtc = TRUE
    BY <1>0, <2>1 DEF NavigatorInv
  <2> QED
    BY <2>1, <2>2 DEF NavigatorInv, NavigatorTold
<1>5. CASE SchedulerSent
  <2>1. /\ cp'.rtc = cp.rtc /\ cp'.navBuf = cp.navBuf /\ cp'.navPipe = cp.navPipe
        /\ nav' = nav
    BY <1>5, SchedulerSentEffect DEF Rest, SchedulerSent
  <2>2. cp'.on = (cp.on \ {SchWrite}) \cup Connected(cp)
                       \cup (IF cp.rtc /\ NavWrite \notin cp.on THEN {RtcRead} ELSE {})
    BY <1>5, SchedulerSentEffect
  <2>3. /\ RtcRead \in cp'.on => cp.rtc \/ RtcRead \in cp.on
        /\ NavWrite \in cp'.on <=> NavWrite \in cp.on
    BY <2>2, ConnectedLemma, Distinct
  <2> QED
    BY <2>1, <2>3 DEF NavigatorInv, NavigatorTold
<1>6. CASE NavigatorSent
  <2>1. /\ cp'.rtc = cp.rtc /\ cp'.navPipe = Append(cp.navPipe, cp.navBuf)
        /\ NavWrite \in cp.on
        /\ cp'.on = (cp.on \ {NavWrite})
                       \cup (IF cp.rtc /\ SchWrite \notin cp.on THEN {RtcRead} ELSE {})
    BY <1>6, NavigatorSentEffect DEF Rest
  <2>2. NavWrite \notin cp'.on /\ (RtcRead \in cp'.on => cp.rtc \/ RtcRead \in cp.on)
    BY <2>1, Distinct
  <2>3. cp.navBuf = cp.rtc
    BY <2>1 DEF NavigatorInv, NavigatorTold
  <2>4. cp'.navPipe # <<>> /\ cp'.navPipe[Len(cp'.navPipe)] = cp.navBuf
    <3> DEFINE q == cp.navPipe
               b == cp.navBuf
    <3>1. q \in Seq(BOOLEAN) /\ b \in BOOLEAN
      BY <1>0
    <3> HIDE DEF q, b
    <3>2. Append(q, b) # <<>> /\ Append(q, b)[Len(Append(q, b))] = b
      BY <3>1
    <3> QED
      BY <2>1, <3>2 DEF q, b
  <2> QED
    BY <2>1, <2>2, <2>3, <2>4 DEF NavigatorInv, NavigatorTold
<1>7. CASE SchedulerThread
  <2>1. /\ cp'.rtc = cp.rtc /\ cp'.navBuf = cp.navBuf /\ cp'.navPipe = cp.navPipe
        /\ nav' = nav /\ cp'.on = cp.on
    BY <1>7, ThreadEffect DEF SchedulerTakes, Rest
  <2> QED
    BY <2>1 DEF NavigatorInv, NavigatorTold
<1>8. CASE NavigatorThread
  <2>1. /\ cp'.rtc = cp.rtc /\ cp'.navBuf = cp.navBuf /\ cp'.navPipe = Tail(cp.navPipe)
        /\ cp'.on = cp.on
    BY <1>8, ThreadEffect DEF NavigatorTakes, Rest
  <2>2. cp.navPipe # <<>> /\ nav'.online = Head(cp.navPipe)
    BY <1>8 DEF NavigatorThread
  <2>3. IF Tail(cp.navPipe) = <<>> THEN Head(cp.navPipe) = cp.navPipe[Len(cp.navPipe)]
        ELSE Tail(cp.navPipe)[Len(Tail(cp.navPipe))] = cp.navPipe[Len(cp.navPipe)]
    <3> DEFINE q == cp.navPipe
    <3>1. q \in Seq(BOOLEAN) /\ q # <<>>
      BY <1>0, <2>2
    <3> HIDE DEF q
    <3>2. IF Tail(q) = <<>> THEN Head(q) = q[Len(q)]
          ELSE Tail(q)[Len(Tail(q))] = q[Len(q)]
      BY <3>1, LastOfTail
    <3> QED
      BY <3>2 DEF q
  <2> QED
    BY <2>1, <2>2, <2>3 DEF NavigatorInv, NavigatorTold
<1> QED
  BY <1>1, <1>2, <1>3, <1>4, <1>5, <1>6, <1>7, <1>8, Steps

(* Whatever becomes of the connection to the RTC, and however full the     *)
(* pipes are, the last that the navigator will have heard of it is true.   *)
THEOREM NavigatorIsTold == Spec => []NavigatorTold
<1>1. Init => Sound(cp) /\ Typed /\ NavigatorInv
  <2>1. Init => NavigatorInv
    BY DEF Init, NavigatorInv, NavigatorTold
  <2> QED
    BY <2>1, InitSound, InitTyped
<1>2. Sound(cp) /\ Typed /\ NavigatorInv /\ [Next]_vars => (Sound(cp) /\ Typed /\ NavigatorInv)'
  BY NextSound, NextTyped, NavigatorStep
<1>3. NavigatorInv => NavigatorTold
  BY DEF NavigatorInv
<1> QED
  BY <1>1, <1>2, <1>3, PTL DEF Spec

-----------------------------------------------------------------------------
(* What is staged for the scheduler.                                       *)

(* The pipe of the scheduler always has room for one more message.         *)
Room == Len(cp.schPipe) < PipeSize

(* While a message is staged, nothing is read that would stage another.    *)
Alone == SchWrite \in cp.on => (SockReads \cup {RtcRead}) \cap cp.on = {}

(* The loop does not come to connect anybody while a message is staged.    *)
LEMMA IdleLemma == ASSUME Room, Idle PROVE SchWrite \notin cp.on
<1>1. Ready(SchWrite)
  BY DEF Room, Ready, SchWrite
<1> QED
  BY <1>1 DEF Idle

(* Every step keeps the staged message alone.                              *)
LEMMA AloneStep ==
  ASSUME Sound(cp), Alone, Room, [Next]_vars
  PROVE  Alone'
<1>1. CASE QuietStep
  <2>1. \A x \in SockReads \cup {SchWrite, RtcRead} : x \in cp'.on <=> x \in cp.on
    BY <1>1 DEF QuietStep, Quiet, Still
  <2> QED
    BY <2>1 DEF Alone
<1>2. CASE MessageStep \/ StatusStep
  BY <1>2 DEF MessageStep, StatusStep, Alone
<1>3. CASE UpdateStep
  BY <1>3, Distinct DEF UpdateStep, Alone
<1>4. CASE GoneStep
  BY <1>4 DEF GoneStep, Alone
<1>5. CASE ComeStep
  BY <1>5, IdleLemma DEF ComeStep, Alone
<1>6. CASE SchedulerSent
  <2>1. cp'.on = (cp.on \ {SchWrite}) \cup Connected(cp)
                       \cup (IF cp.rtc /\ NavWrite \notin cp.on THEN {RtcRead} ELSE {})
    BY <1>6, SchedulerSentEffect
  <2>2. SchWrite \notin cp'.on
    BY <2>1, ConnectedLemma, Distinct
  <2> QED
    BY <2>2 DEF Alone
<1>7. CASE NavigatorSent
  <2>1. cp'.on = (cp.on \ {NavWrite})
                       \cup (IF cp.rtc /\ SchWrite \notin cp.on THEN {RtcRead} ELSE {})
    BY <1>7, NavigatorSentEffect
  <2> QED
    BY <2>1, Distinct DEF Alone
<1>8. CASE SchedulerThread \/ NavigatorThread
  <2>1. cp'.on = cp.on
    BY <1>8, ThreadEffect DEF SchedulerTakes, NavigatorTakes
  <2> QED
    BY <2>1 DEF Alone
<1> QED
  BY <1>1, <1>2, <1>3, <1>4, <1>5, <1>6, <1>7, <1>8, Steps

KeptStep == {SchWrite} \subseteq cp.on \cap cp'.on /\ cp'.schBuf # cp.schBuf
              => cp'.schBuf.type = "SCH_RTC_STATE"

(* So no step puts another in its place, but the state of the RTC.         *)
LEMMA KeptByStep ==
  ASSUME Sound(cp), Alone, [Next]_vars
  PROVE  KeptStep
<1>1. CASE QuietStep \/ GoneStep \/ ComeStep \/ UpdateStep \/ NavigatorSent
             \/ SchedulerThread \/ NavigatorThread
  <2>1. cp'.schBuf = cp.schBuf
    BY <1>1, NavigatorSentEffect, ThreadEffect
       DEF QuietStep, Quiet, GoneStep, ComeStep, UpdateStep, SchedulerTakes, NavigatorTakes, Rest
  <2> QED
    BY <2>1 DEF KeptStep
<1>2. CASE MessageStep
  BY <1>2 DEF MessageStep, Alone, KeptStep
<1>3. CASE StatusStep
  <2>1. PICK b \in BOOLEAN : cp'.schBuf = RtcState(b)
    BY <1>3 DEF StatusStep, Rest
  <2> QED
    BY <2>1 DEF KeptStep, RtcState
<1>4. CASE SchedulerSent
  <2>1. cp'.on = (cp.on \ {SchWrite}) \cup Connected(cp)
                       \cup (IF cp.rtc /\ NavWrite \notin cp.on THEN {RtcRead} ELSE {})
    BY <1>4, SchedulerSentEffect
  <2>2. SchWrite \notin cp'.on
    BY <2>1, ConnectedLemma, Distinct
  <2> QED
    BY <2>2 DEF KeptStep
<1> QED
  BY <1>1, <1>2, <1>3, <1>4, Steps

(* As long as the pipe of the scheduler never fills up, a message that is  *)
(* staged for it is sent, or gives way to the state of the RTC.            *)
THEOREM StagedMessageIsKept == Spec /\ []Room => StagedIsKept
<1>1. Init => Sound(cp) /\ Alone
  <2>1. Init => Alone
    BY DEF Init, Alone
  <2> QED
    BY <2>1, InitSound
<1>2. Sound(cp) /\ Alone /\ Room /\ [Next]_vars => (Sound(cp) /\ Alone)'
  BY NextSound, AloneStep
<1>3. Sound(cp) /\ Alone /\ [Next]_vars => [KeptStep]_cp
  BY KeptByStep
<1>4. (KeptStep <=> ({SchWrite} \subseteq cp.on \cap cp'.on /\ cp'.schBuf # cp.schBuf
              => cp'.schBuf.type = "SCH_RTC_STATE"))
  BY DEF KeptStep
<1>5. Sound(cp) /\ Alone /\ [Next]_vars
        => [{SchWrite} \subseteq cp.on \cap cp'.on /\ cp'.schBuf # cp.schBuf
              => cp'.schBuf.type = "SCH_RTC_STATE"]_cp
  BY <1>3, <1>4
<1> QED
  BY <1>1, <1>2, <1>5, PTL DEF Spec, StagedIsKept

-----------------------------------------------------------------------------
(* What the scheduler is told of the RTC.                                  *)

StatusMessage == {RtcState(b) : b \in BOOLEAN}

SchedulerInv ==
  /\ SchWrite \in cp.on /\ cp.schBuf \in StatusMessage => cp.schBuf = RtcState(cp.rtc)
  /\ ~(SchWrite \in cp.on /\ cp.schBuf \in StatusMessage)
       => Settled(cp.schPipe, StatusMessage, {RtcState(cp.rtc)}, sch.online = cp.rtc)

(* The messages about the state of the RTC are told from the others.       *)
LEMMA StatusLemma ==
  /\ \A m \in SchedulerMessage : m \in StatusMessage <=> m.type = "SCH_RTC_STATE"
  /\ \A b, c \in BOOLEAN : RtcState(b) = RtcState(c) <=> b = c
  /\ \A b \in BOOLEAN : RtcState(b).online = b /\ RtcState(b).type = "SCH_RTC_STATE"
  /\ \A i \in Slot : AddClient(i) \notin StatusMessage /\ RemClient(i) \notin StatusMessage
  /\ StatusMessage \subseteq SchedulerMessage
<1>1. \A b \in BOOLEAN : RtcState(b).online = b /\ RtcState(b).type = "SCH_RTC_STATE"
  BY DEF RtcState
<1>2. \A b, c \in BOOLEAN : RtcState(b) = RtcState(c) <=> b = c
  BY DEF RtcState
<1>3. \A i \in Slot : AddClient(i) \notin StatusMessage /\ RemClient(i) \notin StatusMessage
  BY <1>1 DEF AddClient, RemClient, StatusMessage
<1>4. \A m \in SchedulerMessage : m.type = "SCH_RTC_STATE" => m \in StatusMessage
  BY DEF SchedulerMessage, StatusMessage, RtcState
<1> QED
  BY <1>1, <1>2, <1>3, <1>4, MessageLemma DEF StatusMessage

(* Every step that keeps the staged message keeps it true as well.         *)
LEMMA SchedulerStep ==
  ASSUME Sound(cp), Typed, SchedulerInv, [Next]_vars, [KeptStep]_cp
  PROVE  SchedulerInv'
<1>0. cp.schPipe \in Seq(SchedulerMessage) /\ cp.rtc \in BOOLEAN /\ sch.online \in BOOLEAN
  BY DEF Sound, Good, LoopState, Typed
<1>1. CASE QuietStep \/ UpdateStep \/ NavigatorSent \/ NavigatorThread
  <2>1. /\ cp'.schBuf = cp.schBuf /\ cp'.schPipe = cp.schPipe /\ cp'.rtc = cp.rtc /\ sch' = sch
    BY <1>1, NavigatorSentEffect, ThreadEffect
       DEF QuietStep, Quiet, UpdateStep, NavigatorTakes, NavigatorSent, Rest
  <2>2. SchWrite \in cp'.on <=> SchWrite \in cp.on
    BY <1>1, NavigatorSentEffect, ThreadEffect, Distinct
       DEF QuietStep, Quiet, Still, UpdateStep, NavigatorTakes
  <2> QED
    BY <2>1, <2>2 DEF SchedulerInv
<1>2. CASE MessageStep
  <2>1. PICK m \in SchedulerMessage :
          /\ m.type \in {"SCH_COMMAND", "SCH_RTCNETMSG"}
          /\ Rest(cp') = <<cp.slot, cp.rtc, cp.rtcOut, m, cp.navBuf, cp.schPipe, cp.navPipe>>
    BY <1>2 DEF MessageStep
  <2>2. /\ cp'.schBuf = m /\ cp'.schPipe = cp.schPipe /\ cp'.rtc = cp.rtc /\ sch' = sch
        /\ SchWrite \in cp'.on
    BY <1>2, <2>1 DEF MessageStep, Rest
  <2>3. m \notin StatusMessage
    BY <2>1, StatusLemma
  <2>4. SchWrite \in cp.on => cp.schBuf \notin StatusMessage
    <3>1. cp' # cp /\ SchWrite \in cp.on => (cp'.schBuf # cp.schBuf => m.type = "SCH_RTC_STATE")
      BY <2>2 DEF KeptStep
    <3> QED
      BY <2>1, <2>2, <2>3, <3>1
  <2> QED
    BY <2>2, <2>3, <2>4 DEF SchedulerInv
<1>3. CASE StatusStep
  <2>1. PICK b \in BOOLEAN : cp'.schBuf = RtcState(b) /\ cp'.rtc = b
    BY <1>3 DEF StatusStep, Rest
  <2>2. SchWrite \in cp'.on /\ cp'.schBuf \in StatusMessage
    BY <1>3, <2>1 DEF StatusStep, StatusMessage
  <2> QED
    BY <2>1, <2>2 DEF SchedulerInv
<1>4. CASE GoneStep \/ ComeStep
  <2>1. PICK m \in SchedulerMessage \ StatusMessage : cp'.schPipe \in Told(cp.schPipe, m)
    BY <1>4, MessageLemma, StatusLemma DEF GoneStep, ComeStep, Rest, FreeSlots
  <2>2. /\ cp'.schBuf = cp.schBuf /\ cp'.rtc = cp.rtc /\ sch' = sch
        /\ SchWrite \in cp'.on <=> SchWrite \in cp.on
    BY <1>4 DEF GoneStep, ComeStep, Rest
  <2> QED
    BY <1>0, <2>1, <2>2, SettledByOthers DEF SchedulerInv, Told
<1>5. CASE SchedulerSent
  <2>1. /\ cp'.schPipe = Append(cp.schPipe, cp.schBuf) /\ cp'.rtc = cp.rtc /\ sch' = sch
        /\ SchWrite \in cp.on /\ cp.schBuf \in SchedulerMessage
    BY <1>5, SchedulerSentEffect DEF Rest, SchedulerSent
  <2>2. SchWrite \notin cp'.on
    <3>1. cp'.on = (cp.on \ {SchWrite}) \cup Connected(cp)
                       \cup (IF cp.rtc /\ NavWrite \notin cp.on THEN {RtcRead} ELSE {})
      BY <1>5, SchedulerSentEffect
    <3> QED
      BY <3>1, ConnectedLemma, Distinct
  <2> DEFINE M == StatusMessage
             G == {RtcState(cp.rtc)}
             now == sch.online = cp.rtc
  <2>3. Settled(Append(cp.schPipe, cp.schBuf), M, G, now)
    <3>1. CASE cp.schBuf \in StatusMessage
      <4>1. cp.schBuf \in SchedulerMessage \cap M \cap G
        BY <2>1, <3>1 DEF SchedulerInv
      <4> HIDE DEF M, G, now
      <4> QED
        BY <1>0, <4>1, SettledByLast
    <3>2. CASE cp.schBuf \notin StatusMessage
      <4>1. Settled(cp.schPipe, M, G, now) /\ cp.schBuf \notin M
        BY <3>2 DEF SchedulerInv
      <4> HIDE DEF M, G, now
      <4> QED
        BY <1>0, <2>1, <4>1, SettledByOthers
    <3> QED
      BY <3>1, <3>2
  <2> QED
    BY <2>1, <2>2, <2>3 DEF SchedulerInv
<1>6. CASE SchedulerThread
  <2>1. /\ cp'.schBuf = cp.schBuf /\ cp'.schPipe = Tail(cp.schPipe) /\ cp'.rtc = cp.rtc
        /\ cp'.on = cp.on
    BY <1>6, ThreadEffect DEF SchedulerTakes, Rest
  <2>2. cp.schPipe # <<>>
    BY <1>6 DEF SchedulerThread
  <2> DEFINE M == StatusMessage
             G == {RtcState(cp.rtc)}
             now == sch.online = cp.rtc
             then == sch'.online = cp.rtc
             q == cp.schPipe
  <2>3. Head(q) \notin M => (now => then)
    <3>1. Head(q) \in SchedulerMessage
      BY <1>0, <2>2
    <3>2. Head(q) \notin M => sch'.online = sch.online
      BY <1>6, <3>1, StatusLemma DEF SchedulerThread, Execute, Adopt, Typed, SchedulerMessage
    <3> QED
      BY <3>2
  <2>4. Head(q) \in M \cap G => then
    <3>1. RtcState(cp.rtc).type = "SCH_RTC_STATE" /\ RtcState(cp.rtc).online = cp.rtc
      BY <1>0, StatusLemma
    <3>2. Head(q) \in G => sch'.online = Head(q).online
      BY <1>6, <3>1 DEF SchedulerThread, Execute, Adopt, Typed
    <3> QED
      BY <3>1, <3>2
  <2>5. Settled(q, M, G, now) => Settled(Tail(q), M, G, then)
    <3> HIDE DEF M, G, now, then, q
    <3>1. q \in Seq(SchedulerMessage) /\ q # <<>>
      BY <1>0, <2>2 DEF q
    <3> QED
      BY <2>3, <2>4, <3>1, SettledByReader
  <2> QED
    BY <2>1, <2>5 DEF SchedulerInv
<1> QED
  BY <1>1, <1>2, <1>3, <1>4, <1>5, <1>6, Steps

(* The pipe, and behind it what is staged.                                 *)
LEMMA OnItsWayLemma ==
  ASSUME Sound(cp)
  PROVE  /\ cp.schPipe \in Seq(SchedulerMessage)
         /\ OnItsWay \in Seq(SchedulerMessage)
         /\ SchWrite \in cp.on => /\ OnItsWay = Append(cp.schPipe, cp.schBuf)
                                  /\ cp.schBuf \in SchedulerMessage
         /\ SchWrite \notin cp.on => OnItsWay = cp.schPipe
<1>1. cp.schPipe \in Seq(SchedulerMessage)
  BY DEF Sound, Good, LoopState
<1>2. CASE SchWrite \in cp.on
  <2>1. cp.schBuf \in SchedulerMessage
    BY <1>2 DEF Sound
  <2>2. \A q \in Seq(SchedulerMessage), m \in SchedulerMessage :
          q \o <<m>> = Append(q, m) /\ Append(q, m) \in Seq(SchedulerMessage)
    OBVIOUS
  <2> QED
    BY <1>1, <1>2, <2>1, <2>2 DEF OnItsWay, Staged
<1>3. CASE SchWrite \notin cp.on
  <2>1. \A q \in Seq(SchedulerMessage) : q \o <<>> = q
    OBVIOUS
  <2> QED
    BY <1>1, <1>3, <2>1 DEF OnItsWay, Staged
<1> QED
  BY <1>1, <1>2, <1>3

(* What is staged stands behind what the pipe holds.                       *)
LEMMA SchedulerIsTold ==
  ASSUME Sound(cp), Typed, SchedulerInv
  PROVE  SchedulerTold
<1> DEFINE q == OnItsWay
           M == StatusMessage
           G == {RtcState(cp.rtc)}
           now == sch.online = cp.rtc
           L == LastIndex(q, LAMBDA m : m.type = "SCH_RTC_STATE")
<1>1. Settled(q, M, G, now)
  <2>1. CASE SchWrite \in cp.on /\ cp.schBuf \in StatusMessage
    <3>1. cp.schBuf \in SchedulerMessage \cap M \cap G
      BY <2>1, OnItsWayLemma DEF SchedulerInv
    <3> HIDE DEF M, G, now
    <3> QED
      BY <2>1, <3>1, OnItsWayLemma, SettledByLast
  <2>2. CASE ~(SchWrite \in cp.on /\ cp.schBuf \in StatusMessage)
    <3>1. Settled(cp.schPipe, M, G, now) /\ (SchWrite \in cp.on => cp.schBuf \notin M)
      BY <2>2 DEF SchedulerInv
    <3> HIDE DEF M, G, now
    <3> QED
      BY <3>1, OnItsWayLemma, SettledByOthers
  <2> QED
    BY <2>1, <2>2
<1>2. \A n \in DOMAIN q : q[n].type = "SCH_RTC_STATE" <=> q[n] \in M
  <2>1. q \in Seq(SchedulerMessage)
    BY OnItsWayLemma
  <2> HIDE DEF q
  <2> QED
    BY <2>1, StatusLemma
<1>3. L = {n \in DOMAIN q : q[n] \in M /\ \A m \in DOMAIN q : q[m] \in M => m <= n}
  <2> HIDE DEF q, M
  <2> QED
    BY <1>2 DEF LastIndex
<1>4. cp.rtc \in BOOLEAN /\ sch.online \in BOOLEAN
  BY DEF Sound, Good, LoopState, Typed
<1>5. DOMAIN q \subseteq Int
  <2>1. \A s \in Seq(SchedulerMessage) : DOMAIN s = 1 .. Len(s) /\ Len(s) \in Nat
    OBVIOUS
  <2> QED
    BY <2>1, OnItsWayLemma
<1>6. RtcState(cp.rtc).online = cp.rtc
  BY <1>4, StatusLemma
<1>7. CASE L = {}
  <2>1. now
    <3> HIDE DEF q, M, G, now, L
    <3> QED
      BY <1>1, <1>3, <1>7 DEF Settled
  <2> QED
    BY <1>4, <1>7, <2>1 DEF SchedulerTold
<1>8. CASE L # {}
  <2>1. \A n \in L : q[n] \in G
    <3> HIDE DEF q, M, G, now, L
    <3> QED
      BY <1>1, <1>3, <1>5 DEF Settled
  <2>2. \A n \in L : q[n].online = cp.rtc
    BY <1>6, <2>1
  <2>3. cp.rtc = \A n \in L : q[n].online
    <3> HIDE DEF L
    <3> QED
      BY <1>4, <1>8, <2>2
  <2> QED
    BY <1>8, <2>3 DEF SchedulerTold
<1> QED
  BY <1>7, <1>8

(* As long as what is staged is kept, both threads are on their way to     *)
(* know the truth about the RTC: to forget it takes a message that is      *)
(* staged in the place of the state.                                       *)
THEOREM StatusIsOnItsWay == Spec /\ StagedIsKept => []StatusOnItsWay
<1> DEFINE Inv == Sound(cp) /\ Typed /\ NavigatorInv /\ SchedulerInv
<1>1. Init => Inv
  <2>1. Init => NavigatorInv
    BY DEF Init, NavigatorInv, NavigatorTold
  <2>2. Init => SchedulerInv
    BY DEF Init, SchedulerInv, Settled
  <2> QED
    BY <2>1, <2>2, InitSound, InitTyped
<1>2. (KeptStep <=> ({SchWrite} \subseteq cp.on \cap cp'.on /\ cp'.schBuf # cp.schBuf
              => cp'.schBuf.type = "SCH_RTC_STATE"))
  BY DEF KeptStep
<1>3. Inv /\ [Next]_vars
          /\ [{SchWrite} \subseteq cp.on \cap cp'.on /\ cp'.schBuf # cp.schBuf
              => cp'.schBuf.type = "SCH_RTC_STATE"]_cp
        => Inv'
  BY <1>2, NextSound, NextTyped, NavigatorStep, SchedulerStep
<1>4. Inv => StatusOnItsWay
  BY SchedulerIsTold DEF StatusOnItsWay, NavigatorInv
<1> QED
  BY <1>1, <1>3, <1>4, PTL DEF Spec, StagedIsKept

(* So they are as long as the pipe of the scheduler has room.              *)
THEOREM StatusWithRoom == Spec /\ []Room => []StatusOnItsWay
  BY StagedMessageIsKept, StatusIsOnItsWay, PTL

-----------------------------------------------------------------------------
(* Whom the scheduler reports to.                                          *)

ListMessage(i) == {AddClient(i), RemClient(i)}
Listing(i)     == IF cp.slot[i] # None THEN AddClient(i) ELSE RemClient(i)

(* No slot is added to the list that is in it: before each message that    *)
(* adds it stands one that takes it off, with none that adds it between    *)
(* them, or none that adds it and it is not in the list yet.               *)
InTurn(q, a, r, count) ==
  \A n \in DOMAIN q : q[n] = a =>
     \/ \E m \in DOMAIN q : /\ m < n /\ q[m] = r
                            /\ \A k \in DOMAIN q : m < k /\ k < n => q[k] # a
     \/ count = 0 /\ \A k \in DOMAIN q : k < n => q[k] # a

ListInv ==
  /\ SchWrite \in cp.on => cp.schBuf.type \notin {"SCH_ADD_CLIENT", "SCH_REM_CLIENT"}
  /\ \A i \in Slot : Settled(cp.schPipe, ListMessage(i), {Listing(i)},
                             (sch.listed[i] > 0) = (cp.slot[i] # None))
  /\ \A i \in Slot : /\ sch.listed[i] \in {0, 1}
                     /\ InTurn(cp.schPipe, AddClient(i), RemClient(i), sch.listed[i])

(* A message that adds no one leaves the turns as they were.               *)
LEMMA TurnOfOthers ==
  ASSUME NEW q \in Seq(SchedulerMessage), NEW a, NEW r, NEW count,
         NEW m \in SchedulerMessage, m # a, InTurn(q, a, r, count)
  PROVE  InTurn(Append(q, m), a, r, count)
<1> DEFINE p == Append(q, m)
<1>1. /\ DOMAIN p = 1 .. (Len(q) + 1) /\ p[Len(q) + 1] = m /\ DOMAIN q = 1 .. Len(q)
      /\ Len(q) \in Nat /\ \A n \in DOMAIN q : p[n] = q[n]
  OBVIOUS
<1> HIDE DEF p
<1> SUFFICES ASSUME NEW n \in DOMAIN p, p[n] = a
             PROVE  \/ \E j \in DOMAIN p : /\ j < n /\ p[j] = r
                                           /\ \A k \in DOMAIN p : j < k /\ k < n => p[k] # a
                    \/ count = 0 /\ \A k \in DOMAIN p : k < n => p[k] # a
  BY DEF InTurn, p
<1>2. n \in DOMAIN q /\ q[n] = a /\ \A k \in DOMAIN p : k < n => k \in DOMAIN q
  BY <1>1
<1>3. CASE \E j \in DOMAIN q : /\ j < n /\ q[j] = r
                               /\ \A k \in DOMAIN q : j < k /\ k < n => q[k] # a
  BY <1>1, <1>2, <1>3
<1>4. CASE count = 0 /\ \A k \in DOMAIN q : k < n => q[k] # a
  BY <1>1, <1>2, <1>4
<1> QED
  BY <1>2, <1>3, <1>4 DEF InTurn

(* A slot is added when the last news is that it was taken off.            *)
LEMMA TurnOfNext ==
  ASSUME NEW q \in Seq(SchedulerMessage), NEW a \in SchedulerMessage, NEW r, NEW count, NEW now,
         a # r, now => count = 0,
         Settled(q, {a, r}, {r}, now), InTurn(q, a, r, count)
  PROVE  InTurn(Append(q, a), a, r, count)
<1> DEFINE p == Append(q, a)
<1>1. /\ DOMAIN p = 1 .. (Len(q) + 1) /\ p[Len(q) + 1] = a /\ DOMAIN q = 1 .. Len(q)
      /\ Len(q) \in Nat /\ \A n \in DOMAIN q : p[n] = q[n]
  OBVIOUS
<1> HIDE DEF p
<1> SUFFICES ASSUME NEW n \in DOMAIN p, p[n] = a
             PROVE  \/ \E j \in DOMAIN p : /\ j < n /\ p[j] = r
                                           /\ \A k \in DOMAIN p : j < k /\ k < n => p[k] # a
                    \/ count = 0 /\ \A k \in DOMAIN p : k < n => p[k] # a
  BY DEF InTurn, p
<1>2. CASE n \in DOMAIN q
  <2>1. q[n] = a /\ \A k \in DOMAIN p : k < n => k \in DOMAIN q
    BY <1>1, <1>2
  <2>2. CASE \E j \in DOMAIN q : /\ j < n /\ q[j] = r
                                 /\ \A k \in DOMAIN q : j < k /\ k < n => q[k] # a
    BY <1>1, <2>1, <2>2
  <2>3. CASE count = 0 /\ \A k \in DOMAIN q : k < n => q[k] # a
    BY <1>1, <2>1, <2>3
  <2> QED
    BY <1>2, <2>1, <2>2, <2>3 DEF InTurn
<1>3. CASE n \notin DOMAIN q
  <2>1. n = Len(q) + 1 /\ \A k \in DOMAIN p : k < n => k \in DOMAIN q
    BY <1>1, <1>3
  <2>2. ASSUME NEW j \in DOMAIN q, q[j] = r, \A k \in DOMAIN q : q[k] \in {a, r} => k <= j
        PROVE  \A k \in DOMAIN p : j < k /\ k < n => p[k] # a
    BY <1>1, <2>1, <2>2
  <2>3. CASE \E j \in DOMAIN q : q[j] = r /\ \A k \in DOMAIN q : q[k] \in {a, r} => k <= j
    <3>1. PICK j \in DOMAIN q : q[j] = r /\ \A k \in DOMAIN q : q[k] \in {a, r} => k <= j
      BY <2>3
    <3>2. j \in DOMAIN p /\ j < n /\ p[j] = r
      BY <1>1, <2>1, <3>1
    <3> QED
      BY <2>2, <3>1, <3>2
  <2>4. CASE (\A k \in DOMAIN q : q[k] \notin {a, r}) /\ now
    BY <1>1, <2>1, <2>4
  <2> QED
    BY <2>3, <2>4 DEF Settled
<1> QED
  BY <1>2, <1>3

(* The reader takes a message, and counts what it adds or takes off.       *)
LEMMA TurnOfReader ==
  ASSUME NEW q \in Seq(SchedulerMessage), q # <<>>, NEW a, NEW r, a # r, NEW count, NEW then,
         InTurn(q, a, r, count),
         Head(q) = r => then = 0,
         Head(q) \notin {a, r} => then = count
  PROVE  InTurn(Tail(q), a, r, then)
<1> DEFINE p == Tail(q)
<1>1. /\ Len(q) \in Nat \ {0} /\ DOMAIN q = 1 .. Len(q) /\ DOMAIN p = 1 .. (Len(q) - 1)
      /\ \A n \in 1 .. (Len(q) - 1) : p[n] = q[n + 1]
      /\ Head(q) = q[1]
  OBVIOUS
<1> HIDE DEF p
<1> SUFFICES ASSUME NEW n \in DOMAIN p, p[n] = a
             PROVE  \/ \E j \in DOMAIN p : /\ j < n /\ p[j] = r
                                           /\ \A k \in DOMAIN p : j < k /\ k < n => p[k] # a
                    \/ then = 0 /\ \A k \in DOMAIN p : k < n => p[k] # a
  BY DEF InTurn, p
<1>2. /\ n + 1 \in DOMAIN q /\ q[n + 1] = a /\ 1 \in DOMAIN q
      /\ \A k \in DOMAIN p : k + 1 \in DOMAIN q /\ p[k] = q[k + 1]
  BY <1>1
<1>3. ASSUME NEW j \in DOMAIN q, j < n + 1, q[j] = r,
             \A k \in DOMAIN q : j < k /\ k < n + 1 => q[k] # a
      PROVE  \/ \E i \in DOMAIN p : /\ i < n /\ p[i] = r
                                    /\ \A k \in DOMAIN p : i < k /\ k < n => p[k] # a
             \/ then = 0 /\ \A k \in DOMAIN p : k < n => p[k] # a
  <2>1. CASE j = 1
    BY <1>1, <1>2, <1>3, <2>1
  <2>2. CASE j # 1
    <3>1. j - 1 \in DOMAIN p /\ j - 1 < n /\ p[j - 1] = r
      BY <1>1, <1>3, <2>2
    <3>2. \A k \in DOMAIN p : j - 1 < k /\ k < n => p[k] # a
      BY <1>1, <1>2, <1>3
    <3> QED
      BY <3>1, <3>2
  <2> QED
    BY <2>1, <2>2
<1>4. ASSUME count = 0, \A k \in DOMAIN q : k < n + 1 => q[k] # a
      PROVE  then = 0 /\ \A k \in DOMAIN p : k < n => p[k] # a
  <2>1. q[1] # a
    BY <1>1, <1>2, <1>4
  <2> QED
    BY <1>1, <1>2, <1>4, <2>1
<1> QED
  BY <1>2, <1>3, <1>4 DEF InTurn

(* The messages about a slot are told from the others.                     *)
LEMMA ListLemma ==
  /\ \A i \in Slot : \A m \in SchedulerMessage :
       m \in ListMessage(i) <=> /\ m.type \in {"SCH_ADD_CLIENT", "SCH_REM_CLIENT"}
                                /\ m.slot = i
  /\ \A i \in Slot : /\ AddClient(i).type = "SCH_ADD_CLIENT" /\ RemClient(i).type = "SCH_REM_CLIENT"
                     /\ AddClient(i).slot = i /\ RemClient(i).slot = i
<1>1. \A i \in Slot : /\ AddClient(i).type = "SCH_ADD_CLIENT" /\ RemClient(i).type = "SCH_REM_CLIENT"
                      /\ AddClient(i).slot = i /\ RemClient(i).slot = i
  BY DEF AddClient, RemClient
<1>2. ASSUME NEW i \in Slot, NEW m \in SchedulerMessage,
             m.type \in {"SCH_ADD_CLIENT", "SCH_REM_CLIENT"}, m.slot = i
      PROVE  m \in ListMessage(i)
  <2>1. m \in [type : {"SCH_ADD_CLIENT", "SCH_REM_CLIENT"}, slot : Slot]
    BY <1>2 DEF SchedulerMessage
  <2> QED
    BY <1>2, <2>1 DEF ListMessage, AddClient, RemClient
<1> QED
  BY <1>1, <1>2 DEF ListMessage

(* Every step keeps the news of every slot true.                           *)
LEMMA ListStep ==
  ASSUME "LOG" \notin Faults, Sound(cp), Sound(cp)', Typed, ListInv, Room, [Next]_vars
  PROVE  ListInv'
<1>0. /\ cp.schPipe \in Seq(SchedulerMessage) /\ cp.slot \in [Slot -> UserOrNone]
      /\ sch.listed \in [Slot -> Nat]
  BY DEF Sound, Good, LoopState, Typed
<1>1. CASE QuietStep \/ UpdateStep \/ NavigatorSent \/ NavigatorThread
  <2>1. /\ cp'.schBuf = cp.schBuf /\ cp'.schPipe = cp.schPipe /\ cp'.slot = cp.slot /\ sch' = sch
    BY <1>1, NavigatorSentEffect, ThreadEffect
       DEF QuietStep, Quiet, UpdateStep, NavigatorTakes, NavigatorSent, Rest
  <2>2. SchWrite \in cp'.on <=> SchWrite \in cp.on
    BY <1>1, NavigatorSentEffect, ThreadEffect, Distinct
       DEF QuietStep, Quiet, Still, UpdateStep, NavigatorTakes
  <2> QED
    BY <2>1, <2>2 DEF ListInv, Listing
<1>2. CASE MessageStep \/ StatusStep
  <2>1. /\ cp'.schPipe = cp.schPipe /\ cp'.slot = cp.slot /\ sch' = sch
        /\ cp'.schBuf.type \in {"SCH_COMMAND", "SCH_RTCNETMSG", "SCH_RTC_STATE"}
    BY <1>2, StatusLemma DEF MessageStep, StatusStep, Rest
  <2> QED
    BY <2>1 DEF ListInv, Listing
<1>3. CASE GoneStep \/ ComeStep
  <2>1. PICK i \in Slot, u \in UserOrNone :
          /\ cp'.schPipe = Queued(cp.schPipe, IF u # None THEN AddClient(i) ELSE RemClient(i))
          /\ cp'.slot = [cp.slot EXCEPT ![i] = u]
          /\ u # None => cp.slot[i] = None
    <3>1. CASE GoneStep
      BY <3>1 DEF GoneStep, Rest, UserOrNone, Told
    <3>2. CASE ComeStep
      BY <3>2, NoneAssumption DEF ComeStep, Rest, UserOrNone, Told, FreeSlots
    <3> QED
      BY <1>3, <3>1, <3>2
  <2> DEFINE m == IF u # None THEN AddClient(i) ELSE RemClient(i)
  <2>2. /\ cp'.schBuf = cp.schBuf /\ sch' = sch
        /\ SchWrite \in cp'.on <=> SchWrite \in cp.on
    BY <1>3 DEF GoneStep, ComeStep, Rest
  <2>3. m \in SchedulerMessage /\ m \in ListMessage(i)
    BY MessageLemma DEF ListMessage
  <2>4. cp'.schPipe = Append(cp.schPipe, m)
    BY <2>1 DEF Queued, Room
  <2>5. ASSUME NEW j \in Slot
        PROVE  Settled(cp'.schPipe, ListMessage(j), {Listing(j)'},
                       (sch'.listed[j] > 0) = (cp'.slot[j] # None))
    <3>1. CASE j = i
      <4> DEFINE M == ListMessage(j)
                 G == {Listing(j)'}
                 now == (sch'.listed[j] > 0) = (cp'.slot[j] # None)
      <4>1. m \in SchedulerMessage \cap M \cap G
        BY <1>0, <2>1, <2>3, <3>1 DEF Listing
      <4>2. Settled(Append(cp.schPipe, m), M, G, now)
        <5> HIDE DEF M, G, now, m
        <5> QED
          BY <1>0, <4>1, SettledByLast
      <4> QED
        BY <2>4, <4>2
    <3>2. CASE j # i
      <4>1. Listing(j)' = Listing(j) /\ cp'.slot[j] = cp.slot[j]
        BY <1>0, <2>1, <3>2 DEF Listing
      <4>2. m \notin ListMessage(j)
        BY <2>3, <3>2, ListLemma
      <4> DEFINE M == ListMessage(j)
                 G == {Listing(j)}
                 now == (sch.listed[j] > 0) = (cp.slot[j] # None)
      <4>3. Settled(cp.schPipe, M, G, now)
        BY DEF ListInv
      <4>4. Settled(Append(cp.schPipe, m), M, G, now)
        <5> HIDE DEF M, G, now, m
        <5> QED
          BY <1>0, <2>3, <4>2, <4>3, SettledByOthers DEF M
      <4> QED
        BY <2>2, <2>4, <4>1, <4>4
    <3> QED
      BY <3>1, <3>2
  <2>6. ASSUME NEW j \in Slot
        PROVE  InTurn(cp'.schPipe, AddClient(j), RemClient(j), sch'.listed[j])
    <3> DEFINE a == AddClient(j)
               r == RemClient(j)
               count == sch.listed[j]
               now == (sch.listed[j] > 0) = (cp.slot[j] # None)
    <3>1. InTurn(cp.schPipe, a, r, count) /\ sch.listed[j] \in {0, 1}
      BY DEF ListInv
    <3>2. CASE m # a
      <4> HIDE DEF a, r, m, count
      <4>1. InTurn(Append(cp.schPipe, m), a, r, count)
        BY <1>0, <2>3, <3>1, <3>2, TurnOfOthers
      <4> QED
        BY <2>2, <2>4, <4>1 DEF a, r, count
    <3>3. CASE m = a
      <4>1. i = j /\ u # None
        BY <2>3, <3>3, ListLemma
      <4>2. Listing(j) = r /\ cp.slot[j] = None /\ a # r
        BY <2>1, <4>1, ListLemma DEF Listing
      <4>3. Settled(cp.schPipe, {a, r}, {r}, now)
        BY <4>2 DEF ListInv, ListMessage
      <4>4. now => count = 0
        BY <3>1, <4>2
      <4>5. a \in SchedulerMessage
        BY MessageLemma
      <4> HIDE DEF a, r, m, count, now
      <4>6. InTurn(Append(cp.schPipe, a), a, r, count)
        BY <1>0, <3>1, <4>2, <4>3, <4>4, <4>5, TurnOfNext
      <4> QED
        BY <2>2, <2>4, <3>3, <4>6 DEF a, r, count
    <3> QED
      BY <3>2, <3>3
  <2> QED
    BY <2>2, <2>5, <2>6 DEF ListInv
<1>4. CASE SchedulerSent
  <2>1. /\ cp'.schPipe = Append(cp.schPipe, cp.schBuf) /\ cp'.slot = cp.slot /\ sch' = sch
        /\ SchWrite \in cp.on /\ cp.schBuf \in SchedulerMessage
    BY <1>4, SchedulerSentEffect DEF Rest, SchedulerSent
  <2>2. SchWrite \notin cp'.on
    <3>1. cp'.on = (cp.on \ {SchWrite}) \cup Connected(cp)
                       \cup (IF cp.rtc /\ NavWrite \notin cp.on THEN {RtcRead} ELSE {})
      BY <1>4, SchedulerSentEffect
    <3> QED
      BY <3>1, ConnectedLemma, Distinct
  <2>3. ASSUME NEW j \in Slot
        PROVE  Settled(cp'.schPipe, ListMessage(j), {Listing(j)'},
                       (sch'.listed[j] > 0) = (cp'.slot[j] # None))
    <3> DEFINE M == ListMessage(j)
               G == {Listing(j)}
               now == (sch.listed[j] > 0) = (cp.slot[j] # None)
    <3>1. Settled(cp.schPipe, M, G, now) /\ Listing(j)' = Listing(j)
      BY <2>1 DEF ListInv, Listing
    <3>2. cp.schBuf \notin M
      BY <2>1, ListLemma DEF ListInv
    <3>3. Settled(Append(cp.schPipe, cp.schBuf), M, G, now)
      <4> HIDE DEF M, G, now
      <4> QED
        BY <1>0, <2>1, <3>1, <3>2, SettledByOthers
    <3> QED
      BY <2>1, <3>1, <3>3
  <2>4. ASSUME NEW j \in Slot
        PROVE  InTurn(cp'.schPipe, AddClient(j), RemClient(j), sch'.listed[j])
    <3>1. cp.schBuf # AddClient(j)
      BY <2>1, ListLemma DEF ListInv
    <3>2. InTurn(cp.schPipe, AddClient(j), RemClient(j), sch.listed[j])
      BY DEF ListInv
    <3> QED
      BY <1>0, <2>1, <3>1, <3>2, TurnOfOthers
  <2> QED
    BY <2>1, <2>2, <2>3, <2>4 DEF ListInv
<1>5. CASE SchedulerThread
  <2>1. /\ cp'.schBuf = cp.schBuf /\ cp'.schPipe = Tail(cp.schPipe) /\ cp'.slot = cp.slot
        /\ cp'.on = cp.on
    BY <1>5, ThreadEffect DEF SchedulerTakes, Rest
  <2>2. cp.schPipe # <<>>
    BY <1>5 DEF SchedulerThread
  <2>3. Head(cp.schPipe) \in SchedulerMessage
    BY <1>0, <2>2
  <2>4. ASSUME NEW j \in Slot
        PROVE  sch'.listed[j] = IF Head(cp.schPipe) = AddClient(j) THEN 1
                                ELSE IF Head(cp.schPipe) = RemClient(j) THEN 0
                                ELSE sch.listed[j]
    <3> DEFINE h == Head(cp.schPipe)
    <3>1. sch.listed[j] \in {0, 1} /\ InTurn(cp.schPipe, AddClient(j), RemClient(j), sch.listed[j])
      BY DEF ListInv
    <3>2. h = AddClient(j) => sch.listed[j] = 0
      <4>1. /\ 1 \in DOMAIN cp.schPipe /\ h = cp.schPipe[1]
            /\ \A n \in DOMAIN cp.schPipe : ~(n < 1)
        BY <1>0, <2>2
      <4> QED
        BY <3>1, <4>1 DEF InTurn
    <3>3. h \in SchedulerMessage
      BY <2>3
    <3> HIDE DEF h
    <3>4. /\ h = AddClient(j) <=> h.type = "SCH_ADD_CLIENT" /\ h.slot = j
          /\ h = RemClient(j) <=> h.type = "SCH_REM_CLIENT" /\ h.slot = j
      BY <3>3, ListLemma DEF ListMessage
    <3>5. \/ h.type \notin {"SCH_ADD_CLIENT", "SCH_REM_CLIENT"} /\ sch'.listed = sch.listed
          \/ /\ h.type = "SCH_ADD_CLIENT"
             /\ sch'.listed = [sch.listed EXCEPT ![h.slot] = @ + 1]
          \/ /\ h.type = "SCH_REM_CLIENT"
             /\ sch'.listed = [sch.listed EXCEPT ![h.slot] = IF @ > 0 THEN @ - 1 ELSE 0]
      <4>1. \/ h.type = "SCH_COMMAND" /\ sch' = sch
            \/ h.type = "SCH_RTCNETMSG" /\ sch' = sch
            \/ h.type = "SCH_RTC_STATE" /\ sch' = [sch EXCEPT !.online = h.online]
            \/ h.type = "SCH_ADD_CLIENT" /\ sch' = [sch EXCEPT !.listed[h.slot] = @ + 1]
            \/ /\ h.type = "SCH_REM_CLIENT"
               /\ sch' = [sch EXCEPT !.listed[h.slot] = IF @ > 0 THEN @ - 1 ELSE 0]
        <5>1. h.type \in {"SCH_COMMAND", "SCH_RTC_STATE", "SCH_ADD_CLIENT", "SCH_REM_CLIENT",
                          "SCH_RTCNETMSG"}
          BY <3>3 DEF SchedulerMessage
        <5> QED
          BY <1>5, <5>1 DEF h, SchedulerThread, Execute, Adopt
      <4> QED
        BY <4>1 DEF Typed
    <3>6. CASE h = AddClient(j)
      BY <1>0, <3>2, <3>4, <3>5, <3>6 DEF h
    <3>7. CASE h = RemClient(j)
      BY <1>0, <3>1, <3>4, <3>5, <3>7, ListLemma DEF h
    <3>8. CASE h # AddClient(j) /\ h # RemClient(j)
      BY <1>0, <3>4, <3>5, <3>8 DEF h
    <3> QED
      BY <3>6, <3>7, <3>8, ListLemma DEF h
  <2>5. ASSUME NEW j \in Slot
        PROVE  Settled(cp'.schPipe, ListMessage(j), {Listing(j)'},
                       (sch'.listed[j] > 0) = (cp'.slot[j] # None))
    <3> DEFINE M == ListMessage(j)
               G == {Listing(j)}
               now == (sch.listed[j] > 0) = (cp.slot[j] # None)
               then == (sch'.listed[j] > 0) = (cp.slot[j] # None)
               q == cp.schPipe
    <3>1. Settled(q, M, G, now) /\ Listing(j)' = Listing(j)
      BY <2>1 DEF ListInv, Listing
    <3>2. Head(q) \notin M => (now => then)
      <4>1. Head(q) \notin M => sch'.listed[j] = sch.listed[j]
        BY <2>4 DEF ListMessage
      <4> QED
        BY <4>1
    <3>3. Head(q) \in M \cap G => then
      <4>1. Head(q) \in G => (sch'.listed[j] > 0 <=> cp.slot[j] # None)
        BY <2>4, ListLemma DEF Listing
      <4> QED
        BY <4>1
    <3>4. Settled(Tail(q), M, G, then)
      <4>1. q \in Seq(SchedulerMessage) /\ q # <<>>
        BY <1>0, <2>2
      <4> HIDE DEF M, G, now, then, q
      <4> QED
        BY <3>1, <3>2, <3>3, <4>1, SettledByReader
    <3> QED
      BY <2>1, <3>1, <3>4
  <2>6. ASSUME NEW j \in Slot
        PROVE  /\ sch'.listed[j] \in {0, 1}
               /\ InTurn(cp'.schPipe, AddClient(j), RemClient(j), sch'.listed[j])
    <3> DEFINE a == AddClient(j)
               r == RemClient(j)
               q == cp.schPipe
    <3>1. InTurn(q, a, r, sch.listed[j]) /\ sch.listed[j] \in {0, 1}
      BY DEF ListInv
    <3>2. a # r
      BY ListLemma
    <3>3. /\ Head(q) = r => sch'.listed[j] = 0
          /\ Head(q) \notin {a, r} => sch'.listed[j] = sch.listed[j]
          /\ sch'.listed[j] \in {0, 1}
      BY <2>4, <3>1, <3>2
    <3>4. InTurn(Tail(q), a, r, sch'.listed[j])
      <4> HIDE DEF a, r
      <4> QED
        BY <1>0, <2>2, <3>1, <3>2, <3>3, TurnOfReader
    <3> QED
      BY <2>1, <3>3, <3>4
  <2> QED
    BY <2>1, <2>5, <2>6 DEF ListInv
<1> QED
  BY <1>1, <1>2, <1>3, <1>4, <1>5, Steps

(* What is staged is no news of a slot.                                    *)
LEMMA ListIsTold ==
  ASSUME Sound(cp), Typed, ListInv
  PROVE  ListOnItsWay
<1> SUFFICES ASSUME NEW i \in Slot
             PROVE  LET L == LastIndex(OnItsWay,
                               LAMBDA m : /\ m.type \in {"SCH_ADD_CLIENT", "SCH_REM_CLIENT"}
                                          /\ m.slot = i)
                    IN (cp.slot[i] # None) = IF L = {} THEN sch.listed[i] > 0
                             ELSE \A n \in L : OnItsWay[n].type = "SCH_ADD_CLIENT"
  BY DEF ListOnItsWay
<1> DEFINE q == OnItsWay
           M == ListMessage(i)
           G == {Listing(i)}
           now == (sch.listed[i] > 0) = (cp.slot[i] # None)
           L == LastIndex(q, LAMBDA m : /\ m.type \in {"SCH_ADD_CLIENT", "SCH_REM_CLIENT"}
                                        /\ m.slot = i)
<1>1. Settled(q, M, G, now)
  <2>1. Settled(cp.schPipe, M, G, now)
    BY DEF ListInv
  <2>2. SchWrite \in cp.on => cp.schBuf \notin M
    BY OnItsWayLemma, ListLemma DEF ListInv
  <2> HIDE DEF M, G, now
  <2> QED
    BY <2>1, <2>2, OnItsWayLemma, SettledByOthers
<1>2. \A n \in DOMAIN q : /\ q[n].type \in {"SCH_ADD_CLIENT", "SCH_REM_CLIENT"}
                          /\ q[n].slot = i
                          <=> q[n] \in M
  <2>1. q \in Seq(SchedulerMessage)
    BY OnItsWayLemma
  <2>2. \A n \in DOMAIN q : q[n] \in SchedulerMessage
    <3> HIDE DEF q
    <3> QED
      BY <2>1
  <2> HIDE DEF q
  <2> QED
    BY <2>2, ListLemma
<1>3. L = {n \in DOMAIN q : q[n] \in M /\ \A m \in DOMAIN q : q[m] \in M => m <= n}
  <2> HIDE DEF q, M
  <2> QED
    BY <1>2 DEF LastIndex
<1>4. DOMAIN q \subseteq Int
  <2>1. \A s \in Seq(SchedulerMessage) : DOMAIN s = 1 .. Len(s) /\ Len(s) \in Nat
    OBVIOUS
  <2> QED
    BY <2>1, OnItsWayLemma
<1>5. CASE L = {}
  <2>1. now
    <3> HIDE DEF q, M, G, now, L
    <3> QED
      BY <1>1, <1>3, <1>5 DEF Settled
  <2> QED
    BY <1>5, <2>1
<1>6. CASE L # {}
  <2>1. \A n \in L : q[n] \in G
    <3> HIDE DEF q, M, G, now, L
    <3> QED
      BY <1>1, <1>3, <1>4 DEF Settled
  <2>2. \A n \in L : q[n].type = "SCH_ADD_CLIENT" <=> cp.slot[i] # None
    BY <2>1, ListLemma DEF Listing
  <2>3. (cp.slot[i] # None) = \A n \in L : q[n].type = "SCH_ADD_CLIENT"
    <3> HIDE DEF L, q
    <3> QED
      BY <1>6, <2>2
  <2> QED
    BY <1>6, <2>3
<1> QED
  BY <1>5, <1>6

(* As long as the logger takes what it is told, and the pipe of the        *)
(* scheduler has room, no message about the list of its clients is left    *)
(* out or lost, and it is on its way to know who is connected.             *)
THEOREM ListIsOnItsWay ==
  ASSUME "LOG" \notin Faults PROVE Spec /\ []Room => []ListOnItsWay
<1> DEFINE Inv == Sound(cp) /\ Typed /\ ListInv
<1>1. Init => Inv
  <2>1. Init => ListInv
    BY DEF Init, ListInv, Settled, Listing, InTurn
  <2> QED
    BY <2>1, InitSound, InitTyped
<1>2. Inv /\ Room /\ [Next]_vars => Inv'
  BY NextSound, NextTyped, ListStep
<1>3. Inv => ListOnItsWay
  BY ListIsTold
<1> QED
  BY <1>1, <1>2, <1>3, PTL DEF Spec

-----------------------------------------------------------------------------
(* The first message to the RTC.                                           *)

(* An RTC that is still there and has not been greeted is being greeted,   *)
(* and no other message for it is read meanwhile.                          *)
Greeting == cp.rtc /\ peer.up /\ ~peer.greeted => cp.rtcOut = "INIT" /\ RtcPipeRead \notin cp.on

(* Every step keeps the greeting: only what a pipe that is watched holds   *)
(* could come before it, and only the greeting watches that pipe again.    *)
LEMMA GreetingStep ==
  ASSUME Sound(cp), Typed, Greeting, [Next]_vars
  PROVE  Greeting'
<1>0. peer.up \in BOOLEAN /\ peer.greeted \in BOOLEAN /\ cp.rtc \in BOOLEAN
  BY DEF Sound, Good, LoopState, Typed
<1>1. ASSUME NEW i \in Slot, ClientCommand(i) PROVE Greeting'
  <2>1. cp'.rtc = cp.rtc /\ cp'.rtcOut = cp.rtcOut /\ peer' = peer
    BY <1>1, ClientCommandEffect DEF Rest, ClientCommand
  <2>2. RtcPipeRead \in cp'.on => RtcPipeRead \in cp.on
    BY <1>1, ClientCommandEffect, Distinct
  <2> QED
    BY <2>1, <2>2 DEF Greeting
<1>2. ASSUME NEW i \in Slot, ClientClosed(i) \/ ReplyFailed(i) PROVE Greeting'
  <2>1. PICK x \in {SockRead(i), SockWrite(i)} : cp' \in CloseClient(Served(x), i)
    BY <1>2 DEF ClientClosed, ReplyFailed
  <2>2. cp'.rtc = cp.rtc /\ cp'.rtcOut = cp.rtcOut /\ cp'.on \subseteq cp.on
    BY <2>1, ClientGoneEffect DEF Rest
  <2>3. peer' = peer
    BY <1>2 DEF ClientClosed, ReplyFailed
  <2> QED
    BY <2>2, <2>3 DEF Greeting
<1>3. ASSUME NEW i \in Slot, ReplyReceived(i) \/ ReplySent(i) PROVE Greeting'
  <2>1. cp'.rtc = cp.rtc /\ cp'.rtcOut = cp.rtcOut /\ peer' = peer
    BY <1>3, ReplyEffect DEF Quiet, ReplyReceived, ReplySent
  <2>2. RtcPipeRead \in cp'.on => RtcPipeRead \in cp.on
    BY <1>3, ReplyEffect
  <2> QED
    BY <2>1, <2>2 DEF Greeting
<1>4. ASSUME NEW x \in {RtcRead, RtcWrite}, cp' = CloseRtc(Served(x)) PROVE Greeting'
  <2>1. cp'.rtc = FALSE
    BY <1>4, RtcLostEffect DEF Rest
  <2> QED
    BY <2>1 DEF Greeting
<1>5. CASE RtcReceived
  <2>1. RtcRead \in cp.on /\ peer'.greeted = peer.greeted /\ (peer'.up => peer.up)
    BY <1>5, <1>0, ReadyLemma DEF RtcReceived, Typed
  <2>2. CASE \/ cp' = Watch(Served(RtcRead), RtcRead)
             \/ cp' = Watch(AddNavigatorChannel([Served(RtcRead) EXCEPT !.navBuf = TRUE]), RtcRead)
             \/ cp' = AddSchedulerChannel([Served(RtcRead) EXCEPT !.schBuf = RtcNetMsg])
    <3>1. cp'.rtc = cp.rtc /\ cp'.rtcOut = cp.rtcOut
      BY <2>1, <2>2, ForwardEffect, NavUpdateEffect, DriveDoneEffect DEF Rest
    <3>2. RtcPipeRead \in cp'.on => RtcPipeRead \in cp.on
      BY <2>1, <2>2, ForwardEffect, NavUpdateEffect, DriveDoneEffect, Distinct
    <3> QED
      BY <2>1, <3>1, <3>2 DEF Greeting
  <2>3. CASE cp' = CloseRtc(Served(RtcRead))
    BY <1>4, <2>3
  <2> QED
    BY <1>5, <2>2, <2>3 DEF RtcReceived
<1>6. CASE RtcClosed \/ RtcFailed
  BY <1>4, <1>6 DEF RtcClosed, RtcFailed
<1>7. CASE RtcSent
  <2>1. cp'.rtc = cp.rtc
    BY <1>7, RtcSentEffect DEF Quiet
  <2>2. peer'.up = peer.up
    BY <1>7 DEF RtcSent, Typed
  <2>3. peer.up => (peer'.greeted <=> peer.greeted \/ cp.rtcOut = "INIT")
    BY <1>7 DEF RtcSent, Typed
  <2> QED
    BY <2>1, <2>2, <2>3 DEF Greeting
<1>8. CASE RtcPipeReceived
  <2>1. RtcPipeRead \in cp.on /\ cp'.rtc = cp.rtc /\ peer' = peer
    BY <1>8, RtcPipeReceivedEffect DEF Quiet, RtcPipeReceived
  <2> QED
    BY <2>1 DEF Greeting
<1>9. CASE SchedulerSent
  <2>1. cp'.rtc = cp.rtc /\ cp'.rtcOut = cp.rtcOut /\ peer' = peer
    BY <1>9, SchedulerSentEffect DEF Rest, SchedulerSent
  <2>2. RtcPipeRead \in cp'.on => RtcPipeRead \in cp.on
    <3>1. cp'.on = (cp.on \ {SchWrite}) \cup Connected(cp)
                         \cup (IF cp.rtc /\ NavWrite \notin cp.on THEN {RtcRead} ELSE {})
      BY <1>9, SchedulerSentEffect
    <3> QED
      BY <3>1, ConnectedLemma, Distinct
  <2> QED
    BY <2>1, <2>2 DEF Greeting
<1>10. CASE NavigatorSent
  <2>1. cp'.rtc = cp.rtc /\ cp'.rtcOut = cp.rtcOut /\ peer' = peer
    BY <1>10, NavigatorSentEffect DEF Rest, NavigatorSent
  <2>2. RtcPipeRead \in cp'.on => RtcPipeRead \in cp.on
    <3>1. cp'.on = (cp.on \ {NavWrite})
                         \cup (IF cp.rtc /\ SchWrite \notin cp.on THEN {RtcRead} ELSE {})
      BY <1>10, NavigatorSentEffect
    <3> QED
      BY <3>1, Distinct
  <2> QED
    BY <2>1, <2>2 DEF Greeting
<1>11. CASE ConnectControlClient
  <2>1. peer' = peer
    BY <1>11 DEF ConnectControlClient
  <2>2. cp'.rtc = cp.rtc /\ cp'.rtcOut = cp.rtcOut
    BY <1>11, ConnectClientEffect DEF Rest
  <2>3. RtcPipeRead \in cp'.on => RtcPipeRead \in cp.on
    BY <1>11, ConnectClientEffect, Distinct DEF FreeSlots
  <2> QED
    BY <2>1, <2>2, <2>3 DEF Greeting
<1>12. CASE ConnectController
  <2>1. cp'.rtcOut = "INIT" /\ RtcPipeRead \notin cp'.on
    BY <1>12, ConnectControllerEffect DEF Rest
  <2> QED
    BY <2>1 DEF Greeting
<1>13. CASE SchedulerThread \/ NavigatorThread
  <2>1. cp'.rtc = cp.rtc /\ cp'.rtcOut = cp.rtcOut /\ cp'.on = cp.on
    BY <1>13, ThreadEffect DEF SchedulerTakes, NavigatorTakes, Rest
  <2>2. peer' = peer
    BY <1>13 DEF SchedulerThread, NavigatorThread
  <2> QED
    BY <2>1, <2>2 DEF Greeting
<1>14. CASE World \/ UNCHANGED vars
  <2>1. cp' = cp /\ peer'.greeted = peer.greeted /\ (peer'.up => peer.up)
    BY <1>14 DEF World, vars, UserConnects, UserLeaves, UserSends, RtcConnects, RtcLeaves,
                 RtcSends, Typed
  <2> QED
    BY <2>1 DEF Greeting
<1> QED
  BY <1>1, <1>2, <1>3, <1>5, <1>6, <1>7, <1>8, <1>9, <1>10, <1>11, <1>12, <1>13, <1>14
     DEF Next, Serve

(* Whatever is queued for the RTC, and whenever it connects again: the     *)
(* message that initializes it is the first that it gets.                  *)
THEOREM InitIsFirst == Spec => []InitFirst
<1>1. Init => Sound(cp) /\ Typed /\ Greeting
  <2>1. Init => Greeting
    BY DEF Init, Greeting
  <2> QED
    BY <2>1, InitSound, InitTyped
<1>2. Sound(cp) /\ Typed /\ Greeting /\ [Next]_vars => (Sound(cp) /\ Typed /\ Greeting)'
  BY NextSound, NextTyped, GreetingStep
<1>3. Typed /\ Greeting => InitFirst
  BY DEF Greeting, InitFirst
<1> QED
  BY <1>1, <1>2, <1>3, PTL DEF Spec
=============================================================================
