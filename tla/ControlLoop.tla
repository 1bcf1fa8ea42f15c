---------------------------- MODULE ControlLoop ----------------------------
(***************************************************************************)
(* The event loop of the control thread (control_src/common/               *)
(* genericcontrol.c) as far as it connects the control clients, the        *)
(* real-time controller (RTC) and the scheduler and navigator threads.     *)
(*                                                                         *)
(* The loop serves one ready channel at a time, the first of the list of   *)
(* the channels it watches, and takes it from the list; its handler puts   *)
(* it back when it may be served again. A message for the scheduler or the *)
(* navigator waits in the write buffer of their pipe: while it does, the   *)
(* channels whose messages go to the same buffer must not be watched.      *)
(*                                                                         *)
(* The handlers run to their end, and call each other: each is an operator *)
(* from a state S of the thread, with the pipes it writes, to the next.    *)
(***************************************************************************)
EXTENDS Integers, Sequences

CONSTANTS
  User,       \* the control clients that may connect
  None,       \* no client, no message
  Slots,      \* CONTROL_CLIENTS
  PipeSize,   \* messages that a pipe between threads holds
  RtcTypes,   \* the messages that the RTC sends
  ForRtc,     \* what the commands of the clients queue for the RTC
  Faults,     \* what the loop sends on at once and may find its pipe full; "LOG"
              \* stands for all messages to the logger
  MaxMoves,   \* bound: times that a client or the RTC connects or leaves
  MaxMessages \* bound: messages they send; 0 stands for no bound

RtcMessages == {"LOG", "TV_OFFSET_DONE", "NAV_UPDATE", "DRIVE_DONE"}
Forwarded   == {"LOG", "TV_OFFSET_DONE"}    \* to the logger, to the archiver

ASSUME NoneAssumption  == None \notin User
ASSUME SizeAssumption  == Slots \in Nat /\ PipeSize \in Nat \ {0} /\ MaxMoves \in Nat /\ MaxMessages \in Nat
ASSUME InputAssumption == /\ RtcTypes \subseteq RtcMessages
                          /\ Faults \subseteq Forwarded
                          /\ ForRtc \subseteq {"COMMAND"}

VARIABLES
  cp,      \* the control thread, the channels and the pipes it writes
  sch,     \* the scheduler thread: rtc_online, and how often a slot is in the
           \* list of those that it reports to
  nav,     \* the navigator thread: rtc_online
  user,    \* the clients: where they are, whether a command is on its way
  peer,    \* the RTC at its end of the connection
  events   \* what the outside world has done so far

vars == <<cp, sch, nav, user, peer, events>>

Slot       == 1 .. Slots
UserOrNone == User \cup {None}

-----------------------------------------------------------------------------
(* The channels: an aspect of one is what the list of the loop holds.      *)

SockRead(i)  == <<"sock", "read", i>>
SockWrite(i) == <<"sock", "write", i>>
ReplyRead(i) == <<"reply", "read", i>>
RtcRead      == <<"rtc", "read", 0>>
RtcWrite     == <<"rtc", "write", 0>>
RtcPipeRead  == <<"rtcpipe", "read", 0>>
SchWrite     == <<"sch", "write", 0>>
NavWrite     == <<"nav", "write", 0>>

SockReads == {SockRead(i) : i \in Slot}
Aspect == SockReads \cup {SockWrite(i) : i \in Slot} \cup {ReplyRead(i) : i \in Slot}
            \cup {RtcRead, RtcWrite, RtcPipeRead, SchWrite, NavWrite}

Command(u, i) == [type |-> "SCH_COMMAND", user |-> u, slot |-> i]
RtcState(b)   == [type |-> "SCH_RTC_STATE", online |-> b]
RtcNetMsg     == [type |-> "SCH_RTCNETMSG"]
AddClient(i)  == [type |-> "SCH_ADD_CLIENT", slot |-> i]
RemClient(i)  == [type |-> "SCH_REM_CLIENT", slot |-> i]

SchedulerMessage == [type : {"SCH_COMMAND"}, user : User, slot : Slot]
                      \cup [type : {"SCH_RTC_STATE"}, online : BOOLEAN]
                      \cup [type : {"SCH_RTCNETMSG"}]
                      \cup [type : {"SCH_ADD_CLIENT", "SCH_REM_CLIENT"}, slot : Slot]
RtcCommand == {"INIT", "COMMAND", "SITE"}

(* on, ahead   the active list: what is in it, and what stands ahead of    *)
(*             what                                                        *)
(* slot, out   who is connected in a slot of the clients, and the reply    *)
(*             that is being sent                                          *)
(* rtc, online the RTC is connected; rtc->status.online                    *)
(* rtcOut      the message in the send buffer of the RTC's socket          *)
(* schBuf, navBuf                                                          *)
(*             the write buffers of the pipes of the two threads           *)
(* schPipe, navPipe, rtcPipe, reply                                        *)
(*             the contents of the pipes; a reply is the client whose      *)
(*             command it answers                                          *)
LoopState ==
  [on : SUBSET Aspect, ahead : SUBSET (Aspect \X Aspect),
   slot : [Slot -> UserOrNone], out : [Slot -> UserOrNone],
   rtc : BOOLEAN, online : BOOLEAN, rtcOut : RtcCommand \cup {None},
   schBuf : SchedulerMessage \cup {None}, navBuf : BOOLEAN,
   schPipe : Seq(SchedulerMessage), navPipe : Seq(BOOLEAN),
   rtcPipe : Seq(RtcCommand), reply : [Slot -> Seq(User)]]

(* The RTC's pipe is first watched once the RTC has been greeted.          *)
Init ==
  /\ cp = [on |-> {}, ahead |-> {},
           slot |-> [i \in Slot |-> None], out |-> [i \in Slot |-> None],
           rtc |-> FALSE, online |-> FALSE, rtcOut |-> None,
           schBuf |-> None, navBuf |-> FALSE,
           schPipe |-> <<>>, navPipe |-> <<>>, rtcPipe |-> <<>>,
           reply |-> [i \in Slot |-> <<>>]]
  /\ sch = [online |-> FALSE, listed |-> [i \in Slot |-> 0]]
  /\ nav = [online |-> FALSE]
  /\ user = [u \in User |-> [at |-> "out", sent |-> FALSE]]
  /\ peer = [knocks |-> FALSE, up |-> FALSE, in |-> <<>>, greeted |-> FALSE, site |-> FALSE]
  /\ events = [moves |-> 0, messages |-> 0]

-----------------------------------------------------------------------------
(* The active list.                                                        *)

(* Mutant: a channel is put at the head of the list.                       *)
Watch_AtHead(S, x) ==
  IF x \in S.on THEN S
  ELSE [S EXCEPT !.on = @ \cup {x}, !.ahead = @ \cup ({x} \X S.on)]

Watch(S, x) ==
  IF x \in S.on THEN S
  ELSE [S EXCEPT !.on = @ \cup {x}, !.ahead = @ \cup (S.on \X {x})]

(* Mutant: its neighbours still point to a channel that is taken out.      *)
Unwatch_Linked(S, X) == [S EXCEPT !.on = @ \ X]

Unwatch(S, X) ==
  [S EXCEPT !.on = @ \ X, !.ahead = {p \in @ : p[1] \notin X /\ p[2] \notin X}]

(* The sockets of the connected clients, one after the other.              *)
Connected(S) == {SockRead(i) : i \in {j \in Slot : S.slot[j] # None}}
WatchClients(S) ==
  LET X == Connected(S) \ S.on IN
  [S EXCEPT !.on = @ \cup X,
            !.ahead = @ \cup (S.on \X X) \cup {p \in X \X X : p[1][3] < p[2][3]}]

(* The channels that are staged or not.                                    *)
WatchRtcReadability(S) ==
  IF S.rtc /\ {NavWrite, SchWrite} \cap S.on = {} THEN Watch(S, RtcRead) ELSE S

(* Mutants: the clients are still watched; the RTC is not watched again.   *)
AddSchedulerChannel_RtcOnly(S) == Unwatch(Watch(S, SchWrite), {RtcRead})
RemNavigatorChannel_Unwatched(S) == Unwatch(S, {NavWrite})

AddSchedulerChannel(S) == Unwatch(Watch(S, SchWrite), Connected(S) \cup {RtcRead})
RemSchedulerChannel(S) == WatchRtcReadability(WatchClients(Unwatch(S, {SchWrite})))
AddNavigatorChannel(S) == Unwatch(Watch(S, NavWrite), {RtcRead})
RemNavigatorChannel(S) == WatchRtcReadability(Unwatch(S, {NavWrite}))

(* A message that finds a pipe full is lost.                               *)
Queued(q, m) == IF Len(q) < PipeSize THEN Append(q, m) ELSE q
SendScheduler(S, m) == [S EXCEPT !.schPipe = Queued(@, m)]

(* The state of the RTC overwrites whatever has been staged.               *)
RecordRtcStatus(S, b) ==
  AddNavigatorChannel([AddSchedulerChannel([S EXCEPT !.online = b, !.schBuf = RtcState(b)])
                         EXCEPT !.navBuf = b])

RtcCond(S) == Watch(RecordRtcStatus(S, FALSE), RtcPipeRead)
CloseRtc(S) ==
  RtcCond([Unwatch(S, {RtcRead, RtcWrite}) EXCEPT !.rtc = FALSE, !.rtcOut = None])

(* Mutant: the scheduler's message is staged like those of the clients.    *)
Announced_Staged(S, m) ==
  {AddSchedulerChannel([S EXCEPT !.schBuf = m])} \cup (IF "LOG" \in Faults THEN {S} ELSE {})

(* The logger is told first of a client that comes or goes, and if it      *)
(* refuses the message, the handler returns: the scheduler is not told.    *)
Announced(S, m) == {SendScheduler(S, m)} \cup (IF "LOG" \in Faults THEN {S} ELSE {})

CloseClient(S, i) ==
  Announced([Unwatch(S, {SockRead(i), SockWrite(i)})
               EXCEPT !.slot[i] = None, !.out[i] = None], RemClient(i))

-----------------------------------------------------------------------------
(* The loop: the first channel of the list that is ready is served, and is *)
(* taken from the list first.                                              *)

Ready(x) ==
  \/ x[1] = "sock" /\ (x[2] = "write" \/ user[cp.slot[x[3]]].sent
                                     \/ user[cp.slot[x[3]]].at = "left")
  \/ x[1] = "reply" /\ cp.reply[x[3]] # <<>>
  \/ x[1] = "rtc" /\ (x[2] = "write" \/ peer.in # <<>> \/ ~peer.up)
  \/ x[1] = "rtcpipe" /\ cp.rtcPipe # <<>>
  \/ x[1] = "sch" /\ Len(cp.schPipe) < PipeSize
  \/ x[1] = "nav" /\ Len(cp.navPipe) < PipeSize

IsFirst(x) == /\ x \in cp.on
              /\ Ready(x)
              /\ \A y \in cp.on : <<y, x>> \in cp.ahead => ~Ready(y)
Idle == \A x \in cp.on : ~Ready(x)

Served(x) == Unwatch(cp, {x})

(* A control client. A command is staged for the scheduler.                *)
ClientCommand(i) ==
  LET u == cp.slot[i] IN
  /\ IsFirst(SockRead(i))
  /\ user[u].sent
  /\ cp' = AddSchedulerChannel([Served(SockRead(i)) EXCEPT !.schBuf = Command(u, i)])
  /\ user' = [user EXCEPT ![u].sent = FALSE]
  /\ UNCHANGED <<sch, nav, peer, events>>

ClientClosed(i) ==
  LET u == cp.slot[i] IN
  /\ IsFirst(SockRead(i))
  /\ ~user[u].sent
  /\ cp' \in CloseClient(Served(SockRead(i)), i)
  /\ user' = [user EXCEPT ![u].at = "out"]
  /\ UNCHANGED <<sch, nav, peer, events>>

(* A reply is put in the send buffer of the socket; the pipe is watched    *)
(* again when it has been sent.                                            *)
ReplyReceived(i) ==
  /\ IsFirst(ReplyRead(i))
  /\ LET S == [Served(ReplyRead(i)) EXCEPT !.reply[i] = Tail(@)] IN
     cp' = IF cp.slot[i] = None THEN S
           ELSE Watch([S EXCEPT !.out[i] = Head(cp.reply[i])], SockWrite(i))
  /\ UNCHANGED <<sch, nav, user, peer, events>>

ReplySent(i) ==
  /\ IsFirst(SockWrite(i))
  /\ cp' = Watch([Served(SockWrite(i)) EXCEPT !.out[i] = None], ReplyRead(i))
  /\ UNCHANGED <<sch, nav, user, peer, events>>

ReplyFailed(i) ==
  LET u == cp.slot[i] IN
  /\ IsFirst(SockWrite(i))
  /\ user[u].at = "left"
  /\ cp' \in CloseClient(Served(SockWrite(i)), i)
  /\ user' = [user EXCEPT ![u] = [at |-> "out", sent |-> FALSE]]
  /\ UNCHANGED <<sch, nav, peer, events>>

(* The RTC. NAV_UPDATE stages a message for the navigator, but the default *)
(* of processSpecificMsg watches the socket again all the same. A message  *)
(* that is forwarded at once and finds the pipe full costs the connection. *)
RtcReceived ==
  /\ IsFirst(RtcRead)
  /\ peer.in # <<>>
  /\ LET m == Head(peer.in)
         S == Served(RtcRead)
     IN \/ /\ m \in Forwarded
           /\ cp' = Watch(S, RtcRead)
        \/ /\ m \in Faults
           /\ cp' = CloseRtc(S)
        \/ /\ m = "NAV_UPDATE"
           /\ cp' = Watch(AddNavigatorChannel([S EXCEPT !.navBuf = TRUE]), RtcRead)
        \/ /\ m = "DRIVE_DONE"
           /\ cp' = AddSchedulerChannel([S EXCEPT !.schBuf = RtcNetMsg])
  /\ peer' = IF cp'.rtc THEN [peer EXCEPT !.in = Tail(@)]
                        ELSE [peer EXCEPT !.in = <<>>, !.up = FALSE]
  /\ UNCHANGED <<sch, nav, user, events>>

RtcClosed ==
  /\ IsFirst(RtcRead)
  /\ peer.in = <<>>
  /\ cp' = CloseRtc(Served(RtcRead))
  /\ UNCHANGED <<sch, nav, user, peer, events>>

RtcSent ==
  /\ IsFirst(RtcWrite)
  /\ cp' = Watch([Served(RtcWrite) EXCEPT !.rtcOut = None], RtcPipeRead)
  /\ peer' = IF ~peer.up THEN peer
             ELSE [peer EXCEPT !.greeted = @ \/ cp.rtcOut = "INIT",
                               !.site = @ \/ cp.rtcOut = "SITE"]
  /\ UNCHANGED <<sch, nav, user, events>>

RtcFailed ==
  /\ IsFirst(RtcWrite)
  /\ ~peer.up
  /\ cp' = CloseRtc(Served(RtcWrite))
  /\ peer' = [peer EXCEPT !.in = <<>>]
  /\ UNCHANGED <<sch, nav, user, events>>

RtcPipeReceived ==
  /\ IsFirst(RtcPipeRead)
  /\ LET S == [Served(RtcPipeRead) EXCEPT !.rtcPipe = Tail(@)] IN
     cp' = IF cp.rtc THEN Watch([S EXCEPT !.rtcOut = Head(cp.rtcPipe)], RtcWrite)
                     ELSE Watch(S, RtcPipeRead)
  /\ UNCHANGED <<sch, nav, user, peer, events>>

(* The staged message goes to the thread.                                  *)
SchedulerSent ==
  /\ IsFirst(SchWrite)
  /\ cp' = RemSchedulerChannel([Served(SchWrite) EXCEPT
                                  !.schPipe = Append(@, cp.schBuf), !.schBuf = None])
  /\ UNCHANGED <<sch, nav, user, peer, events>>

NavigatorSent ==
  /\ IsFirst(NavWrite)
  /\ cp' = RemNavigatorChannel([Served(NavWrite) EXCEPT !.navPipe = Append(@, cp.navBuf)])
  /\ UNCHANGED <<sch, nav, user, peer, events>>

(* The listening ports are looked at when no channel is ready: first the   *)
(* one of the clients, then the one of the RTC.                            *)
Knocking == {u \in User : user[u].at = "knocks"}
FreeSlots == {i \in Slot : cp.slot[i] = None}

ConnectControlClient ==
  /\ Idle
  /\ \E u \in Knocking :
       IF FreeSlots = {}
       THEN /\ user' = [user EXCEPT ![u].at = "out"]
            /\ cp' = cp
       ELSE /\ user' = [user EXCEPT ![u].at = "in"]
            /\ \E i \in FreeSlots :
                 /\ \A j \in FreeSlots : i <= j
                 /\ LET S == [cp EXCEPT !.slot[i] = u, !.reply[i] = <<>>] IN
                    cp' \in Announced(Watch(Watch(S, SockRead(i)), ReplyRead(i)), AddClient(i))
  /\ UNCHANGED <<sch, nav, peer, events>>

(* Mutant: the pipe of the RTC goes on being watched.                      *)
ConnectController_PipeWatched ==
  /\ Idle
  /\ Knocking = {}
  /\ peer.knocks
  /\ LET S == IF cp.rtc THEN CloseRtc(cp) ELSE cp
         T == WatchRtcReadability([S EXCEPT !.rtc = TRUE])
     IN cp' = RecordRtcStatus(Watch([T EXCEPT !.rtcOut = "INIT"], RtcWrite), TRUE)
  /\ peer' = [knocks |-> FALSE, up |-> TRUE, in |-> <<>>, greeted |-> FALSE, site |-> FALSE]
  /\ UNCHANGED <<sch, nav, user, events>>

ConnectController ==
  /\ Idle
  /\ Knocking = {}
  /\ peer.knocks
  /\ LET S == IF cp.rtc THEN CloseRtc(cp) ELSE cp
         T == WatchRtcReadability([S EXCEPT !.rtc = TRUE])
         U == Watch([T EXCEPT !.rtcOut = "INIT"], RtcWrite)
         V == [Unwatch(U, {RtcPipeRead}) EXCEPT !.rtcPipe = <<>>]
     IN cp' = RecordRtcStatus(V, TRUE)
  /\ peer' = [knocks |-> FALSE, up |-> TRUE, in |-> <<>>, greeted |-> FALSE, site |-> FALSE]
  /\ UNCHANGED <<sch, nav, user, events>>

Serve == \/ \E i \in Slot : \/ ClientCommand(i) \/ ClientClosed(i)
                            \/ ReplyReceived(i) \/ ReplySent(i) \/ ReplyFailed(i)
         \/ RtcReceived \/ RtcClosed \/ RtcSent \/ RtcFailed \/ RtcPipeReceived
         \/ SchedulerSent \/ NavigatorSent
         \/ ConnectControlClient \/ ConnectController

-----------------------------------------------------------------------------
(* The scheduler answers a command to the reply pipe of the slot that it   *)
(* came from, and may queue a command to the RTC.                          *)

Execute(m) ==
  /\ m.type = "SCH_COMMAND"
  /\ \E q \in {cp.rtcPipe} \cup {Queued(cp.rtcPipe, c) : c \in ForRtc} :
       cp' = [cp EXCEPT !.schPipe = Tail(@), !.rtcPipe = q,
                        !.reply[m.slot] = Queued(@, m.user)]
  /\ sch' = sch

(* A client that is reported to twice is taken from the list once.         *)
Adopt(m) ==
  /\ m.type # "SCH_COMMAND"
  /\ cp' = [cp EXCEPT !.schPipe = Tail(@)]
  /\ sch' = CASE m.type = "SCH_RTC_STATE"  -> [sch EXCEPT !.online = m.online]
              [] m.type = "SCH_ADD_CLIENT" -> [sch EXCEPT !.listed[m.slot] = @ + 1]
              [] m.type = "SCH_REM_CLIENT" -> [sch EXCEPT !.listed[m.slot] = IF @ > 0 THEN @ - 1 ELSE 0]
              [] m.type = "SCH_RTCNETMSG"  -> sch

SchedulerThread ==
  /\ cp.schPipe # <<>>
  /\ Execute(Head(cp.schPipe)) \/ Adopt(Head(cp.schPipe))
  /\ UNCHANGED <<nav, user, peer, events>>

(* The navigator sends what the RTC must know whenever it is told that the *)
(* RTC is online.                                                          *)
(* Mutant: only when that is news to it.                                   *)
NavigatorThread_OnChange ==
  /\ cp.navPipe # <<>>
  /\ nav' = [online |-> Head(cp.navPipe)]
  /\ cp' = [cp EXCEPT !.navPipe = Tail(@),
                      !.rtcPipe = IF Head(cp.navPipe) /\ ~nav.online
                                  THEN Queued(@, "SITE") ELSE @]
  /\ UNCHANGED <<sch, user, peer, events>>

NavigatorThread ==
  /\ cp.navPipe # <<>>
  /\ nav' = [online |-> Head(cp.navPipe)]
  /\ cp' = [cp EXCEPT !.navPipe = Tail(@),
                      !.rtcPipe = IF Head(cp.navPipe) THEN Queued(@, "SITE") ELSE @]
  /\ UNCHANGED <<sch, user, peer, events>>

(* The outside world.                                                      *)
Moves == /\ events.moves < MaxMoves
         /\ events' = [events EXCEPT !.moves = @ + 1]
Sends == /\ MaxMessages = 0 \/ events.messages < MaxMessages
         /\ events' = [events EXCEPT !.messages = IF MaxMessages = 0 THEN 0 ELSE @ + 1]

UserConnects(u) ==
  /\ user[u].at = "out"
  /\ user' = [user EXCEPT ![u].at = "knocks"]
  /\ UNCHANGED peer

UserSends(u) ==
  /\ user[u].at = "in"
  /\ ~user[u].sent
  /\ user' = [user EXCEPT ![u].sent = TRUE]
  /\ UNCHANGED peer

UserLeaves(u) ==
  /\ user[u].at = "in"
  /\ user' = [user EXCEPT ![u].at = "left"]
  /\ UNCHANGED peer

(* The RTC connects, also when it has rebooted and its old connection is   *)
(* still open at this end; it sends; it goes away.                         *)
RtcConnects == ~peer.knocks /\ peer' = [peer EXCEPT !.knocks = TRUE] /\ UNCHANGED user
RtcSends    == /\ peer.up /\ peer.in = <<>>
               /\ \E m \in RtcTypes : peer' = [peer EXCEPT !.in = <<m>>]
               /\ UNCHANGED user
RtcLeaves   == peer.up /\ peer' = [peer EXCEPT !.up = FALSE] /\ UNCHANGED user

World == /\ \/ Moves /\ \E u \in User : UserConnects(u) \/ UserLeaves(u)
            \/ Moves /\ (RtcConnects \/ RtcLeaves)
            \/ Sends /\ \E u \in User : UserSends(u)
            \/ Sends /\ RtcSends
         /\ UNCHANGED <<cp, sch, nav>>

Next == Serve \/ SchedulerThread \/ NavigatorThread \/ World

Spec == Init /\ [][Next]_vars

(* The three threads run.                                                  *)
FairSpec == Spec /\ WF_vars(Serve) /\ WF_vars(SchedulerThread) /\ WF_vars(NavigatorThread)

-----------------------------------------------------------------------------
(* Properties.                                                             *)

(* The state stays within the types of its fields (struct ControlProg),    *)
(* and only what is in the active list has neighbours in it.               *)
TypeOK ==
  /\ cp \in LoopState
  /\ cp.ahead \subseteq cp.on \X cp.on
  /\ sch \in [online : BOOLEAN, listed : [Slot -> Nat]]
  /\ nav \in [online : BOOLEAN]
  /\ user \in [User -> [at : {"out", "knocks", "in", "left"}, sent : BOOLEAN]]
  /\ peer \in [knocks : BOOLEAN, up : BOOLEAN, in : Seq(RtcMessages),
               greeted : BOOLEAN, site : BOOLEAN]
  /\ events \in [moves : Nat, messages : Nat]

(* No connection goes deaf: a channel that is not watched is waiting for   *)
(* something that is, which will watch it again. The handlers that stop    *)
(* watching a channel and those that watch it again are far apart          *)
(* (add_scheduler_channel, sent_Scheduler, rtc_pipe_rcvd_fn, ...).         *)
ClientHeard == \A i \in Slot : cp.slot[i] # None =>
                 /\ {SockRead(i), SchWrite} \cap cp.on # {}
                 /\ {ReplyRead(i), SockWrite(i)} \cap cp.on # {}
RtcHeard    == cp.rtc => /\ {RtcRead, SchWrite, NavWrite} \cap cp.on # {}
                         /\ {RtcPipeRead, RtcWrite} \cap cp.on # {}
NobodyDeaf  == ClientHeard /\ RtcHeard

(* What the scheduler and the navigator were last told of the RTC, or will *)
(* be told by a message on its way, is the truth (record_rtc_status), and  *)
(* no other message is put in its place.                                   *)
LastIndex(q, P(_)) == {n \in DOMAIN q : P(q[n]) /\ \A m \in DOMAIN q : P(q[m]) => m <= n}
Staged   == IF SchWrite \in cp.on THEN <<cp.schBuf>> ELSE <<>>
OnItsWay == cp.schPipe \o Staged
SchedulerTold ==
  LET L == LastIndex(OnItsWay, LAMBDA m : m.type = "SCH_RTC_STATE") IN
  cp.rtc = IF L = {} THEN sch.online ELSE \A n \in L : OnItsWay[n].online
NavigatorTold ==
  cp.rtc = IF NavWrite \in cp.on THEN cp.navBuf
           ELSE IF cp.navPipe = <<>> THEN nav.online ELSE cp.navPipe[Len(cp.navPipe)]
StatusOnItsWay == SchedulerTold /\ NavigatorTold

(* The scheduler reports to the clients that are connected, and to no one  *)
(* else, once it has taken the messages on their way to it.                *)
ListOnItsWay ==
  \A i \in Slot :
    LET L == LastIndex(OnItsWay, LAMBDA m : /\ m.type \in {"SCH_ADD_CLIENT", "SCH_REM_CLIENT"}
                                            /\ m.slot = i)
    IN (cp.slot[i] # None) = IF L = {} THEN sch.listed[i] > 0
                             ELSE \A n \in L : OnItsWay[n].type = "SCH_ADD_CLIENT"

(* The first message that an RTC gets after it has connected is the one    *)
(* that initializes it: nothing that was queued before overtakes it.       *)
InitFirst == cp.rtc /\ peer.up /\ cp.rtcOut \in {"COMMAND", "SITE"} => peer.greeted

(* A reply goes to the client whose command it answers (cc_pipe_rcvd_fn).  *)
ReplyIsOwn == \A i \in Slot : cp.out[i] \in {None, cp.slot[i]}

(* A message that is staged for the scheduler is not overwritten before it *)
(* has been sent, but by the state of the RTC (the comments of             *)
(* add_scheduler_channel and of record_rtc_status).                        *)
StagedIsKept ==
  [][{SchWrite} \subseteq cp.on \cap cp'.on /\ cp'.schBuf # cp.schBuf
       => cp'.schBuf.type = "SCH_RTC_STATE"]_cp

(* No client starves: a command that it has sent is read, or it leaves     *)
(* (cp_event_loop, "no channel can starve out the rest").                  *)
CommandIsRead == \A u \in User : user[u].at = "in" /\ user[u].sent
                                   ~> ~user[u].sent \/ user[u].at # "in"

(* An RTC that stays connected is sent what the navigator has to tell it.  *)
RtcIsBriefed == <>[](cp.rtc /\ peer.up /\ ~peer.knocks) => <>[]peer.site
=============================================================================
