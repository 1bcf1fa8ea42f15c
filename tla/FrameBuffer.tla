---------------------------- MODULE FrameBuffer ----------------------------
(***************************************************************************)
(* The frames of the mediator: the ring of frames (util/common/            *)
(* FrameBuffer.cc), the Scanner task that creates one each second and      *)
(* sends the oldest to the control program (mediator/cbass/Scanner.cc),    *)
(* and the antenna consumer, a thread that writes what it receives from    *)
(* the antenna into the frame of its second.                               *)
(***************************************************************************)
EXTENDS Integers, Sequences

CONSTANTS
  NSlots,       \* NUM_BUFFER_FRAMES
  MinInQueue,   \* MIN_FRAMES_IN_QUEUE
  MaxTime,      \* bound: seconds
  MaxErrors,    \* bound: network errors
  Twice,        \* the seconds in which the timer may signal more than once
  Overflow,     \* whether the control program may fall behind by NSlots frames
  Prompt,       \* whether each thread is done with its step within a second
  Antenna       \* whether the antenna sends data

ASSUME RingAssumption == /\ NSlots \in Nat \ {0}
                         /\ MinInQueue \in Nat
                         /\ MaxTime \in Nat
                         /\ MaxErrors \in Nat
                         /\ Twice \subseteq Nat
                         /\ {Overflow, Prompt, Antenna} \subseteq BOOLEAN

VARIABLES
  ring,     \* class FrameBuffer: its slots and pointers
  map,      \* frameMap_: the slot of each second, or 0
  scanner,  \* the Scanner task: dispatchPending_, its connection, its last frame
  msgs,     \* the message queue of the Scanner task
  writer,   \* the antenna consumer
  now,      \* the clock, in seconds
  out       \* the frame that was last given to the network

vars == <<ring, map, scanner, msgs, writer, now, out>>

Slots == 1 .. NSlots
Times == 0 .. MaxTime
NoSlot == 0
NextSlot(s) == (s % NSlots) + 1

-----------------------------------------------------------------------------
(* A frame holds a part that the Scanner copies from its shared registers  *)
(* and a part of the antenna: the second each part is of, 0 when zeroed.   *)
Slot == [id : Times, share : Times, antenna : Times, locked : BOOLEAN]

Message == {"START_DATAFRAME", "DISPATCH_DATAFRAME"}

Init ==
  /\ ring = [slot |-> [s \in Slots |-> [id |-> 0, share |-> 0, antenna |-> 0,
                                         locked |-> FALSE]],
             free |-> 1, send |-> 1, last |-> NoSlot, used |-> 0]
  /\ map = [t \in Times |-> NoSlot]
  /\ scanner = [at |-> "loop", pending |-> FALSE, connected |-> FALSE,
                watched |-> FALSE, frame |-> NoSlot, id |-> 0, errors |-> 0]
  /\ msgs = << >>
  /\ writer = [at |-> "idle", id |-> 0, slot |-> NoSlot]
  /\ now = 0
  /\ out = [id |-> 0, share |-> 0, antenna |-> 0]

(* clearSlot: the frame is taken out of the map, unlocked and zeroed.      *)
Cleared(slot) == [slot EXCEPT !.share = 0, !.antenna = 0, !.locked = FALSE]
Erased(m, id) == [m EXCEPT ![id] = NoSlot]

-----------------------------------------------------------------------------
(* The consumer waits for the lock of its frame.                           *)
Blocked == writer.at = "mark" /\ ring.slot[writer.slot].locked

(* The timer of the Master task, which may signal twice in a second. When  *)
(* the control program is assumed to keep up, a full ring stops the clock. *)
Tick ==
  /\ Prompt => msgs = << >> /\ scanner.at = "loop" /\ (writer.at = "idle" \/ Blocked)
  /\ \A i, j \in DOMAIN msgs :
       msgs[i] = "START_DATAFRAME" /\ msgs[j] = "START_DATAFRAME" => i = j
  /\ now' \in {now, now + 1} \cap Times
  /\ IF ring.used = NSlots /\ ~Overflow THEN now' = now
     ELSE now' > now \/ now \in Twice
  /\ msgs' = Append(msgs, "START_DATAFRAME")
  /\ UNCHANGED <<ring, map, scanner, writer, out>>

-----------------------------------------------------------------------------
(* The Scanner task. *)

(* Mutant: a slot that is reused is counted again.                         *)
Grown_KeepsCounting(r) ==
  IF r.used = NSlots
  THEN [r EXCEPT !.slot[r.send] = Cleared(@), !.send = NextSlot(@), !.free = NextSlot(@),
                 !.used = @ + 1]
  ELSE [r EXCEPT !.used = @ + 1, !.free = NextSlot(@)]

(* Mutant: the oldest frame is given up, but is still the next to be sent. *)
Grown_KeepsSend(r) ==
  IF r.used = NSlots
  THEN [r EXCEPT !.slot[r.send] = Cleared(@), !.free = NextSlot(@)]
  ELSE [r EXCEPT !.used = @ + 1, !.free = NextSlot(@)]

(* getNextSlot: when the ring is full, its oldest waiting frame goes.      *)
Grown(r) ==
  IF r.used = NSlots
  THEN [r EXCEPT !.slot[r.send] = Cleared(@), !.send = NextSlot(@), !.free = NextSlot(@)]
  ELSE [r EXCEPT !.used = @ + 1, !.free = NextSlot(@)]

(* Mutant: the registers are copied after they got the next date.          *)
Shared_Late(r) == IF scanner.frame = NoSlot THEN r
                  ELSE [r EXCEPT !.slot[scanner.frame].share = now]

(* The registers that the Scanner shares with the other tasks of the       *)
(* mediator are those of its last frame.                                   *)
Shared(r) == IF scanner.frame = NoSlot THEN r
             ELSE [r EXCEPT !.slot[scanner.frame].share = scanner.id]

(* The frame of the second is found or created, and gets the default       *)
(* values; the writes unlock it, whoever has locked it.                    *)
Defaulted(r, s) == [r EXCEPT !.slot[s].antenna = 0, !.slot[s].locked = FALSE]

(* Mutant: the minimum is two frames too small.                            *)
More_TooSoon(n) == IF n > MinInQueue - 2 THEN <<"DISPATCH_DATAFRAME">> ELSE << >>
(* Dispatch requests are made while the queue is above its minimum.        *)
More(n) == IF n > MinInQueue THEN <<"DISPATCH_DATAFRAME">> ELSE << >>

StartNewArrayFrame ==
  /\ scanner.at = "loop" /\ writer.at # "search"
  /\ msgs # << >> /\ Head(msgs) = "START_DATAFRAME"
  /\ LET r == Shared(ring)
         s == IF map[now] # NoSlot THEN map[now] ELSE r.free
     IN /\ ring' = IF map[now] # NoSlot THEN Defaulted(r, s)
                   ELSE Defaulted([Grown(r) EXCEPT !.slot[s].id = now], s)
        /\ map' = IF map[now] # NoSlot THEN map
                  ELSE [(IF r.used = NSlots THEN Erased(map, r.slot[r.send].id) ELSE map)
                          EXCEPT ![now] = s]
        /\ scanner' = [scanner EXCEPT !.frame = s, !.id = now]
  /\ msgs' = Tail(msgs) \o More(ring'.used)
  /\ UNCHANGED <<writer, now, out>>

(* The task is about to change the map, without guard_, or does nothing.   *)
Dispatch ==
  /\ scanner.at = "loop"
  /\ msgs # << >> /\ Head(msgs) = "DISPATCH_DATAFRAME"
  /\ msgs' = Tail(msgs)
  /\ scanner' = IF scanner.pending \/ ~scanner.connected \/ ring.used = 0
                THEN scanner ELSE [scanner EXCEPT !.at = "erase"]
  /\ UNCHANGED <<ring, map, writer, now, out>>

(* FrameBuffer::dispatchNextFrame.                                         *)
DispatchNextFrame ==
  /\ scanner.at = "erase"
  /\ LET s == ring.send
         r == [ring EXCEPT !.slot[s].locked = TRUE]
     IN /\ ring' = IF r.last = NoSlot THEN [r EXCEPT !.last = s, !.send = NextSlot(s)]
                   ELSE [r EXCEPT !.slot[r.last] = Cleared(@), !.used = @ - 1,
                                  !.last = s, !.send = NextSlot(s)]
        /\ map' = IF r.last = NoSlot THEN Erased(map, r.slot[s].id)
                  ELSE Erased(Erased(map, r.slot[s].id), r.slot[r.last].id)
        /\ out' = [id |-> r.slot[s].id, share |-> r.slot[s].share,
                   antenna |-> r.slot[s].antenna]
  /\ scanner' = [scanner EXCEPT !.at = "loop", !.pending = TRUE, !.watched = TRUE]
  /\ UNCHANGED <<msgs, writer, now>>

(* Mutant: the transaction is not marked as finished.                      *)
Sent_StaysPending ==
  /\ scanner.at = "loop" /\ scanner.watched
  /\ scanner' = [scanner EXCEPT !.watched = FALSE]
  /\ msgs' = msgs \o More(ring.used)
  /\ UNCHANGED <<ring, map, writer, now, out>>

(* sendHandler: the frame has been sent.                                   *)
Sent ==
  /\ scanner.at = "loop" /\ scanner.watched
  /\ scanner' = [scanner EXCEPT !.pending = FALSE, !.watched = FALSE]
  /\ msgs' = msgs \o More(ring.used)
  /\ UNCHANGED <<ring, map, writer, now, out>>

(* disconnectScanner: the connection to the control program is lost.       *)
NetworkError ==
  /\ scanner.at = "loop" /\ scanner.connected
  /\ scanner.errors < MaxErrors
  /\ scanner' = [scanner EXCEPT !.connected = FALSE, !.watched = FALSE, !.errors = @ + 1]
  /\ UNCHANGED <<ring, map, msgs, writer, now, out>>

ConnectScanner ==
  /\ scanner.at = "loop" /\ ~scanner.connected
  /\ scanner' = [scanner EXCEPT !.connected = TRUE]
  /\ UNCHANGED <<ring, map, msgs, writer, now, out>>

-----------------------------------------------------------------------------
(* The antenna consumer.                                                   *)

(* The data of a second come when it is over, and possibly later.          *)
Search ==
  /\ Antenna /\ writer.at = "idle"
  /\ \E t \in 1 .. now : writer' = [at |-> "search", id |-> t, slot |-> NoSlot]
  /\ UNCHANGED <<ring, map, scanner, msgs, now, out>>

Found ==
  /\ writer.at = "search"
  /\ writer' = [writer EXCEPT !.slot = map[writer.id],
                              !.at = IF map[writer.id] = NoSlot THEN "idle" ELSE "write"]
  /\ UNCHANGED <<ring, map, scanner, msgs, now, out>>

(* The data are copied without a lock ...                                  *)
WriteAntenna ==
  /\ writer.at = "write"
  /\ ring' = [ring EXCEPT !.slot[writer.slot].antenna = writer.id]
  /\ writer' = [writer EXCEPT !.at = "mark"]
  /\ UNCHANGED <<map, scanner, msgs, now, out>>

(* ... and then marked as received, under the lock of the frame.           *)
SetAntReceived ==
  /\ writer.at = "mark" /\ ~ring.slot[writer.slot].locked
  /\ ring' = [ring EXCEPT !.slot[writer.slot].antenna = writer.id]
  /\ writer' = [writer EXCEPT !.at = "idle"]
  /\ UNCHANGED <<map, scanner, msgs, now, out>>

-----------------------------------------------------------------------------
Scan == StartNewArrayFrame \/ Dispatch \/ DispatchNextFrame
Consume == Found \/ WriteAntenna \/ SetAntReceived

Next == \/ Tick \/ Scan \/ Sent \/ NetworkError \/ ConnectScanner
        \/ Search \/ Consume

Spec == Init /\ [][Next]_vars

(* The timer and the tasks run, the network sends, and the Master keeps on *)
(* connecting.                                                             *)
FairSpec == /\ Spec /\ SF_vars(Tick) /\ SF_vars(Scan) /\ WF_vars(Sent) /\ WF_vars(ConnectScanner)
            /\ WF_vars(Consume)

-----------------------------------------------------------------------------
(* Type correctness: in particular the count of used slots never exceeds   *)
(* the size of the ring (FrameBuffer.cc:119-140).                          *)
TypeOK ==
  /\ ring \in [slot : [Slots -> Slot], free : Slots, send : Slots,
               last : Slots \cup {NoSlot}, used : 0 .. NSlots]
  /\ map \in [Times -> Slots \cup {NoSlot}]
  /\ scanner \in [at : {"loop", "erase"}, pending : BOOLEAN, connected : BOOLEAN,
                  watched : BOOLEAN, frame : Slots \cup {NoSlot}, id : Times,
                  errors : 0 .. MaxErrors]
  /\ msgs \in Seq(Message)
  /\ writer \in [at : {"idle", "search", "write", "mark"}, id : Times,
                 slot : Slots \cup {NoSlot}]
  /\ now \in Times
  /\ out \in [id : Times, share : Times, antenna : Times]

(* Frames are sent in the order of their seconds, also when the control    *)
(* program falls behind and getNextSlot drops the oldest waiting frame     *)
(* (FrameBuffer.cc:125-128), and across a lost connection.                 *)
InOrder == [][out'.id # out.id => out'.id > out.id]_vars

(* While the control program keeps up, every frame is sent, whole and in   *)
(* its turn: with the shared registers of its second, and no antenna data  *)
(* of another one, however late these come (Scanner.cc:308-336, 472-487).  *)
EachInTurn ==
  [][out' # out => /\ out'.id = out.id + 1
                   /\ out'.share = out'.id /\ out'.antenna \in {0, out'.id}]_vars

(* "But don't send the next frame until at least a full 1-second period    *)
(* after its timestamp" (Scanner.cc:544-546): not before a frame has been  *)
(* created for the second that follows the next one.                       *)
OldEnough == [][out'.id # out.id => out'.id + 2 <= scanner.id]_vars

(* "If there are multiple frames waiting in the queue, keep sending until  *)
(* the buffer is drained" (Scanner.cc:544-545): a queue above its minimum  *)
(* is brought back to it.                                                  *)
QueueDrains == ring.used > MinInQueue ~> ring.used <= MinInQueue

-----------------------------------------------------------------------------
(* What the comments promise.                                              *)

(* "Using this method guarantees that the returned pointer will not be     *)
(* modified until the next call to dispatchNextFrame()" (FrameBuffer.h:    *)
(* 49-53): the frame being sent keeps its contents.                        *)
SentUnmodified ==
  [][scanner.pending /\ scanner'.pending =>
       /\ ring'.slot[ring.last].share = ring.slot[ring.last].share
       /\ ring'.slot[ring.last].antenna = ring.slot[ring.last].antenna]_vars

(* "Only decrement the count of frames waiting to be sent if this call     *)
(* means we just finished sending a frame" (FrameBuffer.cc:91-92): the     *)
(* slot that dispatchNextFrame clears is that of the frame it sent last.   *)
ClearsSentFrame ==
  [][ring'.last # ring.last /\ ring.last # NoSlot => ring.slot[ring.last].id = out.id]_vars

(* "one thread will not search the map while another thread is in the      *)
(* process of modifying it" (FrameBuffer.cc:188-190).                      *)
MapExclusive == ~(scanner.at = "erase" /\ writer.at = "search")
=============================================================================
