------------------------- MODULE FrameBufferProofs -------------------------
(***************************************************************************)
(* Proofs about the frames of the mediator, for rings of any size: that    *)
(* the state keeps its type; that frames are sent in the order of their    *)
(* seconds; and, while the control program keeps up, that each is sent     *)
(* whole, in its turn and not too early.                                   *)
(*                                                                         *)
(* The order rests on two facts about the ring: its waiting slots are      *)
(* those from "send" to "free", in the order of their seconds; and a       *)
(* dispatch request is only carried out while enough of them are filled,   *)
(* since no more than two requests are ever under way. The turn rests on   *)
(* three more: the ranks of the waiting frames, which the map and the      *)
(* Scanner agree with; what is due in a second; and the aim of the         *)
(* consumer, which holds on to a slot without its lock.                    *)
(***************************************************************************)
EXTENDS FrameBuffer, TLAPS

(* The types of the ring and of the task's state.                          *)
Ring == [slot : [Slots -> Slot], free : Slots, send : Slots,
         last : Slots \cup {NoSlot}, used : 0 .. NSlots]

(* A consumer that writes has found a frame, and a task that is about to   *)
(* dispatch one has seen one.                                              *)
Typed == /\ TypeOK
         /\ writer.at \in {"write", "mark"} => writer.slot \in Slots
         /\ scanner.at = "erase" => ring.used > 0

(* The frames that wait to be sent: all that are used but the one that was *)
(* sent last; and the slot k places after slot s.                          *)
Waiting(r) == IF r.last = NoSlot THEN r.used ELSE r.used - 1
At(s, k)   == IF s + k > NSlots THEN s + k - NSlots ELSE s + k

(* The waiting frames are of seconds from lo to hi, in their order.        *)
Sorted(r, lo, hi) ==
  /\ \A k \in 0 .. Waiting(r) - 1 : r.slot[At(r.send, k)].id \in lo .. hi
  /\ \A j, k \in 0 .. Waiting(r) - 1 :
       j <= k => r.slot[At(r.send, j)].id <= r.slot[At(r.send, k)].id

Chained(r, lo, hi) == /\ Waiting(r) >= 0
                      /\ r.free = At(r.send, Waiting(r))
                      /\ Sorted(r, lo, hi)

(* What is under way: messages, a dispatch, a frame being sent.            *)
Erasing == IF scanner.at = "erase" THEN 1 ELSE 0
Sending == IF scanner.watched THEN 1 ELSE 0
Asked   == \/ scanner.at = "erase"
           \/ \E i \in DOMAIN msgs : msgs[i] = "DISPATCH_DATAFRAME"
Enough  == /\ Len(msgs) + Erasing + Sending <= 2
           /\ Asked => ring.used - Len(msgs) - Erasing >= MinInQueue - 1

Orderly == /\ Typed /\ Enough
           /\ out.id <= now
           /\ Chained(ring, out.id, now)

-----------------------------------------------------------------------------
(* The ring.                                                               *)

LEMMA NextSlotOf ==
  \A s \in Slots : NextSlot(s) \in Slots /\ NextSlot(s) = IF s = NSlots THEN 1 ELSE s + 1
<1> SUFFICES ASSUME NEW s \in Slots
             PROVE  s % NSlots = IF s = NSlots THEN 0 ELSE s
  BY RingAssumption DEF NextSlot, Slots
<1>1. CASE s = NSlots
  BY <1>1, RingAssumption DEF Slots
<1>2. CASE s # NSlots
  BY <1>2, RingAssumption DEF Slots
<1> QED BY <1>1, <1>2

LEMMA ZeroTime == 0 \in Times
  BY RingAssumption DEF Times

(* A frame that is cleared keeps its place and its second.                 *)
LEMMA ClearedLemma ==
  ASSUME NEW x \in Slot
  PROVE  Cleared(x) \in Slot /\ Cleared(x).id = x.id
<1>1. 0 \in Times
  BY ZeroTime
<1> DEFINE a == [x EXCEPT !.share = 0]
           b == [a EXCEPT !.antenna = 0]
           c == [b EXCEPT !.locked = FALSE]
<1>2. Cleared(x) = c
  BY DEF Cleared
<1>3. a \in Slot /\ a.id = x.id
  BY <1>1 DEF Slot
<1> HIDE DEF a
<1>4. b \in Slot /\ b.id = x.id
  BY <1>1, <1>3 DEF Slot
<1> HIDE DEF b
<1>5. c \in Slot /\ c.id = x.id
  BY <1>4 DEF Slot
<1> QED
  BY <1>2, <1>5

(* The shared registers change the frame of the Scanner, but neither the   *)
(* pointers nor the second of any frame.                                   *)
LEMMA SharedLemma ==
  ASSUME ring \in Ring, scanner.frame \in Slots \cup {NoSlot}, scanner.id \in Times
  PROVE  /\ Shared(ring) \in Ring
         /\ Shared(ring).free = ring.free /\ Shared(ring).send = ring.send
         /\ Shared(ring).last = ring.last /\ Shared(ring).used = ring.used
         /\ \A x \in Slots : Shared(ring).slot[x].id = ring.slot[x].id
  BY DEF Shared, Ring, Slot, NoSlot

(* So do the default values.                                               *)
LEMMA DefaultedLemma ==
  ASSUME NEW r \in Ring, NEW s \in Slots
  PROVE  /\ Defaulted(r, s) \in Ring
         /\ Defaulted(r, s).free = r.free /\ Defaulted(r, s).send = r.send
         /\ Defaulted(r, s).last = r.last /\ Defaulted(r, s).used = r.used
         /\ \A x \in Slots : Defaulted(r, s).slot[x].id = r.slot[x].id
<1> DEFINE f == [[r.slot[s] EXCEPT !.antenna = 0] EXCEPT !.locked = FALSE]
           q == [r EXCEPT !.slot = [r.slot EXCEPT ![s] = f]]
<1>1. r.slot[s] \in Slot /\ 0 \in Times
  BY ZeroTime DEF Ring
<1>2. f \in Slot /\ f.id = r.slot[s].id
  BY <1>1 DEF Slot
<1>3. Defaulted(r, s) = q
  BY <1>1 DEF Defaulted, Ring, Slot
<1>4. q \in Ring /\ \A x \in Slots : q.slot[x].id = r.slot[x].id
  BY <1>2 DEF Ring
<1>5. q.free = r.free /\ q.send = r.send /\ q.last = r.last /\ q.used = r.used
  BY DEF Ring
<1> QED
  BY <1>3, <1>4, <1>5

(* getNextSlot: the next slot is used, and when the ring is full the       *)
(* oldest waiting frame goes.                                              *)
LEMMA GrownLemma ==
  ASSUME NEW r \in Ring
  PROVE  /\ Grown(r) \in Ring
         /\ Grown(r).free = NextSlot(r.free) /\ Grown(r).last = r.last
         /\ Grown(r).send = IF r.used = NSlots THEN NextSlot(r.send) ELSE r.send
         /\ Grown(r).used = IF r.used = NSlots THEN r.used ELSE r.used + 1
         /\ \A x \in Slots : Grown(r).slot[x].id = r.slot[x].id
<1>1. NextSlot(r.send) \in Slots /\ NextSlot(r.free) \in Slots
  BY NextSlotOf DEF Ring
<1>2. CASE r.used = NSlots
  <2> DEFINE c == Cleared(r.slot[r.send])
             q == [r EXCEPT !.slot = [r.slot EXCEPT ![r.send] = c],
                            !.send = NextSlot(r.send), !.free = NextSlot(r.free)]
  <2>1. c \in Slot /\ c.id = r.slot[r.send].id
    BY ClearedLemma DEF Ring
  <2>2. Grown(r) = q
    BY <1>2 DEF Grown
  <2> HIDE DEF c
  <2>3. q \in Ring
    BY <1>1, <2>1 DEF Ring
  <2>4. q.free = NextSlot(r.free) /\ q.last = r.last /\ q.send = NextSlot(r.send) /\ q.used = r.used
    BY DEF Ring
  <2>5. \A x \in Slots : q.slot[x].id = r.slot[x].id
    BY <2>1 DEF Ring
  <2> QED
    BY <1>2, <2>2, <2>3, <2>4, <2>5
<1>3. CASE r.used # NSlots
  <2> DEFINE q == [r EXCEPT !.used = r.used + 1, !.free = NextSlot(r.free)]
  <2>1. Grown(r) = q
    BY <1>3 DEF Grown
  <2>2. r.used + 1 \in 0 .. NSlots
    BY <1>3, RingAssumption DEF Ring
  <2>3. q \in Ring
    BY <1>1, <2>2 DEF Ring
  <2>4. /\ q.free = NextSlot(r.free) /\ q.last = r.last /\ q.send = r.send /\ q.used = r.used + 1
        /\ q.slot = r.slot
    BY DEF Ring
  <2> QED
    BY <1>3, <2>1, <2>3, <2>4
<1> QED
  BY <1>2, <1>3

(* So do the data of the antenna.                                          *)
LEMMA WrittenLemma ==
  ASSUME NEW r \in Ring, NEW s \in Slots, NEW t \in Times,
         NEW q, q = [r EXCEPT !.slot[s].antenna = t]
  PROVE  /\ q \in Ring
         /\ q.free = r.free /\ q.send = r.send /\ q.last = r.last /\ q.used = r.used
         /\ \A x \in Slots : q.slot[x].id = r.slot[x].id
<1> DEFINE f == [r.slot[s] EXCEPT !.antenna = t]
           p == [r EXCEPT !.slot = [r.slot EXCEPT ![s] = f]]
<1>1. f \in Slot /\ f.id = r.slot[s].id
  BY DEF Ring, Slot
<1>2. q = p
  OBVIOUS
<1> HIDE DEF f
<1>3. /\ p \in Ring
      /\ p.free = r.free /\ p.send = r.send /\ p.last = r.last /\ p.used = r.used
      /\ \A x \in Slots : p.slot[x].id = r.slot[x].id
  BY <1>1 DEF Ring
<1> QED
  BY <1>2, <1>3

(* The ring with a new frame of second t.                                  *)
New(r, t) == [Grown(r) EXCEPT !.slot[r.free].id = t]

LEMMA NewLemma ==
  ASSUME NEW r \in Ring, NEW t \in Times
  PROVE  /\ New(r, t) \in Ring
         /\ New(r, t).free = NextSlot(r.free) /\ New(r, t).last = r.last
         /\ New(r, t).send = IF r.used = NSlots THEN NextSlot(r.send) ELSE r.send
         /\ New(r, t).used = IF r.used = NSlots THEN r.used ELSE r.used + 1
         /\ \A x \in Slots : New(r, t).slot[x].id = IF x = r.free THEN t ELSE r.slot[x].id
<1> DEFINE g == Grown(r)
           f == [g.slot[r.free] EXCEPT !.id = t]
           q == [g EXCEPT !.slot = [g.slot EXCEPT ![r.free] = f]]
<1>1. /\ g \in Ring /\ g.free = NextSlot(r.free) /\ g.last = r.last
      /\ g.send = IF r.used = NSlots THEN NextSlot(r.send) ELSE r.send
      /\ g.used = IF r.used = NSlots THEN r.used ELSE r.used + 1
      /\ \A x \in Slots : g.slot[x].id = r.slot[x].id
  BY GrownLemma
<1>2. New(r, t) = q
  BY DEF New
<1> HIDE DEF g
<1>3. f \in Slot /\ f.id = t
  BY <1>1 DEF Ring, Slot
<1> HIDE DEF f
<1>4. q \in Ring /\ q.free = g.free /\ q.last = g.last /\ q.send = g.send /\ q.used = g.used
  BY <1>1, <1>3 DEF Ring
<1>5. \A x \in Slots : q.slot[x].id = IF x = r.free THEN t ELSE r.slot[x].id
  BY <1>1, <1>3 DEF Ring
<1> QED
  BY <1>1, <1>2, <1>4, <1>5

-----------------------------------------------------------------------------
(* The waiting frames.                                                     *)

(* The slot after the one k places on, and k places on from the next one,  *)
(* is the one k + 1 places on; and places less than a turn apart differ.   *)
LEMMA AtNext ==
  ASSUME NEW s \in Slots, NEW k \in 0 .. NSlots - 1
  PROVE  /\ At(s, k) \in Slots
         /\ NextSlot(At(s, k)) = At(s, k + 1)
         /\ At(NextSlot(s), k) = At(s, k + 1)
<1>1. At(s, k) \in Slots
  BY RingAssumption DEF At, Slots
<1>2. NextSlot(At(s, k)) = At(s, k + 1)
  BY <1>1, NextSlotOf, RingAssumption DEF At, Slots
<1>3. At(NextSlot(s), k) = At(s, k + 1)
  BY NextSlotOf, RingAssumption DEF At, Slots
<1> QED
  BY <1>1, <1>2, <1>3

LEMMA AtDiffers ==
  ASSUME NEW s \in Slots, NEW j \in 0 .. NSlots - 1, NEW k \in 0 .. NSlots - 1, j # k
  PROVE  At(s, j) # At(s, k)
  BY RingAssumption DEF At, Slots

LEMMA AtTurn ==
  ASSUME NEW s \in Slots
  PROVE  At(s, 0) = s /\ At(s, NSlots) = s
  BY RingAssumption DEF At, Slots

(* The seconds and the places of the frames are all that counts; and time  *)
(* goes on.                                                                *)
LEMMA SameChain ==
  ASSUME NEW r \in Ring, NEW q \in Ring, NEW lo \in Int, NEW hi \in Int, NEW later \in Int,
         hi <= later, Chained(r, lo, hi),
         q.free = r.free, q.send = r.send, q.last = r.last, q.used = r.used,
         \A x \in Slots : q.slot[x].id = r.slot[x].id
  PROVE  Chained(q, lo, later)
<1>1. Waiting(q) = Waiting(r) /\ Waiting(r) \in 0 .. NSlots /\ r.send \in Slots
  BY RingAssumption DEF Waiting, Ring, Chained
<1>2. \A k \in 0 .. Waiting(r) - 1 : q.slot[At(q.send, k)].id = r.slot[At(r.send, k)].id
  <2> TAKE k \in 0 .. Waiting(r) - 1
  <2>1. k \in 0 .. NSlots - 1
    BY <1>1, RingAssumption
  <2>2. At(r.send, k) \in Slots
    BY <1>1, <2>1, AtNext
  <2> QED
    BY <2>2
<1>3. Sorted(q, lo, later)
  <2>1. \A k \in 0 .. Waiting(q) - 1 : q.slot[At(q.send, k)].id \in lo .. later
    BY <1>1, <1>2 DEF Chained, Sorted
  <2> QED
    BY <1>1, <1>2, <2>1 DEF Chained, Sorted
<1> QED
  BY <1>1, <1>3 DEF Chained

(* A new frame, of a second no earlier than the others, is the last one.   *)
LEMMA NewChain ==
  ASSUME NEW r \in Ring, NEW q \in Ring, NEW lo \in Int, NEW t \in Int, lo <= t,
         Chained(r, lo, t),
         q.free = NextSlot(r.free), q.last = r.last,
         q.send = IF r.used = NSlots THEN NextSlot(r.send) ELSE r.send,
         q.used = IF r.used = NSlots THEN r.used ELSE r.used + 1,
         \A x \in Slots : q.slot[x].id = IF x = r.free THEN t ELSE r.slot[x].id
  PROVE  Chained(q, lo, t)
<1> DEFINE w == Waiting(r)
<1>1. w \in 0 .. NSlots /\ r.send \in Slots /\ r.free = At(r.send, w) /\ r.used \in 0 .. NSlots
  BY RingAssumption DEF Waiting, Ring, Chained
<1>2. /\ \A k \in 0 .. w - 1 : r.slot[At(r.send, k)].id \in lo .. t
      /\ \A j, k \in 0 .. w - 1 : j <= k => r.slot[At(r.send, j)].id <= r.slot[At(r.send, k)].id
  BY DEF Chained, Sorted
<1> HIDE DEF w
<1>3. CASE r.used # NSlots
  <2>1. w \in 0 .. NSlots - 1 /\ Waiting(q) = w + 1 /\ q.send = r.send
    BY <1>1, <1>3, RingAssumption DEF Waiting, NoSlot, w
  <2>2. q.free = At(q.send, w + 1)
    BY <1>1, <2>1, AtNext
  <2>3. \A k \in 0 .. w - 1 : q.slot[At(q.send, k)].id = r.slot[At(r.send, k)].id
    <3> TAKE k \in 0 .. w - 1
    <3>1. k \in 0 .. NSlots - 1 /\ k # w
      BY <2>1, RingAssumption
    <3>2. At(r.send, k) \in Slots /\ At(r.send, k) # r.free
      BY <1>1, <2>1, <3>1, AtNext, AtDiffers
    <3> QED
      BY <2>1, <3>2
  <2>4. q.slot[At(q.send, w)].id = t
    BY <1>1, <2>1, AtNext
  <2>5. \A k \in 0 .. w : q.slot[At(q.send, k)].id \in lo .. t
    BY <1>1, <1>2, <2>3, <2>4
  <2>6. \A j, k \in 0 .. w : j <= k => q.slot[At(q.send, j)].id <= q.slot[At(q.send, k)].id
    BY <1>1, <1>2, <2>3, <2>4, <2>5
  <2> QED
    BY <1>1, <2>1, <2>2, <2>5, <2>6 DEF Chained, Sorted
<1>4. CASE r.used = NSlots
  <2>1. w \in {NSlots - 1, NSlots} /\ Waiting(q) = w /\ q.send = NextSlot(r.send)
    BY <1>1, <1>4, RingAssumption DEF Waiting, w
  <2>2. q.send \in Slots
    BY DEF Ring
  <2>3. \A k \in 0 .. NSlots - 1 : At(q.send, k) = At(r.send, k + 1)
    BY <1>1, <2>1, AtNext
  <2>4. r.free = IF w = NSlots THEN At(r.send, 0) ELSE At(r.send, NSlots - 1)
    BY <1>1, <2>1, AtTurn
  <2>5. q.free = At(q.send, w)
    <3>1. CASE w = NSlots
      BY <1>1, <2>1, <2>2, <3>1, AtTurn
    <3>2. CASE w = NSlots - 1
      <4>1. w \in 0 .. NSlots - 1
        BY <3>2, RingAssumption
      <4> QED
        BY <1>1, <2>1, <4>1, AtNext
    <3> QED
      BY <2>1, <3>1, <3>2
  <2>6. \A k \in 0 .. w - 2 : q.slot[At(q.send, k)].id = r.slot[At(r.send, k + 1)].id
    <3> TAKE k \in 0 .. w - 2
    <3>1. k \in 0 .. NSlots - 1 /\ k + 1 \in 0 .. NSlots - 1 /\ k + 1 # 0 /\ k + 1 # w
      BY <1>1, <2>1, RingAssumption
    <3>2. At(r.send, k + 1) \in Slots
      BY <1>1, <3>1, AtNext
    <3>3. 0 \in 0 .. NSlots - 1 /\ NSlots - 1 \in 0 .. NSlots - 1
      BY RingAssumption
    <3>4. w # NSlots => k + 1 # NSlots - 1
      BY <2>1, <3>1
    <3>5. At(r.send, k + 1) # r.free
      BY <1>1, <2>4, <3>1, <3>3, <3>4, AtDiffers
    <3> QED
      BY <2>3, <3>1, <3>2, <3>5
  <2>7. w > 0 => q.slot[At(q.send, w - 1)].id = t
    <3> SUFFICES ASSUME w > 0 PROVE q.slot[At(q.send, w - 1)].id = t
      OBVIOUS
    <3>1. w - 1 \in 0 .. NSlots - 1 /\ (w - 1) + 1 = w
      BY <1>1, <2>1, RingAssumption
    <3>2. At(q.send, w - 1) = r.free
      BY <1>1, <2>3, <3>1
    <3> QED
      BY <3>2 DEF Ring
  <2>8. \A k \in 0 .. w - 1 : q.slot[At(q.send, k)].id \in lo .. t
    <3> TAKE k \in 0 .. w - 1
    <3>1. CASE k = w - 1
      BY <1>1, <2>7, <3>1
    <3>2. CASE k # w - 1
      <4>1. k \in 0 .. w - 2 /\ k + 1 \in 0 .. w - 1
        BY <1>1, <3>2
      <4> QED
        BY <1>2, <2>6, <4>1
    <3> QED
      BY <3>1, <3>2
  <2>9. \A j, k \in 0 .. w - 1 : j <= k => q.slot[At(q.send, j)].id <= q.slot[At(q.send, k)].id
    <3> SUFFICES ASSUME NEW j \in 0 .. w - 1, NEW k \in 0 .. w - 1, j <= k
                 PROVE  q.slot[At(q.send, j)].id <= q.slot[At(q.send, k)].id
      OBVIOUS
    <3>1. CASE k = w - 1
      BY <1>1, <2>7, <2>8, <3>1
    <3>2. CASE k # w - 1
      <4>1. /\ j \in 0 .. w - 2 /\ j + 1 \in 0 .. w - 1 /\ k \in 0 .. w - 2
            /\ k + 1 \in 0 .. w - 1 /\ j + 1 <= k + 1
        BY <1>1, <3>2
      <4> QED
        BY <1>2, <2>6, <4>1
    <3> QED
      BY <3>1, <3>2
  <2> QED
    BY <1>1, <2>1, <2>5, <2>8, <2>9 DEF Chained, Sorted
<1> QED
  BY <1>3, <1>4

(* When the first of the waiting frames is taken, the others are no older. *)
LEMMA DispatchChain ==
  ASSUME NEW r \in Ring, NEW q \in Ring, NEW lo \in Int, NEW hi \in Int,
         Chained(r, lo, hi), Waiting(r) > 0,
         q.free = r.free, q.send = NextSlot(r.send), q.last = r.send,
         q.used = IF r.last = NoSlot THEN r.used ELSE r.used - 1,
         \A x \in Slots : q.slot[x].id = r.slot[x].id
  PROVE  r.slot[r.send].id \in lo .. hi /\ Chained(q, r.slot[r.send].id, hi)
<1> DEFINE w == Waiting(r)
           first == r.slot[r.send].id
<1>1. w \in 1 .. NSlots /\ r.send \in Slots /\ r.free = At(r.send, w)
  BY RingAssumption DEF Waiting, Ring, Chained
<1>2. /\ \A k \in 0 .. w - 1 : r.slot[At(r.send, k)].id \in lo .. hi
      /\ \A j, k \in 0 .. w - 1 : j <= k => r.slot[At(r.send, j)].id <= r.slot[At(r.send, k)].id
  BY DEF Chained, Sorted
<1>3. Waiting(q) = w - 1
  BY RingAssumption DEF Waiting, Ring, Slots, NoSlot
<1> HIDE DEF w
<1>4. 0 \in 0 .. w - 1 /\ first = r.slot[At(r.send, 0)].id
  BY <1>1, AtTurn
<1> HIDE DEF first
<1>5. \A k \in 0 .. w - 1 : /\ At(r.send, k) \in Slots
                            /\ At(q.send, k) = At(r.send, k + 1)
  <2> TAKE k \in 0 .. w - 1
  <2>1. k \in 0 .. NSlots - 1
    BY <1>1, RingAssumption
  <2> QED
    BY <1>1, <2>1, AtNext
<1>6. \A k \in 0 .. w - 2 : /\ k + 1 \in 0 .. w - 1
                            /\ q.slot[At(q.send, k)].id = r.slot[At(r.send, k + 1)].id
  <2> TAKE k \in 0 .. w - 2
  <2>1. k \in 0 .. w - 1 /\ k + 1 \in 0 .. w - 1
    BY <1>1
  <2> QED
    BY <1>5, <2>1
<1>7. q.free = At(q.send, w - 1)
  <2>1. w - 1 \in 0 .. w - 1 /\ (w - 1) + 1 = w
    BY <1>1
  <2> QED
    BY <1>1, <1>5, <2>1
<1>8. first \in lo .. hi
  BY <1>2, <1>4
<1>9. \A k \in 0 .. w - 2 : q.slot[At(q.send, k)].id \in first .. hi
  <2> TAKE k \in 0 .. w - 2
  <2>1. 0 <= k + 1 /\ k + 1 \in 0 .. w - 1
    BY <1>6
  <2>2. /\ r.slot[At(r.send, 0)].id <= r.slot[At(r.send, k + 1)].id
        /\ r.slot[At(r.send, k + 1)].id \in lo .. hi
    BY <1>2, <1>4, <2>1
  <2> QED
    BY <1>4, <1>6, <1>8, <2>2
<1>10. \A j, k \in 0 .. w - 2 : j <= k => q.slot[At(q.send, j)].id <= q.slot[At(q.send, k)].id
  <2> SUFFICES ASSUME NEW j \in 0 .. w - 2, NEW k \in 0 .. w - 2, j <= k
               PROVE  q.slot[At(q.send, j)].id <= q.slot[At(q.send, k)].id
    OBVIOUS
  <2>1. j + 1 \in 0 .. w - 1 /\ k + 1 \in 0 .. w - 1 /\ j + 1 <= k + 1
    BY <1>6
  <2> QED
    BY <1>2, <1>6, <2>1
<1>11. (w - 1) - 1 = w - 2 /\ w - 1 >= 0
  BY <1>1
<1>12. Chained(q, first, hi)
  BY <1>3, <1>7, <1>9, <1>10, <1>11 DEF Chained, Sorted
<1> QED
  BY <1>8, <1>12 DEF first

-----------------------------------------------------------------------------
(* Type correctness.                                                       *)

(* Taking an entry out of the map.                                         *)
LEMMA ErasedLemma ==
  ASSUME NEW m \in [Times -> Slots \cup {NoSlot}], NEW t \in Times
  PROVE  Erased(m, t) \in [Times -> Slots \cup {NoSlot}]
  BY DEF Erased

(* A dispatch request, if any.                                             *)
LEMMA MoreLemma ==
  ASSUME NEW n \in Int
  PROVE  /\ More(n) \in Seq(Message)
         /\ \/ n > MinInQueue /\ More(n) = <<"DISPATCH_DATAFRAME">> /\ Len(More(n)) = 1
            \/ n <= MinInQueue /\ More(n) = << >> /\ Len(More(n)) = 0
<1>1. CASE n > MinInQueue
  BY <1>1, RingAssumption DEF More, Message
<1>2. CASE n <= MinInQueue
  <2>1. More(n) = << >>
    BY <1>2, RingAssumption DEF More
  <2> QED
    BY <1>2, <2>1
<1> QED
  BY <1>1, <1>2, RingAssumption

(* What the start of a second does to the ring.                            *)
LEMMA StartRing ==
  ASSUME Typed, StartNewArrayFrame
  PROVE  /\ ring' \in Ring /\ map' \in [Times -> Slots \cup {NoSlot}] /\ ring'.used >= ring.used
         /\ scanner' = [scanner EXCEPT !.frame = scanner'.frame, !.id = now]
         /\ scanner'.frame \in Slots
         /\ \/ /\ ring'.free = ring.free /\ ring'.send = ring.send
               /\ ring'.last = ring.last /\ ring'.used = ring.used
               /\ \A x \in Slots : ring'.slot[x].id = ring.slot[x].id
            \/ /\ ring'.free = NextSlot(ring.free) /\ ring'.last = ring.last
               /\ ring'.send = IF ring.used = NSlots THEN NextSlot(ring.send) ELSE ring.send
               /\ ring'.used = IF ring.used = NSlots THEN ring.used ELSE ring.used + 1
               /\ \A x \in Slots :
                    ring'.slot[x].id = IF x = ring.free THEN now ELSE ring.slot[x].id
<1> DEFINE r == Shared(ring)
           s == IF map[now] # NoSlot THEN map[now] ELSE r.free
<1>1. /\ ring \in Ring /\ map \in [Times -> Slots \cup {NoSlot}] /\ now \in Times
      /\ scanner.frame \in Slots \cup {NoSlot} /\ scanner.id \in Times
  BY DEF Typed, TypeOK, Ring
<1>2. /\ r \in Ring
      /\ r.free = ring.free /\ r.send = ring.send /\ r.last = ring.last /\ r.used = ring.used
      /\ \A x \in Slots : r.slot[x].id = ring.slot[x].id
  BY <1>1, SharedLemma
<1>3. /\ ring' = IF map[now] # NoSlot THEN Defaulted(r, s)
                 ELSE Defaulted([Grown(r) EXCEPT !.slot[s].id = now], s)
      /\ map' = IF map[now] # NoSlot THEN map
                ELSE [(IF r.used = NSlots THEN Erased(map, r.slot[r.send].id) ELSE map)
                        EXCEPT ![now] = s]
      /\ scanner' = [scanner EXCEPT !.frame = s, !.id = now]
  BY DEF StartNewArrayFrame
<1> HIDE DEF r
<1>4. s \in Slots
  BY <1>1, <1>2 DEF Ring
<1>5. /\ scanner'.frame = s
      /\ scanner' = [scanner EXCEPT !.frame = scanner'.frame, !.id = now]
  <2>1. scanner'.frame = s
    BY <1>3 DEF Typed, TypeOK
  <2> QED
    BY <1>3, <2>1
<1>6. CASE map[now] # NoSlot
  <2>1. ring' = Defaulted(r, s) /\ map' = map
    BY <1>3, <1>6
  <2>2. /\ ring' \in Ring
        /\ ring'.free = r.free /\ ring'.send = r.send /\ ring'.last = r.last /\ ring'.used = r.used
        /\ \A x \in Slots : ring'.slot[x].id = r.slot[x].id
    BY <1>2, <1>4, <2>1, DefaultedLemma
  <2>3. ring'.used = ring.used /\ ring.used \in Int
    BY <1>1, <1>2, <2>2 DEF Ring
  <2> QED
    BY <1>1, <1>2, <1>4, <1>5, <2>1, <2>2, <2>3
<1>7. CASE map[now] = NoSlot
  <2> DEFINE q == New(r, now)
  <2>1. s = r.free /\ ring' = Defaulted(q, r.free)
    BY <1>3, <1>7 DEF New
  <2>2. /\ q \in Ring
        /\ q.free = NextSlot(r.free) /\ q.last = r.last
        /\ q.send = IF r.used = NSlots THEN NextSlot(r.send) ELSE r.send
        /\ q.used = IF r.used = NSlots THEN r.used ELSE r.used + 1
        /\ \A x \in Slots : q.slot[x].id = IF x = r.free THEN now ELSE r.slot[x].id
    BY <1>1, <1>2, NewLemma
  <2> HIDE DEF q
  <2>3. /\ ring' \in Ring
        /\ ring'.free = q.free /\ ring'.send = q.send /\ ring'.last = q.last /\ ring'.used = q.used
        /\ \A x \in Slots : ring'.slot[x].id = q.slot[x].id
    BY <1>4, <2>1, <2>2, DefaultedLemma
  <2>4. map' \in [Times -> Slots \cup {NoSlot}]
    <3>1. r.slot[r.send].id \in Times
      BY <1>2 DEF Ring, Slot
    <3>2. (IF r.used = NSlots THEN Erased(map, r.slot[r.send].id) ELSE map)
             \in [Times -> Slots \cup {NoSlot}]
      BY <1>1, <3>1, ErasedLemma
    <3> QED
      BY <1>1, <1>3, <1>4, <1>7, <3>2
  <2>5. ring.used \in Int /\ ring'.used >= ring.used
    BY <1>1, <1>2, <2>2, <2>3, RingAssumption DEF Ring
  <2> QED
    BY <1>2, <1>4, <1>5, <2>1, <2>2, <2>3, <2>4, <2>5
<1> QED
  BY <1>6, <1>7

(* What the dispatch of a frame does to it.                                *)
LEMMA DispatchRing ==
  ASSUME Typed, DispatchNextFrame
  PROVE  /\ ring' \in Ring /\ map' \in [Times -> Slots \cup {NoSlot}]
         /\ ring'.free = ring.free /\ ring'.send = NextSlot(ring.send) /\ ring'.last = ring.send
         /\ ring'.used = IF ring.last = NoSlot THEN ring.used ELSE ring.used - 1
         /\ \A x \in Slots : ring'.slot[x].id = ring.slot[x].id
         /\ out' \in [id : Times, share : Times, antenna : Times]
         /\ out'.id = ring.slot[ring.send].id
<1> DEFINE s == ring.send
           f == [ring.slot[s] EXCEPT !.locked = TRUE]
           r == [ring EXCEPT !.slot = [ring.slot EXCEPT ![s] = f]]
           c == Cleared(r.slot[r.last])
<1>1. ring \in Ring /\ map \in [Times -> Slots \cup {NoSlot}] /\ ring.used > 0
  BY DEF Typed, TypeOK, Ring, DispatchNextFrame
<1>2. f \in Slot /\ f.id = ring.slot[s].id
  BY <1>1 DEF Ring, Slot
<1> HIDE DEF f
<1>3. /\ r \in Ring
      /\ r.free = ring.free /\ r.send = s /\ r.last = ring.last /\ r.used = ring.used
      /\ \A x \in Slots : r.slot[x].id = ring.slot[x].id
  BY <1>1, <1>2 DEF Ring
<1>4. /\ ring' = IF r.last = NoSlot THEN [r EXCEPT !.last = s, !.send = NextSlot(s)]
                 ELSE [r EXCEPT !.slot = [r.slot EXCEPT ![r.last] = c], !.used = r.used - 1,
                                !.last = s, !.send = NextSlot(s)]
      /\ map' = IF r.last = NoSlot THEN Erased(map, r.slot[s].id)
                ELSE Erased(Erased(map, r.slot[s].id), r.slot[r.last].id)
      /\ out' = [id |-> r.slot[s].id, share |-> r.slot[s].share, antenna |-> r.slot[s].antenna]
  BY DEF DispatchNextFrame, f
<1> HIDE DEF r
<1>5. s \in Slots /\ NextSlot(s) \in Slots
  BY <1>1, NextSlotOf DEF Ring
<1>6. /\ r.slot[s] \in Slot /\ r.slot[s].id = ring.slot[s].id
      /\ out' \in [id : Times, share : Times, antenna : Times] /\ out'.id = ring.slot[s].id
  BY <1>3, <1>4, <1>5 DEF Ring, Slot
<1>7. CASE r.last = NoSlot
  <2>1. map' \in [Times -> Slots \cup {NoSlot}]
    BY <1>1, <1>4, <1>6, <1>7, ErasedLemma DEF Slot
  <2>2. /\ ring' \in Ring
        /\ ring'.free = r.free /\ ring'.send = NextSlot(s) /\ ring'.last = s
        /\ ring'.used = r.used /\ ring'.slot = r.slot
    BY <1>3, <1>4, <1>5, <1>7 DEF Ring
  <2> QED
    BY <1>3, <1>6, <1>7, <2>1, <2>2
<1>8. CASE r.last # NoSlot
  <2>1. r.last \in Slots /\ r.slot[r.last] \in Slot
    BY <1>3, <1>8 DEF Ring
  <2>2. c \in Slot /\ c.id = r.slot[r.last].id
    BY <2>1, ClearedLemma
  <2> HIDE DEF c
  <2>3. map' \in [Times -> Slots \cup {NoSlot}]
    <3>1. Erased(map, r.slot[s].id) \in [Times -> Slots \cup {NoSlot}]
      BY <1>1, <1>6, ErasedLemma DEF Slot
    <3> QED
      BY <1>4, <1>8, <2>1, <3>1, ErasedLemma DEF Slot
  <2>4. r.used - 1 \in 0 .. NSlots
    BY <1>1, <1>3, RingAssumption DEF Ring
  <2> DEFINE q == [r EXCEPT !.slot = [r.slot EXCEPT ![r.last] = c], !.used = r.used - 1,
                            !.last = s, !.send = NextSlot(s)]
  <2>5. ring' = q
    BY <1>4, <1>8
  <2>6. q \in Ring
    BY <1>3, <1>5, <2>2, <2>4 DEF Ring
  <2>7. q.free = r.free /\ q.send = NextSlot(s) /\ q.last = s /\ q.used = r.used - 1
    BY <1>3 DEF Ring
  <2>8. \A x \in Slots : q.slot[x].id = r.slot[x].id
    BY <1>3, <2>2 DEF Ring
  <2> QED
    BY <1>3, <1>6, <1>8, <2>3, <2>5, <2>6, <2>7, <2>8
<1> QED
  BY <1>7, <1>8

(* The data of the antenna change no place and no second.                  *)
LEMMA WrittenStep ==
  ASSUME Typed, WriteAntenna \/ SetAntReceived
  PROVE  /\ ring' \in Ring
         /\ ring'.free = ring.free /\ ring'.send = ring.send
         /\ ring'.last = ring.last /\ ring'.used = ring.used
         /\ \A x \in Slots : ring'.slot[x].id = ring.slot[x].id
<1>1. ring \in Ring /\ writer.slot \in Slots /\ writer.id \in Times
  BY DEF Typed, TypeOK, Ring, WriteAntenna, SetAntReceived
<1>2. ring' = [ring EXCEPT !.slot[writer.slot].antenna = writer.id]
  BY DEF WriteAntenna, SetAntReceived
<1> QED
  BY <1>1, <1>2, WrittenLemma

LEMMA InitTyped == Init => Typed
<1> SUFFICES ASSUME Init PROVE Typed
  OBVIOUS
<1>1. 0 \in Times /\ 1 \in Slots /\ 0 \in 0 .. NSlots /\ 0 \in 0 .. MaxErrors
  BY RingAssumption DEF Times, Slots
<1>2. [id |-> 0, share |-> 0, antenna |-> 0, locked |-> FALSE] \in Slot
  BY <1>1 DEF Slot
<1>3. ring \in [slot : [Slots -> Slot], free : Slots, send : Slots,
                last : Slots \cup {NoSlot}, used : 0 .. NSlots]
  BY <1>1, <1>2 DEF Init
<1> QED
  BY <1>1, <1>3 DEF Init, Typed, TypeOK, Message

LEMMA TypedStep == Typed /\ [Next]_vars => Typed'
<1> SUFFICES ASSUME Typed, [Next]_vars PROVE Typed'
  OBVIOUS
<1>0. /\ ring \in Ring /\ ring.used \in Int /\ map \in [Times -> Slots \cup {NoSlot}]
      /\ msgs \in Seq(Message) /\ now \in Times
      /\ out \in [id : Times, share : Times, antenna : Times]
  BY DEF Typed, TypeOK, Ring
<1>1. CASE Tick
  <2>1. now' \in Times /\ msgs' \in Seq(Message)
    BY <1>0, <1>1 DEF Tick, Message
  <2> QED
    BY <1>1, <2>1 DEF Tick, Typed, TypeOK
<1>2. CASE StartNewArrayFrame
  <2>1. /\ ring' \in Ring /\ map' \in [Times -> Slots \cup {NoSlot}] /\ ring'.used >= ring.used
        /\ scanner' = [scanner EXCEPT !.frame = scanner'.frame, !.id = now]
        /\ scanner'.frame \in Slots
    BY <1>2, StartRing
  <2>2. msgs # << >> /\ msgs' = Tail(msgs) \o More(ring'.used)
    BY <1>2 DEF StartNewArrayFrame
  <2>3. msgs' \in Seq(Message)
    <3>1. Tail(msgs) \in Seq(Message)
      BY <1>0, <2>2
    <3>2. ring'.used \in Int
      BY <2>1 DEF Ring
    <3>3. More(ring'.used) \in Seq(Message)
      BY <3>2, MoreLemma
    <3> QED
      BY <2>2, <3>1, <3>3
  <2>4. /\ scanner' \in [at : {"loop", "erase"}, pending : BOOLEAN, connected : BOOLEAN,
                         watched : BOOLEAN, frame : Slots \cup {NoSlot}, id : Times,
                         errors : 0 .. MaxErrors]
        /\ scanner'.at = scanner.at
    BY <1>0, <2>1 DEF Typed, TypeOK
  <2>5. scanner.at = "loop" /\ UNCHANGED <<writer, now, out>>
    BY <1>2 DEF StartNewArrayFrame
  <2> QED
    BY <2>1, <2>3, <2>4, <2>5 DEF Typed, TypeOK, Ring
<1>3. CASE Dispatch
  <2>1. msgs' \in Seq(Message)
    BY <1>0, <1>3 DEF Dispatch
  <2>2. /\ scanner' \in [at : {"loop", "erase"}, pending : BOOLEAN, connected : BOOLEAN,
                         watched : BOOLEAN, frame : Slots \cup {NoSlot}, id : Times,
                         errors : 0 .. MaxErrors]
        /\ scanner'.at = "erase" => ring.used > 0
    <3>1. CASE scanner' = scanner
      BY <3>1 DEF Typed, TypeOK
    <3>2. CASE scanner' = [scanner EXCEPT !.at = "erase"] /\ ring.used # 0
      <4>1. ring.used > 0
        BY <1>0, <3>2, RingAssumption DEF Ring
      <4>2. scanner' \in [at : {"loop", "erase"}, pending : BOOLEAN, connected : BOOLEAN,
                          watched : BOOLEAN, frame : Slots \cup {NoSlot}, id : Times,
                          errors : 0 .. MaxErrors]
        BY <3>2 DEF Typed, TypeOK
      <4> QED
        BY <4>1, <4>2
    <3> QED
      BY <1>3, <3>1, <3>2 DEF Dispatch
  <2> QED
    BY <1>3, <2>1, <2>2 DEF Dispatch, Typed, TypeOK
<1>4. CASE DispatchNextFrame
  <2>1. /\ ring' \in Ring /\ map' \in [Times -> Slots \cup {NoSlot}]
        /\ out' \in [id : Times, share : Times, antenna : Times]
    BY <1>4, DispatchRing
  <2>2. /\ scanner' = [scanner EXCEPT !.at = "loop", !.pending = TRUE, !.watched = TRUE]
        /\ UNCHANGED <<msgs, writer, now>>
    BY <1>4 DEF DispatchNextFrame
  <2> QED
    BY <2>1, <2>2 DEF Typed, TypeOK, Ring
<1>5. CASE Sent
  <2>1. msgs' \in Seq(Message)
    <3>1. More(ring.used) \in Seq(Message)
      BY <1>0, MoreLemma
    <3> QED
      BY <1>0, <1>5, <3>1 DEF Sent
  <2> QED
    BY <1>5, <2>1 DEF Sent, Typed, TypeOK
<1>6. CASE NetworkError
  <2>1. scanner.errors + 1 \in 0 .. MaxErrors
    BY <1>6, RingAssumption DEF NetworkError, Typed, TypeOK
  <2> QED
    BY <1>6, <2>1 DEF NetworkError, Typed, TypeOK
<1>7. CASE ConnectScanner
  BY <1>7 DEF ConnectScanner, Typed, TypeOK
<1>8. CASE Search
  <2>1. writer' \in [at : {"idle", "search", "write", "mark"}, id : Times,
                     slot : Slots \cup {NoSlot}] /\ writer'.at = "search"
    BY <1>0, <1>8, RingAssumption DEF Search, Times
  <2> QED
    BY <1>8, <2>1 DEF Search, Typed, TypeOK
<1>9. CASE Found
  BY <1>0, <1>9 DEF Found, Typed, TypeOK
<1>10. CASE WriteAntenna
  <2>1. ring' \in Ring /\ ring'.used = ring.used
    BY <1>10, WrittenStep
  <2> QED
    BY <1>10, <2>1 DEF WriteAntenna, Typed, TypeOK, Ring
<1>11. CASE SetAntReceived
  <2>1. ring' \in Ring /\ ring'.used = ring.used
    BY <1>11, WrittenStep
  <2> QED
    BY <1>11, <2>1 DEF SetAntReceived, Typed, TypeOK, Ring
<1>12. CASE UNCHANGED vars
  BY <1>12 DEF vars, Typed, TypeOK
<1> QED
  BY <1>1, <1>2, <1>3, <1>4, <1>5, <1>6, <1>7, <1>8, <1>9, <1>10, <1>11, <1>12
  DEF Next, Scan, Consume

(* The type invariant holds in every reachable state: in particular the    *)
(* ring is never overfilled (FrameBuffer.cc:119-140), also after overflow, *)
(* a lost connection and frames that come early or late.                   *)
THEOREM TypeCorrect == Spec => []TypeOK
<1>1. Typed => TypeOK
  BY DEF Typed
<1> QED
  BY InitTyped, TypedStep, <1>1, PTL DEF Spec

-----------------------------------------------------------------------------
(* The order of the frames.                                                *)

(* The assumption of the second theorem: no task is late by a second, and  *)
(* the minimum of the queue leaves room for the two requests that may be   *)
(* under way (it is 4 in the mediator).                                    *)
Keeping == Prompt /\ MinInQueue >= 2

(* The task is at one place, and a message more or less is one.            *)
LEMMA UnderWay ==
  /\ scanner.at = "erase" => Erasing = 1
  /\ scanner.at = "loop" => Erasing = 0
  /\ scanner.watched => Sending = 1
  /\ ~scanner.watched => Sending = 0
  /\ Erasing \in {0, 1} /\ Sending \in {0, 1}
<1>1. CASE scanner.watched
  BY <1>1 DEF Erasing, Sending
<1>2. CASE ~scanner.watched
  BY <1>2 DEF Erasing, Sending
<1> QED
  BY <1>1, <1>2

LEMMA UnderWayNext ==
  /\ scanner'.at = "erase" => Erasing' = 1
  /\ scanner'.at = "loop" => Erasing' = 0
  /\ scanner'.watched => Sending' = 1
  /\ ~scanner'.watched => Sending' = 0
  /\ Erasing' \in {0, 1} /\ Sending' \in {0, 1}
<1>1. CASE scanner'.watched
  BY <1>1 DEF Erasing, Sending
<1>2. CASE ~scanner'.watched
  BY <1>2 DEF Erasing, Sending
<1> QED
  BY <1>1, <1>2

LEMMA Joined ==
  ASSUME NEW s \in Seq(Message), NEW n \in Int
  PROVE  /\ s \o More(n) \in Seq(Message)
         /\ \/ n > MinInQueue /\ Len(s \o More(n)) = Len(s) + 1
            \/ n <= MinInQueue /\ s \o More(n) = s
<1>1. /\ More(n) \in Seq(Message)
      /\ \/ n > MinInQueue /\ Len(More(n)) = 1
         \/ n <= MinInQueue /\ More(n) = << >>
  BY MoreLemma
<1>2. s \o More(n) \in Seq(Message) /\ Len(s \o More(n)) = Len(s) + Len(More(n))
  BY <1>1
<1>3. s \o << >> = s
  OBVIOUS
<1> QED
  BY <1>1, <1>2, <1>3

(* The requests under way, when the ring and the messages change.          *)
LEMMA EnoughStep ==
  ASSUME Keeping, Typed, Enough, Next
  PROVE  Enough'
<1>0. /\ ring \in Ring /\ ring.used \in Int /\ MinInQueue \in Int /\ MinInQueue >= 2
      /\ msgs \in Seq(Message) /\ Len(msgs) \in Nat /\ scanner.watched \in BOOLEAN
  BY RingAssumption DEF Keeping, Typed, TypeOK, Ring
<1>1. CASE Tick
  <2>1. /\ msgs = << >> /\ scanner.at = "loop" /\ msgs' = <<"START_DATAFRAME">>
        /\ UNCHANGED <<ring, scanner>>
    BY <1>1 DEF Tick, Keeping
  <2>2. Len(msgs') = 1
    BY <2>1
  <2>3. Erasing' = 0 /\ Sending' \in {0, 1}
    BY <2>1, UnderWayNext
  <2>4. Len(msgs') + Erasing' + Sending' <= 2
    <3>1. CASE Sending' = 0
      BY <2>2, <2>3, <3>1
    <3>2. CASE Sending' = 1
      BY <2>2, <2>3, <3>2
    <3> QED
      BY <2>3, <3>1, <3>2
  <2>5. ~Asked'
    BY <2>1 DEF Asked
  <2> QED
    BY <2>4, <2>5 DEF Enough
<1>2. CASE StartNewArrayFrame
  <2>1. /\ ring' \in Ring /\ ring'.used >= ring.used
        /\ scanner' = [scanner EXCEPT !.frame = scanner'.frame, !.id = now]
    BY <1>2, StartRing
  <2>2. /\ scanner.at = "loop" /\ msgs # << >> /\ msgs' = Tail(msgs) \o More(ring'.used)
    BY <1>2 DEF StartNewArrayFrame
  <2>3. scanner'.at = "loop" /\ scanner'.watched = scanner.watched
    BY <2>1, <2>2 DEF Typed, TypeOK
  <2>4. Erasing = 0 /\ Erasing' = 0 /\ Sending' = Sending /\ Sending \in {0, 1}
    <3>1. Sending' = Sending
      BY <2>3 DEF Sending
    <3> QED
      BY <2>2, <2>3, <3>1, UnderWay, UnderWayNext
  <2>5. ring'.used \in Int
    BY <2>1 DEF Ring
  <2>6. Tail(msgs) \in Seq(Message) /\ Len(Tail(msgs)) = Len(msgs) - 1 /\ Len(msgs) > 0
    BY <1>0, <2>2
  <2>7. CASE ring'.used > MinInQueue /\ Len(msgs') = Len(Tail(msgs)) + 1
    BY <1>0, <2>4, <2>5, <2>6, <2>7 DEF Enough
  <2>8. CASE msgs' = Tail(msgs)
    <3>1. Asked' => Asked
      BY <1>0, <2>2, <2>3, <2>6, <2>8 DEF Asked
    <3> QED
      BY <1>0, <2>1, <2>4, <2>5, <2>6, <2>8, <3>1 DEF Enough
  <2> QED
    BY <2>2, <2>5, <2>6, <2>7, <2>8, Joined
<1>3. CASE Dispatch
  <2>1. /\ scanner.at = "loop" /\ msgs # << >> /\ Head(msgs) = "DISPATCH_DATAFRAME"
        /\ msgs' = Tail(msgs) /\ UNCHANGED ring
        /\ \/ scanner' = scanner
           \/ scanner' = [scanner EXCEPT !.at = "erase"]
    BY <1>3 DEF Dispatch
  <2>2. Len(msgs') = Len(msgs) - 1 /\ Len(msgs) > 0 /\ Asked
    BY <1>0, <2>1 DEF Asked
  <2>3. scanner'.watched = scanner.watched
    BY <1>0, <2>1 DEF Typed, TypeOK
  <2>4. Sending' = Sending /\ Sending \in {0, 1} /\ Erasing = 0 /\ Erasing' \in {0, 1}
    <3>1. Sending' = Sending
      BY <2>3 DEF Sending
    <3> QED
      BY <2>1, <3>1, UnderWay, UnderWayNext
  <2> QED
    BY <1>0, <2>1, <2>2, <2>4 DEF Enough
<1>4. CASE DispatchNextFrame
  <2>1. /\ scanner.at = "erase" /\ msgs' = msgs
        /\ scanner' = [scanner EXCEPT !.at = "loop", !.pending = TRUE, !.watched = TRUE]
    BY <1>4 DEF DispatchNextFrame
  <2>2. scanner'.at = "loop" /\ scanner'.watched
    BY <2>1 DEF Typed, TypeOK
  <2>3. ring'.used >= ring.used - 1 /\ ring'.used \in Int
    BY <1>0, <1>4, DispatchRing
  <2>4. Erasing = 1 /\ Erasing' = 0 /\ Sending \in {0, 1} /\ Sending' = 1 /\ Asked
    <3>1. Asked
      BY <2>1 DEF Asked
    <3> QED
      BY <2>1, <2>2, <3>1, UnderWay, UnderWayNext
  <2> QED
    BY <1>0, <2>1, <2>3, <2>4 DEF Enough
<1>5. CASE Sent
  <2>1. /\ scanner.at = "loop" /\ scanner.watched /\ UNCHANGED ring
        /\ scanner' = [scanner EXCEPT !.pending = FALSE, !.watched = FALSE]
        /\ msgs' = msgs \o More(ring.used)
    BY <1>5 DEF Sent
  <2>2. scanner'.at = "loop" /\ ~scanner'.watched
    BY <2>1 DEF Typed, TypeOK
  <2>3. Erasing = 0 /\ Erasing' = 0 /\ Sending = 1 /\ Sending' = 0
    BY <2>1, <2>2, UnderWay, UnderWayNext
  <2>4. CASE ring.used > MinInQueue /\ Len(msgs') = Len(msgs) + 1
    BY <1>0, <2>1, <2>3, <2>4 DEF Enough
  <2>5. CASE msgs' = msgs
    <3>1. Asked' => Asked
      BY <2>2, <2>5 DEF Asked
    <3> QED
      BY <1>0, <2>1, <2>3, <2>5, <3>1 DEF Enough
  <2> QED
    BY <1>0, <2>1, <2>4, <2>5, Joined
<1>6. CASE NetworkError
  <2>1. scanner.at = "loop" /\ scanner'.at = "loop" /\ ~scanner'.watched /\ UNCHANGED <<ring, msgs>>
    BY <1>6 DEF NetworkError, Typed, TypeOK
  <2>2. Erasing = 0 /\ Erasing' = 0 /\ Sending \in {0, 1} /\ Sending' = 0
    BY <2>1, UnderWay, UnderWayNext
  <2>3. Asked' => Asked
    BY <2>1 DEF Asked
  <2> QED
    BY <1>0, <2>1, <2>2, <2>3 DEF Enough
<1>7. CASE UNCHANGED <<msgs, scanner.at, scanner.watched>> /\ ring'.used = ring.used
  <2>1. Erasing' = Erasing /\ Sending' = Sending /\ Asked' = Asked
    BY <1>7 DEF Erasing, Sending, Asked
  <2> QED
    BY <1>7, <2>1 DEF Enough
<1>8. CASE ConnectScanner
  <2>1. UNCHANGED <<msgs, scanner.at, scanner.watched>> /\ ring'.used = ring.used
    BY <1>8 DEF ConnectScanner, Typed, TypeOK
  <2> QED
    BY <1>7, <2>1
<1>9. CASE Search \/ Found
  BY <1>7, <1>9 DEF Search, Found
<1>10. CASE WriteAntenna \/ SetAntReceived
  <2>1. UNCHANGED <<msgs, scanner>>
    BY <1>10 DEF WriteAntenna, SetAntReceived
  <2>2. ring'.used = ring.used
    BY <1>10, WrittenStep
  <2> QED
    BY <1>7, <2>1, <2>2
<1> QED
  BY <1>1, <1>2, <1>3, <1>4, <1>5, <1>6, <1>8, <1>9, <1>10 DEF Next, Scan, Consume

(* The order of the frames, for each action.                               *)
LEMMA OrderlyStep ==
  ASSUME Keeping, Orderly, [Next]_vars
  PROVE  Orderly' /\ (out'.id # out.id => out'.id > out.id)
<1>0. /\ ring \in Ring /\ ring.used \in Int /\ ring.last \in Slots \cup {NoSlot}
      /\ now \in Int /\ out.id \in Int /\ out.id <= now /\ Chained(ring, out.id, now)
      /\ Typed /\ Enough
  BY RingAssumption DEF Orderly, Typed, TypeOK, Ring, Times
<1>1. Typed' /\ Enough'
  <2>1. Enough'
    <3>1. CASE Next
      BY <1>0, <3>1, EnoughStep
    <3>2. CASE UNCHANGED vars
      BY <1>0, <3>2 DEF vars, Enough, Asked, Erasing, Sending
    <3> QED
      BY <3>1, <3>2
  <2> QED
    BY <1>0, <2>1, TypedStep
<1>2. ring' \in Ring /\ now' \in Int
  BY <1>1, RingAssumption DEF Typed, TypeOK, Ring, Times
<1>3. ASSUME UNCHANGED out, out.id <= now', Chained(ring', out.id, now')
      PROVE  Orderly' /\ (out'.id # out.id => out'.id > out.id)
  <2>1. out'.id = out.id
    BY <1>3
  <2> QED
    BY <1>1, <1>3, <2>1 DEF Orderly
<1>4. ASSUME UNCHANGED out, now' >= now,
             ring'.free = ring.free, ring'.send = ring.send,
             ring'.last = ring.last, ring'.used = ring.used,
             \A x \in Slots : ring'.slot[x].id = ring.slot[x].id
      PROVE  Orderly' /\ (out'.id # out.id => out'.id > out.id)
  <2>1. Chained(ring', out.id, now') /\ out.id <= now'
    BY <1>0, <1>2, <1>4, SameChain
  <2> QED
    BY <1>3, <1>4, <2>1
<1>5. CASE Tick
  <2>1. UNCHANGED <<ring, out>> /\ now' >= now
    BY <1>0, <1>5 DEF Tick
  <2> QED
    BY <1>4, <2>1
<1>6. CASE StartNewArrayFrame
  <2>1. UNCHANGED <<now, out>>
    BY <1>6 DEF StartNewArrayFrame
  <2>2. CASE /\ ring'.free = ring.free /\ ring'.send = ring.send
             /\ ring'.last = ring.last /\ ring'.used = ring.used
             /\ \A x \in Slots : ring'.slot[x].id = ring.slot[x].id
    BY <1>0, <1>4, <2>1, <2>2
  <2>3. CASE /\ ring'.free = NextSlot(ring.free) /\ ring'.last = ring.last
             /\ ring'.send = IF ring.used = NSlots THEN NextSlot(ring.send) ELSE ring.send
             /\ ring'.used = IF ring.used = NSlots THEN ring.used ELSE ring.used + 1
             /\ \A x \in Slots :
                  ring'.slot[x].id = IF x = ring.free THEN now ELSE ring.slot[x].id
    <3>1. Chained(ring', out.id, now)
      BY <1>0, <1>2, <2>3, NewChain
    <3> QED
      BY <1>0, <1>3, <2>1, <3>1
  <2> QED
    BY <1>0, <1>6, <2>2, <2>3, StartRing
<1>7. CASE DispatchNextFrame
  <2>1. Asked /\ Erasing = 1 /\ Len(msgs) \in Nat /\ UNCHANGED now
    BY <1>0, <1>7, UnderWay DEF DispatchNextFrame, Asked, Typed, TypeOK
  <2>2. ring.used >= 2
    BY <1>0, <2>1, RingAssumption DEF Enough, Keeping
  <2>3. Waiting(ring) > 0
    BY <1>0, <2>2 DEF Waiting
  <2>4. /\ ring'.free = ring.free /\ ring'.send = NextSlot(ring.send) /\ ring'.last = ring.send
        /\ ring'.used = IF ring.last = NoSlot THEN ring.used ELSE ring.used - 1
        /\ \A x \in Slots : ring'.slot[x].id = ring.slot[x].id
        /\ out'.id = ring.slot[ring.send].id
    BY <1>0, <1>7, DispatchRing
  <2>5. out'.id \in out.id .. now /\ Chained(ring', out'.id, now)
    BY <1>0, <1>2, <2>3, <2>4, DispatchChain
  <2>6. Chained(ring', out'.id, now')
    BY <2>1, <2>5
  <2>7. out'.id <= now' /\ (out'.id # out.id => out'.id > out.id)
    BY <1>0, <2>1, <2>5
  <2> QED
    BY <1>1, <2>6, <2>7 DEF Orderly
<1>8. CASE WriteAntenna \/ SetAntReceived
  <2>1. UNCHANGED <<now, out>>
    BY <1>8 DEF WriteAntenna, SetAntReceived
  <2> QED
    BY <1>0, <1>4, <1>8, <2>1, WrittenStep
<1>9. CASE UNCHANGED <<ring, now, out>>
  BY <1>0, <1>4, <1>9
<1>10. CASE Dispatch \/ Sent \/ NetworkError \/ ConnectScanner \/ Search \/ Found \/ UNCHANGED vars
  BY <1>9, <1>10 DEF Dispatch, Sent, NetworkError, ConnectScanner, Search, Found, vars
<1> QED
  BY <1>5, <1>6, <1>7, <1>8, <1>10 DEF Next, Scan, Consume

LEMMA InitOrderly == Init => Orderly
<1> SUFFICES ASSUME Init PROVE Orderly
  OBVIOUS
<1>1. /\ ring.free = 1 /\ ring.send = 1 /\ ring.last = NoSlot /\ ring.used = 0
      /\ msgs = << >> /\ scanner.at = "loop" /\ ~scanner.watched /\ out.id = 0 /\ now = 0
  BY DEF Init
<1>2. Typed
  BY InitTyped
<1>3. Enough
  <2>1. Erasing = 0 /\ Sending = 0 /\ Len(msgs) = 0 /\ ~Asked
    BY <1>1, UnderWay DEF Asked
  <2> QED
    BY <2>1 DEF Enough
<1>4. Waiting(ring) = 0 /\ At(1, 0) = 1
  BY <1>1, RingAssumption DEF Waiting, At
<1>5. Sorted(ring, 0, 0)
  BY <1>4 DEF Sorted
<1> QED
  BY <1>1, <1>2, <1>3, <1>4, <1>5 DEF Orderly, Chained

(* As long as no task is late by a second, frames are sent in the order of *)
(* their seconds, however full the ring gets and however often the         *)
(* connection is lost (FrameBuffer.cc:75-140, Scanner.cc:529-560).         *)
THEOREM SentInOrder == Keeping => (Spec => InOrder)
<1> SUFFICES ASSUME Keeping PROVE Spec => InOrder
  OBVIOUS
<1>1. Init => Orderly
  BY InitOrderly
<1>2. Orderly /\ [Next]_vars => Orderly'
  BY OrderlyStep
<1>3. Orderly /\ [Next]_vars => [out'.id # out.id => out'.id > out.id]_vars
  BY OrderlyStep
<1> QED
  BY <1>1, <1>2, <1>3, PTL DEF Spec, InOrder

-----------------------------------------------------------------------------
(* The parts of the frames.                                                *)

(* The shared registers, the default values and the choice of the next     *)
(* slot, on the parts of the frames.                                       *)
LEMMA SharedParts ==
  ASSUME ring \in Ring, scanner.frame \in Slots \cup {NoSlot}, scanner.id \in Times,
         NEW x \in Slots
  PROVE  /\ Shared(ring).slot[x].share = IF x = scanner.frame THEN scanner.id
                                         ELSE ring.slot[x].share
         /\ Shared(ring).slot[x].antenna = ring.slot[x].antenna
         /\ Shared(ring).slot[x].locked = ring.slot[x].locked
<1> DEFINE f == [ring.slot[scanner.frame] EXCEPT !.share = scanner.id]
           q == [ring EXCEPT !.slot = [ring.slot EXCEPT ![scanner.frame] = f]]
<1>1. CASE scanner.frame = NoSlot
  BY <1>1 DEF Shared, Slots, NoSlot
<1>2. CASE scanner.frame # NoSlot
  <2>1. Shared(ring) = q
    BY <1>2 DEF Shared
  <2>2. scanner.frame \in Slots /\ ring.slot[scanner.frame] \in Slot
    BY <1>2 DEF Ring
  <2>3. /\ f.share = scanner.id /\ f.antenna = ring.slot[scanner.frame].antenna
        /\ f.locked = ring.slot[scanner.frame].locked
    BY <2>2 DEF Slot
  <2> HIDE DEF f
  <2>4. q.slot[x] = IF x = scanner.frame THEN f ELSE ring.slot[x]
    BY <2>2 DEF Ring
  <2> QED
    BY <2>1, <2>3, <2>4
<1> QED
  BY <1>1, <1>2

LEMMA DefaultedParts ==
  ASSUME NEW r \in Ring, NEW s \in Slots, NEW x \in Slots
  PROVE  /\ Defaulted(r, s).slot[x].share = r.slot[x].share
         /\ Defaulted(r, s).slot[x].antenna = IF x = s THEN 0 ELSE r.slot[x].antenna
         /\ Defaulted(r, s).slot[x].locked = IF x = s THEN FALSE ELSE r.slot[x].locked
<1> DEFINE f == [[r.slot[s] EXCEPT !.antenna = 0] EXCEPT !.locked = FALSE]
           q == [r EXCEPT !.slot = [r.slot EXCEPT ![s] = f]]
<1>1. r.slot[s] \in Slot
  BY DEF Ring
<1>2. f.share = r.slot[s].share /\ f.antenna = 0 /\ f.locked = FALSE
  BY <1>1 DEF Slot
<1>3. Defaulted(r, s) = q
  BY <1>1 DEF Defaulted, Ring, Slot
<1> HIDE DEF f
<1>4. q.slot[x] = IF x = s THEN f ELSE r.slot[x]
  BY DEF Ring
<1>5. CASE x = s
  BY <1>2, <1>3, <1>4, <1>5
<1>6. CASE x # s
  BY <1>3, <1>4, <1>6
<1> QED
  BY <1>5, <1>6

LEMMA NewParts ==
  ASSUME NEW r \in Ring, NEW t \in Times, NEW x \in Slots, r.used # NSlots
  PROVE  /\ New(r, t).slot[x].share = r.slot[x].share
         /\ New(r, t).slot[x].antenna = r.slot[x].antenna
         /\ New(r, t).slot[x].locked = r.slot[x].locked
<1> DEFINE f == [r.slot[r.free] EXCEPT !.id = t]
           g == [r EXCEPT !.used = r.used + 1, !.free = NextSlot(r.free)]
           q == [g EXCEPT !.slot = [g.slot EXCEPT ![r.free] = f]]
<1>1. r.free \in Slots /\ r.slot[r.free] \in Slot
  BY DEF Ring
<1>2. f.share = r.slot[r.free].share /\ f.antenna = r.slot[r.free].antenna /\ f.locked = r.slot[r.free].locked
  BY <1>1 DEF Slot
<1>3. Grown(r) = g
  BY DEF Grown
<1>4. g.slot = r.slot
  BY DEF Ring
<1>5. New(r, t) = q
  BY <1>3, <1>4 DEF New
<1> HIDE DEF f
<1>6. q.slot[x] = IF x = r.free THEN f ELSE r.slot[x]
  BY <1>1, <1>4 DEF Ring
<1>7. CASE x = r.free
  BY <1>2, <1>5, <1>6, <1>7
<1>8. CASE x # r.free
  BY <1>5, <1>6, <1>8
<1> QED
  BY <1>7, <1>8

(* What the start of a second does to the parts of the frames and to the   *)
(* map, while the ring is not full.                                        *)
LEMMA StartParts ==
  ASSUME Typed, StartNewArrayFrame, map[now] # NoSlot \/ ring.used # NSlots
  PROVE  LET s == IF map[now] # NoSlot THEN map[now] ELSE ring.free
         IN  /\ scanner'.frame = s /\ scanner'.id = now /\ scanner'.at = "loop"
             /\ map' = IF map[now] # NoSlot THEN map ELSE [map EXCEPT ![now] = s]
             /\ IF map[now] # NoSlot
                THEN /\ ring'.free = ring.free /\ ring'.used = ring.used
                     /\ \A x \in Slots : ring'.slot[x].id = ring.slot[x].id
                ELSE /\ ring'.free = NextSlot(ring.free) /\ ring'.used = ring.used + 1
                     /\ \A x \in Slots :
                          ring'.slot[x].id = IF x = s THEN now ELSE ring.slot[x].id
             /\ ring'.send = ring.send /\ ring'.last = ring.last
             /\ \A x \in Slots :
                  /\ ring'.slot[x].share = IF x = scanner.frame THEN scanner.id
                                           ELSE ring.slot[x].share
                  /\ ring'.slot[x].antenna = IF x = s THEN 0 ELSE ring.slot[x].antenna
                  /\ ring'.slot[x].locked = IF x = s THEN FALSE ELSE ring.slot[x].locked
<1> DEFINE r == Shared(ring)
           s == IF map[now] # NoSlot THEN map[now] ELSE r.free
           q == New(r, now)
<1>1. /\ ring \in Ring /\ map \in [Times -> Slots \cup {NoSlot}] /\ now \in Times
      /\ scanner.frame \in Slots \cup {NoSlot} /\ scanner.id \in Times
  BY DEF Typed, TypeOK, Ring
<1>2. /\ r \in Ring
      /\ r.free = ring.free /\ r.send = ring.send /\ r.last = ring.last /\ r.used = ring.used
      /\ \A x \in Slots : r.slot[x].id = ring.slot[x].id
  BY <1>1, SharedLemma
<1>3. \A x \in Slots : /\ r.slot[x].share = IF x = scanner.frame THEN scanner.id
                                            ELSE ring.slot[x].share
                       /\ r.slot[x].antenna = ring.slot[x].antenna
                       /\ r.slot[x].locked = ring.slot[x].locked
  BY <1>1, SharedParts
<1>4. /\ ring' = IF map[now] # NoSlot THEN Defaulted(r, s)
                 ELSE Defaulted([Grown(r) EXCEPT !.slot[s].id = now], s)
      /\ map' = IF map[now] # NoSlot THEN map
                ELSE [(IF r.used = NSlots THEN Erased(map, r.slot[r.send].id) ELSE map)
                        EXCEPT ![now] = s]
      /\ scanner' = [scanner EXCEPT !.frame = s, !.id = now] /\ scanner.at = "loop"
  BY DEF StartNewArrayFrame
<1> HIDE DEF r
<1>5. s \in Slots
  BY <1>1, <1>2 DEF Ring
<1>6. /\ scanner'.frame = s /\ scanner'.id = now /\ scanner'.at = "loop"
      /\ map' = IF map[now] # NoSlot THEN map ELSE [map EXCEPT ![now] = s]
      /\ s = IF map[now] # NoSlot THEN map[now] ELSE ring.free
  BY <1>2, <1>4 DEF Typed, TypeOK
<1>7. CASE map[now] # NoSlot
  <2>1. ring' = Defaulted(r, s)
    BY <1>4, <1>7
  <2>2. \A x \in Slots : /\ ring'.slot[x].share = r.slot[x].share
                         /\ ring'.slot[x].antenna = IF x = s THEN 0 ELSE r.slot[x].antenna
                         /\ ring'.slot[x].locked = IF x = s THEN FALSE ELSE r.slot[x].locked
    BY <1>2, <1>5, <2>1, DefaultedParts
  <2>3. /\ ring'.free = r.free /\ ring'.send = r.send /\ ring'.last = r.last /\ ring'.used = r.used
        /\ \A x \in Slots : ring'.slot[x].id = r.slot[x].id
    BY <1>2, <1>5, <2>1, DefaultedLemma
  <2> HIDE DEF s
  <2>4. \A x \in Slots : /\ ring'.slot[x].share = IF x = scanner.frame THEN scanner.id
                                                  ELSE ring.slot[x].share
                         /\ ring'.slot[x].antenna = IF x = s THEN 0 ELSE ring.slot[x].antenna
                         /\ ring'.slot[x].locked = IF x = s THEN FALSE ELSE ring.slot[x].locked
    BY <1>3, <2>2
  <2> QED
    BY <1>2, <1>6, <1>7, <2>3, <2>4
<1>8. CASE map[now] = NoSlot
  <2>1. s = r.free /\ ring' = Defaulted(q, s) /\ r.used # NSlots
    BY <1>2, <1>4, <1>8 DEF New
  <2>2. /\ q \in Ring /\ q.free = NextSlot(r.free) /\ q.last = r.last
        /\ q.send = r.send /\ q.used = r.used + 1
        /\ \A x \in Slots : q.slot[x].id = IF x = r.free THEN now ELSE r.slot[x].id
    BY <1>1, <1>2, <2>1, NewLemma
  <2>3. \A x \in Slots : /\ q.slot[x].share = r.slot[x].share
                         /\ q.slot[x].antenna = r.slot[x].antenna
                         /\ q.slot[x].locked = r.slot[x].locked
    BY <1>1, <1>2, <2>1, NewParts
  <2> HIDE DEF q
  <2>8. /\ r.free \in Slots /\ ring' = Defaulted(q, r.free) /\ s = r.free
        /\ s = ring.free
    BY <1>2, <2>1 DEF Ring
  <2> HIDE DEF s
  <2>4. \A x \in Slots : /\ ring'.slot[x].share = q.slot[x].share
                         /\ ring'.slot[x].antenna = IF x = s THEN 0 ELSE q.slot[x].antenna
                         /\ ring'.slot[x].locked = IF x = s THEN FALSE ELSE q.slot[x].locked
    <3> TAKE x \in Slots
    <3>1. /\ Defaulted(q, r.free).slot[x].share = q.slot[x].share
          /\ Defaulted(q, r.free).slot[x].antenna = IF x = r.free THEN 0 ELSE q.slot[x].antenna
          /\ Defaulted(q, r.free).slot[x].locked = IF x = r.free THEN FALSE ELSE q.slot[x].locked
      BY <2>2, <2>8, DefaultedParts
    <3> QED
      BY <2>8, <3>1
  <2>9. \A x \in Slots : /\ q.slot[x].share = IF x = scanner.frame THEN scanner.id
                                               ELSE ring.slot[x].share
                         /\ q.slot[x].antenna = ring.slot[x].antenna
                         /\ q.slot[x].locked = ring.slot[x].locked
    BY <1>3, <2>3
  <2>5. /\ ring'.free = q.free /\ ring'.send = q.send /\ ring'.last = q.last /\ ring'.used = q.used
        /\ \A x \in Slots : ring'.slot[x].id = q.slot[x].id
    BY <2>2, <2>8, DefaultedLemma
  <2>6. \A x \in Slots : /\ ring'.slot[x].share = IF x = scanner.frame THEN scanner.id
                                                  ELSE ring.slot[x].share
                         /\ ring'.slot[x].antenna = IF x = s THEN 0 ELSE ring.slot[x].antenna
                         /\ ring'.slot[x].locked = IF x = s THEN FALSE ELSE ring.slot[x].locked
    BY <2>4, <2>9
  <2>7. \A x \in Slots : ring'.slot[x].id = IF x = s THEN now ELSE ring.slot[x].id
    BY <1>2, <2>2, <2>5, <2>8
  <2>10. /\ ring'.free = NextSlot(ring.free) /\ ring'.used = ring.used + 1
         /\ ring'.send = ring.send /\ ring'.last = ring.last
    BY <1>2, <2>2, <2>5
  <2> QED
    BY <1>6, <1>8, <2>6, <2>7, <2>10
<1> QED
  BY <1>7, <1>8

(* What the dispatch of a frame does to the parts of the frames and to the *)
(* map.                                                                    *)
LEMMA DispatchParts ==
  ASSUME Typed, DispatchNextFrame, ring.last # ring.send
  PROVE  /\ scanner'.at = "loop" /\ scanner'.frame = scanner.frame /\ scanner'.id = scanner.id
         /\ out' = [id |-> ring.slot[ring.send].id, share |-> ring.slot[ring.send].share,
                    antenna |-> ring.slot[ring.send].antenna]
         /\ map' = IF ring.last = NoSlot THEN Erased(map, ring.slot[ring.send].id)
                   ELSE Erased(Erased(map, ring.slot[ring.send].id), ring.slot[ring.last].id)
         /\ \A x \in Slots : x # ring.last =>
              /\ ring'.slot[x].share = ring.slot[x].share
              /\ ring'.slot[x].antenna = ring.slot[x].antenna
              /\ x # ring.send => ring'.slot[x].locked = ring.slot[x].locked
         /\ ring.last # NoSlot => ~ring'.slot[ring.last].locked
<1> DEFINE s == ring.send
           f == [ring.slot[s] EXCEPT !.locked = TRUE]
           r == [ring EXCEPT !.slot = [ring.slot EXCEPT ![s] = f]]
           c == Cleared(r.slot[r.last])
<1>1. ring \in Ring
  BY DEF Typed, TypeOK, Ring
<1>2. /\ s \in Slots /\ f.id = ring.slot[s].id /\ f.share = ring.slot[s].share
      /\ f.antenna = ring.slot[s].antenna
  BY <1>1 DEF Ring, Slot
<1> HIDE DEF f
<1>3. /\ r.free = ring.free /\ r.send = s /\ r.last = ring.last /\ r.used = ring.used
      /\ \A x \in Slots : r.slot[x] = IF x = s THEN f ELSE ring.slot[x]
      /\ r.slot \in [Slots -> {r.slot[x] : x \in Slots}]
  BY <1>1 DEF Ring
<1>4. /\ ring' = IF r.last = NoSlot THEN [r EXCEPT !.last = s, !.send = NextSlot(s)]
                 ELSE [r EXCEPT !.slot = [r.slot EXCEPT ![r.last] = c], !.used = r.used - 1,
                                !.last = s, !.send = NextSlot(s)]
      /\ map' = IF r.last = NoSlot THEN Erased(map, r.slot[s].id)
                ELSE Erased(Erased(map, r.slot[s].id), r.slot[r.last].id)
      /\ out' = [id |-> r.slot[s].id, share |-> r.slot[s].share, antenna |-> r.slot[s].antenna]
      /\ scanner' = [scanner EXCEPT !.at = "loop", !.pending = TRUE, !.watched = TRUE]
  BY DEF DispatchNextFrame, f
<1>5. scanner'.at = "loop" /\ scanner'.frame = scanner.frame /\ scanner'.id = scanner.id
  BY <1>4 DEF Typed, TypeOK
<1>6. DOMAIN ring = {"slot", "free", "send", "last", "used"} /\ DOMAIN r = DOMAIN ring
      /\ r \in [slot : {r.slot}, free : {r.free}, send : {r.send}, last : {r.last}, used : {r.used}]
  BY <1>1 DEF Ring
<1>7. \A x \in Slots : /\ r.slot[x].id = ring.slot[x].id /\ r.slot[x].share = ring.slot[x].share
                       /\ r.slot[x].antenna = ring.slot[x].antenna
                       /\ x # s => r.slot[x].locked = ring.slot[x].locked
  BY <1>2, <1>3
<1> HIDE DEF r
<1>8. CASE r.last = NoSlot
  <2>1. ring'.slot = r.slot
    BY <1>4, <1>6, <1>8
  <2> QED
    BY <1>2, <1>3, <1>4, <1>5, <1>7, <1>8, <2>1
<1>9. CASE r.last # NoSlot
  <2>1. r.last \in Slots /\ r.last # s
    BY <1>1, <1>3, <1>9 DEF Ring
  <2>2. ~c.locked
    <3>1. r.slot[r.last] = ring.slot[r.last] /\ ring.slot[r.last] \in Slot
      BY <1>1, <1>3, <2>1 DEF Ring
    <3> QED
      BY <3>1 DEF Cleared, Slot
  <2> HIDE DEF c
  <2>3. ring'.slot = [r.slot EXCEPT ![r.last] = c]
    BY <1>4, <1>6, <1>9
  <2>4. ring'.slot[r.last] = c /\ \A x \in Slots : x # r.last => ring'.slot[x] = r.slot[x]
    BY <1>3, <2>1, <2>3
  <2> QED
    BY <1>2, <1>3, <1>4, <1>5, <1>7, <1>9, <2>1, <2>2, <2>4
<1> QED
  BY <1>8, <1>9

LEMMA WrittenParts ==
  ASSUME Typed, WriteAntenna \/ SetAntReceived
  PROVE  /\ \A x \in Slots :
              /\ ring'.slot[x].share = ring.slot[x].share
              /\ ring'.slot[x].antenna = IF x = writer.slot THEN writer.id
                                         ELSE ring.slot[x].antenna
              /\ ring'.slot[x].locked = ring.slot[x].locked
         /\ writer.at \in {"write", "mark"} /\ writer.slot \in Slots
         /\ writer'.slot = writer.slot /\ writer'.id = writer.id /\ writer'.at \in {"mark", "idle"}
<1>1. ring \in Ring /\ writer.slot \in Slots /\ writer.at \in {"write", "mark"}
  BY DEF Typed, TypeOK, Ring, WriteAntenna, SetAntReceived
<1> DEFINE f == [ring.slot[writer.slot] EXCEPT !.antenna = writer.id]
           p == [ring EXCEPT !.slot = [ring.slot EXCEPT ![writer.slot] = f]]
<1>2. ring' = p
  BY DEF WriteAntenna, SetAntReceived
<1>3. /\ f.share = ring.slot[writer.slot].share /\ f.antenna = writer.id
      /\ f.locked = ring.slot[writer.slot].locked
  BY <1>1 DEF Ring, Slot
<1> HIDE DEF f
<1>4. \A x \in Slots : p.slot[x] = IF x = writer.slot THEN f ELSE ring.slot[x]
  BY <1>1 DEF Ring
<1>5. writer'.slot = writer.slot /\ writer'.id = writer.id /\ writer'.at \in {"mark", "idle"}
  BY DEF Typed, TypeOK, WriteAntenna, SetAntReceived
<1> QED
  BY <1>1, <1>2, <1>3, <1>4, <1>5

-----------------------------------------------------------------------------
(* The frames in their turn, while the control program keeps up. The ranks *)
(* of the waiting frames, what is due in the second, and the aim of the    *)
(* consumer make an inductive invariant.                                   *)

(* The frames while the control program keeps up: the frame that waits in  *)
(* place k, and the second before that of the first one.                   *)
Frame(k) == At(ring.send, k)
Base     == scanner.id - Waiting(ring)
Nothing  == [id |-> 0, share |-> 0, antenna |-> 0]

(* The waiting frames are of consecutive seconds up to that of the         *)
(* Scanner, the last one being its current frame; all others hold the      *)
(* registers of their second, and none the data of another antenna second. *)
Filled == \A k \in 0 .. Waiting(ring) - 1 :
            /\ ring.slot[Frame(k)].id = Base + 1 + k
            /\ ring.slot[Frame(k)].antenna \in {0, Base + 1 + k}
            /\ k # Waiting(ring) - 1 => ring.slot[Frame(k)].share = Base + 1 + k

(* The map finds just these.                                               *)
Mapped == \A t \in Times : map[t] = IF Base < t /\ t <= scanner.id THEN Frame(t - Base - 1)
                                    ELSE NoSlot

(* The frame of the Scanner, the frame sent last, and the one being sent.  *)
Current == IF scanner.frame = NoSlot
           THEN ring.used = 0 /\ ring.last = NoSlot /\ scanner.id = 0 /\ out = Nothing
           ELSE Waiting(ring) >= 1 /\ scanner.frame = Frame(Waiting(ring) - 1)
Behind  == /\ Base = out.id \/ (Base = -1 /\ out = Nothing)
           /\ ring.last # NoSlot => /\ ring.slot[ring.last].id = Base
                                    /\ NextSlot(ring.last) = ring.send
           /\ \A s \in Slots : ring.slot[s].locked => s = ring.last

(* A second is started before anything else is done in it, and it is the   *)
(* next one unless the ring is full.                                       *)
Starting == msgs # << >> /\ Head(msgs) = "START_DATAFRAME"
Due == /\ now \in {scanner.id, scanner.id + 1}
       /\ \A i \in DOMAIN msgs : msgs[i] = "START_DATAFRAME" => i = 1
       /\ Starting => scanner.at = "loop"
       /\ now # scanner.id => Starting /\ ring.used # NSlots

(* The consumer writes into the frame of its second; when a frame is going *)
(* to be created, it is not in the slot of this one.                       *)
Aimed == writer.at \in {"write", "mark"} =>
           /\ ring.slot[writer.slot].id = writer.id
           /\ Starting /\ ring.used # NSlots => writer.slot # ring.free

Rank   == Filled /\ Mapped /\ Current /\ Behind
InTurn == Rank /\ Due /\ Aimed

KeepingUp == Prompt /\ ~Overflow /\ MinInQueue >= 3

-----------------------------------------------------------------------------

(* The waiting frames are in different slots, none of them the free one.   *)
LEMMA Frames ==
  ASSUME Orderly
  PROVE  /\ Waiting(ring) \in 0 .. NSlots /\ ring.free = Frame(Waiting(ring))
         /\ scanner.id \in Int /\ Base \in Int /\ Base = scanner.id - Waiting(ring)
         /\ ring.used \in 0 .. NSlots
         /\ Waiting(ring) = IF ring.last = NoSlot THEN ring.used ELSE ring.used - 1
         /\ \A k \in 0 .. NSlots - 1 : Frame(k) \in Slots
         /\ \A j, k \in 0 .. NSlots - 1 : j # k => Frame(j) # Frame(k)
         /\ Frame(0) = ring.send
<1>1. /\ ring \in Ring /\ scanner.id \in Times /\ Waiting(ring) >= 0
      /\ ring.free = At(ring.send, Waiting(ring))
  BY DEF Orderly, Typed, TypeOK, Ring, Chained
<1>2. ring.send \in Slots /\ ring.used \in 0 .. NSlots
  BY <1>1 DEF Ring
<1>3. \A k \in 0 .. NSlots - 1 : Frame(k) \in Slots
  BY <1>2, AtNext DEF Frame
<1>4. \A j, k \in 0 .. NSlots - 1 : j # k => Frame(j) # Frame(k)
  BY <1>2, AtDiffers DEF Frame
<1>5. scanner.id \in Int /\ Waiting(ring) \in 0 .. NSlots
  BY <1>1, <1>2, RingAssumption DEF Times, Waiting
<1> QED
  BY <1>1, <1>2, <1>3, <1>4, <1>5, AtTurn DEF Frame, Base, Waiting

(* The slot of the frame sent last is just before the waiting ones.        *)
LEMMA LastFrame ==
  ASSUME Orderly, Rank, ring.last # NoSlot
  PROVE  ring.last \in Slots /\ ring.last = Frame(NSlots - 1) /\ Waiting(ring) <= NSlots - 1
<1>1. ring.last \in Slots /\ NextSlot(ring.last) = ring.send /\ NSlots \in Nat \ {0}
  BY RingAssumption DEF Orderly, Typed, TypeOK, Rank, Behind
<1>2. ring.last = At(ring.send, NSlots - 1)
  BY <1>1, NextSlotOf DEF At, Slots
<1> QED
  BY <1>1, <1>2, Frames DEF Frame

(* Where the ring, the map and the Scanner's frame stay, so do the ranks.  *)
LEMMA RankSame ==
  ASSUME Rank, UNCHANGED <<ring, map, out>>, scanner'.id = scanner.id, scanner'.frame = scanner.frame
  PROVE  Rank'
BY DEF Rank, Filled, Mapped, Current, Behind, Frame, Base, Waiting, At, Nothing

(* The data of the antenna go into the frame of their second.              *)
LEMMA RankWritten ==
  ASSUME Orderly, Rank, Aimed, WriteAntenna \/ SetAntReceived
  PROVE  Rank' /\ Aimed'
<1>1. UNCHANGED <<map, out, scanner, msgs>>
  BY DEF WriteAntenna, SetAntReceived
<1>2. /\ ring'.free = ring.free /\ ring'.send = ring.send
      /\ ring'.last = ring.last /\ ring'.used = ring.used
      /\ \A x \in Slots : ring'.slot[x].id = ring.slot[x].id
  BY WrittenStep DEF Orderly
<1>3. /\ \A x \in Slots :
           /\ ring'.slot[x].share = ring.slot[x].share
           /\ ring'.slot[x].antenna = IF x = writer.slot THEN writer.id
                                      ELSE ring.slot[x].antenna
           /\ ring'.slot[x].locked = ring.slot[x].locked
      /\ writer.at \in {"write", "mark"} /\ writer.slot \in Slots
      /\ writer'.slot = writer.slot /\ writer'.id = writer.id
  BY WrittenParts DEF Orderly
<1>4. Waiting(ring)' = Waiting(ring) /\ Base' = Base /\ \A k \in Int : Frame(k)' = Frame(k)
  BY <1>1, <1>2 DEF Waiting, Base, Frame
<1>5. Filled'
  <2> SUFFICES ASSUME NEW k \in 0 .. Waiting(ring) - 1
               PROVE  /\ ring'.slot[Frame(k)].id = Base + 1 + k
                      /\ ring'.slot[Frame(k)].antenna \in {0, Base + 1 + k}
                      /\ k # Waiting(ring) - 1 => ring'.slot[Frame(k)].share = Base + 1 + k
    BY <1>4, Frames DEF Filled
  <2>0. k \in 0 .. NSlots - 1
    BY Frames, RingAssumption
  <2>1. Frame(k) \in Slots
    BY <2>0, Frames
  <2>2. /\ ring.slot[Frame(k)].id = Base + 1 + k
        /\ ring.slot[Frame(k)].antenna \in {0, Base + 1 + k}
        /\ k # Waiting(ring) - 1 => ring.slot[Frame(k)].share = Base + 1 + k
    BY DEF Rank, Filled
  <2>3. CASE Frame(k) = writer.slot
    BY <1>2, <1>3, <2>1, <2>2, <2>3 DEF Aimed
  <2>4. CASE Frame(k) # writer.slot
    BY <1>2, <1>3, <2>1, <2>2, <2>4
  <2> QED
    BY <2>3, <2>4
<1>6. Mapped'
  BY <1>1, <1>2, <1>4 DEF Rank, Mapped, Frame
<1>7. Current'
  <2>1. Frame(Waiting(ring) - 1)' = Frame(Waiting(ring) - 1)
    BY <1>2, <1>4 DEF Frame
  <2> QED
    BY <1>1, <1>2, <1>4, <2>1 DEF Rank, Current, Nothing
<1>8. Behind'
  <2>1. ring.last # NoSlot => ring'.slot[ring.last].id = ring.slot[ring.last].id
    BY <1>2, LastFrame
  <2> QED
    BY <1>1, <1>2, <1>3, <1>4, <2>1 DEF Rank, Behind, Nothing
<1>9. Aimed'
  <2>1. Starting' = Starting
    BY <1>1 DEF Starting
  <2> QED
    BY <1>2, <1>3, <2>1 DEF Aimed
<1> QED
  BY <1>5, <1>6, <1>7, <1>8, <1>9 DEF Rank

-----------------------------------------------------------------------------
(* The start of a second.                                                  *)

(* A second is started: its frame is found, or created in a free slot.     *)
LEMMA StartFinds ==
  ASSUME Orderly, InTurn, now \in Times, map[now] # NoSlot
  PROVE  now = scanner.id /\ Waiting(ring) >= 1 /\ scanner.frame = map[now]
         /\ map[now] = Frame(Waiting(ring) - 1)
<1>1. Base < now /\ now <= scanner.id /\ map[now] = Frame(now - Base - 1)
  BY DEF InTurn, Rank, Mapped
<1>2. now = scanner.id /\ Waiting(ring) >= 1 /\ now - Base - 1 = Waiting(ring) - 1
  BY <1>1, Frames DEF InTurn, Due
<1>3. scanner.frame # NoSlot
  BY <1>2, Frames DEF InTurn, Rank, Current
<1> QED
  BY <1>1, <1>2, <1>3 DEF InTurn, Rank, Current

LEMMA StartCreates ==
  ASSUME Orderly, InTurn, now \in Times, map[now] = NoSlot
  PROVE  /\ ring.used # NSlots
         /\ scanner.frame # NoSlot => now = scanner.id + 1
<1>0. scanner.id \in Times /\ NSlots # 0
  BY RingAssumption DEF Orderly, Typed, TypeOK
<1>1. ASSUME now = scanner.id PROVE scanner.frame = NoSlot
  <2>1. CASE Waiting(ring) >= 1
    <3>1. Waiting(ring) - 1 \in 0 .. NSlots - 1 /\ Base < now /\ now - Base - 1 = Waiting(ring) - 1
      BY <1>1, <2>1, Frames, RingAssumption
    <3>2. map[now] = Frame(Waiting(ring) - 1)
      BY <1>1, <3>1, Frames DEF InTurn, Rank, Mapped
    <3>3. Frame(Waiting(ring) - 1) \in Slots
      BY <3>1, Frames
    <3> QED
      BY <3>2, <3>3 DEF Slots, NoSlot
  <2>2. CASE ~(Waiting(ring) >= 1)
    BY <2>2 DEF InTurn, Rank, Current
  <2> QED
    BY <2>1, <2>2
<1>2. CASE now = scanner.id
  <2>1. ring.used = 0 /\ scanner.frame = NoSlot
    BY <1>1, <1>2 DEF InTurn, Rank, Current
  <2> QED
    BY <1>0, <2>1
<1>3. CASE now # scanner.id
  BY <1>3 DEF InTurn, Due
<1> QED
  BY <1>2, <1>3

(* The messages that are left ask for dispatches.                          *)
LEMMA StartedDue ==
  ASSUME Typed, Due, StartNewArrayFrame, scanner'.id = now
  PROVE  Due' /\ ~Starting'
<1>1. msgs \in Seq(Message) /\ msgs # << >> /\ ring'.used \in Int /\ now \in Int
  <2>1. ring' \in Ring
    BY StartRing
  <2> QED
    BY <2>1, RingAssumption DEF Typed, TypeOK, StartNewArrayFrame, Ring, Times
<1>2. msgs' = Tail(msgs) \o More(ring'.used) /\ UNCHANGED now
  BY DEF StartNewArrayFrame
<1> DEFINE n == ring'.used
<1>3. /\ More(n) \in Seq(Message)
      /\ \/ More(n) = <<"DISPATCH_DATAFRAME">> /\ Len(More(n)) = 1
         \/ More(n) = << >> /\ Len(More(n)) = 0
  BY <1>1, MoreLemma
<1> HIDE DEF n
<1>4. \A i \in DOMAIN msgs' : msgs'[i] # "START_DATAFRAME"
  <2>1. Tail(msgs) \in Seq(Message) /\ \A i \in DOMAIN Tail(msgs) : Tail(msgs)[i] # "START_DATAFRAME"
    BY <1>1 DEF Due
  <2>2. \A i \in DOMAIN More(n) : More(n)[i] # "START_DATAFRAME"
    BY <1>3
  <2> QED
    BY <1>2, <1>3, <2>1, <2>2 DEF n
<1>5. msgs' \in Seq(Message)
  BY <1>1, <1>2, <1>3 DEF n
<1>6. ~Starting'
  BY <1>4, <1>5 DEF Starting
<1> QED
  BY <1>1, <1>2, <1>4, <1>6 DEF Due

LEMMA StartTurn ==
  ASSUME Orderly, InTurn, StartNewArrayFrame
  PROVE  InTurn'
<1>0. /\ now \in Times /\ now \in Int /\ Typed /\ UNCHANGED <<out, now, writer>>
      /\ Rank /\ Due /\ Aimed /\ Starting
  BY RingAssumption DEF Orderly, InTurn, Typed, TypeOK, Times, StartNewArrayFrame, Starting
<1> DEFINE w == Waiting(ring)
<1>1. CASE map[now] # NoSlot
  <2>1. now = scanner.id /\ w >= 1 /\ scanner.frame = map[now] /\ map[now] = Frame(w - 1)
    BY <1>0, <1>1, StartFinds
  <2>2. /\ scanner'.frame = scanner.frame /\ scanner'.id = scanner.id /\ map' = map
        /\ ring'.free = ring.free /\ ring'.used = ring.used
        /\ ring'.send = ring.send /\ ring'.last = ring.last
        /\ \A x \in Slots : ring'.slot[x].id = ring.slot[x].id
    BY <1>0, <1>1, <2>1, StartParts
  <2>3. \A x \in Slots :
          /\ ring'.slot[x].share = IF x = scanner.frame THEN scanner.id ELSE ring.slot[x].share
          /\ ring'.slot[x].antenna = IF x = scanner.frame THEN 0 ELSE ring.slot[x].antenna
          /\ ring'.slot[x].locked = IF x = scanner.frame THEN FALSE ELSE ring.slot[x].locked
    BY <1>0, <1>1, <2>1, StartParts
  <2>4. Waiting(ring)' = w /\ Base' = Base /\ \A k \in Int : Frame(k)' = Frame(k)
    BY <2>2 DEF Waiting, Base, Frame
  <2> HIDE DEF w
  <2>5. Filled'
    <3> SUFFICES ASSUME NEW k \in 0 .. w - 1
                 PROVE  /\ ring'.slot[Frame(k)].id = Base + 1 + k
                        /\ ring'.slot[Frame(k)].antenna \in {0, Base + 1 + k}
                        /\ k # w - 1 => ring'.slot[Frame(k)].share = Base + 1 + k
      BY <2>4, Frames DEF Filled, w
    <3>0. k \in 0 .. NSlots - 1 /\ w - 1 \in 0 .. NSlots - 1
      BY <2>1, Frames, RingAssumption DEF w
    <3>1. Frame(k) \in Slots /\ (k # w - 1 => Frame(k) # Frame(w - 1))
      BY <3>0, Frames
    <3>2. /\ ring.slot[Frame(k)].id = Base + 1 + k
          /\ ring.slot[Frame(k)].antenna \in {0, Base + 1 + k}
          /\ k # w - 1 => ring.slot[Frame(k)].share = Base + 1 + k
      BY <1>0 DEF Rank, Filled, w
    <3> QED
      BY <2>1, <2>2, <2>3, <3>1, <3>2
  <2>6. Mapped'
    BY <1>0, <2>2, <2>4 DEF Rank, Mapped, Frame
  <2>7. Current'
    <3>1. Frame(Waiting(ring) - 1)' = Frame(w - 1)
      BY <2>2, <2>4 DEF Frame
    <3> QED
      BY <1>0, <2>1, <2>2, <2>4, <3>1 DEF Rank, Current, Nothing, w
  <2>8. Behind'
    <3>1. ring.last # NoSlot => ring'.slot[ring.last].id = ring.slot[ring.last].id
      BY <1>0, <2>2, LastFrame
    <3>2. \A x \in Slots : ring'.slot[x].locked => ring.slot[x].locked
      BY <2>3
    <3> QED
      BY <1>0, <2>2, <2>4, <3>1, <3>2 DEF Rank, Behind, Nothing
  <2>9. Due' /\ ~Starting'
    BY <1>0, <2>1, <2>2, StartedDue
  <2>10. Aimed'
    BY <1>0, <2>2, <2>9 DEF Aimed, Typed
  <2> QED
    BY <2>5, <2>6, <2>7, <2>8, <2>9, <2>10 DEF InTurn, Rank
<1>2. CASE map[now] = NoSlot
  <2>1. ring.used # NSlots /\ (scanner.frame # NoSlot => now = scanner.id + 1)
    BY <1>0, <1>2, StartCreates
  <2>2. /\ scanner'.frame = ring.free /\ scanner'.id = now /\ map' = [map EXCEPT ![now] = ring.free]
        /\ ring'.used = ring.used + 1 /\ ring'.send = ring.send /\ ring'.last = ring.last
        /\ \A x \in Slots : ring'.slot[x].id = IF x = ring.free THEN now ELSE ring.slot[x].id
    BY <1>0, <1>2, <2>1, StartParts
  <2>3. \A x \in Slots :
          /\ ring'.slot[x].share = IF x = scanner.frame THEN scanner.id ELSE ring.slot[x].share
          /\ ring'.slot[x].antenna = IF x = ring.free THEN 0 ELSE ring.slot[x].antenna
          /\ ring'.slot[x].locked = IF x = ring.free THEN FALSE ELSE ring.slot[x].locked
    BY <1>0, <1>2, <2>1, StartParts
  <2>4. /\ w \in 0 .. NSlots - 1 /\ ring.free = Frame(w) /\ ring.used \in Int
        /\ ring.last # NoSlot => w \in 0 .. NSlots - 2 /\ ring.last = Frame(NSlots - 1)
    BY <1>0, <2>1, Frames, LastFrame, RingAssumption
  <2>5. Waiting(ring)' = w + 1 /\ Base' = now - w - 1 /\ Base = scanner.id - w /\ scanner.id \in Int
    BY <1>0, <2>2, <2>4, Frames DEF Waiting, Base
  <2>6. At(ring'.send, w) = ring.free /\ \A k \in Int : At(ring'.send, k) = Frame(k)
    BY <2>2, <2>4 DEF Frame
  <2> HIDE DEF w
  <2>7. scanner.frame # NoSlot => Base' = Base /\ w >= 1 /\ scanner.frame = Frame(w - 1)
    BY <1>0, <2>1, <2>4, <2>5 DEF Rank, Current, w
  <2>8. scanner.frame = NoSlot =>
          w = 0 /\ Base' \in {-1, 0} /\ ring.last = NoSlot /\ out = Nothing /\ out.id = 0
    <3> SUFFICES ASSUME scanner.frame = NoSlot
                 PROVE  w = 0 /\ Base' \in {-1, 0} /\ ring.last = NoSlot /\ out = Nothing /\ out.id = 0
      OBVIOUS
    <3>1. ring.used = 0 /\ ring.last = NoSlot /\ scanner.id = 0 /\ out = Nothing
      BY <1>0 DEF Rank, Current
    <3>2. w = 0 /\ now \in {0, 1}
      BY <1>0, <3>1, Frames DEF w, Due
    <3> QED
      BY <2>5, <3>1, <3>2 DEF Nothing
  <2>9. w >= 1 => scanner.frame # NoSlot
    BY <2>8
  <2>10. ASSUME NEW k \in 0 .. w
         PROVE  /\ ring'.slot[Frame(k)].id = Base' + 1 + k
                /\ ring'.slot[Frame(k)].antenna \in {0, Base' + 1 + k}
                /\ k # w => ring'.slot[Frame(k)].share = Base' + 1 + k
    <3>0. k \in 0 .. NSlots - 1
      BY <2>4, <2>10, RingAssumption
    <3>1. Frame(k) \in Slots /\ (k # w => Frame(k) # ring.free)
      BY <2>4, <3>0, Frames
    <3>2. CASE k = w
      <4>1. ring'.slot[Frame(k)].id = now /\ ring'.slot[Frame(k)].antenna = 0
        BY <2>2, <2>3, <2>4, <3>1, <3>2
      <4> QED
        BY <1>0, <2>4, <2>5, <3>2, <4>1
    <3>3. CASE k # w
      <4>1. k \in 0 .. w - 1 /\ w >= 1
        BY <2>4, <3>3
      <4>2. Base' = Base /\ scanner.frame = Frame(w - 1) /\ scanner.frame # NoSlot
        BY <2>7, <2>9, <4>1
      <4>3. /\ ring.slot[Frame(k)].id = Base + 1 + k
            /\ ring.slot[Frame(k)].antenna \in {0, Base + 1 + k}
            /\ k # w - 1 => ring.slot[Frame(k)].share = Base + 1 + k
        BY <1>0, <4>1 DEF Rank, Filled, w
      <4>4. CASE k = w - 1
        <5>1. scanner.id = Base + 1 + k
          BY <2>4, <2>5, <3>0, <4>1, <4>4
        <5>2. Frame(k) = scanner.frame
          BY <4>2, <4>4
        <5>3. ring'.slot[Frame(k)].share = scanner.id
          BY <2>3, <3>1, <5>2
        <5> QED
          BY <2>2, <2>3, <3>1, <3>3, <4>2, <4>3, <5>1, <5>3
      <4>5. CASE k # w - 1
        <5>1. w - 1 \in 0 .. NSlots - 1
          BY <2>4, <4>1, RingAssumption
        <5>2. Frame(k) # scanner.frame
          BY <3>0, <4>2, <4>5, <5>1, Frames
        <5> QED
          BY <2>2, <2>3, <3>1, <3>3, <4>2, <4>3, <4>5, <5>2
      <4> QED
        BY <4>4, <4>5
    <3> QED
      BY <3>2, <3>3
  <2>11. Filled'
    <3> SUFFICES ASSUME NEW k \in 0 .. w
                 PROVE  /\ ring'.slot[At(ring'.send, k)].id = Base' + 1 + k
                        /\ ring'.slot[At(ring'.send, k)].antenna \in {0, Base' + 1 + k}
                        /\ k # w => ring'.slot[At(ring'.send, k)].share = Base' + 1 + k
      BY <2>4, <2>5 DEF Filled, Frame
    <3> QED
      BY <2>6, <2>10
  <2>12. Mapped'
    <3> SUFFICES ASSUME NEW t \in Times
                 PROVE  map'[t] = IF Base' < t /\ t <= now THEN Frame(t - Base' - 1) ELSE NoSlot
      BY <2>2, <2>5 DEF Mapped, Frame
    <3>0. t \in Int /\ t >= 0 /\ map \in [Times -> Slots \cup {NoSlot}]
      BY <1>0, RingAssumption DEF Times, Typed, TypeOK
    <3>1. map[t] = IF Base < t /\ t <= scanner.id THEN Frame(t - Base - 1) ELSE NoSlot
      BY <1>0 DEF Rank, Mapped
    <3>2. CASE t = now
      <4>1. Base' < t /\ t - Base' - 1 = w
        BY <1>0, <2>4, <2>5, <3>0, <3>2
      <4> QED
        BY <1>0, <2>2, <2>4, <3>0, <3>2, <4>1
    <3>3. CASE t # now
      <4>1. map'[t] = map[t]
        BY <2>2, <3>0, <3>3
      <4>2. CASE scanner.frame # NoSlot
        BY <1>0, <2>1, <2>5, <2>7, <3>0, <3>1, <3>3, <4>1, <4>2
      <4>3. CASE scanner.frame = NoSlot
        <5>1. w = 0 /\ ~(Base < t /\ t <= scanner.id)
          BY <2>5, <2>8, <3>0, <4>3
        <5>2. ~(Base' < t /\ t <= now)
          BY <1>0, <2>5, <3>0, <3>3, <5>1
        <5> QED
          BY <3>1, <4>1, <5>1, <5>2
      <4> QED
        BY <4>2, <4>3
    <3> QED
      BY <3>2, <3>3
  <2>13. Current'
    <3>1. ring.free # NoSlot
      BY <1>0 DEF Typed, TypeOK, Slots, NoSlot
    <3>2. (w + 1) - 1 = w
      BY <2>4
    <3>3. At(ring'.send, (w + 1) - 1) = ring.free
      BY <2>4, <2>6, <3>2
    <3>4. w + 1 >= 1
      BY <2>4
    <3> QED
      BY <2>2, <2>5, <3>1, <3>3, <3>4 DEF Current, Frame
  <2>14. Behind'
    <3>1. Base' = out.id \/ (Base' = -1 /\ out = Nothing)
      BY <1>0, <2>7, <2>8 DEF Rank, Behind
    <3>2. ASSUME ring.last # NoSlot
          PROVE  ring'.slot[ring.last].id = Base' /\ NextSlot(ring.last) = ring.send
      <4>1. ring.last \in Slots /\ ring.last = Frame(NSlots - 1) /\ w \in 0 .. NSlots - 2
        BY <1>0, <2>4, <3>2, LastFrame
      <4>2. w \in 0 .. NSlots - 1 /\ NSlots - 1 \in 0 .. NSlots - 1 /\ w # NSlots - 1
        BY <2>4, <4>1, RingAssumption
      <4>3. ring.last # ring.free
        BY <2>4, <4>1, <4>2, Frames
      <4>4. Base' = Base
        BY <2>7, <2>8, <3>2
      <4> QED
        BY <1>0, <2>2, <3>2, <4>1, <4>3, <4>4 DEF Rank, Behind
    <3>3. \A x \in Slots : ring'.slot[x].locked => ring.slot[x].locked
      BY <2>3
    <3> QED
      BY <1>0, <2>2, <3>1, <3>2, <3>3 DEF Rank, Behind, Nothing
  <2>15. Due' /\ ~Starting'
    BY <1>0, <2>2, StartedDue
  <2>16. Aimed'
    <3> SUFFICES ASSUME writer.at \in {"write", "mark"}
                 PROVE  ring'.slot[writer.slot].id = writer.id
      BY <1>0, <2>15 DEF Aimed
    <3>1. writer.slot \in Slots /\ writer.slot # ring.free /\ ring.slot[writer.slot].id = writer.id
      BY <1>0, <2>1 DEF Aimed, Typed
    <3> QED
      BY <2>2, <3>1
  <2> QED
    BY <2>11, <2>12, <2>13, <2>14, <2>15, <2>16 DEF InTurn, Rank
<1> QED
  BY <1>1, <1>2

-----------------------------------------------------------------------------
(* The dispatch of a frame.                                                *)

(* The frame that is dispatched: the next one of its second, and whole.    *)
LEMMA DispatchTurn ==
  ASSUME KeepingUp, Orderly, InTurn, DispatchNextFrame
  PROVE  /\ Rank' /\ Due' /\ Aimed'
         /\ \/ out' = out
            \/ out'.id = out.id + 1 /\ out'.share = out'.id /\ out'.antenna \in {0, out'.id}
         /\ out'.id + MinInQueue - 2 <= scanner.id
<1>0. /\ Typed /\ Rank /\ Due /\ Aimed /\ UNCHANGED <<msgs, writer, now>>
      /\ ring \in Ring /\ scanner.at = "erase" /\ MinInQueue \in Int /\ MinInQueue >= 3
      /\ out \in [id : Times, share : Times, antenna : Times] /\ out.id \in Int
      /\ map \in [Times -> Slots \cup {NoSlot}] /\ Len(msgs) \in Nat
  BY RingAssumption DEF Orderly, InTurn, Typed, TypeOK, Ring, Times, DispatchNextFrame, KeepingUp
<1> DEFINE w == Waiting(ring)
<1>1. Asked /\ Erasing = 1
  BY <1>0, UnderWay DEF Asked
<1>2. ring.used >= MinInQueue
  BY <1>0, <1>1, Frames DEF Orderly, Enough
<1>3. /\ w \in 2 .. NSlots /\ w >= MinInQueue - 1 /\ Base = scanner.id - w
      /\ scanner.id \in Int /\ Base \in Int /\ Frame(0) = ring.send
  BY <1>0, <1>2, Frames
<1> HIDE DEF w
<1>4. \A k \in 0 .. w - 1 : /\ Frame(k) \in Slots
                            /\ ring.slot[Frame(k)].id = Base + 1 + k
                            /\ ring.slot[Frame(k)].antenna \in {0, Base + 1 + k}
                            /\ k # w - 1 => ring.slot[Frame(k)].share = Base + 1 + k
  <2> TAKE k \in 0 .. w - 1
  <2>1. k \in 0 .. NSlots - 1
    BY <1>3, RingAssumption
  <2> QED
    BY <1>0, <2>1, Frames DEF Rank, Filled, w
<1>5. /\ ring.slot[ring.send].id = Base + 1 /\ ring.slot[ring.send].share = Base + 1
      /\ ring.slot[ring.send].antenna \in {0, Base + 1} /\ ring.send \in Slots
  <2>1. 0 \in 0 .. w - 1 /\ 0 # w - 1 /\ Base + 1 + 0 = Base + 1
    BY <1>3
  <2> QED
    BY <1>3, <1>4, <2>1
<1>6. ring.last # NoSlot => /\ ring.last \in Slots /\ ring.last = Frame(NSlots - 1)
                            /\ w <= NSlots - 1 /\ ring.slot[ring.last].id = Base
  BY <1>0, LastFrame DEF Rank, Behind, w
<1>7. \A k \in 0 .. w - 1 : Frame(k) # ring.last
  <2> SUFFICES ASSUME NEW k \in 0 .. w - 1, ring.last # NoSlot PROVE Frame(k) # ring.last
    BY <1>4 DEF Slots, NoSlot
  <2>1. /\ k \in 0 .. NSlots - 1 /\ NSlots - 1 \in 0 .. NSlots - 1 /\ k # NSlots - 1
    BY <1>3, <1>6, RingAssumption
  <2> QED
    BY <1>6, <2>1, Frames
<1>8. ring.last # ring.send
  <2>1. 0 \in 0 .. w - 1
    BY <1>3
  <2> QED
    BY <1>3, <1>7, <2>1
<1>9. /\ ring'.free = ring.free /\ ring'.send = NextSlot(ring.send) /\ ring'.last = ring.send
      /\ ring'.used = IF ring.last = NoSlot THEN ring.used ELSE ring.used - 1
      /\ \A x \in Slots : ring'.slot[x].id = ring.slot[x].id
  BY <1>0, DispatchRing
<1>10. /\ scanner'.at = "loop" /\ scanner'.frame = scanner.frame /\ scanner'.id = scanner.id
       /\ out' = [id |-> ring.slot[ring.send].id, share |-> ring.slot[ring.send].share,
                  antenna |-> ring.slot[ring.send].antenna]
       /\ map' = IF ring.last = NoSlot THEN Erased(map, ring.slot[ring.send].id)
                 ELSE Erased(Erased(map, ring.slot[ring.send].id), ring.slot[ring.last].id)
       /\ \A x \in Slots : x # ring.last =>
            /\ ring'.slot[x].share = ring.slot[x].share
            /\ ring'.slot[x].antenna = ring.slot[x].antenna
            /\ x # ring.send => ring'.slot[x].locked = ring.slot[x].locked
       /\ ring.last # NoSlot => ~ring'.slot[ring.last].locked
  BY <1>0, <1>8, DispatchParts
<1>11. out'.id = Base + 1 /\ out'.share = Base + 1 /\ out'.antenna \in {0, Base + 1}
  BY <1>5, <1>10
<1>12. /\ \/ out' = out
          \/ out'.id = out.id + 1 /\ out'.share = out'.id /\ out'.antenna \in {0, out'.id}
       /\ out'.id + MinInQueue - 2 <= scanner.id
  <2>1. CASE Base = out.id
    BY <1>0, <1>3, <1>11, <2>1
  <2>2. CASE Base = -1 /\ out = Nothing
    <3>1. out'.id = 0 /\ out'.share = 0 /\ out'.antenna = 0
      BY <1>11, <2>2
    <3>2. out' = Nothing
      BY <1>10, <3>1 DEF Nothing
    <3> QED
      BY <1>0, <1>3, <2>2, <3>1, <3>2
  <2> QED
    BY <1>0, <2>1, <2>2 DEF Rank, Behind
<1>13. Waiting(ring)' = w - 1 /\ Base' = Base + 1
  <2>1. ring.send # NoSlot
    BY <1>5 DEF Slots, NoSlot
  <2> QED
    BY <1>0, <1>3, <1>9, <1>10, <2>1, Frames DEF Waiting, Base, w
<1>14. \A k \in 0 .. w - 2 : /\ k + 1 \in 0 .. w - 1 /\ k \in Int
                             /\ At(ring'.send, k) = Frame(k + 1)
  <2> TAKE k \in 0 .. w - 2
  <2>1. k \in 0 .. NSlots - 1 /\ k + 1 \in 0 .. w - 1
    BY <1>3, RingAssumption
  <2> QED
    BY <1>5, <1>9, <2>1, AtNext DEF Frame
<1>15. Filled'
  <2> SUFFICES ASSUME NEW k \in 0 .. w - 2
               PROVE  /\ ring'.slot[At(ring'.send, k)].id = Base + 1 + 1 + k
                      /\ ring'.slot[At(ring'.send, k)].antenna \in {0, Base + 1 + 1 + k}
                      /\ k # w - 2 => ring'.slot[At(ring'.send, k)].share = Base + 1 + 1 + k
    <3>1. (w - 1) - 1 = w - 2
      BY <1>3
    <3> QED
      BY <1>13, <3>1 DEF Filled, Frame
  <2>1. k + 1 \in 0 .. w - 1 /\ k \in Int /\ At(ring'.send, k) = Frame(k + 1)
    BY <1>14
  <2>2. Base + 1 + (k + 1) = Base + 1 + 1 + k /\ (k # w - 2 => k + 1 # w - 1)
    BY <1>3, <2>1
  <2>3. /\ Frame(k + 1) \in Slots /\ Frame(k + 1) # ring.last
        /\ ring.slot[Frame(k + 1)].id = Base + 1 + 1 + k
        /\ ring.slot[Frame(k + 1)].antenna \in {0, Base + 1 + 1 + k}
        /\ k # w - 2 => ring.slot[Frame(k + 1)].share = Base + 1 + 1 + k
    BY <1>4, <1>7, <2>1, <2>2
  <2> QED
    BY <1>9, <1>10, <2>1, <2>3
<1>16. Mapped'
  <2> SUFFICES ASSUME NEW t \in Times
               PROVE  map'[t] = IF Base + 1 < t /\ t <= scanner.id
                                THEN At(ring'.send, t - (Base + 1) - 1) ELSE NoSlot
    BY <1>10, <1>13 DEF Mapped, Frame
  <2>0. t \in Int
    BY RingAssumption DEF Times
  <2>1. map'[t] = IF t = Base + 1 THEN NoSlot ELSE map[t]
    <3>0. map[t] = IF Base < t /\ t <= scanner.id THEN Frame(t - Base - 1) ELSE NoSlot
      BY <1>0 DEF Rank, Mapped
    <3>1. Erased(map, Base + 1) = [map EXCEPT ![Base + 1] = NoSlot]
      BY DEF Erased
    <3>2. Erased(Erased(map, Base + 1), Base) = [[map EXCEPT ![Base + 1] = NoSlot] EXCEPT ![Base] = NoSlot]
      BY DEF Erased
    <3>3. t = Base => map[t] = NoSlot
      BY <1>3, <3>0
    <3>4. CASE ring.last = NoSlot
      BY <1>0, <1>5, <1>10, <3>1, <3>4
    <3>5. CASE ring.last # NoSlot
      <4>1. map' = [[map EXCEPT ![Base + 1] = NoSlot] EXCEPT ![Base] = NoSlot]
        BY <1>5, <1>6, <1>10, <3>2, <3>5
      <4> QED
        BY <1>0, <3>3, <4>1
    <3> QED
      BY <3>4, <3>5
  <2>2. CASE t = Base + 1
    BY <1>3, <2>1, <2>2
  <2>3. CASE t # Base + 1 /\ Base < t /\ t <= scanner.id
    <3>1. /\ Base + 1 < t /\ t - (Base + 1) - 1 \in 0 .. w - 2
          /\ (t - (Base + 1) - 1) + 1 = t - Base - 1
      BY <1>3, <2>0, <2>3
    <3>2. At(ring'.send, t - (Base + 1) - 1) = Frame(t - Base - 1)
      BY <1>14, <3>1
    <3> QED
      BY <1>0, <2>1, <2>3, <3>1, <3>2 DEF Rank, Mapped
  <2>4. CASE t # Base + 1 /\ ~(Base < t /\ t <= scanner.id)
    BY <1>0, <1>3, <2>0, <2>1, <2>4 DEF Rank, Mapped
  <2> QED
    BY <2>2, <2>3, <2>4
<1>17. Current'
  <2>1. scanner.frame # NoSlot /\ scanner.frame = Frame(w - 1)
    BY <1>0, <1>2 DEF Rank, Current, w
  <2>2. w - 2 \in 0 .. w - 2 /\ (w - 1) - 1 = w - 2 /\ (w - 2) + 1 = w - 1 /\ w - 1 >= 1
    BY <1>3
  <2>3. At(ring'.send, (w - 1) - 1) = scanner.frame
    BY <1>14, <2>1, <2>2
  <2> QED
    BY <1>10, <1>13, <2>1, <2>2, <2>3 DEF Current, Frame
<1>18. Behind'
  <2>1. Base' = out'.id
    BY <1>11, <1>13
  <2>2. ring'.slot[ring'.last].id = Base' /\ NextSlot(ring'.last) = ring'.send
    BY <1>5, <1>9, <1>13
  <2>3. \A s \in Slots : ring'.slot[s].locked => s = ring.send
    BY <1>0, <1>10 DEF Rank, Behind, Slots, NoSlot
  <2> QED
    BY <1>9, <2>1, <2>2, <2>3 DEF Behind
<1>19. ~Starting /\ Starting' = Starting
  BY <1>0 DEF Due, Starting
<1>20. Due'
  BY <1>0, <1>10, <1>19 DEF Due, Starting
<1>21. Aimed'
  BY <1>0, <1>9, <1>19 DEF Aimed, Typed
<1> QED
  BY <1>12, <1>15, <1>16, <1>17, <1>18, <1>20, <1>21 DEF Rank

-----------------------------------------------------------------------------
(* The other steps, and the theorems.                                      *)

(* The clock, when nothing is left to do in the second but for a consumer  *)
(* that waits for the frame being sent.                                    *)
LEMMA TickTurn ==
  ASSUME KeepingUp, Orderly, InTurn, Tick
  PROVE  InTurn'
<1>0. /\ Typed /\ Rank /\ Due /\ Aimed /\ UNCHANGED <<ring, map, scanner, writer, out>>
      /\ msgs = << >> /\ scanner.at = "loop" /\ (writer.at = "idle" \/ Blocked)
      /\ now \in Int
  BY RingAssumption DEF Orderly, InTurn, Typed, TypeOK, Times, Tick, KeepingUp
<1>1. now = scanner.id
  BY <1>0 DEF Due, Starting
<1>2. /\ now' \in {now, now + 1} /\ (ring.used = NSlots => now' = now)
      /\ msgs' = <<"START_DATAFRAME">>
  BY <1>0 DEF Tick, KeepingUp
<1>3. Rank'
  BY <1>0, RankSame
<1>4. Due'
  BY <1>0, <1>1, <1>2 DEF Due, Starting
<1>5. Aimed'
  <2> SUFFICES ASSUME writer.at \in {"write", "mark"}, ring.used # NSlots
               PROVE  writer.slot # ring.free
    BY <1>0 DEF Aimed
  <2>1. writer.slot \in Slots /\ ring.slot[writer.slot].locked
    BY <1>0 DEF Blocked, Typed
  <2>2. writer.slot = ring.last /\ ring.last # NoSlot
    BY <1>0, <2>1 DEF Rank, Behind, Slots, NoSlot
  <2>3. ring.last = Frame(NSlots - 1)
    BY <1>0, <2>2, LastFrame
  <2>4. /\ Waiting(ring) \in 0 .. NSlots - 1 /\ NSlots - 1 \in 0 .. NSlots - 1
        /\ Waiting(ring) # NSlots - 1 /\ ring.free = Frame(Waiting(ring))
    BY <2>2, Frames, RingAssumption
  <2> QED
    BY <2>2, <2>3, <2>4, Frames
<1> QED
  BY <1>3, <1>4, <1>5 DEF InTurn

(* What the Scanner does of its messages and connection.                   *)
LEMMA ScannerTurn ==
  ASSUME Orderly, InTurn, Dispatch \/ Sent \/ NetworkError \/ ConnectScanner
  PROVE  InTurn'
<1>0. /\ Typed /\ Rank /\ Due /\ Aimed /\ UNCHANGED <<ring, map, writer, out, now>>
      /\ scanner'.id = scanner.id /\ scanner'.frame = scanner.frame
      /\ msgs \in Seq(Message) /\ ring.used \in Int
  <2>1. Typed /\ Rank /\ Due /\ Aimed
    BY DEF Orderly, InTurn
  <2>2. msgs \in Seq(Message) /\ ring.used \in Int
    BY <2>1, RingAssumption DEF Typed, TypeOK
  <2>3. UNCHANGED <<ring, map, writer, out, now>>
    BY DEF Dispatch, Sent, NetworkError, ConnectScanner
  <2>4. scanner'.id = scanner.id /\ scanner'.frame = scanner.frame
    BY <2>1 DEF Typed, TypeOK, Dispatch, Sent, NetworkError, ConnectScanner
  <2> QED
    BY <2>1, <2>2, <2>3, <2>4
<1>1. Rank'
  BY <1>0, RankSame
<1>2. CASE Dispatch
  <2>1. msgs # << >> /\ Head(msgs) = "DISPATCH_DATAFRAME" /\ msgs' = Tail(msgs)
    BY <1>2 DEF Dispatch
  <2>2. ~Starting
    BY <2>1 DEF Starting
  <2>3. \A i \in DOMAIN msgs' : msgs'[i] # "START_DATAFRAME"
    BY <1>0, <2>1 DEF Due
  <2>4. ~Starting'
    <3>1. msgs' \in Seq(Message)
      BY <1>0, <2>1
    <3> QED
      BY <2>3, <3>1 DEF Starting
  <2> QED
    BY <1>0, <1>1, <2>2, <2>3, <2>4 DEF InTurn, Due, Aimed
<1>3. CASE Sent
  <2> DEFINE n == ring.used
  <2>1. msgs' = msgs \o More(n) /\ scanner'.at = "loop"
    BY <1>0, <1>3 DEF Sent, Typed, TypeOK
  <2>2. /\ More(n) \in Seq(Message)
        /\ \/ More(n) = <<"DISPATCH_DATAFRAME">> /\ Len(More(n)) = 1
           \/ More(n) = << >> /\ Len(More(n)) = 0
    BY <1>0, MoreLemma
  <2> HIDE DEF n
  <2>3. \A i \in DOMAIN msgs' : msgs'[i] = "START_DATAFRAME" => i = 1
    <3> SUFFICES ASSUME NEW i \in DOMAIN msgs', msgs'[i] = "START_DATAFRAME" PROVE i = 1
      OBVIOUS
    <3>1. i \in 1 .. Len(msgs) + Len(More(n))
      BY <1>0, <2>1, <2>2
    <3>2. CASE i <= Len(msgs)
      <4>1. i \in DOMAIN msgs /\ msgs'[i] = msgs[i]
        BY <1>0, <2>1, <2>2, <3>1, <3>2
      <4> QED
        BY <1>0, <4>1 DEF Due
    <3>3. CASE i > Len(msgs)
      <4>1. msgs'[i] = More(n)[i - Len(msgs)] /\ i - Len(msgs) \in 1 .. Len(More(n))
        BY <1>0, <2>1, <2>2, <3>1, <3>3
      <4> QED
        BY <2>2, <4>1
    <3> QED
      BY <1>0, <3>1, <3>2, <3>3
  <2>4. Starting' = Starting
    <3>1. CASE msgs = << >>
      <4>1. msgs' = More(n)
        BY <2>1, <2>2, <3>1
      <4> QED
        BY <2>2, <3>1, <4>1 DEF Starting
    <3>2. CASE msgs # << >>
      <4>1. msgs' # << >> /\ Head(msgs') = Head(msgs)
        BY <1>0, <2>1, <2>2, <3>2
      <4> QED
        BY <3>2, <4>1 DEF Starting
    <3> QED
      BY <3>1, <3>2
  <2> QED
    BY <1>0, <1>1, <2>1, <2>3, <2>4 DEF InTurn, Due, Aimed
<1>4. CASE NetworkError \/ ConnectScanner
  <2>1. scanner'.at = scanner.at /\ UNCHANGED msgs
    BY <1>0, <1>4 DEF NetworkError, ConnectScanner, Typed, TypeOK
  <2> QED
    BY <1>0, <1>1, <2>1 DEF InTurn, Due, Aimed, Starting
<1> QED
  BY <1>2, <1>3, <1>4

(* The consumer finds the frame of its second.                             *)
LEMMA SearchTurn ==
  ASSUME Orderly, InTurn, Search \/ Found
  PROVE  InTurn'
<1>0. /\ Typed /\ Rank /\ Due /\ Aimed /\ UNCHANGED <<ring, map, scanner, out, msgs, now>>
      /\ writer.id \in Times /\ scanner.id \in Int
  BY RingAssumption DEF Orderly, InTurn, Typed, TypeOK, Search, Found, Times
<1>1. Rank' /\ Due'
  BY <1>0, RankSame DEF Due, Starting
<1>2. Aimed'
  <2>1. CASE Search
    BY <2>1 DEF Search, Aimed
  <2>2. CASE Found
    <3>1. /\ writer' = [writer EXCEPT !.slot = map[writer.id],
                                      !.at = IF map[writer.id] = NoSlot THEN "idle" ELSE "write"]
          /\ writer'.slot = map[writer.id] /\ writer'.id = writer.id
          /\ writer'.at = IF map[writer.id] = NoSlot THEN "idle" ELSE "write"
      BY <1>0, <2>2 DEF Found, Typed, TypeOK
    <3> SUFFICES ASSUME map[writer.id] # NoSlot
                 PROVE  /\ ring.slot[map[writer.id]].id = writer.id
                        /\ ring.used # NSlots => map[writer.id] # ring.free
      BY <1>0, <3>1 DEF Aimed
    <3> DEFINE k == writer.id - Base - 1
    <3>2. Base < writer.id /\ writer.id <= scanner.id /\ map[writer.id] = Frame(k)
      BY <1>0 DEF Rank, Mapped
    <3>3. k \in 0 .. Waiting(ring) - 1 /\ k \in 0 .. NSlots - 1 /\ Base + 1 + k = writer.id
      BY <1>0, <3>2, Frames, RingAssumption DEF Times
    <3> HIDE DEF k
    <3>4. ring.slot[Frame(k)].id = writer.id
      BY <1>0, <3>3 DEF Rank, Filled
    <3>5. ring.used # NSlots => Frame(k) # ring.free
      <4> SUFFICES ASSUME ring.used # NSlots PROVE Frame(k) # ring.free
        OBVIOUS
      <4>1. Waiting(ring) \in 0 .. NSlots - 1 /\ Waiting(ring) # k
        BY <3>3, Frames, RingAssumption
      <4> QED
        BY <3>3, <4>1, Frames
    <3> QED
      BY <3>2, <3>4, <3>5
  <2> QED
    BY <2>1, <2>2
<1> QED
  BY <1>1, <1>2 DEF InTurn

-----------------------------------------------------------------------------

LEMMA InitTurn == Init => InTurn
<1> SUFFICES ASSUME Init PROVE InTurn
  OBVIOUS
<1>1. /\ ring.used = 0 /\ ring.last = NoSlot /\ scanner.id = 0 /\ scanner.frame = NoSlot
      /\ scanner.at = "loop" /\ msgs = << >> /\ writer.at = "idle" /\ now = 0 /\ out = Nothing
      /\ \A t \in Times : map[t] = NoSlot
      /\ \A s \in Slots : ~ring.slot[s].locked
  BY DEF Init, Nothing
<1>2. Waiting(ring) = 0 /\ Base = 0 /\ out.id = 0
  BY <1>1 DEF Waiting, Base, Nothing
<1>3. Filled
  BY <1>2 DEF Filled
<1>4. Mapped
  <2> SUFFICES ASSUME NEW t \in Times PROVE ~(0 < t /\ t <= 0)
    BY <1>1, <1>2 DEF Mapped
  <2> QED
    BY RingAssumption DEF Times
<1>5. Current /\ Behind
  BY <1>1, <1>2 DEF Current, Behind
<1>6. Due /\ Aimed
  BY <1>1 DEF Due, Aimed, Starting
<1> QED
  BY <1>3, <1>4, <1>5, <1>6 DEF InTurn, Rank

(* What is sent in a step: nothing new, or the next frame.                 *)
LEMMA TurnStep ==
  ASSUME KeepingUp, Orderly, InTurn, [Next]_vars
  PROVE  /\ InTurn'
         /\ \/ out' = out
            \/ /\ out'.id = out.id + 1 /\ out'.share = out'.id /\ out'.antenna \in {0, out'.id}
               /\ out'.id + MinInQueue - 2 <= scanner.id
<1>0. Rank /\ Due /\ Aimed
  BY DEF InTurn
<1>1. CASE UNCHANGED vars
  <2>1. Rank'
    BY <1>0, <1>1, RankSame DEF vars
  <2> QED
    BY <1>0, <1>1, <2>1 DEF vars, InTurn, Due, Aimed, Starting
<1>2. CASE Tick
  BY <1>2, TickTurn DEF Tick
<1>3. CASE StartNewArrayFrame
  BY <1>3, StartTurn DEF StartNewArrayFrame
<1>4. CASE Dispatch \/ Sent \/ NetworkError \/ ConnectScanner
  BY <1>4, ScannerTurn DEF Dispatch, Sent, NetworkError, ConnectScanner
<1>5. CASE DispatchNextFrame
  BY <1>5, DispatchTurn DEF InTurn
<1>6. CASE Search \/ Found
  BY <1>6, SearchTurn DEF Search, Found
<1>7. CASE WriteAntenna \/ SetAntReceived
  <2>1. UNCHANGED <<out, scanner, msgs, now>> /\ ring'.used = ring.used
    BY <1>7, WrittenStep DEF WriteAntenna, SetAntReceived, Orderly
  <2>2. Due'
    BY <1>0, <2>1 DEF Due, Starting
  <2> QED
    BY <1>0, <1>7, <2>1, <2>2, RankWritten DEF InTurn
<1> QED
  BY <1>1, <1>2, <1>3, <1>4, <1>5, <1>6, <1>7 DEF Next, Scan, Consume

TurnNow == Orderly /\ InTurn

LEMMA TurnInductive ==
  ASSUME KeepingUp
  PROVE  /\ Init => TurnNow
         /\ TurnNow /\ [Next]_vars => TurnNow'
<1>1. Keeping
  BY RingAssumption DEF KeepingUp, Keeping
<1> QED
  BY <1>1, InitOrderly, InitTurn, OrderlyStep, TurnStep DEF TurnNow

(* While the control program keeps up and no task is late by a second,     *)
(* every frame is sent, whole and in its turn, however late the data of    *)
(* the antenna come (Scanner.cc:308-336, 472-487): a frame that a consumer *)
(* found is in use until the data are written, or is emptied before it is  *)
(* used again. The minimum of the queue must leave the current frame in    *)
(* it; it is 4 in the mediator.                                            *)
THEOREM SentInTurn == KeepingUp => (Spec => EachInTurn)
<1> SUFFICES ASSUME KeepingUp PROVE Spec => EachInTurn
  OBVIOUS
<1> DEFINE A == out' # out => /\ out'.id = out.id + 1
                              /\ out'.share = out'.id /\ out'.antenna \in {0, out'.id}
<1>1. TurnNow /\ [Next]_vars => [A]_vars
  BY TurnStep DEF TurnNow
<1> QED
  BY <1>1, TurnInductive, PTL DEF Spec, EachInTurn

(* Then no frame is sent before a full second has passed after its own     *)
(* (Scanner.cc:544-546): the minimum of 4 leaves room for the two requests *)
(* that may be under way when the queue has got down to it.                *)
THEOREM SentWhenOld == KeepingUp /\ MinInQueue >= 4 => (Spec => OldEnough)
<1> SUFFICES ASSUME KeepingUp, MinInQueue >= 4 PROVE Spec => OldEnough
  OBVIOUS
<1> DEFINE A == out'.id # out.id => out'.id + 2 <= scanner.id
<1>1. TurnNow /\ [Next]_vars => [A]_vars
  <2> SUFFICES ASSUME Orderly, InTurn, [Next]_vars, out'.id # out.id
               PROVE  out'.id + 2 <= scanner.id
    BY DEF TurnNow
  <2>1. out'.id = out.id + 1 /\ out'.id + MinInQueue - 2 <= scanner.id
    BY TurnStep
  <2>2. out.id \in Int /\ scanner.id \in Int /\ MinInQueue \in Int
    BY RingAssumption DEF Orderly, Typed, TypeOK, Times
  <2> QED
    BY <2>1, <2>2
<1> QED
  BY <1>1, TurnInductive, PTL DEF Spec, OldEnough
=============================================================================
