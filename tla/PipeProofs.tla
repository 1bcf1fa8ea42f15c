----------------------------- MODULE PipeProofs -----------------------------
(***************************************************************************)
(* What holds of a Pipe for every set of threads, every set of message     *)
(* lengths and every capacity of the kernel: nobody sleeps over what it    *)
(* waits for, readers and writers do not wait for each other, and the pipe *)
(* is a stream of bytes.                                                   *)
(***************************************************************************)
EXTENDS Pipe, SequenceTheorems, TLAPS

(* A reader that waits has left nothing in the kernel, not even less than  *)
(* it wants.                                                               *)
Drained == \A r \in Reader : pc[r] = "waiting" => kernel = <<>>

IInv == TypeOK /\ NoLostWakeup /\ Drained

-----------------------------------------------------------------------------
(* Taking the first m of n bytes, and leaving the rest.                    *)

LEMMA CutIs ==
  ASSUME NEW S, NEW s \in Seq(S), NEW n \in 0 .. Len(s)
  PROVE  /\ SubSeq(s, 1, n) \in Seq(S) /\ SubSeq(s, n + 1, Len(s)) \in Seq(S)
         /\ Len(SubSeq(s, 1, n)) = n /\ Len(SubSeq(s, n + 1, Len(s))) = Len(s) - n
         /\ \A i \in 1 .. n : SubSeq(s, 1, n)[i] = s[i]
         /\ \A i \in 1 .. Len(s) - n : SubSeq(s, n + 1, Len(s))[i] = s[n + i]
<1>1. Len(s) \in Nat /\ \A i \in 1 .. Len(s) : s[i] \in S
  BY LenProperties, ElementOfSeq
<1>2. \A i \in 1 .. n : s[i] \in S
  BY <1>1
<1>3. \A i \in n + 1 .. Len(s) : s[i] \in S
  BY <1>1
<1>4. /\ SubSeq(s, 1, n) \in Seq(S)
      /\ Len(SubSeq(s, 1, n)) = IF 1 <= n THEN n - 1 + 1 ELSE 0
      /\ \A i \in 1 .. n - 1 + 1 : SubSeq(s, 1, n)[i] = s[1 + i - 1]
  BY <1>1, <1>2, SubSeqProperties
<1>5. /\ SubSeq(s, n + 1, Len(s)) \in Seq(S)
      /\ Len(SubSeq(s, n + 1, Len(s))) = IF n + 1 <= Len(s) THEN Len(s) - (n + 1) + 1 ELSE 0
      /\ \A i \in 1 .. Len(s) - (n + 1) + 1 : SubSeq(s, n + 1, Len(s))[i] = s[n + 1 + i - 1]
  BY <1>1, <1>3, SubSeqProperties
<1> QED
  BY <1>1, <1>4, <1>5

(* The cut is in the first of two parts ...                                *)
LEMMA CutFirst ==
  ASSUME NEW S, NEW s \in Seq(S), NEW t \in Seq(S), NEW n \in 0 .. Len(s)
  PROVE  /\ SubSeq(s \o t, 1, n) = SubSeq(s, 1, n)
         /\ SubSeq(s \o t, n + 1, Len(s \o t)) = SubSeq(s, n + 1, Len(s)) \o t
<1> DEFINE u == s \o t
           a == SubSeq(s, 1, n)
           b == SubSeq(s, n + 1, Len(s))
<1>1. Len(s) \in Nat /\ Len(t) \in Nat
  BY LenProperties
<1>2. /\ u \in Seq(S) /\ Len(u) = Len(s) + Len(t)
      /\ \A i \in 1 .. Len(s) + Len(t) : u[i] = IF i <= Len(s) THEN s[i] ELSE t[i - Len(s)]
  BY ConcatProperties
<1>3. /\ a \in Seq(S) /\ b \in Seq(S) /\ Len(a) = n /\ Len(b) = Len(s) - n
      /\ \A i \in 1 .. n : a[i] = s[i]
      /\ \A i \in 1 .. Len(s) - n : b[i] = s[n + i]
  BY CutIs
<1> HIDE DEF u, a, b
<1>4. n \in 0 .. Len(u)
  BY <1>1, <1>2
<1> DEFINE x == SubSeq(u, 1, n)
           y == SubSeq(u, n + 1, Len(u))
<1>5. /\ x \in Seq(S) /\ y \in Seq(S) /\ Len(x) = n /\ Len(y) = Len(u) - n
      /\ \A i \in 1 .. n : x[i] = u[i]
      /\ \A i \in 1 .. Len(u) - n : y[i] = u[n + i]
  BY <1>2, <1>4, CutIs
<1>6. /\ b \o t \in Seq(S) /\ Len(b \o t) = Len(b) + Len(t)
      /\ \A i \in 1 .. Len(b) + Len(t) : (b \o t)[i] = IF i <= Len(b) THEN b[i] ELSE t[i - Len(b)]
  BY <1>3, ConcatProperties
<1> DEFINE v == b \o t
<1> HIDE DEF x, y, v
<1>7. x = a
  <2>1. \A i \in 1 .. Len(x) : x[i] = a[i]
    BY <1>1, <1>2, <1>3, <1>5
  <2> QED
    BY <1>3, <1>5, <2>1, SeqEqual
<1>8. y = v
  <2>1. v \in Seq(S) /\ Len(v) = Len(y)
    BY <1>1, <1>2, <1>3, <1>5, <1>6 DEF v
  <2>2. ASSUME NEW i \in 1 .. Len(y) PROVE y[i] = v[i]
    <3>1. i \in 1 .. Len(s) + Len(t) - n /\ n + i \in 1 .. Len(s) + Len(t)
      BY <1>1, <1>2, <1>5
    <3>2. y[i] = IF n + i <= Len(s) THEN s[n + i] ELSE t[n + i - Len(s)]
      BY <1>1, <1>2, <1>5, <3>1
    <3>3. v[i] = IF i <= Len(s) - n THEN b[i] ELSE t[i - (Len(s) - n)]
      BY <1>1, <1>3, <1>6, <3>1 DEF v
    <3>4. i - (Len(s) - n) = n + i - Len(s) /\ (i <= Len(s) - n <=> n + i <= Len(s))
      BY <1>1, <3>1
    <3>5. i <= Len(s) - n => b[i] = s[n + i]
      BY <1>1, <1>3, <3>1
    <3> QED
      BY <3>2, <3>3, <3>4, <3>5
  <2> QED
    BY <1>5, <2>1, <2>2, SeqEqual
<1> QED
  BY <1>7, <1>8 DEF x, y, u, a, v, b

(* ... or in the second.                                                   *)
LEMMA CutSecond ==
  ASSUME NEW S, NEW s \in Seq(S), NEW t \in Seq(S), NEW m \in 0 .. Len(t)
  PROVE  /\ SubSeq(s \o t, 1, Len(s) + m) = s \o SubSeq(t, 1, m)
         /\ SubSeq(s \o t, Len(s) + m + 1, Len(s \o t)) = SubSeq(t, m + 1, Len(t))
<1> DEFINE u == s \o t
           a == SubSeq(t, 1, m)
           b == SubSeq(t, m + 1, Len(t))
           n == Len(s) + m
<1>1. Len(s) \in Nat /\ Len(t) \in Nat
  BY LenProperties
<1>2. /\ u \in Seq(S) /\ Len(u) = Len(s) + Len(t)
      /\ \A i \in 1 .. Len(s) + Len(t) : u[i] = IF i <= Len(s) THEN s[i] ELSE t[i - Len(s)]
  BY ConcatProperties
<1>3. /\ a \in Seq(S) /\ b \in Seq(S) /\ Len(a) = m /\ Len(b) = Len(t) - m
      /\ \A i \in 1 .. m : a[i] = t[i]
      /\ \A i \in 1 .. Len(t) - m : b[i] = t[m + i]
  BY CutIs
<1> HIDE DEF u, a, b
<1>4. n \in 0 .. Len(u) /\ n \in Nat
  BY <1>1, <1>2
<1> DEFINE x == SubSeq(u, 1, n)
           y == SubSeq(u, n + 1, Len(u))
<1>5. /\ x \in Seq(S) /\ y \in Seq(S) /\ Len(x) = n /\ Len(y) = Len(u) - n
      /\ \A i \in 1 .. n : x[i] = u[i]
      /\ \A i \in 1 .. Len(u) - n : y[i] = u[n + i]
  BY <1>2, <1>4, CutIs
<1>6. /\ s \o a \in Seq(S) /\ Len(s \o a) = Len(s) + Len(a)
      /\ \A i \in 1 .. Len(s) + Len(a) : (s \o a)[i] = IF i <= Len(s) THEN s[i] ELSE a[i - Len(s)]
  BY <1>3, ConcatProperties
<1> DEFINE v == s \o a
<1> HIDE DEF x, y, v
<1>7. x = v
  <2>1. v \in Seq(S) /\ Len(v) = Len(x)
    BY <1>3, <1>5, <1>6 DEF v
  <2>2. ASSUME NEW i \in 1 .. Len(x) PROVE x[i] = v[i]
    <3>1. i \in 1 .. Len(s) + m /\ i \in 1 .. Len(s) + Len(t)
      BY <1>1, <1>5
    <3>2. x[i] = IF i <= Len(s) THEN s[i] ELSE t[i - Len(s)]
      BY <1>2, <1>5, <3>1
    <3>3. v[i] = IF i <= Len(s) THEN s[i] ELSE a[i - Len(s)]
      BY <1>3, <1>6, <3>1 DEF v
    <3>4. ~ (i <= Len(s)) => a[i - Len(s)] = t[i - Len(s)]
      BY <1>1, <1>3, <3>1
    <3> QED
      BY <3>2, <3>3, <3>4
  <2> QED
    BY <1>5, <2>1, <2>2, SeqEqual
<1>8. y = b
  <2>1. Len(b) = Len(y)
    BY <1>1, <1>2, <1>3, <1>5
  <2>2. ASSUME NEW i \in 1 .. Len(y) PROVE y[i] = b[i]
    <3>1. i \in 1 .. Len(t) - m /\ n + i \in 1 .. Len(s) + Len(t) /\ n + i > Len(s)
          /\ n + i - Len(s) = m + i
      BY <1>1, <1>2, <1>5
    <3>2. y[i] = t[n + i - Len(s)]
      BY <1>1, <1>2, <1>5, <3>1
    <3> QED
      BY <1>3, <3>1, <3>2
  <2> QED
    BY <1>3, <1>5, <2>1, <2>2, SeqEqual
<1> QED
  BY <1>7, <1>8 DEF x, y, u, a, v, b

-----------------------------------------------------------------------------
(* Threads.                                                                *)

Places == {"idle", "ready", "inside", "waiting", "expired", "cancelled"}
Out    == {"idle", "cancelled"}

LEMMA MessageIs ==
  ASSUME NEW w \in Writer, NEW n \in Sizes
  PROVE  Message(w, n) \in Seq(Byte) /\ Len(Message(w, n)) = n
<1>1. n \in Nat /\ n <= PIPE_BUF /\ PIPE_BUF \in Nat
  BY SizeAssumption
<1>2. \A i \in 1 .. n : <<w, i>> \in Byte
  BY <1>1 DEF Byte
<1>3. Message(w, n) \in [1 .. n -> Byte]
  BY <1>2 DEF Message
<1>4. Message(w, n) \in UNION {[1 .. k -> Byte] : k \in Nat}
  BY <1>1, <1>3
<1>5. Message(w, n) \in Seq(Byte)
  BY <1>4, SeqDef
<1>6. DOMAIN Message(w, n) = 1 .. n
  BY <1>3
<1> QED
  BY <1>1, <1>5, <1>6, LenProperties

(* A thread that has the mutex is in a call.                               *)
LEMMA HoldsIs ==
  ASSUME TypeOK, NEW t \in Thread, Holds(t)
  PROVE  /\ call[t] \in Arguments /\ pc[t] \in Places \ Out
         /\ call[t].nbyte \in Sizes /\ call[t].nbyte \in 1 .. PIPE_BUF
<1>1. pc[t] \in {"ready", "inside"}
  BY DEF Holds
<1>2. call[t] # None
  BY <1>1 DEF TypeOK
<1> QED
  BY <1>1, <1>2, SizeAssumption DEF TypeOK, Arguments, Places, Out

LEMMA GoesIs ==
  ASSUME TypeOK, NEW t \in Thread, NEW at \in Places, NEW T, Goes(t, at, T)
  PROVE  /\ pc' \in [Thread -> Places] /\ pc'[t] = at
         /\ \A u \in Thread : u # t =>
              /\ pc'[u] = IF u \in T /\ pc[u] = "waiting" THEN "ready" ELSE pc[u]
              /\ pc'[u] \in Out <=> pc[u] \in Out
         /\ \A u \in Thread : pc'[u] = "waiting" =>
              (u = t /\ at = "waiting") \/ (pc[u] = "waiting" /\ u \notin T)
<1>1. pc \in [Thread -> Places]
  BY DEF TypeOK, Places
<1>2. Woken(T) \in [Thread -> Places]
  BY <1>1 DEF Woken, Places
<1>3. \A u \in Thread : Woken(T)[u] = IF u \in T /\ pc[u] = "waiting" THEN "ready" ELSE pc[u]
  BY DEF Woken
<1>4. pc' = [Woken(T) EXCEPT ![t] = at]
  BY DEF Goes
<1>5. /\ pc' \in [Thread -> Places] /\ pc'[t] = at
      /\ \A u \in Thread : u # t => pc'[u] = Woken(T)[u]
  BY <1>2, <1>4
<1> QED
  BY <1>3, <1>5 DEF Out

(* What the step of one thread does to the places and arguments.           *)
Moved == /\ pc' \in [Thread -> Places]
         /\ call' \in [Thread -> Arguments \cup {None}]
         /\ \A t \in Thread : call'[t] = None <=> pc'[t] \in Out
         /\ \A t \in Thread : pc'[t] = "waiting" => call'[t] # None

LEMMA ReturnsIs ==
  ASSUME TypeOK, NEW t \in Thread, NEW T, Returns(t, T)
  PROVE  /\ Moved
         /\ \A u \in Thread : pc'[u] = "waiting" =>
              pc[u] = "waiting" /\ u \notin T /\ call'[u] = call[u]
<1>1. Goes(t, "idle", T) /\ call' = [call EXCEPT ![t] = None]
  BY DEF Returns
<1>2. "idle" \in Places
  BY DEF Places
<1>3. /\ pc' \in [Thread -> Places] /\ pc'[t] = "idle"
      /\ \A u \in Thread : u # t => (pc'[u] \in Out <=> pc[u] \in Out)
      /\ \A u \in Thread : pc'[u] = "waiting" => pc[u] = "waiting" /\ u \notin T
  BY <1>1, <1>2, GoesIs
<1>4. /\ call' \in [Thread -> Arguments \cup {None}] /\ call'[t] = None
      /\ \A u \in Thread : u # t => call'[u] = call[u]
  BY <1>1 DEF TypeOK
<1>5. \A u \in Thread : call[u] = None <=> pc[u] \in Out
  BY DEF TypeOK, Out
<1> QED
  BY <1>3, <1>4, <1>5 DEF Moved, Out

(* A thread that stays in its call.                                        *)
LEMMA StaysIs ==
  ASSUME TypeOK, NEW t \in Thread, pc[t] \notin Out, NEW at \in Places \ Out, NEW T,
         Goes(t, at, T), call' = call
  PROVE  /\ Moved
         /\ \A u \in Thread : pc'[u] = "waiting" =>
              (u = t /\ at = "waiting") \/ (pc[u] = "waiting" /\ u \notin T)
<1>1. /\ pc' \in [Thread -> Places] /\ pc'[t] = at
      /\ \A u \in Thread : u # t => (pc'[u] \in Out <=> pc[u] \in Out)
      /\ \A u \in Thread : pc'[u] = "waiting" =>
           (u = t /\ at = "waiting") \/ (pc[u] = "waiting" /\ u \notin T)
  BY GoesIs
<1>2. \A u \in Thread : call[u] = None <=> pc[u] \in Out
  BY DEF TypeOK, Out
<1> QED
  BY <1>1, <1>2 DEF Moved, TypeOK, Out

LEMMA BlockedIs ==
  ASSUME TypeOK, NEW t \in Thread, Holds(t), Blocked(t)
  PROVE  /\ Moved
         /\ \A u \in Thread : pc'[u] = "waiting" =>
              (u = t \/ pc[u] = "waiting") /\ call'[u] = call[u]
<1>1. CASE Returns(t, {})
  BY <1>1, ReturnsIs
<1>2. CASE Goes(t, "waiting", {}) /\ call' = call
  <2>1. pc[t] \notin Out /\ "waiting" \in Places \ Out
    BY HoldsIs DEF Places, Out
  <2> QED
    BY <1>2, <2>1, StaysIs
<1> QED
  BY <1>1, <1>2 DEF Blocked

(* The invariant from its parts.                                           *)
LEMMA Combine ==
  ASSUME Moved,
         unread' \in Seq(Byte), Len(unread') < PIPE_BUF,
         kernel' \in Seq(Byte), Len(kernel') <= Capacity, got' \in Seq(Byte),
         NoLostWakeup', Drained'
  PROVE  IInv'
BY DEF IInv, TypeOK, Moved, Places, Out

-----------------------------------------------------------------------------
(* The steps.                                                              *)

LEMMA InitIInv ==
  ASSUME Init
  PROVE  IInv
<1>1. <<>> \in Seq(Byte) /\ Len(<<>>) = 0
  BY EmptySeq
<1>2. PIPE_BUF \in Nat \ {0} /\ Capacity \in Nat
  BY SizeAssumption
<1>3. \A t \in Thread : pc[t] = "idle" /\ call[t] = None
  BY DEF Init
<1>4. TypeOK
  BY <1>1, <1>2, <1>3 DEF Init, TypeOK
<1> QED
  BY <1>3, <1>4 DEF IInv, NoLostWakeup, Drained, Thread

(* What a thread waits for is a number of bytes.                           *)
LEMMA CallIsNat ==
  ASSUME TypeOK, NEW t \in Thread, pc[t] = "waiting"
  PROVE  call[t].nbyte \in Nat /\ Len(kernel) \in Nat
<1>1. call[t] # None
  BY DEF TypeOK
<1>2. call[t] \in Arguments
  BY <1>1 DEF TypeOK
<1>3. call[t].nbyte \in Sizes
  BY <1>2 DEF Arguments
<1>4. \A n \in Sizes : n \in Nat
  BY SizeAssumption
<1>5. kernel \in Seq(Byte)
  BY DEF TypeOK
<1> QED
  BY <1>3, <1>4, <1>5, LenProperties

LEMMA ReadBufferedIInv ==
  ASSUME IInv, NEW r \in Reader, ReadBuffered(r)
  PROVE  IInv'
<1> DEFINE n == call[r].nbyte
<1>1. TypeOK /\ r \in Thread /\ Holds(r) /\ Returns(r, {}) /\ kernel' = kernel
  BY DEF IInv, Thread, ReadBuffered
<1>2. n \in 1 .. PIPE_BUF /\ PIPE_BUF \in Nat /\ Len(unread) \in Nat /\ unread \in Seq(Byte)
  BY <1>1, HoldsIs, SizeAssumption, LenProperties DEF TypeOK
<1>3. n \in 0 .. Len(unread)
  BY <1>2 DEF ReadBuffered, Request
<1>4. /\ got' \in Seq(Byte) /\ unread' \in Seq(Byte) /\ Len(unread') = Len(unread) - n
  BY <1>2, <1>3, CutIs DEF ReadBuffered
<1>5. /\ Moved
      /\ \A u \in Thread : pc'[u] = "waiting" => pc[u] = "waiting" /\ call'[u] = call[u]
  BY <1>1, ReturnsIs
<1>6. Len(unread') < PIPE_BUF /\ Len(unread') <= Len(unread) /\ Len(unread') \in Nat
  BY <1>1, <1>2, <1>3, <1>4 DEF TypeOK
<1>7. NoLostWakeup'
  <2>1. ASSUME NEW u \in Reader, pc'[u] = "waiting"
        PROVE  Len(unread') + Len(kernel') < call'[u].nbyte
    <3>1. u \in Thread /\ pc[u] = "waiting" /\ call'[u] = call[u]
      BY <1>5, <2>1 DEF Thread
    <3>2. Len(unread) + Len(kernel) < call[u].nbyte
      BY <2>1, <3>1 DEF IInv, NoLostWakeup
    <3>3. call[u].nbyte \in Nat /\ Len(kernel) \in Nat
      BY <1>1, <3>1, CallIsNat
    <3> QED
      BY <1>1, <1>2, <1>6, <3>1, <3>2, <3>3
  <2>2. ASSUME NEW u \in Writer, pc'[u] = "waiting" PROVE Fits(u)' = FALSE
    <3>1. u \in Thread /\ pc[u] = "waiting" /\ call'[u] = call[u]
      BY <1>5, <2>2 DEF Thread
    <3> QED
      BY <1>1, <3>1 DEF IInv, NoLostWakeup, Fits
  <2> QED
    BY <2>1, <2>2 DEF NoLostWakeup
<1>8. Drained'
  BY <1>1, <1>5 DEF IInv, Drained, Thread
<1> QED
  BY <1>1, <1>4, <1>5, <1>6, <1>7, <1>8, Combine DEF TypeOK

(* Readers that wait have seen the kernel empty; the writers are woken.    *)
LEMMA ReadKernelIInv ==
  ASSUME IInv, NEW r \in Reader, ReadKernel(r)
  PROVE  IInv'
<1> DEFINE m == Request(r)
<1>1. TypeOK /\ r \in Thread /\ Holds(r) /\ Returns(r, Writer) /\ unread' = <<>>
  BY DEF IInv, Thread, ReadKernel
<1>2. /\ unread \in Seq(Byte) /\ kernel \in Seq(Byte) /\ Len(unread) \in Nat /\ Len(kernel) \in Nat
      /\ call[r].nbyte \in 1 .. PIPE_BUF /\ PIPE_BUF \in Nat \ {0} /\ Capacity \in Nat
  BY <1>1, HoldsIs, SizeAssumption, LenProperties DEF TypeOK
<1>3. m \in 0 .. Len(kernel) /\ m > 0
  BY <1>2 DEF ReadKernel, Request
<1>4. /\ SubSeq(kernel, 1, m) \in Seq(Byte)
      /\ kernel' \in Seq(Byte) /\ Len(kernel') = Len(kernel) - m
  BY <1>2, <1>3, CutIs DEF ReadKernel
<1>5. got' \in Seq(Byte)
  BY <1>2, <1>4, ConcatProperties DEF ReadKernel
<1>6. /\ Moved
      /\ \A u \in Thread : pc'[u] = "waiting" => pc[u] = "waiting" /\ u \notin Writer
  BY <1>1, ReturnsIs
<1>7. \A u \in Reader : pc[u] # "waiting"
  <2>1. Len(kernel) # 0
    BY <1>2, <1>3
  <2> QED
    BY <2>1, EmptySeq DEF IInv, Drained
<1>8. \A u \in Thread : pc'[u] # "waiting"
  BY <1>6, <1>7 DEF Thread
<1>9. NoLostWakeup' /\ Drained'
  BY <1>8 DEF NoLostWakeup, Drained, Thread
<1>10. /\ unread' \in Seq(Byte) /\ Len(unread') < PIPE_BUF /\ Len(kernel') <= Capacity
  BY <1>1, <1>2, <1>3, <1>4, EmptySeq DEF TypeOK
<1> QED
  BY <1>4, <1>5, <1>6, <1>9, <1>10, Combine

LEMMA ReadShortIInv ==
  ASSUME IInv, NEW r \in Reader, ReadShort(r)
  PROVE  IInv'
<1>1. TypeOK /\ r \in Thread /\ Holds(r) /\ unread' = unread \o kernel /\ kernel' = <<>> /\ got' = got
  BY DEF IInv, Thread, ReadShort
<1>2. /\ unread \in Seq(Byte) /\ kernel \in Seq(Byte) /\ Len(unread) \in Nat /\ Len(kernel) \in Nat
      /\ call[r].nbyte \in 1 .. PIPE_BUF /\ PIPE_BUF \in Nat \ {0} /\ Capacity \in Nat
      /\ pc[r] \notin Out
  BY <1>1, HoldsIs, SizeAssumption, LenProperties DEF TypeOK
<1>3. unread' \in Seq(Byte) /\ Len(unread') = Len(unread) + Len(kernel)
  BY <1>1, <1>2, ConcatProperties
<1>4. Len(unread') < PIPE_BUF
  BY <1>2, <1>3 DEF ReadShort, Request
<1>5. Moved /\ \A u \in Thread : pc'[u] # "waiting"
  <2>1. CASE Returns(r, Thread)
    BY <1>1, <2>1, ReturnsIs
  <2>2. CASE Goes(r, "inside", Thread) /\ call' = call
    <3>1. "inside" \in Places \ Out
      BY DEF Places, Out
    <3>2. /\ Moved
          /\ \A u \in Thread : pc'[u] = "waiting" =>
               (u = r /\ "inside" = "waiting") \/ (pc[u] = "waiting" /\ u \notin Thread)
      BY <1>1, <1>2, <2>2, <3>1, StaysIs
    <3> QED
      BY <3>2
  <2> QED
    BY <2>1, <2>2 DEF ReadShort
<1>6. NoLostWakeup' /\ Drained'
  BY <1>5 DEF NoLostWakeup, Drained, Thread
<1>7. kernel' \in Seq(Byte) /\ Len(kernel') <= Capacity /\ got' \in Seq(Byte)
  BY <1>1, <1>2, EmptySeq DEF TypeOK
<1> QED
  BY <1>3, <1>4, <1>5, <1>6, <1>7, Combine

LEMMA ReadEmptyIInv ==
  ASSUME IInv, NEW r \in Reader, ReadEmpty(r)
  PROVE  IInv'
<1>1. /\ TypeOK /\ r \in Thread /\ Holds(r) /\ Blocked(r)
      /\ unread' = unread /\ kernel' = kernel /\ got' = got /\ kernel = <<>>
  BY DEF IInv, Thread, ReadEmpty
<1>2. /\ Moved
      /\ \A u \in Thread : pc'[u] = "waiting" => (u = r \/ pc[u] = "waiting") /\ call'[u] = call[u]
  BY <1>1, BlockedIs
<1>3. Len(unread) + Len(kernel) < call[r].nbyte
  <2>1. Len(unread) \in Nat /\ Len(kernel) = 0 /\ call[r].nbyte \in Nat
    BY <1>1, HoldsIs, SizeAssumption, LenProperties, EmptySeq DEF TypeOK
  <2> QED
    BY <2>1 DEF ReadEmpty, Request
<1>4. NoLostWakeup'
  <2>1. ASSUME NEW u \in Reader, pc'[u] = "waiting"
        PROVE  Len(unread) + Len(kernel) < call'[u].nbyte
    <3>1. (u = r \/ pc[u] = "waiting") /\ call'[u] = call[u]
      BY <1>2, <2>1 DEF Thread
    <3> QED
      BY <1>3, <3>1 DEF IInv, NoLostWakeup
  <2>2. ASSUME NEW u \in Writer, pc'[u] = "waiting" PROVE Fits(u)' = FALSE
    <3>1. pc[u] = "waiting" /\ call'[u] = call[u]
      BY <1>2, <2>2, ThreadAssumption DEF Thread
    <3> QED
      BY <1>1, <3>1 DEF IInv, NoLostWakeup, Fits
  <2> QED
    BY <1>1, <2>1, <2>2 DEF NoLostWakeup
<1>5. Drained'
  BY <1>1 DEF Drained
<1> QED
  BY <1>1, <1>2, <1>4, <1>5, Combine DEF TypeOK

LEMMA WriteIInv ==
  ASSUME IInv, NEW w \in Writer, Write(w)
  PROVE  IInv'
<1> DEFINE msg == Message(w, call[w].nbyte)
<1>1. /\ TypeOK /\ w \in Thread /\ Holds(w) /\ Returns(w, Reader)
      /\ unread' = unread /\ kernel' = kernel \o msg /\ got' = got
  BY DEF IInv, Thread, Write
<1>2. call[w].nbyte \in Sizes
  BY <1>1, HoldsIs
<1>3. msg \in Seq(Byte) /\ Len(msg) = call[w].nbyte
  BY <1>2, MessageIs
<1> HIDE DEF msg
<1>4. kernel' \in Seq(Byte) /\ Len(kernel') = Len(kernel) + call[w].nbyte
  BY <1>1, <1>3, ConcatProperties DEF TypeOK
<1>5. Len(kernel') <= Capacity
  BY <1>4 DEF Write, Fits
<1>6. /\ Moved
      /\ \A u \in Thread : pc'[u] = "waiting" =>
           pc[u] = "waiting" /\ u \notin Reader /\ call'[u] = call[u]
  BY <1>1, ReturnsIs
<1>7. NoLostWakeup'
  <2>1. ASSUME NEW u \in Writer, pc'[u] = "waiting" PROVE Fits(u)' = FALSE
    <3>1. u \in Thread /\ pc[u] = "waiting" /\ call'[u] = call[u]
      BY <1>6, <2>1 DEF Thread
    <3>2. ~ (Len(kernel) + call[u].nbyte <= Capacity)
      BY <3>1 DEF IInv, NoLostWakeup, Fits
    <3>3. /\ call[u].nbyte \in Nat /\ call[w].nbyte \in Nat /\ Len(kernel) \in Nat
          /\ Capacity \in Nat
      <4>1. call[u].nbyte \in Nat /\ Len(kernel) \in Nat
        BY <1>1, <3>1, CallIsNat
      <4>2. call[w].nbyte \in Nat /\ Capacity \in Nat
        <5>1. \A i \in Sizes : i \in Nat
          BY SizeAssumption
        <5> QED
          BY <1>2, <5>1, SizeAssumption
      <4> QED
        BY <4>1, <4>2
    <3>4. ~ (Len(kernel') + call'[u].nbyte <= Capacity)
      BY <1>4, <3>1, <3>2, <3>3
    <3> QED
      BY <3>4 DEF Fits
  <2> QED
    BY <1>6, <2>1 DEF NoLostWakeup, Thread
<1>8. Drained'
  BY <1>6 DEF Drained, Thread
<1> QED
  BY <1>1, <1>4, <1>5, <1>6, <1>7, <1>8, Combine DEF TypeOK

(* Nothing but the places and arguments changes.                           *)
LEMMA SameIInv ==
  ASSUME IInv, Moved, unread' = unread, kernel' = kernel, got' = got,
         \A u \in Thread : pc'[u] = "waiting" =>
            /\ call'[u] = call[u]
            /\ pc[u] = "waiting" \/ (u \in Writer /\ ~ Fits(u))
  PROVE  IInv'
<1>1. NoLostWakeup'
  <2>1. ASSUME NEW u \in Reader, pc'[u] = "waiting"
        PROVE  Len(unread) + Len(kernel) < call'[u].nbyte
    BY <2>1, ThreadAssumption DEF IInv, NoLostWakeup, Thread
  <2>2. ASSUME NEW u \in Writer, pc'[u] = "waiting" PROVE Fits(u)' = FALSE
    BY <2>2 DEF IInv, NoLostWakeup, Thread, Fits
  <2> QED
    BY <2>1, <2>2 DEF NoLostWakeup
<1>2. Drained'
  BY ThreadAssumption DEF IInv, Drained, Thread
<1> QED
  BY <1>1, <1>2, Combine DEF IInv, TypeOK

LEMMA ThreadIInv ==
  ASSUME IInv, NEW t \in Thread, Call(t) \/ Wake(t) \/ Expire(t) \/ GiveUp(t) \/ Cancel(t)
  PROVE  IInv'
<1>1. TypeOK /\ unread' = unread /\ kernel' = kernel /\ got' = got
  BY DEF IInv, Call, Wake, Expire, GiveUp, Cancel
<1>2. \A u \in Thread : call[u] = None <=> pc[u] \in Out
  BY <1>1 DEF TypeOK, Out
<1>3. Places = {"idle", "ready", "inside", "waiting", "expired", "cancelled"}
  BY DEF Places
<1>4. ASSUME Call(t) PROVE IInv'
  <2>1. PICK a \in Arguments : call' = [call EXCEPT ![t] = a]
    BY <1>4 DEF Call
  <2>2. a # None
    BY NoneAssumption DEF Arguments
  <2>3. /\ pc' \in [Thread -> Places] /\ pc'[t] = "ready"
        /\ \A u \in Thread : u # t => (pc'[u] \in Out <=> pc[u] \in Out)
        /\ \A u \in Thread : pc'[u] = "waiting" => pc[u] = "waiting"
    BY <1>1, <1>3, <1>4, GoesIs DEF Call
  <2>4. /\ call' \in [Thread -> Arguments \cup {None}] /\ call'[t] = a
        /\ \A u \in Thread : u # t => call'[u] = call[u]
    BY <1>1, <2>1 DEF TypeOK
  <2>5. Moved
    BY <1>2, <2>2, <2>3, <2>4 DEF Moved, Out
  <2>6. \A u \in Thread : pc'[u] = "waiting" => call'[u] = call[u] /\ pc[u] = "waiting"
    BY <2>3, <2>4
  <2> QED
    BY <1>1, <2>5, <2>6, SameIInv
<1>5. ASSUME Wake(t) PROVE IInv'
  <2>1. Goes(t, "ready", {}) /\ call' = call /\ pc[t] \notin Out /\ "ready" \in Places \ Out
    BY <1>3, <1>5 DEF Wake, Out
  <2> QED
    BY <1>1, <2>1, StaysIs, SameIInv
<1>6. ASSUME Expire(t) PROVE IInv'
  <2>1. Goes(t, "expired", {}) /\ call' = call /\ pc[t] \notin Out /\ "expired" \in Places \ Out
    BY <1>3, <1>6 DEF Expire, Out
  <2> QED
    BY <1>1, <2>1, StaysIs, SameIInv
<1>7. ASSUME GiveUp(t) PROVE IInv'
  <2>1. Returns(t, {})
    BY <1>7 DEF GiveUp
  <2> QED
    BY <1>1, <2>1, ReturnsIs, SameIInv
<1>8. ASSUME Cancel(t) PROVE IInv'
  <2>1. Goes(t, "cancelled", {}) /\ call' = [call EXCEPT ![t] = None]
    BY <1>8 DEF Cancel
  <2>2. /\ pc' \in [Thread -> Places] /\ pc'[t] = "cancelled"
        /\ \A u \in Thread : u # t => (pc'[u] \in Out <=> pc[u] \in Out)
        /\ \A u \in Thread : pc'[u] = "waiting" => pc[u] = "waiting"
    BY <1>1, <1>3, <2>1, GoesIs
  <2>3. /\ call' \in [Thread -> Arguments \cup {None}] /\ call'[t] = None
        /\ \A u \in Thread : u # t => call'[u] = call[u]
    BY <1>1, <2>1 DEF TypeOK
  <2>4. Moved
    BY <1>2, <2>2, <2>3 DEF Moved, Out
  <2>5. \A u \in Thread : pc'[u] = "waiting" => call'[u] = call[u] /\ pc[u] = "waiting"
    BY <2>2, <2>3
  <2> QED
    BY <1>1, <2>4, <2>5, SameIInv
<1> QED
  BY <1>4, <1>5, <1>6, <1>7, <1>8

LEMMA WriteFullIInv ==
  ASSUME IInv, NEW w \in Writer, WriteFull(w)
  PROVE  IInv'
<1>1. /\ TypeOK /\ w \in Thread /\ Holds(w) /\ Blocked(w) /\ ~ Fits(w)
      /\ unread' = unread /\ kernel' = kernel /\ got' = got
  BY DEF IInv, Thread, WriteFull
<1>2. /\ Moved
      /\ \A u \in Thread : pc'[u] = "waiting" => (u = w \/ pc[u] = "waiting") /\ call'[u] = call[u]
  BY <1>1, BlockedIs
<1> QED
  BY <1>1, <1>2, SameIInv

LEMMA NextIInv ==
  ASSUME IInv, [Next]_vars
  PROVE  IInv'
<1>1. ASSUME NEW r \in Reader, Read(r) PROVE IInv'
  BY <1>1, ReadBufferedIInv, ReadKernelIInv, ReadShortIInv, ReadEmptyIInv DEF Read
<1>2. ASSUME NEW w \in Writer, WriteOne(w) PROVE IInv'
  BY <1>2, WriteIInv, WriteFullIInv DEF WriteOne
<1>3. ASSUME NEW t \in Thread, Call(t) \/ Wake(t) \/ Expire(t) \/ GiveUp(t) \/ Cancel(t)
      PROVE  IInv'
  BY <1>3, ThreadIInv
<1>4. ASSUME UNCHANGED vars PROVE IInv'
  BY <1>4 DEF vars, IInv, TypeOK, NoLostWakeup, Drained, Fits
<1> QED
  BY <1>1, <1>2, <1>3, <1>4 DEF Next

LEMMA Invariant == Spec => []IInv
BY InitIInv, NextIInv, PTL DEF Spec

-----------------------------------------------------------------------------
(* unread_ never overflows, nor does the kernel pipe.                      *)
THEOREM TypeCorrect == Spec => []TypeOK
<1>1. IInv => TypeOK
  BY DEF IInv
<1> QED
  BY <1>1, Invariant, PTL

(* Nobody sleeps over what it waits for.                                   *)
THEOREM WakeupsKept == Spec => []NoLostWakeup
<1>1. IInv => NoLostWakeup
  BY DEF IInv
<1> QED
  BY <1>1, Invariant, PTL

(* Readers and writers do not wait for each other: the kernel pipe that    *)
(* the reader has found empty has room for every message.                  *)
THEOREM NeverStandsStill == Spec => []NoStandstill
<1>1. ASSUME IInv, NEW r \in Reader, NEW w \in Writer, pc[r] = "waiting", pc[w] = "waiting"
      PROVE  FALSE
  <2>1. kernel = <<>> /\ ~ (Len(kernel) + call[w].nbyte <= Capacity)
    BY <1>1 DEF IInv, Drained, NoLostWakeup, Fits
  <2>2. call[w] # None /\ call[w] \in Arguments
    BY <1>1 DEF IInv, TypeOK, Thread
  <2>3. call[w].nbyte \in 1 .. PIPE_BUF /\ PIPE_BUF \in Nat /\ PIPE_BUF <= Capacity /\ Capacity \in Nat
    BY <2>2, SizeAssumption DEF Arguments
  <2>4. Len(kernel) = 0
    BY <2>1, EmptySeq
  <2> QED
    BY <2>1, <2>3, <2>4
<1>2. IInv => NoStandstill
  BY <1>1 DEF NoStandstill
<1> QED
  BY <1>2, Invariant, PTL

(* Every step of the pipe is a step of the stream, or none.                *)
LEMMA StepIsStream ==
  ASSUME IInv, [Next]_vars
  PROVE  [Abstract!Next]_(Abstract!vars)
<1> DEFINE s == unread \o kernel
<1>1. /\ TypeOK /\ unread \in Seq(Byte) /\ kernel \in Seq(Byte) /\ s \in Seq(Byte)
      /\ Len(unread) \in Nat /\ Len(kernel) \in Nat /\ Len(s) = Len(unread) + Len(kernel)
  BY ConcatProperties, LenProperties DEF IInv, TypeOK
<1>2. ASSUME NEW n \in Sizes, n <= Len(s), got' = SubSeq(s, 1, n),
             unread' \o kernel' = SubSeq(s, n + 1, Len(s))
      PROVE  Abstract!Next
  BY <1>2 DEF Abstract!Next, Abstract!Take
<1>3. ASSUME NEW r \in Reader, ReadBuffered(r) PROVE Abstract!Next
  <2> DEFINE n == call[r].nbyte
  <2>1. Holds(r) /\ r \in Thread
    BY <1>3 DEF ReadBuffered, Thread
  <2>2. n \in Sizes /\ n \in Nat
    BY <1>1, <2>1, HoldsIs, SizeAssumption
  <2>3. n \in 0 .. Len(unread)
    BY <1>1, <1>3, <2>2 DEF ReadBuffered, Request
  <2>4. /\ SubSeq(s, 1, n) = SubSeq(unread, 1, n)
        /\ SubSeq(s, n + 1, Len(s)) = SubSeq(unread, n + 1, Len(unread)) \o kernel
    BY <1>1, <2>3, CutFirst
  <2>5. /\ got' = SubSeq(unread, 1, n) /\ unread' = SubSeq(unread, n + 1, Len(unread))
        /\ kernel' = kernel
    BY <1>3 DEF ReadBuffered
  <2>6. n <= Len(s)
    BY <1>1, <2>3
  <2> QED
    BY <1>2, <2>2, <2>4, <2>5, <2>6
<1>4. ASSUME NEW r \in Reader, ReadKernel(r) PROVE Abstract!Next
  <2> DEFINE n == call[r].nbyte
             m == Request(r)
  <2>1. Holds(r) /\ r \in Thread
    BY <1>4 DEF ReadKernel, Thread
  <2>2. n \in Sizes /\ n \in Nat
    BY <1>1, <2>1, HoldsIs, SizeAssumption
  <2>3. m \in 0 .. Len(kernel) /\ n = Len(unread) + m
    <3>1. m > 0 /\ Len(kernel) >= m
      BY <1>4 DEF ReadKernel
    <3>2. m = n - Len(unread)
      BY DEF Request
    <3> HIDE DEF m, n
    <3> QED
      BY <1>1, <2>2, <3>1, <3>2
  <2>4. /\ SubSeq(s, 1, n) = unread \o SubSeq(kernel, 1, m)
        /\ SubSeq(s, n + 1, Len(s)) = SubSeq(kernel, m + 1, Len(kernel))
    <3>1. /\ unread \in Seq(Byte) /\ kernel \in Seq(Byte) /\ m \in 0 .. Len(kernel)
          /\ n = Len(unread) + m
      BY <1>1, <2>3
    <3> HIDE DEF m, n
    <3>2. /\ SubSeq(s, 1, Len(unread) + m) = unread \o SubSeq(kernel, 1, m)
          /\ SubSeq(s, Len(unread) + m + 1, Len(s)) = SubSeq(kernel, m + 1, Len(kernel))
      BY <3>1, CutSecond
    <3> QED
      BY <3>1, <3>2
  <2>5. /\ got' = unread \o SubSeq(kernel, 1, m) /\ unread' = <<>>
        /\ kernel' = SubSeq(kernel, m + 1, Len(kernel))
    BY <1>4 DEF ReadKernel
  <2>6. kernel' \in Seq(Byte)
    BY <1>1, <2>3, <2>5, CutIs
  <2>7. unread' \o kernel' = kernel'
    BY <2>5, <2>6, ConcatEmptySeq
  <2>8. n <= Len(s)
    BY <1>1, <2>3
  <2> QED
    BY <1>2, <2>2, <2>4, <2>5, <2>7, <2>8
<1>5. ASSUME NEW r \in Reader, ReadShort(r) PROVE unread' \o kernel' = s /\ got' = got
  BY <1>1, <1>5, ConcatEmptySeq DEF ReadShort
<1>6. ASSUME NEW w \in Writer, Write(w) PROVE Abstract!Next
  <2> DEFINE msg == Message(w, call[w].nbyte)
  <2>1. Holds(w) /\ w \in Thread /\ kernel' = kernel \o msg /\ unread' = unread /\ got' = got
    BY <1>6 DEF Write, Thread
  <2>2. call[w].nbyte \in Sizes
    BY <1>1, <2>1, HoldsIs
  <2>3. msg \in Seq(Byte) /\ msg \in Messages
    BY <2>2, MessageIs DEF Messages
  <2> HIDE DEF msg
  <2>4. unread' \o kernel' = s \o msg
    BY <1>1, <2>1, <2>3, ConcatAssociative
  <2> QED
    BY <2>1, <2>3, <2>4 DEF Abstract!Next, Abstract!Put
<1>7. ASSUME unread' = unread, kernel' = kernel, got' = got
      PROVE  unread' \o kernel' = s /\ got' = got
  BY <1>7
<1>8. ASSUME unread' \o kernel' = s, got' = got PROVE [Abstract!Next]_(Abstract!vars)
  BY <1>8 DEF Abstract!vars
<1>9. CASE \E r \in Reader : Read(r)
  BY <1>3, <1>4, <1>5, <1>7, <1>8, <1>9 DEF Read, ReadEmpty
<1>10. CASE \E w \in Writer : WriteOne(w)
  BY <1>6, <1>7, <1>8, <1>10 DEF WriteOne, WriteFull
<1>11. CASE \E t \in Thread : Call(t) \/ Wake(t) \/ Expire(t) \/ GiveUp(t) \/ Cancel(t)
  BY <1>7, <1>8, <1>11 DEF Call, Wake, Expire, GiveUp, Cancel
<1>12. CASE UNCHANGED vars
  BY <1>7, <1>8, <1>12 DEF vars
<1> QED
  BY <1>9, <1>10, <1>11, <1>12 DEF Next

(* The pipe implements the stream of bytes.                                *)
THEOREM ImplementsStream == Spec => IsStream
<1>1. Init => Abstract!Init
  BY EmptySeq, ConcatEmptySeq DEF Init, Abstract!Init
<1>2. IInv /\ [Next]_vars => [Abstract!Next]_(Abstract!vars)
  BY StepIsStream
<1> QED
  BY <1>1, <1>2, Invariant, PTL DEF Spec, IsStream, Abstract!Spec
=============================================================================
