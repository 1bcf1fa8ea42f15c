-------------------------------- MODULE Pipe --------------------------------
(***************************************************************************)
(* Pipe (util/common/Pipe.cc), through which the tasks of the mediator and *)
(* of the antenna computer get their messages: a kernel pipe, read and     *)
(* written without blocking by threads that share a mutex, and two         *)
(* condition variables on which they wait to try again. A read that finds  *)
(* too little keeps what it found in unread_, for whoever reads next.      *)
(*                                                                         *)
(* The mutex is only given up while waiting, so that one pass of the loop  *)
(* of read or write is one step, or two after a short read.                *)
(***************************************************************************)
EXTENDS Integers, Sequences

CONSTANTS
  Reader, Writer, \* threads
  Sizes,          \* the lengths of messages, in bytes
  Limits,         \* the timeouts that are used
  PIPE_BUF,       \* the size of unread_, and the longest message
  Capacity,       \* what the kernel holds
  Mortal,         \* the threads that may be cancelled
  None            \* no call

ASSUME ThreadAssumption == Reader \cap Writer = {}
ASSUME SizeAssumption   == /\ PIPE_BUF \in Nat \ {0} /\ Sizes \subseteq 1 .. PIPE_BUF
                           /\ Capacity \in Nat /\ PIPE_BUF <= Capacity
(* PIPE_WAIT, a number of milliseconds, PIPE_NOWAIT                        *)
ASSUME LimitAssumption  == Limits \subseteq {"wait", "limit", "nowait"}
ASSUME NoneAssumption   == None \notin [nbyte : Sizes, timeout : Limits]

VARIABLES
  unread,  \* unread_, of which nread_ is the length
  kernel,  \* the bytes in the kernel pipe
  pc,      \* where each thread is
  call,    \* its arguments: nbyte and timeout
  got      \* the last message that was read

vars == <<unread, kernel, pc, call, got>>

Thread == Reader \cup Writer

(* A byte is known by its message's writer and its place in the message.   *)
Byte          == Writer \X (1 .. PIPE_BUF)
Message(w, n) == [i \in 1 .. n |-> <<w, i>>]
Messages      == {Message(w, n) : w \in Writer, n \in Sizes}

Arguments  == [nbyte : Sizes, timeout : Limits]

Init == /\ unread = <<>> /\ kernel = <<>>
        /\ pc = [t \in Thread |-> "idle"]
        /\ call = [t \in Thread |-> None]
        /\ got = <<>>

-----------------------------------------------------------------------------
(* A thread that is "ready" wants the mutex, at the start of its call or   *)
(* because it has been woken; one that is "inside" has kept it.            *)
Free     == \A t \in Thread : pc[t] # "inside"
Holds(t) == pc[t] = "inside" \/ (pc[t] = "ready" /\ Free)

(* pthread_cond_broadcast, for the threads T, with t going to its place.   *)
Woken(T)       == [u \in Thread |-> IF u \in T /\ pc[u] = "waiting" THEN "ready" ELSE pc[u]]
Goes(t, at, T) == pc' = [Woken(T) EXCEPT ![t] = at]

Returns(t, T) == Goes(t, "idle", T) /\ call' = [call EXCEPT ![t] = None]

(* The kernel would have blocked: wait, or return PIPE_BUSY.               *)
Blocked(t) == IF call[t].timeout = "nowait" THEN Returns(t, {})
              ELSE Goes(t, "waiting", {}) /\ UNCHANGED call

Call(t) ==
  /\ pc[t] = "idle"
  /\ Goes(t, "ready", {})
  /\ \E a \in Arguments : call' = [call EXCEPT ![t] = a]
  /\ UNCHANGED <<unread, kernel, got>>

-----------------------------------------------------------------------------
(* Mutant: what is there already is not subtracted.                        *)
Request_All(r) == IF Len(unread) >= call[r].nbyte THEN 0 ELSE call[r].nbyte

(* The bytes that have yet to be read for a reader.                        *)
Request(r) == call[r].nbyte - Len(unread)

(* There is enough in unread_ ...                                          *)
ReadBuffered(r) ==
  /\ Holds(r) /\ Request(r) <= 0
  /\ got' = SubSeq(unread, 1, call[r].nbyte)
  /\ unread' = SubSeq(unread, call[r].nbyte + 1, Len(unread))
  /\ Returns(r, {})
  /\ UNCHANGED kernel

(* Mutant: the bytes of the kernel come first.                             *)
ReadKernel_First(r) ==
  /\ Holds(r) /\ Request(r) > 0 /\ Len(kernel) >= Request(r)
  /\ got' = SubSeq(kernel, 1, Request(r)) \o unread
  /\ unread' = <<>>
  /\ kernel' = SubSeq(kernel, Request(r) + 1, Len(kernel))
  /\ Returns(r, Writer)

(* ... or the kernel has the rest ...                                      *)
ReadKernel(r) ==
  /\ Holds(r) /\ Request(r) > 0 /\ Len(kernel) >= Request(r)
  /\ got' = unread \o SubSeq(kernel, 1, Request(r))
  /\ unread' = <<>>
  /\ kernel' = SubSeq(kernel, Request(r) + 1, Len(kernel))
  /\ Returns(r, Writer)

(* Mutant: the writers are not told of the room.                           *)
ReadShort_Silent(r) ==
  /\ Holds(r) /\ Request(r) > Len(kernel) /\ kernel # <<>>
  /\ unread' = unread \o kernel /\ kernel' = <<>>
  /\ IF call[r].timeout = "nowait" THEN Returns(r, Reader)
     ELSE Goes(r, "inside", Reader) /\ UNCHANGED call
  /\ UNCHANGED got

(* ... or has less, which is kept, and everybody tries again ...           *)
ReadShort(r) ==
  /\ Holds(r) /\ Request(r) > Len(kernel) /\ kernel # <<>>
  /\ unread' = unread \o kernel /\ kernel' = <<>>
  /\ IF call[r].timeout = "nowait" THEN Returns(r, Thread)
     ELSE Goes(r, "inside", Thread) /\ UNCHANGED call
  /\ UNCHANGED got

(* ... or nothing.                                                         *)
ReadEmpty(r) ==
  /\ Holds(r) /\ Request(r) > 0 /\ kernel = <<>>
  /\ Blocked(r)
  /\ UNCHANGED <<unread, kernel, got>>

-----------------------------------------------------------------------------
(* POSIX: a write of up to PIPE_BUF bytes is all or nothing.               *)
Fits(w) == Len(kernel) + call[w].nbyte <= Capacity

(* Mutant: one reader is woken.                                            *)
Write_Signal(w) ==
  /\ Holds(w) /\ Fits(w)
  /\ kernel' = kernel \o Message(w, call[w].nbyte)
  /\ LET Asleep == {r \in Reader : pc[r] = "waiting"}
     IN Returns(w, IF Asleep = {} THEN {} ELSE {CHOOSE r \in Asleep : TRUE})
  /\ UNCHANGED <<unread, got>>

Write(w) ==
  /\ Holds(w) /\ Fits(w)
  /\ kernel' = kernel \o Message(w, call[w].nbyte)
  /\ Returns(w, Reader)
  /\ UNCHANGED <<unread, got>>

WriteFull(w) ==
  /\ Holds(w) /\ ~Fits(w)
  /\ Blocked(w)
  /\ UNCHANGED <<unread, kernel, got>>

-----------------------------------------------------------------------------
(* pthread_cond_wait may return without a reason.                          *)
Wake(t) ==
  /\ pc[t] = "waiting"
  /\ Goes(t, "ready", {})
  /\ UNCHANGED <<unread, kernel, call, got>>

(* pthread_cond_timedwait gives up, and the call without another try.      *)
Expire(t) ==
  /\ pc[t] = "waiting" /\ call[t].timeout = "limit"
  /\ Goes(t, "expired", {})
  /\ UNCHANGED <<unread, kernel, call, got>>

GiveUp(t) ==
  /\ pc[t] = "expired" /\ Free
  /\ Returns(t, {})
  /\ UNCHANGED <<unread, kernel, got>>

(* A thread is cancelled when it waits or accesses the kernel, and its     *)
(* cleanup handler unlocks the mutex.                                      *)
Cancel(t) ==
  /\ t \in Mortal /\ pc[t] \in {"ready", "waiting", "inside"}
  /\ pc[t] # "inside" => Free
  /\ Goes(t, "cancelled", {})
  /\ call' = [call EXCEPT ![t] = None]
  /\ UNCHANGED <<unread, kernel, got>>

Read(r)     == ReadBuffered(r) \/ ReadKernel(r) \/ ReadShort(r) \/ ReadEmpty(r)
WriteOne(w) == Write(w) \/ WriteFull(w)

Next == \/ \E r \in Reader : Read(r)
        \/ \E w \in Writer : WriteOne(w)
        \/ \E t \in Thread : Call(t) \/ Wake(t) \/ Expire(t) \/ GiveUp(t) \/ Cancel(t)

Spec == Init /\ [][Next]_vars

-----------------------------------------------------------------------------
(* Type correctness: in particular unread_ never overflows.                *)
TypeOK ==
  /\ unread \in Seq(Byte) /\ Len(unread) < PIPE_BUF
  /\ kernel \in Seq(Byte) /\ Len(kernel) <= Capacity
  /\ pc \in [Thread -> {"idle", "ready", "inside", "waiting", "expired", "cancelled"}]
  /\ call \in [Thread -> Arguments \cup {None}]
  /\ \A t \in Thread : call[t] = None <=> pc[t] \in {"idle", "cancelled"}
  /\ got \in Seq(Byte)

(* Nobody sleeps over what it waits for, whatever sizes the others read    *)
(* and write, and whoever has timed out or been cancelled in between: a    *)
(* reader waits for want of bytes in unread_ and the kernel together, a    *)
(* writer for want of room (the broadcasts of Pipe.cc:270, 348, 349, 689). *)
NoLostWakeup ==
  /\ \A r \in Reader : pc[r] = "waiting" => Len(unread) + Len(kernel) < call[r].nbyte
  /\ \A w \in Writer : pc[w] = "waiting" => ~Fits(w)

(* Readers and writers never wait for each other: when a reader waits, the *)
(* kernel pipe is empty, since a short read takes all there is out of it.  *)
NoStandstill ==
  ~ \E r \in Reader, w \in Writer : pc[r] = "waiting" /\ pc[w] = "waiting"

(* The pipe is a stream of bytes, the part in unread_ first.               *)
Abstract == INSTANCE ByteStream WITH stream <- unread \o kernel
IsStream == Abstract!Spec
=============================================================================
