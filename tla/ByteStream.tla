----------------------------- MODULE ByteStream -----------------------------
(***************************************************************************)
(* What a Pipe promises to the threads that share it: messages go in whole *)
(* and one after the other, and what a reader gets is the next bytes of    *)
(* the stream, as many as it has asked for, which nobody else gets.        *)
(***************************************************************************)
EXTENDS Integers, Sequences

CONSTANTS Messages, Sizes

VARIABLES
  stream,  \* the bytes that have been written and not been read
  got      \* what a reader got last

vars == <<stream, got>>

Init == stream = <<>> /\ got = <<>>

Put == /\ \E m \in Messages : stream' = stream \o m
       /\ UNCHANGED got

Take == \E n \in Sizes :
          /\ n <= Len(stream)
          /\ got' = SubSeq(stream, 1, n)
          /\ stream' = SubSeq(stream, n + 1, Len(stream))

Next == Put \/ Take

Spec == Init /\ [][Next]_vars
=============================================================================
