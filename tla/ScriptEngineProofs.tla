------------------------- MODULE ScriptEngineProofs -------------------------
(***************************************************************************)
(* What holds of the script engine for every well-formed program. The      *)
(* handlers are compositions of operators on the state S of the script:    *)
(* "Good" is the invariant as a predicate on S, and there is a lemma for   *)
(* each operator.                                                          *)
(***************************************************************************)
EXTENDS ScriptEngine, SequenceTheorems, WellFoundedInduction, TLAPS

(* The part of the invariant that is about frames.                         *)
Framed(S) ==
  \A i \in 1 .. Depth(S) :
    /\ S.stack[i].pos <= Len(Text.block[S.stack[i].block])
    /\ S.stack[i].iteration <= Stmt(S.stack[i]).times
    /\ S.stack[i].next # "FINISH" => S.stack[i].iteration < Stmt(S.stack[i]).times

(* Blocks are entered from the outside inwards, so none is there twice.    *)
Deepens(S) ==
  \A i, j \in 1 .. Depth(S) :
    i < j => Text.depth[S.stack[i].block] < Text.depth[S.stack[j].block]

Linked(S) ==
  \A i \in 1 .. Depth(S) :
    i < Depth(S) =>
       /\ S.stack[i].next # "START"
       /\ S.stack[i + 1].block \in {Stmt(S.stack[i]).body, Stmt(S.stack[i]).action}

(* Where a break may stand there is a loop around, or an exit handler that *)
(* was written inside of one is at the bottom.                             *)
Enclosed(S) ==
  \A i \in 1 .. Depth(S) :
    S.stack[i].block \in Text.looped =>
      \/ S.stack[1].block \in Text.looped
      \/ \E j \in 1 .. Depth(S) : j < i /\ Stmt(S.stack[j]).kind \in Loops

Watches(S, i) ==
  /\ Stmt(S.stack[i]).kind = "catch"
  /\ S.stack[i].next = "FINISH"
  /\ i < Depth(S) => S.stack[i + 1].block = Stmt(S.stack[i]).body

Listed(S) ==
  /\ \A x \in S.on : \E i \in 1 .. Depth(S) : Id(S.stack[i]) = x /\ Watches(S, i)
  /\ \A i \in 1 .. Depth(S) : i < Depth(S) /\ Watches(S, i) => Id(S.stack[i]) \in S.on

InOrder(S) ==
  /\ S.ahead \subseteq S.on \X S.on
  /\ \A i, j \in 1 .. Depth(S) :
       Id(S.stack[i]) \in S.on /\ Id(S.stack[j]) \in S.on =>
         (<<Id(S.stack[i]), Id(S.stack[j])>> \in S.ahead <=> i < j)

Good(S) == /\ S \in ScriptType
           /\ Framed(S) /\ Deepens(S) /\ Linked(S) /\ Enclosed(S) /\ Listed(S) /\ InOrder(S)

(* A script is loaded.                                                     *)
Loaded == prog \in Scripts

-----------------------------------------------------------------------------
(* The programs.                                                           *)

LEMMA ProgramIs ==
  ASSUME Loaded
  PROVE  Parsed(Text)
BY ProgramAssumption DEF Loaded, Text

(* A frame stands at a statement.                                          *)
LEMMA StatementIs ==
  ASSUME Loaded, NEW f \in Frame, f.pos <= Len(Text.block[f.block])
  PROVE  /\ Stmt(f) \in Statement
         /\ f.pos \in DOMAIN Text.block[f.block]
         /\ Id(f) \in StatementId
<1>1. Text.block \in [Block -> Seq(Statement)]
  BY ProgramIs DEF Parsed
<1>2. f.block \in Block /\ f.pos \in Nat \ {0}
  BY DEF Frame
<1>3. Text.block[f.block] \in Seq(Statement)
  BY <1>1, <1>2
<1>4. f.pos \in 1 .. Len(Text.block[f.block])
  BY <1>2, <1>3
<1> QED
  BY <1>2, <1>3, <1>4 DEF Stmt, Id, StatementId

LEMMA FrameIs ==
  ASSUME Loaded, NEW S, Good(S), NEW i \in 1 .. Depth(S)
  PROVE  /\ S.stack[i] \in Frame
         /\ S.stack[i].block \in Block
         /\ S.stack[i].pos \in Nat \ {0}
         /\ S.stack[i].iteration \in Nat
         /\ S.stack[i].next \in {"START", "REPEAT", "FINISH"}
         /\ S.stack[i].pos \in DOMAIN Text.block[S.stack[i].block]
         /\ Stmt(S.stack[i]) \in Statement
         /\ Id(S.stack[i]) \in StatementId
<1>1. S.stack \in Seq(Frame)
  BY DEF Good, ScriptType
<1>2. S.stack[i] \in Frame
  BY <1>1 DEF Depth
<1>3. S.stack[i].pos <= Len(Text.block[S.stack[i].block])
  BY DEF Good, Framed
<1>4. Stmt(S.stack[i]) \in Statement /\ Id(S.stack[i]) \in StatementId
        /\ S.stack[i].pos \in DOMAIN Text.block[S.stack[i].block]
  BY <1>2, <1>3, StatementIs
<1> QED
  BY <1>2, <1>4 DEF Frame

(* What the parser guarantees of the statement of a frame.                 *)
LEMMA TextIs ==
  ASSUME Loaded, NEW S, Good(S), NEW i \in 1 .. Depth(S),
         NEW c \in {Stmt(S.stack[i]).body, Stmt(S.stack[i]).action}, c # None
  PROVE  /\ c \in Block
         /\ Text.depth[S.stack[i].block] < Text.depth[c]
         /\ c \notin {Text.main, Text.cleanup}
         /\ c \in Text.looped =>
              Stmt(S.stack[i]).kind \in Loops \/ S.stack[i].block \in Text.looped
<1>1. S.stack[i].block \in Block /\ S.stack[i].pos \in DOMAIN Text.block[S.stack[i].block]
        /\ Stmt(S.stack[i]) \in Statement
  BY FrameIs
<1>2. c \in Block
  BY <1>1 DEF Statement, BlockOrNone
<1> QED
  BY <1>1, <1>2, ProgramIs DEF Parsed, Stmt

LEMMA DepthIs ==
  ASSUME Loaded
  PROVE  \A b \in Block : Text.depth[b] \in Nat
BY ProgramIs DEF Parsed

(* No statement is on the stack twice.                                     *)
LEMMA OnceOnStack ==
  ASSUME Loaded, NEW S, Good(S), NEW i \in 1 .. Depth(S), NEW j \in 1 .. Depth(S),
         S.stack[i].block = S.stack[j].block
  PROVE  i = j
<1>1. Text.depth[S.stack[i].block] \in Nat
  BY FrameIs, DepthIs
<1>2. ~(i < j) /\ ~(j < i)
  BY <1>1 DEF Good, Deepens
<1> QED
  BY <1>2

LEMMA OnceId ==
  ASSUME Loaded, NEW S, Good(S), NEW i \in 1 .. Depth(S), NEW j \in 1 .. Depth(S),
         Id(S.stack[i]) = Id(S.stack[j])
  PROVE  i = j
BY OnceOnStack DEF Id

-----------------------------------------------------------------------------
(* The innermost of a set of frames.                                       *)

LEMMA Lowest ==
  ASSUME NEW I \in SUBSET Nat, I # {}
  PROVE  \E i \in I : \A j \in I : i <= j
<1>1. \E x \in I : \A y \in I : ~ (<<y, x>> \in OpToRel(<, Nat))
  BY NatLessThanWellFounded, WFMin
<1>2. PICK x \in I : \A y \in I : ~ (<<y, x>> \in OpToRel(<, Nat))
  BY <1>1
<1>3. ASSUME NEW y \in I PROVE x <= y
  <2>1. x \in Nat /\ y \in Nat
    OBVIOUS
  <2>2. <<y, x>> \in OpToRel(<, Nat) <=> y < x
    BY <2>1 DEF OpToRel
  <2>3. ~(y < x)
    BY <2>2, <1>2
  <2> QED
    BY ONLY <2>1, <2>3, SMT
<1> QED
  BY <1>3

LEMMA InnermostIs ==
  ASSUME NEW n \in Nat, NEW I \in SUBSET (1 .. n), I # {}
  PROVE  Innermost(I) \in I /\ \A j \in I : j <= Innermost(I)
<1> DEFINE J == {n - i : i \in I}
<1>0. \A i \in I : i \in 1 .. n
  OBVIOUS
<1>1. J \in SUBSET Nat /\ J # {}
  <2>1. \A i \in I : n - i \in Nat
    BY <1>0
  <2> QED
    BY <2>1
<1>2. PICK k \in J : \A j \in J : k <= j
  BY <1>1, Lowest
<1>3. PICK m \in I : k = n - m
  BY <1>2
<1>4. ASSUME NEW j \in I PROVE j <= m
  <2>1. n - j \in J
    OBVIOUS
  <2>2. k <= n - j
    BY <2>1, <1>2
  <2> HIDE DEF J
  <2> QED
    BY <2>2, <1>3, <1>0
<1> QED
  BY <1>4 DEF Innermost

-----------------------------------------------------------------------------
(* The operators, field by field.                                          *)

LEMMA UnwatchIs ==
  ASSUME NEW S \in ScriptType, NEW X
  PROVE  /\ Unwatch(S, X) \in ScriptType
         /\ Unwatch(S, X).stack = S.stack
         /\ Unwatch(S, X).on = S.on \ X
         /\ Unwatch(S, X).ahead = {p \in S.ahead : p[1] \notin X /\ p[2] \notin X}
         /\ Unwatch(S, X).state = S.state /\ Unwatch(S, X).why = S.why
BY DEF Unwatch, ScriptType

(* The statements that are ended with the frames above n.                  *)
Left(S, n) == {Id(S.stack[i]) : i \in {j \in n + 1 .. Depth(S) : S.stack[j].next # "START"}}

LEMMA PopIs ==
  ASSUME NEW S \in ScriptType, NEW n \in 0 .. Depth(S)
  PROVE  /\ Pop(S, n) \in ScriptType
         /\ Depth(Pop(S, n)) = n
         /\ \A i \in 1 .. n : Pop(S, n).stack[i] = S.stack[i]
         /\ Pop(S, n).on = S.on \ Left(S, n)
         /\ Pop(S, n).ahead = {p \in S.ahead : p[1] \notin Left(S, n) /\ p[2] \notin Left(S, n)}
         /\ Pop(S, n).state = S.state /\ Pop(S, n).why = S.why
<1> DEFINE T == Unwatch(S, Left(S, n))
<1>1. Pop(S, n) = [T EXCEPT !.stack = SubSeq(@, 1, n)]
  BY DEF Pop, Left
<1>2. /\ T \in ScriptType /\ T.stack = S.stack
      /\ T.on = S.on \ Left(S, n)
      /\ T.ahead = {p \in S.ahead : p[1] \notin Left(S, n) /\ p[2] \notin Left(S, n)}
      /\ T.state = S.state /\ T.why = S.why
  BY UnwatchIs
<1> HIDE DEF T
<1>3. S.stack \in Seq(Frame) /\ Len(S.stack) \in Nat /\ n \in Int /\ n <= Len(S.stack)
  BY DEF ScriptType, Depth
<1>4. \A i \in 1 .. n : S.stack[i] \in Frame
  BY <1>3
<1>5. /\ SubSeq(S.stack, 1, n) \in Seq(Frame)
      /\ Len(SubSeq(S.stack, 1, n)) = n
      /\ \A i \in 1 .. n : SubSeq(S.stack, 1, n)[i] = S.stack[i]
  BY <1>3, <1>4, SubSeqProperties
<1>6. Pop(S, n) \in ScriptType /\ Pop(S, n).stack = SubSeq(S.stack, 1, n)
        /\ Pop(S, n).on = T.on /\ Pop(S, n).ahead = T.ahead
        /\ Pop(S, n).state = T.state /\ Pop(S, n).why = T.why
  BY <1>1, <1>2, <1>5 DEF ScriptType
<1> QED
  BY <1>2, <1>5, <1>6 DEF Depth

NewFrame(b) == [block |-> b, pos |-> 1, next |-> "START", iteration |-> 0]

LEMMA PushIs ==
  ASSUME Loaded, NEW S \in ScriptType, NEW b \in BlockOrNone
  PROVE  \/ Push(S, b) = S
         \/ /\ b \in Block /\ Push(S, b) \in ScriptType
            /\ 1 <= Len(Text.block[b])
            /\ Depth(Push(S, b)) = Depth(S) + 1
            /\ \A i \in 1 .. Depth(S) : Push(S, b).stack[i] = S.stack[i]
            /\ Push(S, b).stack[Depth(S) + 1] = NewFrame(b)
            /\ Push(S, b).on = S.on /\ Push(S, b).ahead = S.ahead
            /\ Push(S, b).state = S.state /\ Push(S, b).why = S.why
<1>1. CASE b = None \/ Text.block[b] = <<>>
  BY <1>1 DEF Push
<1>2. CASE b # None /\ Text.block[b] # <<>>
  <2>1. b \in Block
    BY <1>2 DEF BlockOrNone
  <2>2. Text.block[b] \in Seq(Statement)
    BY <2>1, ProgramIs DEF Parsed
  <2>3. 1 <= Len(Text.block[b])
    BY <2>2, <1>2, EmptySeq
  <2>4. NewFrame(b) \in Frame
    BY <2>1 DEF NewFrame, Frame
  <2>5. S.stack \in Seq(Frame)
    BY DEF ScriptType
  <2>6. Push(S, b) = [S EXCEPT !.stack = Append(@, NewFrame(b))]
    BY <1>2 DEF Push, NewFrame
  <2>7. /\ Append(S.stack, NewFrame(b)) \in Seq(Frame)
        /\ Len(Append(S.stack, NewFrame(b))) = Len(S.stack) + 1
        /\ \A i \in 1 .. Len(S.stack) : Append(S.stack, NewFrame(b))[i] = S.stack[i]
        /\ Append(S.stack, NewFrame(b))[Len(S.stack) + 1] = NewFrame(b)
    BY <2>4, <2>5, AppendProperties
  <2>8. Push(S, b) \in ScriptType /\ Push(S, b).stack = Append(S.stack, NewFrame(b))
          /\ Push(S, b).on = S.on /\ Push(S, b).ahead = S.ahead
          /\ Push(S, b).state = S.state /\ Push(S, b).why = S.why
    BY <2>6, <2>7 DEF ScriptType
  <2> QED
    BY <2>1, <2>3, <2>7, <2>8 DEF Depth
<1> QED
  BY <1>1, <1>2

(* A frame on top is replaced.                                             *)
PutTop(S, f) == [S EXCEPT !.stack = [S.stack EXCEPT ![Depth(S)] = f]]

LEMMA TopIs ==
  ASSUME NEW S \in ScriptType, Depth(S) > 0, NEW f \in Frame
  PROVE  /\ PutTop(S, f) \in ScriptType
         /\ Depth(PutTop(S, f)) = Depth(S)
         /\ \A i \in 1 .. Depth(S) : i # Depth(S) => PutTop(S, f).stack[i] = S.stack[i]
         /\ PutTop(S, f).stack[Depth(S)] = f
         /\ PutTop(S, f).on = S.on /\ PutTop(S, f).ahead = S.ahead
         /\ PutTop(S, f).state = S.state /\ PutTop(S, f).why = S.why
<1> DEFINE T == PutTop(S, f)
<1>0. T = [S EXCEPT !.stack = [S.stack EXCEPT ![Depth(S)] = f]]
  BY DEF PutTop
<1> HIDE DEF T
<1>1. S.stack \in Seq(Frame) /\ Depth(S) \in 1 .. Len(S.stack)
  BY DEF ScriptType, Depth
<1>2. /\ [S.stack EXCEPT ![Depth(S)] = f] \in Seq(Frame)
      /\ Len([S.stack EXCEPT ![Depth(S)] = f]) = Len(S.stack)
      /\ \A j \in 1 .. Len(S.stack) :
           [S.stack EXCEPT ![Depth(S)] = f][j] = IF j = Depth(S) THEN f ELSE S.stack[j]
  BY <1>1, ExceptSeq
<1>3. T \in ScriptType /\ T.stack = [S.stack EXCEPT ![Depth(S)] = f]
        /\ T.on = S.on /\ T.ahead = S.ahead /\ T.state = S.state /\ T.why = S.why
  BY <1>0, <1>2 DEF ScriptType
<1> QED
  BY <1>1, <1>2, <1>3 DEF Depth, T

LEMMA MarkIs ==
  ASSUME NEW S \in ScriptType, Depth(S) > 0, NEW next \in {"REPEAT", "FINISH"}
  PROVE  /\ Mark(S, next) \in ScriptType
         /\ Depth(Mark(S, next)) = Depth(S)
         /\ \A i \in 1 .. Depth(S) : i # Depth(S) => Mark(S, next).stack[i] = S.stack[i]
         /\ Mark(S, next).stack[Depth(S)] = [S.stack[Depth(S)] EXCEPT !.next = next]
         /\ Mark(S, next).on = S.on /\ Mark(S, next).ahead = S.ahead
         /\ Mark(S, next).state = S.state /\ Mark(S, next).why = S.why
<1> DEFINE f == [S.stack[Depth(S)] EXCEPT !.next = next]
<1>1. S.stack[Depth(S)] \in Frame
  BY DEF ScriptType, Depth
<1>2. f \in Frame
  BY <1>1 DEF Frame
<1>3. Mark(S, next) = PutTop(S, f)
  BY DEF Mark, Depth, PutTop
<1> HIDE DEF f
<1>4. /\ Mark(S, next) \in ScriptType
      /\ Depth(Mark(S, next)) = Depth(S)
      /\ \A i \in 1 .. Depth(S) : i # Depth(S) => Mark(S, next).stack[i] = S.stack[i]
      /\ Mark(S, next).stack[Depth(S)] = f
      /\ Mark(S, next).on = S.on /\ Mark(S, next).ahead = S.ahead
      /\ Mark(S, next).state = S.state /\ Mark(S, next).why = S.why
  BY <1>2, <1>3, TopIs
<1> QED
  BY <1>4 DEF f

-----------------------------------------------------------------------------
(* The operators keep the invariant.                                       *)

LEMMA PopGood ==
  ASSUME Loaded, NEW S, Good(S), NEW n \in 0 .. Depth(S)
  PROVE  Good(Pop(S, n))
<1> DEFINE T == Pop(S, n)
<1>1. S \in ScriptType /\ Depth(S) \in Nat
  BY DEF Good, ScriptType, Depth
<1>2. /\ T \in ScriptType /\ Depth(T) = n
      /\ \A i \in 1 .. n : T.stack[i] = S.stack[i]
      /\ T.on = S.on \ Left(S, n)
      /\ T.ahead = {p \in S.ahead : p[1] \notin Left(S, n) /\ p[2] \notin Left(S, n)}
  BY <1>1, PopIs
<1> HIDE DEF T
<1>3. n \in Nat /\ n <= Depth(S) /\ \A i \in 1 .. n : i \in 1 .. Depth(S)
  BY <1>1
<1>4. Framed(T)
  BY <1>2, <1>3 DEF Good, Framed
<1>5. Deepens(T)
  BY <1>2, <1>3 DEF Good, Deepens
<1>6. Linked(T)
  <2> SUFFICES ASSUME NEW i \in 1 .. n, i < n
               PROVE  /\ T.stack[i].next # "START"
                      /\ T.stack[i + 1].block \in {Stmt(T.stack[i]).body, Stmt(T.stack[i]).action}
    BY <1>2 DEF Linked
  <2>1. i + 1 \in 1 .. n /\ i \in 1 .. Depth(S) /\ i < Depth(S)
    BY <1>1, <1>3
  <2>2. T.stack[i] = S.stack[i] /\ T.stack[i + 1] = S.stack[i + 1]
    BY <2>1, <1>2
  <2>3. /\ S.stack[i].next # "START"
        /\ S.stack[i + 1].block \in {Stmt(S.stack[i]).body, Stmt(S.stack[i]).action}
    BY <2>1 DEF Good, Linked
  <2> QED
    BY <2>2, <2>3
<1>7. Enclosed(T)
  <2> SUFFICES ASSUME NEW i \in 1 .. n, T.stack[i].block \in Text.looped,
                      T.stack[1].block \notin Text.looped
               PROVE  \E j \in 1 .. n : j < i /\ Stmt(T.stack[j]).kind \in Loops
    BY <1>2 DEF Enclosed
  <2>0. 1 \in 1 .. n
    BY <1>3
  <2>1. PICK j \in 1 .. Depth(S) : j < i /\ Stmt(S.stack[j]).kind \in Loops
    BY <2>0, <1>2, <1>3 DEF Good, Enclosed
  <2> QED
    BY <2>1, <1>2, <1>3
<1>8. ASSUME NEW i \in 1 .. n, Id(S.stack[i]) \in Left(S, n)
      PROVE  FALSE
  <2>1. PICK j \in n + 1 .. Depth(S) : Id(S.stack[i]) = Id(S.stack[j])
    BY <1>8 DEF Left
  <2>2. i \in 1 .. Depth(S) /\ j \in 1 .. Depth(S) /\ i # j
    BY <1>3, <2>1
  <2> QED
    BY <2>1, <2>2, OnceId
<1>9. Listed(T)
  <2>1. ASSUME NEW x \in T.on
        PROVE  \E i \in 1 .. n : Id(T.stack[i]) = x /\ Watches(T, i)
    <3>1. PICK i \in 1 .. Depth(S) : Id(S.stack[i]) = x /\ Watches(S, i)
      BY <2>1, <1>2 DEF Good, Listed
    <3>2. S.stack[i].next # "START"
      BY <3>1 DEF Watches
    <3>3. i <= n
      BY <3>1, <3>2, <1>2, <2>1, <1>1, <1>3 DEF Left
    <3>4. i \in 1 .. n
      BY <3>3, <1>3
    <3>5. Watches(T, i)
      <4>1. i < n => i + 1 \in 1 .. n /\ i < Depth(S)
        BY <3>4, <1>1, <1>3
      <4>2. T.stack[i] = S.stack[i] /\ (i < n => T.stack[i + 1] = S.stack[i + 1])
        BY <4>1, <3>4, <1>2
      <4>3. i < n => S.stack[i + 1].block = Stmt(S.stack[i]).body
        BY <4>1, <3>1 DEF Watches
      <4> QED
        BY <4>2, <4>3, <3>1, <1>2 DEF Watches
    <3> QED
      BY <3>1, <3>4, <3>5, <1>2
  <2>2. ASSUME NEW i \in 1 .. n, i < n, Watches(T, i)
        PROVE  Id(T.stack[i]) \in T.on
    <3>1. i \in 1 .. Depth(S) /\ i < Depth(S) /\ i + 1 \in 1 .. n
      BY <2>2, <1>1, <1>3
    <3>2. Watches(S, i)
      <4>1. T.stack[i] = S.stack[i] /\ T.stack[i + 1] = S.stack[i + 1]
        BY <3>1, <1>2
      <4>2. T.stack[i + 1].block = Stmt(T.stack[i]).body
        BY <2>2, <1>2 DEF Watches
      <4> QED
        BY <4>1, <4>2, <2>2 DEF Watches
    <3>3. Id(S.stack[i]) \in S.on
      BY <3>1, <3>2 DEF Good, Listed
    <3> QED
      BY <3>3, <1>8, <1>2
  <2> QED
    BY <2>1, <2>2, <1>2 DEF Listed
<1>10. InOrder(T)
  <2>0. T.ahead \subseteq T.on \X T.on
    BY <1>2 DEF Good, InOrder
  <2> SUFFICES ASSUME NEW i \in 1 .. n, NEW j \in 1 .. n,
                      Id(T.stack[i]) \in T.on, Id(T.stack[j]) \in T.on
               PROVE  <<Id(T.stack[i]), Id(T.stack[j])>> \in T.ahead <=> i < j
    BY <1>2, <2>0 DEF InOrder
  <2>1. Id(T.stack[i]) = Id(S.stack[i]) /\ Id(T.stack[j]) = Id(S.stack[j])
    BY <1>2
  <2>2. <<Id(S.stack[i]), Id(S.stack[j])>> \in S.ahead <=> i < j
    BY <2>1, <1>2, <1>3 DEF Good, InOrder
  <2> QED
    BY <2>1, <2>2, <1>8, <1>2
<1> QED
  BY <1>2, <1>4, <1>5, <1>6, <1>7, <1>9, <1>10 DEF Good, T

(* The frame on top is replaced with one of the same block.                *)
LEMMA TopGood ==
  ASSUME Loaded, NEW S, Good(S), Depth(S) > 0,
         NEW f \in Frame, f.block = S.stack[Depth(S)].block,
         f.pos <= Len(Text.block[f.block]), f.iteration <= Stmt(f).times,
         f.next # "FINISH" => f.iteration < Stmt(f).times,
         Id(S.stack[Depth(S)]) \in S.on => f.pos = S.stack[Depth(S)].pos /\ f.next = "FINISH"
  PROVE  Good(PutTop(S, f))
<1> DEFINE T == PutTop(S, f)
           d == Depth(S)
<1>1. S \in ScriptType /\ d \in Nat /\ d > 0 /\ d \in 1 .. d
  BY DEF Good, ScriptType, Depth
<1>2. /\ T \in ScriptType /\ Depth(T) = d
      /\ \A i \in 1 .. d : i # d => T.stack[i] = S.stack[i]
      /\ T.stack[d] = f
      /\ T.on = S.on /\ T.ahead = S.ahead
  BY <1>1, TopIs
<1> HIDE DEF T
<1>3. \A i \in 1 .. d : T.stack[i].block = S.stack[i].block
  BY <1>2
<1>4. \A i \in 1 .. d : i < d => T.stack[i] = S.stack[i] /\ i + 1 \in 1 .. d
  BY <1>1, <1>2
<1>5. \A i \in 1 .. d : Id(T.stack[i]) \in S.on =>
        Id(T.stack[i]) = Id(S.stack[i]) /\ (i = d => f.pos = S.stack[d].pos /\ f.next = "FINISH")
  <2> SUFFICES ASSUME NEW i \in 1 .. d, Id(T.stack[i]) \in S.on
               PROVE  Id(T.stack[i]) = Id(S.stack[i])
                        /\ (i = d => f.pos = S.stack[d].pos /\ f.next = "FINISH")
    OBVIOUS
  <2>1. CASE i # d
    BY <2>1, <1>2
  <2>2. CASE i = d
    <3>1. PICK j \in 1 .. d : Id(S.stack[j]) = Id(f)
      BY <2>2, <1>2 DEF Good, Listed
    <3>2. S.stack[j].block = S.stack[d].block
      BY <3>1 DEF Id
    <3>3. j = d
      BY <3>2, <1>1, OnceOnStack
    <3>4. Id(S.stack[d]) \in S.on
      BY <3>1, <3>3, <2>2, <1>2
    <3> QED
      BY <3>1, <3>3, <3>4, <2>2, <1>2
  <2> QED
    BY <2>1, <2>2
<1>6. Framed(T)
  BY <1>2 DEF Good, Framed
<1>7. Deepens(T)
  BY <1>2, <1>3 DEF Good, Deepens
<1>8. Linked(T)
  <2> SUFFICES ASSUME NEW i \in 1 .. d, i < d
               PROVE  /\ T.stack[i].next # "START"
                      /\ T.stack[i + 1].block \in {Stmt(T.stack[i]).body, Stmt(T.stack[i]).action}
    BY <1>2 DEF Linked
  <2>1. T.stack[i] = S.stack[i] /\ T.stack[i + 1].block = S.stack[i + 1].block
    BY <1>3, <1>4
  <2>2. /\ S.stack[i].next # "START"
        /\ S.stack[i + 1].block \in {Stmt(S.stack[i]).body, Stmt(S.stack[i]).action}
    BY DEF Good, Linked
  <2> QED
    BY <2>1, <2>2
<1>9. Enclosed(T)
  <2> SUFFICES ASSUME NEW i \in 1 .. d, T.stack[i].block \in Text.looped,
                      T.stack[1].block \notin Text.looped
               PROVE  \E j \in 1 .. d : j < i /\ Stmt(T.stack[j]).kind \in Loops
    BY <1>2 DEF Enclosed
  <2>0. 1 \in 1 .. d
    BY <1>1
  <2>1. PICK j \in 1 .. d : j < i /\ Stmt(S.stack[j]).kind \in Loops
    BY <2>0, <1>3 DEF Good, Enclosed
  <2>2. j < d
    BY <2>1, <1>1
  <2> QED
    BY <2>1, <2>2, <1>4
<1>10. Listed(T)
  <2>1. ASSUME NEW x \in T.on
        PROVE  \E i \in 1 .. d : Id(T.stack[i]) = x /\ Watches(T, i)
    <3>1. PICK i \in 1 .. d : Id(S.stack[i]) = x /\ Watches(S, i)
      BY <2>1, <1>2 DEF Good, Listed
    <3>2. CASE i < d
      <4>1. T.stack[i] = S.stack[i] /\ T.stack[i + 1].block = S.stack[i + 1].block
        BY <3>2, <1>3, <1>4
      <4> QED
        BY <4>1, <3>1, <1>2 DEF Watches
    <3>3. CASE i = d
      <4>1. f.pos = S.stack[d].pos /\ f.next = "FINISH"
        BY <3>1, <3>3, <2>1, <1>2
      <4>2. Id(f) = Id(S.stack[d]) /\ Stmt(f) = Stmt(S.stack[d])
        BY <4>1 DEF Id, Stmt
      <4>3. Stmt(f).kind = "catch"
        BY <4>2, <3>1, <3>3 DEF Watches
      <4> QED
        BY <4>1, <4>2, <4>3, <3>1, <3>3, <1>1, <1>2 DEF Watches
    <3> QED
      BY <3>2, <3>3, <1>1
  <2>2. ASSUME NEW i \in 1 .. d, i < d, Watches(T, i)
        PROVE  Id(T.stack[i]) \in T.on
    <3>1. T.stack[i] = S.stack[i] /\ T.stack[i + 1].block = S.stack[i + 1].block
      BY <2>2, <1>3, <1>4
    <3>2. T.stack[i + 1].block = Stmt(T.stack[i]).body
      BY <2>2, <1>2 DEF Watches
    <3>3. Watches(S, i)
      BY <3>1, <3>2, <2>2 DEF Watches
    <3>4. Id(S.stack[i]) \in S.on
      BY <3>3, <2>2 DEF Good, Listed
    <3> QED
      BY <3>1, <3>4, <1>2
  <2> QED
    BY <2>1, <2>2, <1>2 DEF Listed
<1>11. InOrder(T)
  <2>0. T.ahead \subseteq T.on \X T.on
    BY <1>2 DEF Good, InOrder
  <2> SUFFICES ASSUME NEW i \in 1 .. d, NEW j \in 1 .. d,
                      Id(T.stack[i]) \in T.on, Id(T.stack[j]) \in T.on
               PROVE  <<Id(T.stack[i]), Id(T.stack[j])>> \in T.ahead <=> i < j
    BY <1>2, <2>0 DEF InOrder
  <2>1. Id(T.stack[i]) = Id(S.stack[i]) /\ Id(T.stack[j]) = Id(S.stack[j])
    BY <1>2, <1>5
  <2> QED
    BY <2>1, <1>2 DEF Good, InOrder
<1> QED
  BY <1>2, <1>6, <1>7, <1>8, <1>9, <1>10, <1>11 DEF Good, T

LEMMA MarkGood ==
  ASSUME Loaded, NEW S, Good(S), Depth(S) > 0, NEW next \in {"REPEAT", "FINISH"},
         Id(S.stack[Depth(S)]) \in S.on => next = "FINISH",
         next = "REPEAT" => S.stack[Depth(S)].iteration < Stmt(S.stack[Depth(S)]).times
  PROVE  Good(Mark(S, next))
<1> DEFINE f == [S.stack[Depth(S)] EXCEPT !.next = next]
           g == S.stack[Depth(S)]
<1>1. Depth(S) \in 1 .. Depth(S)
  BY DEF Good, ScriptType, Depth
<1>2. /\ g \in Frame /\ g.pos <= Len(Text.block[g.block]) /\ g.iteration <= Stmt(g).times
  BY <1>1, FrameIs DEF Good, Framed
<1>3. f \in Frame /\ f.block = g.block /\ f.pos = g.pos /\ f.next = next /\ f.iteration = g.iteration
  BY <1>2 DEF Frame
<1>4. Stmt(f) = Stmt(g)
  BY <1>3 DEF Stmt
<1>5. Mark(S, next) = PutTop(S, f)
  BY DEF Mark, Depth, PutTop
<1> HIDE DEF f
<1>6. Good(PutTop(S, f))
  BY <1>2, <1>3, <1>4, TopGood
<1> QED
  BY <1>5, <1>6

(* The innermost statement stops watching, or starts to.                   *)
LEMMA UnwatchGood ==
  ASSUME Loaded, NEW S, Good(S), Depth(S) > 0,
         Watches(S, Depth(S)) \/ Id(S.stack[Depth(S)]) \notin S.on
  PROVE  Good(Unwatch(S, {Id(S.stack[Depth(S)])}))
<1> DEFINE d == Depth(S)
           x == Id(S.stack[d])
           T == Unwatch(S, {x})
<1>1. S \in ScriptType /\ d \in Nat /\ d \in 1 .. d
  BY DEF Good, ScriptType, Depth
<1>2. /\ T \in ScriptType /\ T.stack = S.stack /\ T.on = S.on \ {x}
      /\ T.ahead = {p \in S.ahead : p[1] \notin {x} /\ p[2] \notin {x}}
  BY <1>1, UnwatchIs
<1> HIDE DEF T
<1>3. Depth(T) = d
  BY <1>2 DEF Depth
<1>4. Framed(T) /\ Deepens(T) /\ Linked(T) /\ Enclosed(T)
  BY <1>2, <1>3 DEF Good, Framed, Deepens, Linked, Enclosed
<1>5. \A i \in 1 .. d : Watches(T, i) <=> Watches(S, i)
  BY <1>2, <1>3 DEF Watches
<1>6. \A i \in 1 .. d : i # d => Id(S.stack[i]) # x
  BY <1>1, OnceId
<1>7. Listed(T)
  <2>1. ASSUME NEW y \in T.on
        PROVE  \E i \in 1 .. d : Id(T.stack[i]) = y /\ Watches(T, i)
    BY <2>1, <1>2, <1>5 DEF Good, Listed
  <2>2. ASSUME NEW i \in 1 .. d, i < d, Watches(T, i)
        PROVE  Id(T.stack[i]) \in T.on
    <3>1. Id(S.stack[i]) \in S.on
      BY <2>2, <1>5 DEF Good, Listed
    <3>2. Id(S.stack[i]) # x
      BY <2>2, <1>6
    <3> QED
      BY <3>1, <3>2, <1>2
  <2> QED
    BY <2>1, <2>2, <1>3 DEF Listed
<1>8. InOrder(T)
  <2>0. T.ahead \subseteq T.on \X T.on
    BY <1>2 DEF Good, InOrder
  <2> SUFFICES ASSUME NEW i \in 1 .. d, NEW j \in 1 .. d,
                      Id(T.stack[i]) \in T.on, Id(T.stack[j]) \in T.on
               PROVE  <<Id(T.stack[i]), Id(T.stack[j])>> \in T.ahead <=> i < j
    BY <1>3, <2>0 DEF InOrder
  <2> HIDE DEF x
  <2>1. <<Id(S.stack[i]), Id(S.stack[j])>> \in S.ahead <=> i < j
    BY <1>2 DEF Good, InOrder
  <2> QED
    BY <2>1, <1>2
<1> QED
  BY <1>2, <1>4, <1>7, <1>8 DEF Good, T

LEMMA WatchGood ==
  ASSUME Loaded, NEW S, Good(S), Depth(S) > 0,
         Stmt(S.stack[Depth(S)]).kind = "catch", S.stack[Depth(S)].next = "FINISH",
         Id(S.stack[Depth(S)]) \notin S.on
  PROVE  LET T == Watch(S, Id(S.stack[Depth(S)])) IN
         /\ Good(T) /\ T.stack = S.stack /\ T.on = S.on \cup {Id(S.stack[Depth(S)])}
         /\ T.state = S.state /\ T.why = S.why
<1> DEFINE d == Depth(S)
           x == Id(S.stack[d])
           T == Watch(S, x)
<1>1. S \in ScriptType /\ d \in Nat /\ d \in 1 .. d
  BY DEF Good, ScriptType, Depth
<1>2. x \in StatementId
  BY <1>1, FrameIs
<1>3. /\ T \in ScriptType /\ T.stack = S.stack /\ T.on = S.on \cup {x}
      /\ T.ahead = S.ahead \cup (S.on \X {x})
      /\ T.state = S.state /\ T.why = S.why
  <2> HIDE DEF x
  <2>1. S.on \cup {x} \in SUBSET StatementId
    BY <1>1, <1>2 DEF ScriptType
  <2>2. S.ahead \cup (S.on \X {x}) \in SUBSET (StatementId \X StatementId)
    BY <1>1, <1>2 DEF ScriptType
  <2> QED
    BY <1>1, <2>1, <2>2 DEF Watch, ScriptType
<1> HIDE DEF T
<1>4. Depth(T) = d
  BY <1>3 DEF Depth
<1>5. Framed(T) /\ Deepens(T) /\ Linked(T) /\ Enclosed(T)
  BY <1>3, <1>4 DEF Good, Framed, Deepens, Linked, Enclosed
<1>6. \A i \in 1 .. d : Watches(T, i) <=> Watches(S, i)
  BY <1>3, <1>4 DEF Watches
<1>7. Watches(S, d)
  BY <1>1 DEF Watches
<1>8. Listed(T)
  BY <1>1, <1>3, <1>4, <1>6, <1>7 DEF Good, Listed
<1>9. InOrder(T)
  <2>0. T.ahead \subseteq T.on \X T.on
    BY <1>3 DEF Good, InOrder
  <2> SUFFICES ASSUME NEW i \in 1 .. d, NEW j \in 1 .. d,
                      Id(T.stack[i]) \in T.on, Id(T.stack[j]) \in T.on
               PROVE  <<Id(T.stack[i]), Id(T.stack[j])>> \in T.ahead <=> i < j
    BY <1>4, <2>0 DEF InOrder
  <2>1. \A k \in 1 .. d : Id(S.stack[k]) = x <=> k = d
    BY <1>1, OnceId
  <2>2. S.ahead \subseteq S.on \X S.on /\ x \notin S.on
    BY DEF Good, InOrder
  <2>3. CASE i # d /\ j # d
    <3>1. Id(S.stack[i]) \in S.on /\ Id(S.stack[j]) \in S.on /\ Id(S.stack[j]) # x
      BY <2>1, <2>3, <1>3
    <3>2. <<Id(S.stack[i]), Id(S.stack[j])>> \in S.ahead <=> i < j
      BY <3>1 DEF Good, InOrder
    <3> HIDE DEF x
    <3> QED
      BY <3>1, <3>2, <1>3
  <2>4. CASE j = d /\ i # d
    <3>1. Id(S.stack[i]) \in S.on /\ Id(S.stack[j]) = x /\ i < j
      BY <2>1, <2>4, <1>1, <1>3
    <3> HIDE DEF x
    <3> QED
      BY <3>1, <1>3
  <2>5. CASE i = d
    <3>1. Id(S.stack[i]) = x /\ ~(i < j)
      BY <2>5, <1>1
    <3> HIDE DEF x
    <3> QED
      BY <3>1, <2>2, <1>3
  <2> QED
    BY <2>3, <2>4, <2>5
<1> QED
  BY <1>3, <1>5, <1>8, <1>9 DEF Good, T

(* A block of the innermost statement is entered: that of a catch is       *)
(* entered if and only if the catch is watching.                           *)
LEMMA PushGood ==
  ASSUME Loaded, NEW S, Good(S), Depth(S) > 0,
         S.stack[Depth(S)].next # "START",
         NEW b \in {None, Stmt(S.stack[Depth(S)]).body, Stmt(S.stack[Depth(S)]).action},
         b # None /\ Stmt(S.stack[Depth(S)]).kind = "catch" /\ S.stack[Depth(S)].next = "FINISH" =>
           (Id(S.stack[Depth(S)]) \in S.on <=> b = Stmt(S.stack[Depth(S)]).body)
  PROVE  Good(Push(S, b))
<1> DEFINE d == Depth(S)
           g == S.stack[d]
           T == Push(S, b)
<1>1. S \in ScriptType /\ d \in Nat /\ d \in 1 .. d
  BY DEF Good, ScriptType, Depth
<1>2. Stmt(g) \in Statement /\ g.block \in Block
  BY <1>1, FrameIs
<1>3. b \in BlockOrNone
  BY <1>2 DEF Statement, BlockOrNone
<1>4. CASE T = S
  BY <1>4
<1>5. CASE T # S
  <2>1. /\ b \in Block /\ T \in ScriptType
        /\ 1 <= Len(Text.block[b])
        /\ Depth(T) = d + 1
        /\ \A i \in 1 .. d : T.stack[i] = S.stack[i]
        /\ T.stack[d + 1] = NewFrame(b)
        /\ T.on = S.on /\ T.ahead = S.ahead
    BY <1>1, <1>3, <1>5, PushIs
  <2> HIDE DEF T
  <2>2. b # None /\ b \in {Stmt(g).body, Stmt(g).action}
    BY <2>1, NoneAssumption
  <2>3. /\ Text.depth[g.block] < Text.depth[b]
        /\ b \notin {Text.main, Text.cleanup}
        /\ b \in Text.looped => Stmt(g).kind \in Loops \/ g.block \in Text.looped
    BY <1>1, <2>2, TextIs
  <2>4. NewFrame(b).block = b /\ NewFrame(b).pos = 1 /\ NewFrame(b).iteration = 0
          /\ NewFrame(b).next = "START"
    BY DEF NewFrame
  <2>5. \A i \in 1 .. d + 1 : i \in 1 .. d \/ i = d + 1
    BY <1>1
  <2>6. \A i \in 1 .. d : Text.depth[S.stack[i].block] < Text.depth[b]
    <3> SUFFICES ASSUME NEW i \in 1 .. d PROVE Text.depth[S.stack[i].block] < Text.depth[b]
      OBVIOUS
    <3>1. Text.depth[S.stack[i].block] \in Nat /\ Text.depth[g.block] \in Nat /\ Text.depth[b] \in Nat
      BY <1>2, <2>1, FrameIs, DepthIs
    <3>2. i # d => Text.depth[S.stack[i].block] < Text.depth[g.block]
      BY <1>1 DEF Good, Deepens
    <3> QED
      BY <2>3, <3>1, <3>2
  <2>7. Framed(T)
    <3>1. Stmt(NewFrame(b)) \in Statement
      <4>1. NewFrame(b) \in Frame
        BY <2>1 DEF NewFrame, Frame
      <4> QED
        BY <4>1, <2>1, <2>4, StatementIs
    <3>2. 0 < Stmt(NewFrame(b)).times /\ 0 <= Stmt(NewFrame(b)).times
      BY <3>1 DEF Statement
    <3>3. \A i \in 1 .. d :
            /\ T.stack[i].pos <= Len(Text.block[T.stack[i].block])
            /\ T.stack[i].iteration <= Stmt(T.stack[i]).times
            /\ T.stack[i].next # "FINISH" => T.stack[i].iteration < Stmt(T.stack[i]).times
      BY <2>1 DEF Good, Framed
    <3> QED
      BY <2>1, <2>4, <2>5, <3>2, <3>3 DEF Framed
  <2>8. Deepens(T)
    <3> SUFFICES ASSUME NEW i \in 1 .. d + 1, NEW j \in 1 .. d + 1, i < j
                 PROVE  Text.depth[T.stack[i].block] < Text.depth[T.stack[j].block]
      BY <2>1 DEF Deepens
    <3>1. i \in 1 .. d
      BY <1>1
    <3> QED
      BY <3>1, <2>1, <2>4, <2>5, <2>6 DEF Good, Deepens
  <2>9. Linked(T)
    <3> SUFFICES ASSUME NEW i \in 1 .. d + 1, i < d + 1
                 PROVE  /\ T.stack[i].next # "START"
                        /\ T.stack[i + 1].block \in {Stmt(T.stack[i]).body, Stmt(T.stack[i]).action}
      BY <2>1 DEF Linked
    <3>1. CASE i = d
      BY <3>1, <1>1, <2>1, <2>2, <2>4
    <3>2. CASE i < d
      <4>1. i \in 1 .. d /\ i + 1 \in 1 .. d
        BY <3>2, <1>1
      <4>2. T.stack[i] = S.stack[i] /\ T.stack[i + 1] = S.stack[i + 1]
        BY <4>1, <2>1
      <4>3. /\ S.stack[i].next # "START"
            /\ S.stack[i + 1].block \in {Stmt(S.stack[i]).body, Stmt(S.stack[i]).action}
        BY <3>2, <4>1 DEF Good, Linked
      <4> QED
        BY <4>2, <4>3
    <3> QED
      BY <3>1, <3>2, <1>1
  <2>10. Enclosed(T)
    <3> SUFFICES ASSUME NEW i \in 1 .. d + 1, T.stack[i].block \in Text.looped,
                        T.stack[1].block \notin Text.looped
                 PROVE  \E j \in 1 .. d + 1 : j < i /\ Stmt(T.stack[j]).kind \in Loops
      BY <2>1 DEF Enclosed
    <3>0. S.stack[1].block \notin Text.looped
      <4>1. 1 \in 1 .. d
        BY <1>1
      <4> QED
        BY <4>1, <2>1
    <3>1. CASE i \in 1 .. d
      <4>1. PICK j \in 1 .. d : j < i /\ Stmt(S.stack[j]).kind \in Loops
        BY <3>0, <3>1, <2>1 DEF Good, Enclosed
      <4> QED
        BY <4>1, <2>1, <1>1
    <3>2. CASE i = d + 1
      <4>1. CASE Stmt(g).kind \in Loops
        <5>1. T.stack[d] = g /\ d \in 1 .. d + 1 /\ d < i
          BY <3>2, <1>1, <2>1
        <5> QED
          BY <5>1, <4>1
      <4>2. CASE g.block \in Text.looped
        <5>1. PICK j \in 1 .. d : j < d /\ Stmt(S.stack[j]).kind \in Loops
          BY <3>0, <4>2, <1>1 DEF Good, Enclosed
        <5> QED
          BY <5>1, <3>2, <2>1, <1>1
      <4> QED
        BY <4>1, <4>2, <3>2, <2>1, <2>3, <2>4
    <3> QED
      BY <3>1, <3>2, <2>5
  <2>11. \A i \in 1 .. d : i < d => (Watches(T, i) <=> Watches(S, i))
    <3> SUFFICES ASSUME NEW i \in 1 .. d, i < d PROVE Watches(T, i) <=> Watches(S, i)
      OBVIOUS
    <3>1. i + 1 \in 1 .. d /\ i < d + 1
      BY <1>1
    <3>2. T.stack[i] = S.stack[i] /\ T.stack[i + 1] = S.stack[i + 1]
      BY <3>1, <2>1
    <3> QED
      BY <3>1, <3>2, <2>1 DEF Watches
  <2>12. Id(g) \in S.on => Watches(S, d)
    BY <1>1, OnceId DEF Good, Listed
  <2>13. Watches(T, d) <=> Stmt(g).kind = "catch" /\ g.next = "FINISH" /\ b = Stmt(g).body
    BY <1>1, <2>1, <2>4 DEF Watches
  <2>14. Listed(T)
    <3>1. ASSUME NEW x \in T.on
          PROVE  \E i \in 1 .. d + 1 : Id(T.stack[i]) = x /\ Watches(T, i)
      <4>1. PICK i \in 1 .. d : Id(S.stack[i]) = x /\ Watches(S, i)
        BY <3>1, <2>1 DEF Good, Listed
      <4>2. CASE i < d
        BY <4>1, <4>2, <2>1, <2>5, <2>11, <1>1
      <4>3. CASE i = d
        <5>1. Stmt(g).kind = "catch" /\ g.next = "FINISH"
          BY <4>1, <4>3 DEF Watches
        <5>2. Id(g) \in S.on
          BY <4>1, <4>3, <3>1, <2>1
        <5>3. Watches(T, d)
          BY <5>1, <5>2, <2>2, <2>13
        <5> QED
          BY <5>3, <4>1, <4>3, <1>1, <2>1
      <4> QED
        BY <4>2, <4>3, <1>1
    <3>2. ASSUME NEW i \in 1 .. d + 1, i < d + 1, Watches(T, i)
          PROVE  Id(T.stack[i]) \in T.on
      <4>1. CASE i < d
        <5>1. i \in 1 .. d
          BY <4>1, <1>1
        <5>2. Watches(S, i)
          BY <5>1, <4>1, <3>2, <2>11
        <5>3. Id(S.stack[i]) \in S.on
          BY <5>1, <5>2, <4>1 DEF Good, Listed
        <5> QED
          BY <5>1, <5>3, <2>1
      <4>2. CASE i = d
        <5>1. Stmt(g).kind = "catch" /\ g.next = "FINISH" /\ b = Stmt(g).body
          BY <4>2, <3>2, <2>13
        <5> QED
          BY <5>1, <4>2, <2>1, <2>2, <1>1
      <4> QED
        BY <4>1, <4>2, <3>2, <1>1
    <3> QED
      BY <3>1, <3>2, <2>1 DEF Listed
  <2>15. InOrder(T)
    <3>1. Id(NewFrame(b)) \notin S.on
      <4> SUFFICES ASSUME Id(NewFrame(b)) \in S.on PROVE FALSE
        OBVIOUS
      <4>1. PICK i \in 1 .. d : Id(S.stack[i]) = Id(NewFrame(b))
        BY DEF Good, Listed
      <4>2. S.stack[i].block = b
        BY <4>1, <2>4 DEF Id
      <4>3. Text.depth[b] \in Nat
        BY <2>1, DepthIs
      <4> QED
        BY <4>2, <4>3, <2>6
    <3>2. T.ahead \subseteq T.on \X T.on
      BY <2>1 DEF Good, InOrder
    <3> SUFFICES ASSUME NEW i \in 1 .. d + 1, NEW j \in 1 .. d + 1,
                        Id(T.stack[i]) \in T.on, Id(T.stack[j]) \in T.on
                 PROVE  <<Id(T.stack[i]), Id(T.stack[j])>> \in T.ahead <=> i < j
      BY <2>1, <3>2 DEF InOrder
    <3>3. i \in 1 .. d /\ j \in 1 .. d
      BY <3>1, <2>1, <2>5
    <3> QED
      BY <3>3, <2>1 DEF Good, InOrder
  <2> QED
    BY <2>1, <2>7, <2>8, <2>9, <2>10, <2>14, <2>15 DEF Good, T
<1> QED
  BY <1>4, <1>5

(* The program or its exit handler is staged.                              *)
LEMMA RootGood ==
  ASSUME Loaded, NEW S, Good(S), Depth(S) = 0, NEW b \in {Text.main, Text.cleanup}
  PROVE  /\ Good(Push(S, b))
         /\ Push(S, b).on = {} /\ Push(S, b).ahead = {}
         /\ Push(S, b).state = S.state /\ Push(S, b).why = S.why
         /\ Depth(Push(S, b)) > 0 => Push(S, b).stack[1].block = b
<1> DEFINE T == Push(S, b)
<1>1. S \in ScriptType /\ S.on = {} /\ S.ahead = {}
  <2>1. S \in ScriptType /\ S.on = {}
    BY DEF Good, Listed
  <2> QED
    BY <2>1 DEF Good, InOrder
<1>2. b \in BlockOrNone
  BY ProgramIs DEF Parsed, BlockOrNone
<1>3. CASE T = S
  BY <1>1, <1>3
<1>4. CASE T # S
  <2>1. /\ b \in Block /\ T \in ScriptType
        /\ 1 <= Len(Text.block[b])
        /\ Depth(T) = 1
        /\ T.stack[1] = NewFrame(b)
        /\ T.on = S.on /\ T.ahead = S.ahead /\ T.state = S.state /\ T.why = S.why
    BY <1>1, <1>2, <1>4, PushIs
  <2> HIDE DEF T
  <2>2. NewFrame(b).block = b /\ NewFrame(b).pos = 1 /\ NewFrame(b).iteration = 0
    BY DEF NewFrame
  <2>3. Stmt(NewFrame(b)) \in Statement
    <3>1. NewFrame(b) \in Frame
      BY <2>1 DEF NewFrame, Frame
    <3> QED
      BY <3>1, <2>1, <2>2, StatementIs
  <2>4. 0 < Stmt(NewFrame(b)).times /\ 0 <= Stmt(NewFrame(b)).times
    BY <2>3 DEF Statement
  <2>5. \A i \in 1 .. 1 : i = 1
    OBVIOUS
  <2>6. Framed(T)
    BY <2>1, <2>2, <2>4, <2>5 DEF Framed
  <2>7. Deepens(T) /\ Linked(T)
    BY <2>1 DEF Deepens, Linked
  <2>8. Enclosed(T)
    BY <2>1, <2>5 DEF Enclosed
  <2>9. Listed(T) /\ InOrder(T)
    BY <2>1, <1>1 DEF Listed, InOrder
  <2>10. Good(T)
    BY <2>1, <2>6, <2>7, <2>8, <2>9 DEF Good
  <2> QED
    BY <2>1, <2>2, <2>10, <1>1 DEF T
<1> QED
  BY <1>3, <1>4

-----------------------------------------------------------------------------
(* What a step does besides: it never adds to the catch list, unless it is *)
(* a catch statement, and never changes the block at the bottom.           *)

SameBottom(S, T) == Depth(T) > 0 => Depth(S) > 0 /\ T.stack[1].block = S.stack[1].block

Keeps(S, T) == /\ T.on \subseteq S.on
               /\ T.state = S.state /\ T.why = S.why
               /\ SameBottom(S, T)

LEMMA KeepsTransitive ==
  ASSUME NEW S, NEW T, NEW U, Keeps(S, T), Keeps(T, U)
  PROVE  Keeps(S, U)
BY DEF Keeps, SameBottom

LEMMA PopKeeps ==
  ASSUME NEW S \in ScriptType, NEW n \in 0 .. Depth(S)
  PROVE  Keeps(S, Pop(S, n))
<1>1. Depth(S) \in Nat
  BY DEF ScriptType, Depth
<1>2. /\ Depth(Pop(S, n)) = n
      /\ \A i \in 1 .. n : Pop(S, n).stack[i] = S.stack[i]
      /\ Pop(S, n).on \subseteq S.on
      /\ Pop(S, n).state = S.state /\ Pop(S, n).why = S.why
  BY PopIs
<1>3. n > 0 => 1 \in 1 .. n /\ Depth(S) > 0
  BY <1>1
<1> QED
  BY <1>2, <1>3 DEF Keeps, SameBottom

LEMMA MarkKeeps ==
  ASSUME NEW S \in ScriptType, Depth(S) > 0, NEW next \in {"REPEAT", "FINISH"}
  PROVE  Keeps(S, Mark(S, next))
<1>1. Depth(S) \in Nat /\ 1 \in 1 .. Depth(S)
  BY DEF ScriptType, Depth
<1>2. S.stack[Depth(S)] \in Frame
  BY <1>1 DEF ScriptType, Depth
<1>3. [S.stack[Depth(S)] EXCEPT !.next = next].block = S.stack[Depth(S)].block
  BY <1>2 DEF Frame
<1> QED
  BY <1>1, <1>3, MarkIs DEF Keeps, SameBottom

LEMMA PushKeeps ==
  ASSUME Loaded, NEW S \in ScriptType, Depth(S) > 0, NEW b \in BlockOrNone
  PROVE  Keeps(S, Push(S, b)) /\ Push(S, b).on = S.on
<1>1. Depth(S) \in Nat /\ 1 \in 1 .. Depth(S)
  BY DEF ScriptType, Depth
<1> QED
  BY <1>1, PushIs DEF Keeps, SameBottom

(* Only a catch that is being executed is in the list.                     *)
LEMMA ListedIs ==
  ASSUME Loaded, NEW S, Good(S), NEW i \in 1 .. Depth(S), Id(S.stack[i]) \in S.on
  PROVE  Watches(S, i)
BY OnceId DEF Good, Listed

LEMMA PopEmpty ==
  ASSUME Loaded, NEW S, Good(S)
  PROVE  /\ Good(Pop(S, 0)) /\ Depth(Pop(S, 0)) = 0 /\ Pop(S, 0).on = {}
         /\ Keeps(S, Pop(S, 0))
<1>1. S \in ScriptType /\ 0 \in 0 .. Depth(S)
  BY DEF Good, ScriptType, Depth
<1>2. Good(Pop(S, 0)) /\ Depth(Pop(S, 0)) = 0 /\ Keeps(S, Pop(S, 0))
  BY <1>1, PopGood, PopIs, PopKeeps
<1>3. Pop(S, 0).on = {}
  BY <1>2 DEF Good, Listed
<1> QED
  BY <1>2, <1>3

LEMMA AdvanceGood ==
  ASSUME Loaded, NEW S, Good(S)
  PROVE  /\ Good(Advance(S)) /\ Keeps(S, Advance(S))
         /\ Depth(Advance(S)) > 0 =>
              /\ Id(Advance(S).stack[Depth(Advance(S))]) \notin Advance(S).on
              /\ Advance(S).stack[Depth(Advance(S))].next # "FINISH"
<1> DEFINE live == {i \in 1 .. Depth(S) : \/ S.stack[i].next # "FINISH"
                                           \/ S.stack[i].pos < Len(Text.block[S.stack[i].block])}
           n == Innermost(live)
           f == S.stack[n]
           P == Pop(S, n)
           T == Unwatch(P, {Id(f)})
           g == [f EXCEPT !.pos = @ + 1, !.next = "START", !.iteration = 0]
<1>1. S \in ScriptType /\ Depth(S) \in Nat
  BY DEF Good, ScriptType, Depth
<1>2. CASE live = {}
  <2>1. Advance(S) = Pop(S, 0)
    BY <1>2 DEF Advance
  <2> QED
    BY <2>1, PopEmpty
<1>3. CASE live # {}
  <2>1. n \in live
    <3>1. live \in SUBSET (1 .. Depth(S))
      OBVIOUS
    <3> HIDE DEF live
    <3> QED
      BY <3>1, <1>1, <1>3, InnermostIs
  <2>2. n \in 1 .. Depth(S) /\ n \in 0 .. Depth(S) /\ n \in 1 .. n /\ n > 0
    <3>1. n \in 1 .. Depth(S)
      BY <2>1
    <3> HIDE DEF n
    <3> QED
      BY <3>1, <1>1
  <2>3. f.next # "FINISH" \/ f.pos < Len(Text.block[f.block])
    BY <2>1
  <2>4. f \in Frame
    BY <2>2, FrameIs
  <2>5. /\ Advance(S) = IF f.next # "FINISH" THEN P
                        ELSE [T EXCEPT !.stack[n] = g]
    BY <1>3 DEF Advance
  <2> HIDE DEF live, n
  <2>6. Good(P) /\ Depth(P) = n /\ P.stack[n] = f /\ Keeps(S, P) /\ P \in ScriptType
    BY <1>1, <2>2, PopGood, PopIs, PopKeeps DEF Good
  <2>7. CASE f.next # "FINISH"
    <3>1. Id(P.stack[n]) \notin P.on
      BY <2>2, <2>6, <2>7, ListedIs DEF Watches
    <3> QED
      BY <3>1, <2>5, <2>6, <2>7
  <2>8. CASE f.next = "FINISH"
    <3>1. Watches(P, n) \/ Id(P.stack[n]) \notin P.on
      BY <2>2, <2>6, ListedIs
    <3>2. Good(T)
      BY <2>2, <2>6, <3>1, UnwatchGood
    <3>3. /\ T \in ScriptType /\ T.stack = P.stack /\ T.on = P.on \ {Id(f)}
          /\ T.state = P.state /\ T.why = P.why
      BY <2>6, UnwatchIs
    <3> HIDE DEF T, P
    <3>4. Depth(T) = n /\ T.stack[n] = f
      BY <2>6, <3>3 DEF Depth
    <3>5. g \in Frame /\ g.block = f.block /\ g.pos = f.pos + 1 /\ g.iteration = 0
      <4>1. f \in Frame /\ f.pos + 1 \in Nat \ {0}
        BY <2>4 DEF Frame
      <4> HIDE DEF f
      <4> QED
        BY <4>1 DEF Frame
    <3>6. g.pos <= Len(Text.block[g.block])
      <4>1. Text.block[f.block] \in Seq(Statement) /\ f.pos \in Nat
        BY <2>4, ProgramIs DEF Parsed, Frame
      <4> QED
        BY <4>1, <3>5, <2>3, <2>8
    <3>7. g.iteration <= Stmt(g).times /\ g.iteration < Stmt(g).times
      <4>1. Stmt(g) \in Statement
        BY <3>5, <3>6, StatementIs
      <4> QED
        BY <4>1, <3>5 DEF Statement
    <3> HIDE DEF g
    <3>8. Id(T.stack[Depth(T)]) \notin T.on
      BY <3>3, <3>4
    <3>9. Advance(S) = PutTop(T, g)
      BY <2>5, <2>8, <3>4 DEF PutTop
    <3>10. Good(Advance(S))
      BY <3>2, <3>4, <3>5, <3>6, <3>7, <3>8, <3>9, <2>2, TopGood
    <3>11. /\ Depth(Advance(S)) = n /\ Advance(S).stack[n] = g
           /\ \A i \in 1 .. n : i # n => Advance(S).stack[i] = T.stack[i]
           /\ Advance(S).on = T.on /\ Advance(S).state = T.state /\ Advance(S).why = T.why
      BY <3>3, <3>4, <3>5, <3>9, <2>2, TopIs
    <3>12. Id(g) \notin Advance(S).on
      <4> SUFFICES ASSUME Id(g) \in Advance(S).on PROVE FALSE
        OBVIOUS
      <4>1. Id(Advance(S).stack[n]) \in Advance(S).on
        BY <3>11
      <4>2. Watches(Advance(S), n)
        BY <4>1, <3>10, <3>11, <2>2, ListedIs
      <4>3. g.next = "START"
        BY <2>4 DEF Frame, g
      <4> QED
        BY <4>2, <4>3, <3>11 DEF Watches
    <3>13. Keeps(S, Advance(S))
      <4>1. Advance(S).stack[1].block = S.stack[1].block
        <5>1. 1 \in 1 .. n /\ SameBottom(S, P)
          BY <2>2, <2>6 DEF Keeps
        <5>2. P.stack[1].block = S.stack[1].block
          BY <5>1, <2>6, <2>2 DEF SameBottom
        <5>3. Advance(S).stack[1].block = T.stack[1].block
          BY <5>1, <3>11, <3>4, <3>5
        <5> QED
          BY <5>2, <5>3, <3>3
      <4>2. Depth(S) > 0
        BY <1>1, <2>2
      <4> QED
        BY <4>1, <4>2, <3>3, <3>11, <2>6 DEF Keeps, SameBottom
    <3>14. g.next # "FINISH"
      BY <2>4 DEF Frame, g
    <3> QED
      BY <3>10, <3>11, <3>12, <3>13, <3>14
  <2> QED
    BY <2>7, <2>8
<1> QED
  BY <1>2, <1>3

(* The script as a statement finds it.                                     *)
LEMMA StartedGood ==
  ASSUME Loaded, Good(sc), NEW K, Doing(K)
  PROVE  LET S == Started
             f == Started.stack[Depth(Started)]
         IN /\ Good(S) /\ Keeps(sc, S) /\ Depth(S) > 0 /\ Depth(S) \in Nat
            /\ f.next = "FINISH" /\ Id(f) \notin S.on
            /\ This = Stmt(f) /\ This.kind \in K /\ f = Top(S)
            /\ f \in Frame /\ f.pos <= Len(Text.block[f.block])
            /\ This \in Statement /\ f.iteration < This.times
<1> DEFINE A == Advance(sc)
           g == A.stack[Depth(A)]
           S == Started
           f == S.stack[Depth(S)]
<1>1. /\ Good(A) /\ Keeps(sc, A) /\ Depth(A) > 0 /\ Id(g) \notin A.on /\ Stmt(g).kind \in K
      /\ g.next # "FINISH"
  BY AdvanceGood DEF Doing, Top
<1>2. A \in ScriptType /\ Depth(A) \in 1 .. Depth(A)
  BY <1>1 DEF Good, ScriptType, Depth
<1>3. S = Mark(A, "FINISH")
  BY DEF Started
<1> HIDE DEF A
<1>4. Good(S) /\ Keeps(A, S)
  BY <1>1, <1>2, <1>3, MarkGood, MarkKeeps
<1>5. g \in Frame
  BY <1>1, <1>2, FrameIs
<1>6. Depth(S) = Depth(A) /\ f = [g EXCEPT !.next = "FINISH"] /\ S.on = A.on
  BY <1>1, <1>2, <1>3, MarkIs
<1>7. f.block = g.block /\ f.pos = g.pos /\ f.next = "FINISH" /\ f.iteration = g.iteration
  BY <1>5, <1>6 DEF Frame
<1>8. Id(f) = Id(g) /\ Stmt(f) = Stmt(g)
  BY <1>7 DEF Id, Stmt
<1>9. Keeps(sc, S)
  BY <1>1, <1>4, KeepsTransitive
<1>10. This = Stmt(f) /\ f = Top(S)
  BY DEF This, Top
<1>11. Depth(S) \in 1 .. Depth(S)
  BY <1>2, <1>6
<1>12. f \in Frame /\ f.pos <= Len(Text.block[f.block]) /\ Stmt(f) \in Statement
  BY <1>4, <1>11, FrameIs DEF Good, Framed
<1>13. Depth(S) \in Nat
  BY <1>11
<1>14. g.iteration < Stmt(g).times
  BY <1>1, <1>2 DEF Good, Framed
<1> QED
  BY <1>1, <1>4, <1>6, <1>7, <1>8, <1>9, <1>10, <1>12, <1>13, <1>14

LEMMA TargetIs ==
  ASSUME Loaded, NEW S, Good(S), NEW K
  PROVE  /\ Target(S, K) \in 0 .. Depth(S)
         /\ Target(S, K) > 0 => Stmt(S.stack[Target(S, K)]).kind \in K
         /\ Target(S, K) = 0 => \A i \in 1 .. Depth(S) : Stmt(S.stack[i]).kind \notin K
<1> DEFINE I == {i \in 1 .. Depth(S) : Stmt(S.stack[i]).kind \in K}
<1>1. Depth(S) \in Nat
  BY DEF Good, ScriptType, Depth
<1>2. Target(S, K) = IF I = {} THEN 0 ELSE Innermost(I)
  BY DEF Target
<1>3. CASE I = {}
  BY <1>1, <1>2, <1>3
<1>4. CASE I # {}
  <2>1. I \in SUBSET (1 .. Depth(S))
    OBVIOUS
  <2>2. Innermost(I) \in I
    <3> HIDE DEF I
    <3> QED
      BY <2>1, <1>1, <1>4, InnermostIs
  <2>3. Innermost(I) \in 1 .. Depth(S) /\ Stmt(S.stack[Innermost(I)]).kind \in K
    BY <2>2
  <2> HIDE DEF I
  <2> QED
    BY <2>3, <1>1, <1>2, <1>4
<1> QED
  BY <1>3, <1>4

-----------------------------------------------------------------------------
(* The catch clauses.                                                      *)

LEMMA TrueIs ==
  ASSUME NEW S, NEW sig
  PROVE  \A x : x \in True(S, sig) <=> x \in S.on /\ Holds(Clause(x), sig)
BY DEF True

(* The first true clause is that of the outermost catch.                   *)
LEMMA FirstTrueIs ==
  ASSUME Loaded, NEW S, Good(S), NEW sig, True(S, sig) # {}
  PROVE  /\ FirstTrue(S, sig) \in True(S, sig)
         /\ \A y \in True(S, sig) : <<y, FirstTrue(S, sig)>> \notin S.ahead
<1> DEFINE I == {i \in 1 .. Depth(S) : Id(S.stack[i]) \in True(S, sig)}
<1>1. True(S, sig) \subseteq S.on
  BY DEF True
<1>2. I \in SUBSET Nat /\ I # {}
  <2>1. PICK y \in True(S, sig) : TRUE
    OBVIOUS
  <2>2. PICK i \in 1 .. Depth(S) : Id(S.stack[i]) = y
    BY <1>1 DEF Good, Listed
  <2> QED
    BY <2>1, <2>2
<1>3. PICK m \in I : \A j \in I : m <= j
  BY <1>2, Lowest
<1>4. ASSUME NEW y \in True(S, sig)
      PROVE  <<y, Id(S.stack[m])>> \notin S.ahead
  <2>1. PICK j \in 1 .. Depth(S) : Id(S.stack[j]) = y
    BY <1>1 DEF Good, Listed
  <2>2. m <= j /\ m \in 1 .. Depth(S) /\ Id(S.stack[m]) \in S.on
    BY <1>1, <1>3, <2>1
  <2>3. ~(j < m)
    BY <2>2
  <2> QED
    BY <2>1, <2>2, <2>3, <1>1 DEF Good, InOrder
<1>5. Id(S.stack[m]) \in True(S, sig)
  BY <1>3
<1> QED
  BY <1>4, <1>5 DEF FirstTrue

(* Unwinding finds the catch, and leaves no true clause in the list.       *)
LEMMA CatchGood ==
  ASSUME Loaded, NEW S, Good(S), NEW sig, True(S, sig) # {}
  PROVE  /\ Good(Catch(S, sig)) /\ Keeps(S, Catch(S, sig))
         /\ \A x \in Catch(S, sig).on : ~ Holds(Clause(x), sig)
<1> DEFINE x == FirstTrue(S, sig)
           I == {i \in 1 .. Depth(S) : Id(S.stack[i]) = x}
           n == Innermost(I)
           P == Pop(S, n)
           T == Unwatch(P, {x})
           a == Stmt(S.stack[n]).action
<1>1. S \in ScriptType /\ Depth(S) \in Nat
  BY DEF Good, ScriptType, Depth
<1>2. x \in S.on /\ \A y \in True(S, sig) : <<y, x>> \notin S.ahead
  BY FirstTrueIs, TrueIs
<1>3. I # {}
  BY <1>2 DEF Good, Listed
<1>4. n \in 1 .. Depth(S) /\ Id(S.stack[n]) = x
  <2>1. I \in SUBSET (1 .. Depth(S))
    OBVIOUS
  <2>2. n \in I
    <3> HIDE DEF I
    <3> QED
      BY <2>1, <1>1, <1>3, InnermostIs
  <2> QED
    BY <2>2
<1>5. Catch(S, sig) = IF a = None THEN Mark(T, "FINISH") ELSE Push(T, a)
  BY <1>3 DEF Catch
<1> HIDE DEF x, I, n
<1>6. n \in 0 .. Depth(S) /\ n \in 1 .. n /\ n > 0
  BY <1>1, <1>4
<1>7. Watches(S, n)
  BY <1>2, <1>4, ListedIs
<1>8. /\ Good(P) /\ Depth(P) = n /\ P.stack[n] = S.stack[n] /\ Keeps(S, P) /\ P \in ScriptType
      /\ P.on = S.on \ Left(S, n)
  BY <1>1, <1>6, PopGood, PopIs, PopKeeps DEF Good
<1>9. Watches(P, n)
  BY <1>6, <1>7, <1>8 DEF Watches
<1>10. Good(T)
  BY <1>4, <1>6, <1>8, <1>9, UnwatchGood
<1>11. /\ T \in ScriptType /\ T.stack = P.stack /\ T.on = P.on \ {x}
       /\ T.state = P.state /\ T.why = P.why
  BY <1>8, UnwatchIs
<1>12. Depth(T) = n /\ T.stack[n] = S.stack[n]
  BY <1>8, <1>11 DEF Depth
<1>13. Keeps(S, T)
  <2>1. Keeps(P, T)
    BY <1>11, <1>12, <1>8 DEF Keeps, SameBottom
  <2> QED
    BY <2>1, <1>8, KeepsTransitive
<1>14. ASSUME NEW y \in T.on
       PROVE  ~ Holds(Clause(y), sig)
  <2> SUFFICES ASSUME Holds(Clause(y), sig) PROVE FALSE
    OBVIOUS
  <2>1. y \in S.on /\ y # x /\ y \notin Left(S, n)
    BY <1>8, <1>11
  <2>2. PICK i \in 1 .. Depth(S) : Id(S.stack[i]) = y /\ Watches(S, i)
    BY <2>1 DEF Good, Listed
  <2>3. i # n
    BY <2>1, <2>2, <1>4
  <2>4. S.stack[i].next # "START"
    BY <2>2 DEF Watches
  <2>5. i \notin n + 1 .. Depth(S)
    BY <2>1, <2>2, <2>4 DEF Left
  <2>6. i < n
    BY <2>3, <2>5, <1>1, <1>4
  <2>7. <<y, x>> \in S.ahead
    BY <2>1, <2>2, <2>6, <1>2, <1>4 DEF Good, InOrder
  <2> QED
    BY <2>1, <2>7, <1>2, TrueIs
<1>15. Stmt(S.stack[n]) \in Statement /\ S.stack[n] \in Frame
  BY <1>4, FrameIs
<1>16. a \in BlockOrNone
  BY <1>15 DEF Statement
<1> HIDE DEF P, T
<1>17. Id(T.stack[Depth(T)]) \notin T.on
  BY <1>4, <1>11, <1>12
<1>18. CASE a = None
  <2>1. Good(Mark(T, "FINISH"))
    BY <1>6, <1>10, <1>12, <1>17, MarkGood
  <2>2. Keeps(T, Mark(T, "FINISH"))
    BY <1>6, <1>11, <1>12, MarkKeeps
  <2> QED
    BY <2>1, <2>2, <1>5, <1>13, <1>14, <1>18, KeepsTransitive DEF Keeps
<1>19. CASE a # None
  <2>1. Stmt(S.stack[n]).kind = "catch" /\ S.stack[n].next = "FINISH"
    BY <1>7 DEF Watches
  <2>2. a # Stmt(S.stack[n]).body
    <3>1. S.stack[n].block \in Block /\ S.stack[n].pos \in DOMAIN Text.block[S.stack[n].block]
      BY <1>4, FrameIs
    <3> QED
      BY <3>1, <2>1, ProgramIs DEF Parsed, Stmt
  <2>3. Good(Push(T, a))
    BY <1>6, <1>10, <1>12, <1>17, <2>1, <2>2, PushGood
  <2>4. Keeps(T, Push(T, a))
    BY <1>6, <1>11, <1>12, <1>16, PushKeeps
  <2> QED
    BY <2>3, <2>4, <1>5, <1>13, <1>14, <1>19, KeepsTransitive DEF Keeps
<1> QED
  BY <1>18, <1>19

LEMMA CatchEventsGood ==
  ASSUME Loaded, NEW S, Good(S), NEW sig
  PROVE  /\ Good(CatchEvents(S, sig)) /\ Keeps(S, CatchEvents(S, sig))
         /\ \A x \in CatchEvents(S, sig).on : ~ Holds(Clause(x), sig)
<1>1. CASE True(S, sig) = {}
  <2>1. CatchEvents(S, sig) = S
    BY <1>1 DEF CatchEvents
  <2>2. \A x \in S.on : ~ Holds(Clause(x), sig)
    BY <1>1, TrueIs
  <2> QED
    BY <2>1, <2>2 DEF Keeps, SameBottom
<1>2. CASE True(S, sig) # {}
  BY <1>2, CatchGood DEF CatchEvents
<1> QED
  BY <1>1, <1>2

-----------------------------------------------------------------------------
(* The invariant of a script that is loaded.                               *)

Rooted(S) ==
  Depth(S) > 0 =>
    /\ S.stack[1].block \in {Text.main, Text.cleanup}
    /\ S.state = "ACTIVE" => S.stack[1].block = Text.main
    /\ S.state = "EXITING" => S.stack[1].block = Text.cleanup

(* Q is the set of the signals that no catch in the list may wait for.     *)
Quiet(S, Q) == \A x \in S.on : Clause(x) \in Signals => Clause(x) \in Q

Silent(sig, lost) == {s \in Signals : s \in lost \/ sig[s] = 0}

(* W is the set of the reasons that it may have failed for.                *)
Fit(S, Q, W) == /\ Good(S) /\ Rooted(S) /\ Quiet(S, Q)
                /\ S.why \in W /\ S.state # "EMPTY"

IInv == /\ signal \in [Signals -> 0 .. MaxSignals]
        /\ missed \subseteq Signals
        /\ world \subseteq Conditions
        /\ sc.state = "EMPTY" => prog = None /\ sc = NoScript
        /\ sc.state # "EMPTY" => Loaded /\ Fit(sc, Silent(signal, missed), {sc.why})

LEMMA KeepsFit ==
  ASSUME NEW S, NEW T, NEW Q, NEW W, Fit(S, Q, W), Good(T), Keeps(S, T)
  PROVE  Fit(T, Q, W)
BY DEF Fit, Keeps, SameBottom, Rooted, Quiet

(* Only the state of the script changes.                                   *)
LEMMA StateGood ==
  ASSUME NEW S, Good(S), NEW T \in ScriptType,
         T.stack = S.stack, T.on = S.on, T.ahead = S.ahead
  PROVE  Good(T)
BY DEF Good, Framed, Deepens, Linked, Enclosed, Listed, Watches, InOrder, Depth

LEMMA FailFit ==
  ASSUME NEW S, NEW Q, NEW W, Fit(S, Q, W), NEW w \in {"evaluation", "target"}, w \in W
  PROVE  Fit([S EXCEPT !.state = "ERROR", !.why = w], Q, W)
<1> DEFINE T == [S EXCEPT !.state = "ERROR", !.why = w]
<1>1. /\ T \in ScriptType /\ T.stack = S.stack /\ T.on = S.on /\ T.ahead = S.ahead
      /\ T.state = "ERROR" /\ T.why = w
  BY DEF Fit, Good, ScriptType
<1> HIDE DEF T
<1>2. Good(T)
  BY <1>1, StateGood DEF Fit
<1>3. Depth(T) = Depth(S)
  BY <1>1 DEF Depth
<1>4. Fit(T, Q, W)
  BY <1>1, <1>2, <1>3 DEF Fit, Rooted, Quiet
<1> QED
  BY <1>4 DEF T

(* The clauses have all been evaluated, and none is true.                  *)
LEMMA HeardFit ==
  ASSUME NEW S, NEW Q, NEW W, Fit(S, Q, W), NEW sig \in [Signals -> 0 .. MaxSignals],
         \A x \in S.on : ~ Holds(Clause(x), sig)
  PROVE  Fit(S, Silent(sig, {}), W)
<1>1. ASSUME NEW x \in S.on, Clause(x) \in Signals PROVE Clause(x) \in Silent(sig, {})
  <2>1. ~(sig[Clause(x)] > 0)
    BY <1>1 DEF Holds
  <2>2. sig[Clause(x)] = 0
    BY <2>1, <1>1, ClauseAssumption
  <2> QED
    BY <2>2, <1>1 DEF Silent
<1> QED
  BY <1>1 DEF Fit, Quiet

LEMMA ExitFit ==
  ASSUME Loaded, NEW S, NEW Q, NEW W, Fit(S, Q, W)
  PROVE  Fit(ExitScript(S), Q, W)
<1>1. CASE Text.cleanup # None /\ S.state = "ACTIVE"
  <2> DEFINE P == Pop(S, 0)
             R == Push(P, Text.cleanup)
             T == [R EXCEPT !.state = "EXITING"]
  <2>1. Good(P) /\ Depth(P) = 0 /\ Keeps(S, P)
    BY PopEmpty DEF Fit
  <2>2. /\ Good(R) /\ R.on = {} /\ R.ahead = {} /\ R.state = P.state /\ R.why = P.why
        /\ Depth(R) > 0 => R.stack[1].block = Text.cleanup
    BY <2>1, RootGood
  <2> HIDE DEF R
  <2>3. /\ T \in ScriptType /\ T.stack = R.stack /\ T.on = R.on /\ T.ahead = R.ahead
        /\ T.state = "EXITING" /\ T.why = R.why
    BY <2>2 DEF Good, ScriptType
  <2> HIDE DEF T
  <2>4. Good(T) /\ Depth(T) = Depth(R)
    BY <2>2, <2>3, StateGood DEF Depth
  <2>5. Fit(T, Q, W)
    BY <2>1, <2>2, <2>3, <2>4 DEF Fit, Rooted, Quiet, Keeps
  <2>6. ExitScript(S) = T
    BY <1>1 DEF ExitScript, T, R
  <2> QED
    BY <2>5, <2>6
<1>2. CASE ~(Text.cleanup # None /\ S.state = "ACTIVE")
  <2> DEFINE T == [S EXCEPT !.state = "END"]
  <2>1. ExitScript(S) = T
    BY <1>2 DEF ExitScript
  <2>2. /\ T \in ScriptType /\ T.stack = S.stack /\ T.on = S.on /\ T.ahead = S.ahead
        /\ T.state = "END" /\ T.why = S.why
    BY DEF Fit, Good, ScriptType
  <2> HIDE DEF T
  <2>3. Good(T) /\ Depth(T) = Depth(S)
    BY <2>2, StateGood DEF Fit, Depth
  <2>4. Fit(T, Q, W)
    BY <2>2, <2>3 DEF Fit, Rooted, Quiet
  <2> QED
    BY <2>1, <2>4
<1> QED
  BY <1>1, <1>2

(* A block of a statement other than a watching catch is entered.          *)
LEMMA PushFit ==
  ASSUME Loaded, NEW S, NEW Q, NEW W, Fit(S, Q, W), Depth(S) > 0,
         S.stack[Depth(S)].next # "START",
         Stmt(S.stack[Depth(S)]).kind # "catch",
         NEW b \in {None, Stmt(S.stack[Depth(S)]).body, Stmt(S.stack[Depth(S)]).action}
  PROVE  Fit(Push(S, b), Q, W)
<1>1. Depth(S) \in 1 .. Depth(S) /\ S \in ScriptType
  BY DEF Fit, Good, ScriptType, Depth
<1>2. Stmt(S.stack[Depth(S)]) \in Statement
  BY <1>1, FrameIs DEF Fit
<1>3. b \in BlockOrNone
  BY <1>2 DEF Statement, BlockOrNone
<1>4. Good(Push(S, b))
  BY PushGood DEF Fit
<1>5. Keeps(S, Push(S, b))
  BY <1>1, <1>3, PushKeeps
<1> QED
  BY <1>4, <1>5, KeepsFit

LEMMA MarkFit ==
  ASSUME Loaded, NEW S, NEW Q, NEW W, Fit(S, Q, W), Depth(S) > 0, NEW next \in {"REPEAT", "FINISH"},
         Id(S.stack[Depth(S)]) \in S.on => next = "FINISH",
         next = "REPEAT" => S.stack[Depth(S)].iteration < Stmt(S.stack[Depth(S)]).times
  PROVE  Fit(Mark(S, next), Q, W)
BY MarkGood, MarkKeeps, KeepsFit DEF Fit, Good

LEMMA PopFit ==
  ASSUME Loaded, NEW S, NEW Q, NEW W, Fit(S, Q, W), NEW n \in 0 .. Depth(S)
  PROVE  Fit(Pop(S, n), Q, W)
BY PopGood, PopKeeps, KeepsFit DEF Fit, Good

(* The script as a statement finds it, once more.                          *)
LEMMA StartedFit ==
  ASSUME Loaded, NEW Q, NEW W, Fit(sc, Q, W), NEW K, Doing(K)
  PROVE  Fit(Started, Q, W)
BY StartedGood, KeepsFit DEF Fit

-----------------------------------------------------------------------------
(* The steps of a script, kind by kind.                                    *)

LEMMA CountedFit ==
  ASSUME Loaded, NEW Q, NEW W, Fit(sc, Q, W), Counted
  PROVE  Fit(sc', Q, W)
<1> DEFINE S == Started
           f == S.stack[Depth(S)]
           n == f.iteration + 1
           g == [f EXCEPT !.iteration = n]
           T == [S EXCEPT !.stack[Len(S.stack)].iteration = n]
           U == IF n < This.times THEN Mark(T, "REPEAT") ELSE T
<1>1. Doing({"foreach", "do"})
  BY DEF Counted
<1>2. /\ Good(S) /\ Depth(S) > 0 /\ Depth(S) \in Nat
      /\ f.next = "FINISH" /\ Id(f) \notin S.on
      /\ This = Stmt(f) /\ This.kind \in {"foreach", "do"} /\ f = Top(S)
      /\ f \in Frame /\ f.pos <= Len(Text.block[f.block])
      /\ This \in Statement /\ f.iteration < This.times
  BY <1>1, StartedGood DEF Fit
<1>3. Fit(S, Q, W)
  BY <1>1, StartedFit
<1>4. sc' = Push(U, This.body)
  <2>1. Top(S) = f
    BY <1>2
  <2> QED
    BY <2>1 DEF Counted, Goes
<1>5. T = PutTop(S, g)
  BY DEF PutTop, Depth
<1> HIDE DEF S, f, T
<1>6. f.iteration \in Nat /\ n \in Nat /\ This.times \in Nat
  BY <1>2 DEF Frame, Statement
<1>7. g \in Frame /\ g.block = f.block /\ g.pos = f.pos /\ g.next = f.next /\ g.iteration = n
  BY <1>2, <1>6 DEF Frame
<1>8. Stmt(g) = Stmt(f) /\ Id(g) = Id(f)
  BY <1>7 DEF Stmt, Id
<1> HIDE DEF g
<1>9. n <= This.times
  BY <1>2, <1>6
<1>10. f = S.stack[Depth(S)] /\ S \in ScriptType
  BY <1>2 DEF f, Good
<1> HIDE DEF n
<1>11. Good(T)
  BY <1>2, <1>5, <1>7, <1>8, <1>9, <1>10, TopGood
<1>12. /\ Depth(T) = Depth(S) /\ T.stack[Depth(S)] = g
       /\ \A i \in 1 .. Depth(S) : i # Depth(S) => T.stack[i] = S.stack[i]
       /\ T.on = S.on /\ T.state = S.state /\ T.why = S.why
  BY <1>2, <1>5, <1>7, <1>10, TopIs
<1>13. Keeps(S, T)
  <2>1. 1 \in 1 .. Depth(S)
    BY <1>2
  <2>2. T.stack[1].block = S.stack[1].block
    BY <2>1, <1>7, <1>10, <1>12
  <2> QED
    BY <2>2, <1>2, <1>12 DEF Keeps, SameBottom
<1>14. Fit(T, Q, W)
  BY <1>3, <1>11, <1>13, KeepsFit
<1>15. Id(T.stack[Depth(T)]) \notin T.on /\ Stmt(T.stack[Depth(T)]) = This
         /\ T.stack[Depth(T)].next = "FINISH" /\ T.stack[Depth(T)].iteration = n /\ Depth(T) > 0
  BY <1>2, <1>7, <1>8, <1>12
<1>16. Fit(U, Q, W) /\ Depth(U) > 0 /\ Stmt(U.stack[Depth(U)]) = This
         /\ U.stack[Depth(U)].next # "START"
  <2>1. CASE n < This.times
    <3>1. Fit(Mark(T, "REPEAT"), Q, W)
      BY <2>1, <1>14, <1>15, MarkFit
    <3>2. T \in ScriptType /\ T.stack[Depth(T)] \in Frame
      BY <1>11, <1>7, <1>12 DEF Good
    <3>3. /\ Depth(Mark(T, "REPEAT")) = Depth(T)
          /\ Mark(T, "REPEAT").stack[Depth(T)] = [T.stack[Depth(T)] EXCEPT !.next = "REPEAT"]
      BY <3>2, <1>15, MarkIs
    <3>4. /\ Stmt([T.stack[Depth(T)] EXCEPT !.next = "REPEAT"]) = Stmt(T.stack[Depth(T)])
          /\ [T.stack[Depth(T)] EXCEPT !.next = "REPEAT"].next = "REPEAT"
      BY <3>2 DEF Stmt, Frame
    <3> QED
      BY <3>1, <3>3, <3>4, <2>1, <1>15
  <2>2. CASE ~(n < This.times)
    BY <2>2, <1>14, <1>15
  <2> QED
    BY <2>1, <2>2
<1> HIDE DEF U
<1>17. Fit(Push(U, This.body), Q, W)
  BY <1>2, <1>16, PushFit
<1> QED
  BY <1>4, <1>17

LEMMA UntilFit ==
  ASSUME Loaded, NEW Q, NEW W, Fit(sc, Q, W), signal \in [Signals -> 0 .. MaxSignals], Until
  PROVE  Fit(sc', Silent(signal, {}), W)
<1> DEFINE S == Started
<1>1. Doing({"until"})
  BY DEF Until
<1>2. /\ Good(S) /\ Depth(S) > 0 /\ Id(S.stack[Depth(S)]) \notin S.on
      /\ S.stack[Depth(S)].iteration < Stmt(S.stack[Depth(S)]).times
  BY <1>1, StartedGood DEF Fit
<1>3. Fit(S, Q, W)
  BY <1>1, StartedFit
<1>4. \/ True(S, signal) # {} /\ sc' = Catch(S, signal)
      \/ True(S, signal) = {} /\ (sc' = S \/ sc' = Mark(S, "REPEAT"))
  BY DEF Until
<1> HIDE DEF S
<1>5. CASE True(S, signal) # {}
  <2> DEFINE C == Catch(S, signal)
  <2>1. Good(C) /\ Keeps(S, C) /\ \A x \in C.on : ~ Holds(Clause(x), signal)
    BY <1>2, <1>5, CatchGood
  <2>2. sc' = C
    BY <1>4, <1>5
  <2> HIDE DEF C
  <2>3. Fit(C, Q, W)
    BY <1>3, <2>1, KeepsFit
  <2> QED
    BY <2>1, <2>2, <2>3, HeardFit
<1>6. CASE True(S, signal) = {}
  <2>1. Fit(S, Silent(signal, {}), W)
    BY <1>3, <1>6, TrueIs, HeardFit
  <2>2. Fit(Mark(S, "REPEAT"), Silent(signal, {}), W)
    BY <1>2, <2>1, MarkFit
  <2> QED
    BY <1>4, <1>6, <2>1, <2>2
<1> QED
  BY <1>5, <1>6

LEMMA WhileFit ==
  ASSUME Loaded, NEW Q, NEW W, Fit(sc, Q, W), While
  PROVE  Fit(sc', Q, W)
<1> DEFINE S == Started
           T == Mark(S, "REPEAT")
           f == S.stack[Depth(S)]
<1>1. Doing({"while"})
  BY DEF While
<1>2. /\ Good(S) /\ Depth(S) > 0 /\ Id(f) \notin S.on
      /\ f.iteration < Stmt(f).times /\ f \in Frame
      /\ This = Stmt(f) /\ This.kind \in {"while"}
  BY <1>1, StartedGood DEF Fit
<1>3. Fit(S, Q, W)
  BY <1>1, StartedFit
<1>4. sc' = S \/ sc' = Push(T, This.body)
  BY DEF While, Goes
<1>5. f = S.stack[Depth(S)]
  OBVIOUS
<1> HIDE DEF S, f
<1>6. Fit(T, Q, W)
  BY <1>2, <1>3, <1>5, MarkFit
<1>7. Depth(T) = Depth(S) /\ T.stack[Depth(S)] = [f EXCEPT !.next = "REPEAT"]
  BY <1>2, <1>5, MarkIs DEF Good
<1>8. Stmt([f EXCEPT !.next = "REPEAT"]) = Stmt(f) /\ [f EXCEPT !.next = "REPEAT"].next = "REPEAT"
  BY <1>2 DEF Stmt, Frame
<1> HIDE DEF T
<1>9. Fit(Push(T, This.body), Q, W)
  <2>1. /\ Depth(T) > 0 /\ T.stack[Depth(T)].next # "START"
        /\ Stmt(T.stack[Depth(T)]) = This /\ This.kind # "catch"
    BY <1>2, <1>7, <1>8
  <2>2. This.body \in {None, Stmt(T.stack[Depth(T)]).body, Stmt(T.stack[Depth(T)]).action}
          /\ Stmt(T.stack[Depth(T)]).kind # "catch"
    BY <2>1
  <2> QED
    BY <1>6, <2>1, <2>2, PushFit
<1> QED
  BY <1>3, <1>4, <1>9

(* A command or a branch.                                                  *)
LEMMA EnterFit ==
  ASSUME Loaded, NEW Q, NEW W, Fit(sc, Q, W), NEW K, Doing(K), "catch" \notin K,
         NEW b \in {None, This.body, This.action}
  PROVE  Fit(Push(Started, b), Q, W)
<1> DEFINE S == Started
<1>1. /\ Depth(S) > 0 /\ S.stack[Depth(S)].next = "FINISH"
      /\ This = Stmt(S.stack[Depth(S)]) /\ This.kind \in K
  BY StartedGood DEF Fit
<1>2. Fit(S, Q, W)
  BY StartedFit
<1>3. b \in {None, Stmt(S.stack[Depth(S)]).body, Stmt(S.stack[Depth(S)]).action}
        /\ Stmt(S.stack[Depth(S)]).kind # "catch"
        /\ S.stack[Depth(S)].next # "START"
  BY <1>1
<1> HIDE DEF S
<1>4. Fit(Push(S, b), Q, W)
  BY <1>1, <1>2, <1>3, PushFit
<1> QED
  BY <1>4 DEF S

(* A break or a next has its target on the stack, except in an exit handler*)
(* that is written inside of a loop.                                       *)
LEMMA TargetFound ==
  ASSUME Loaded, NEW Q, NEW W, Fit(sc, Q, W), Doing({"break", "next"})
  PROVE  \/ Target(Started, Loops) > 0
         \/ sc.state = "EXITING" /\ Text.cleanup \in Text.looped
<1> DEFINE S == Started
           f == S.stack[Depth(S)]
<1>1. /\ Good(S) /\ Depth(S) > 0 /\ Depth(S) \in Nat /\ Keeps(sc, S)
      /\ This = Stmt(f) /\ This.kind \in {"break", "next"}
  BY StartedGood DEF Fit
<1>2. Depth(S) \in 1 .. Depth(S)
  BY <1>1
<1>3. f.block \in Block /\ f.pos \in DOMAIN Text.block[f.block]
  BY <1>1, <1>2, FrameIs
<1>4. f.block \in Text.looped
  BY <1>1, <1>3, ProgramIs DEF Parsed, Stmt
<1>5. sc.state \in {"ACTIVE", "EXITING"}
  BY DEF Doing, Running
<1>6. Rooted(S) /\ S.state = sc.state
  BY <1>1, StartedFit DEF Fit, Keeps
<1> HIDE DEF S
<1>7. CASE S.stack[1].block \in Text.looped
  <2>1. S.state # "ACTIVE"
    BY <1>1, <1>6, <1>7, ProgramIs DEF Rooted, Parsed
  <2>2. sc.state = "EXITING" /\ S.stack[1].block = Text.cleanup
    BY <1>1, <1>5, <1>6, <2>1 DEF Rooted
  <2> QED
    BY <1>7, <2>2
<1>8. CASE S.stack[1].block \notin Text.looped
  <2>1. PICK j \in 1 .. Depth(S) : Stmt(S.stack[j]).kind \in Loops
    BY <1>1, <1>2, <1>4, <1>8 DEF Good, Enclosed
  <2>2. Target(S, Loops) \in 0 .. Depth(S) /\ Target(S, Loops) # 0
    BY <1>1, <2>1, TargetIs
  <2>3. Target(S, Loops) > 0
    BY <1>1, <2>2
  <2> QED
    BY <2>3 DEF S
<1> QED
  BY <1>7, <1>8

(* Unwinding to a statement of the stack, which is finished.               *)
LEMMA UnwindFit ==
  ASSUME Loaded, NEW S, NEW Q, NEW W, Fit(S, Q, W), NEW n \in 0 .. Depth(S), n > 0
  PROVE  Fit(Mark(Pop(S, n), "FINISH"), Q, W)
<1>1. Fit(Pop(S, n), Q, W)
  BY PopFit
<1>2. Depth(Pop(S, n)) = n
  BY PopIs DEF Fit, Good
<1> QED
  BY <1>1, <1>2, MarkFit

LEMMA BreakFit ==
  ASSUME Loaded, NEW Q, NEW W, Fit(sc, Q, W), Break \/ NextIteration,
         sc.state = "EXITING" /\ Text.cleanup \in Text.looped => "target" \in W
  PROVE  Fit(sc', Q, W)
<1> DEFINE n == Target(Started, Loops)
<1>1. Doing({"break", "next"})
  BY DEF Break, NextIteration, Doing
<1>2. Fit(Started, Q, W) /\ n \in 0 .. Depth(Started)
  BY <1>1, StartedFit, TargetIs DEF Fit
<1>3. n = 0 => "target" \in W
  BY <1>1, TargetFound
<1>4. IF n = 0 THEN sc' = [Pop(Started, n) EXCEPT !.state = "ERROR", !.why = "target"]
      ELSE sc' = Mark(Pop(Started, n), "FINISH") \/ sc' = Pop(Started, n)
  BY DEF Break, NextIteration, Goes
<1>5. Depth(Started) \in Nat
  BY <1>1, StartedGood DEF Fit
<1> HIDE DEF n
<1>6. Fit(Pop(Started, n), Q, W)
  BY <1>2, PopFit
<1>7. CASE n = 0
  <2> DEFINE P == Pop(Started, n)
  <2>1. sc' = [P EXCEPT !.state = "ERROR", !.why = "target"]
    BY <1>4, <1>7
  <2>2. Fit(P, Q, W) /\ "target" \in W
    BY <1>3, <1>6, <1>7
  <2> HIDE DEF P
  <2>3. Fit([P EXCEPT !.state = "ERROR", !.why = "target"], Q, W)
    BY <2>2, FailFit
  <2> QED
    BY <2>1, <2>3
<1>8. CASE n # 0
  <2>1. n > 0
    BY <1>2, <1>5, <1>8
  <2> QED
    BY <1>2, <1>4, <1>6, <1>8, <2>1, UnwindFit
<1> QED
  BY <1>7, <1>8

LEMMA ReturnFit ==
  ASSUME Loaded, NEW Q, NEW W, Fit(sc, Q, W), Return
  PROVE  Fit(sc', Q, W)
<1> DEFINE n == Target(Started, {"call"})
<1>1. Doing({"return"})
  BY DEF Return
<1>2. Fit(Started, Q, W) /\ n \in 0 .. Depth(Started)
  BY <1>1, StartedFit, TargetIs DEF Fit
<1>3. Depth(Started) \in Nat
  BY <1>1, StartedGood DEF Fit
<1>4. sc' = IF n = 0 THEN Pop(Started, n) ELSE Mark(Pop(Started, n), "FINISH")
  BY DEF Return, Goes
<1> HIDE DEF n
<1>5. n # 0 => n > 0
  BY <1>2, <1>3
<1> QED
  BY <1>2, <1>4, <1>5, UnwindFit, PopFit

LEMMA CatchStatementFit ==
  ASSUME Loaded, NEW Q, NEW W, Fit(sc, Q, W), signal \in [Signals -> 0 .. MaxSignals],
         {s \in Signals : signal[s] = 0} \subseteq Q, CatchStatement
  PROVE  Fit(sc', Q, W)
<1> DEFINE S == Started
           f == S.stack[Depth(S)]
           T == Watch(S, Id(f))
<1>1. Doing({"catch"})
  BY DEF CatchStatement
<1>2. /\ Good(S) /\ Depth(S) > 0 /\ Depth(S) \in 1 .. Depth(S)
      /\ f.next = "FINISH" /\ Id(f) \notin S.on
      /\ This = Stmt(f) /\ This.kind = "catch" /\ f = Top(S)
      /\ This \in Statement
  BY <1>1, StartedGood DEF Fit
<1>3. Fit(S, Q, W)
  BY <1>1, StartedFit
<1>4. sc' = IF Holds(This.clause, signal) THEN Push(S, This.action) ELSE Push(T, This.body)
  <2>1. Top(S) = f
    BY <1>2
  <2> QED
    BY <2>1 DEF CatchStatement, Goes
<1>5. This.body \in Block /\ This.body # This.action
  <2>1. f.block \in Block /\ f.pos \in DOMAIN Text.block[f.block]
    BY <1>2, FrameIs
  <2> QED
    BY <2>1, <1>2, ProgramIs DEF Parsed, Stmt
<1>6. f = S.stack[Depth(S)] /\ This.action \in BlockOrNone /\ This.body \in BlockOrNone
  BY <1>2, <1>5 DEF Statement, BlockOrNone
<1>7. Clause(Id(f)) = This.clause
  BY <1>2 DEF Clause, Id, Stmt
<1>8. S \in ScriptType
  BY <1>2 DEF Good
<1> HIDE DEF S, f
<1>9. Fit(Push(S, This.action), Q, W)
  <2>1. Good(Push(S, This.action))
    BY <1>2, <1>5, <1>6, PushGood
  <2>2. Keeps(S, Push(S, This.action))
    BY <1>2, <1>6, <1>8, PushKeeps
  <2> QED
    BY <2>1, <2>2, <1>3, KeepsFit
<1>10. CASE ~ Holds(This.clause, signal)
  <2>1. /\ Good(T) /\ T.stack = S.stack /\ T.on = S.on \cup {Id(f)}
        /\ T.state = S.state /\ T.why = S.why
    BY <1>2, <1>6, WatchGood
  <2> HIDE DEF T
  <2>2. Depth(T) = Depth(S) /\ T.stack[Depth(T)] = f /\ Id(f) \in T.on
    BY <2>1, <1>6 DEF Depth
  <2>3. Quiet(T, Q)
    <3>1. Quiet(S, Q)
      BY <1>3 DEF Fit
    <3>2. This.clause \in Signals => ~(signal[This.clause] > 0)
      BY <1>10 DEF Holds
    <3>3. This.clause \in Signals => This.clause \in Q
      BY <3>2, ClauseAssumption
    <3> QED
      BY <3>1, <3>3, <1>7, <2>1 DEF Quiet
  <2>4. Fit(T, Q, W)
    BY <2>1, <2>2, <2>3, <1>3 DEF Fit, Rooted
  <2>5. Good(Push(T, This.body))
    BY <2>1, <2>2, <1>2, PushGood
  <2>6. Keeps(T, Push(T, This.body))
    BY <2>1, <2>2, <1>2, <1>6, PushKeeps DEF Good
  <2>7. Fit(Push(T, This.body), Q, W)
    BY <2>4, <2>5, <2>6, KeepsFit
  <2> QED
    BY <2>7, <1>4, <1>10
<1> QED
  BY <1>4, <1>9, <1>10

(* A signal, in whatever state the script is.                              *)
LEMMA SignalFit ==
  ASSUME Loaded, NEW S, NEW W, Fit(S, Silent(signal, missed), W), NEW s \in Signals,
         signal \in [Signals -> 0 .. MaxSignals], missed \subseteq Signals, SignalScript(S, s)
  PROVE  /\ signal' \in [Signals -> 0 .. MaxSignals]
         /\ missed' \subseteq Signals
         /\ Fit(sc', Silent(signal', missed'), W)
<1>1. /\ signal' = [signal EXCEPT ![s] = @ + 1] /\ signal[s] < MaxSignals
      /\ \/ sc' = CatchEvents(S, signal') /\ missed' = {}
         \/ sc' = S /\ missed' = missed \cup {s}
  BY DEF SignalScript
<1>2. signal' \in [Signals -> 0 .. MaxSignals]
  <2>1. signal[s] + 1 \in 0 .. MaxSignals
    BY <1>1, ClauseAssumption
  <2> QED
    BY <1>1, <2>1
<1>3. CASE sc' = CatchEvents(S, signal') /\ missed' = {}
  <2> DEFINE T == CatchEvents(S, signal')
  <2>1. Good(T) /\ Keeps(S, T) /\ \A x \in T.on : ~ Holds(Clause(x), signal')
    BY CatchEventsGood DEF Fit
  <2> HIDE DEF T
  <2>2. Fit(T, Silent(signal, missed), W)
    BY <2>1, KeepsFit
  <2>3. Fit(T, Silent(signal', {}), W)
    BY <1>2, <2>1, <2>2, HeardFit
  <2> QED
    BY <1>2, <1>3, <2>3 DEF T
<1>4. CASE sc' = S /\ missed' = missed \cup {s}
  <2>1. Silent(signal, missed) \subseteq Silent(signal', missed')
    BY <1>1, <1>4 DEF Silent
  <2>2. Fit(sc', Silent(signal', missed'), W)
    BY <1>4, <2>1 DEF Fit, Quiet
  <2> QED
    BY <1>2, <1>4, <2>2
<1> QED
  BY <1>1, <1>3, <1>4

(* What the script may fail for in a step, other than what it has already. *)
Reasons == {sc.why, None, "evaluation"}
             \cup {w \in {"target"} : sc.state = "EXITING" /\ Text.cleanup \in Text.looped}

(* What holds after a step of the script.                                  *)
Stepped == /\ prog' = prog /\ world' \subseteq Conditions
           /\ signal' \in [Signals -> 0 .. MaxSignals]
           /\ missed' \subseteq Signals
           /\ Fit(sc', Silent(signal', missed'), Reasons)

LEMMA IInvFit ==
  ASSUME IInv, sc.state # "EMPTY"
  PROVE  /\ Loaded /\ Fit(sc, Silent(signal, missed), Reasons) /\ world \subseteq Conditions
         /\ signal \in [Signals -> 0 .. MaxSignals] /\ missed \subseteq Signals
BY DEF IInv, Fit, Reasons

LEMMA StepFit ==
  ASSUME IInv, sc.state # "EMPTY", Step
  PROVE  Stepped
<1> DEFINE Q == Silent(signal, missed)
           W == Reasons
<1>1. /\ Loaded /\ Fit(sc, Q, W) /\ world \subseteq Conditions
      /\ signal \in [Signals -> 0 .. MaxSignals] /\ missed \subseteq Signals
  BY IInvFit
<1>0. /\ {s \in Signals : signal[s] = 0} \subseteq Q
      /\ "evaluation" \in W
      /\ sc.state = "EXITING" /\ Text.cleanup \in Text.looped => "target" \in W
  BY DEF Silent, Reasons
<1>2. CASE SignalSelf
  <2>1. Doing({"signal"}) /\ This.clause \in Signals
    <3>1. Doing({"signal"})
      BY <1>2 DEF SignalSelf
    <3> DEFINE f == Started.stack[Depth(Started)]
    <3>2. /\ Good(Started) /\ Depth(Started) \in 1 .. Depth(Started)
          /\ This = Stmt(f) /\ This.kind = "signal"
      BY <1>1, <3>1, StartedGood DEF Fit
    <3>3. f.block \in Block /\ f.pos \in DOMAIN Text.block[f.block]
      BY <1>1, <3>2, FrameIs
    <3> QED
      BY <1>1, <3>1, <3>2, <3>3, ProgramIs DEF Parsed, Stmt
  <2>2. Fit(Started, Q, W)
    BY <1>1, <2>1, StartedFit
  <2>3. SignalScript(Started, This.clause)
    BY <1>2 DEF SignalSelf
  <2>4. prog' = prog /\ world' = world
    BY <2>3 DEF SignalScript
  <2>5. /\ signal' \in [Signals -> 0 .. MaxSignals] /\ missed' \subseteq Signals
        /\ Fit(sc', Silent(signal', missed'), W)
    <3> HIDE DEF W
    <3> QED
      BY <1>1, <2>1, <2>2, <2>3, SignalFit
  <2> QED
    BY <1>1, <2>4, <2>5 DEF Stepped
<1>3. CASE Until
  <2>1. prog' = prog /\ signal' = signal /\ world' = world /\ missed' = {}
    BY <1>3 DEF Until
  <2>2. Fit(sc', Silent(signal, {}), W)
    <3> HIDE DEF Q, W
    <3> QED
      BY <1>1, <1>3, UntilFit
  <2> QED
    BY <1>1, <2>1, <2>2 DEF Stepped
<1>4. CASE ~ SignalSelf /\ ~ Until
  <2>1. prog' = prog /\ signal' = signal /\ world' = world /\ missed' = missed
    BY <1>4 DEF Step, Simple, Counted, While, Call, If, Break, NextIteration, Return, Exit,
                CatchStatement, Fail, EndOfScript, Goes
  <2> HIDE DEF Q, W
  <2>2. ASSUME Simple PROVE Fit(sc', Q, W)
    BY <1>1, <2>2, StartedFit DEF Simple, Goes
  <2>3. ASSUME Counted PROVE Fit(sc', Q, W)
    BY <1>1, <2>3, CountedFit
  <2>5. ASSUME While PROVE Fit(sc', Q, W)
    BY <1>1, <2>5, WhileFit
  <2>6. ASSUME Call PROVE Fit(sc', Q, W)
    <3>1. Doing({"call"}) /\ sc' = Push(Started, This.body)
      BY <2>6 DEF Call, Goes
    <3> QED
      BY <1>1, <3>1, EnterFit
  <2>7. ASSUME If PROVE Fit(sc', Q, W)
    <3>1. Doing({"if"}) /\ (sc' = Push(Started, This.body) \/ sc' = Push(Started, This.action))
      BY <2>7 DEF If, Goes
    <3> QED
      BY <1>1, <3>1, EnterFit
  <2>8. ASSUME Break \/ NextIteration PROVE Fit(sc', Q, W)
    BY <1>0, <1>1, <2>8, BreakFit
  <2>9. ASSUME Return PROVE Fit(sc', Q, W)
    BY <1>1, <2>9, ReturnFit
  <2>10. ASSUME Exit PROVE Fit(sc', Q, W)
    BY <1>1, <2>10, StartedFit, ExitFit DEF Exit, Goes
  <2>11. ASSUME CatchStatement PROVE Fit(sc', Q, W)
    BY <1>0, <1>1, <2>11, CatchStatementFit
  <2>12. ASSUME Fail PROVE Fit(sc', Q, W)
    BY <1>0, <1>1, <2>12, StartedFit, FailFit DEF Fail, Goes
  <2>13. ASSUME EndOfScript PROVE Fit(sc', Q, W)
    <3>1. sc' = ExitScript(Advance(sc))
      BY <2>13 DEF EndOfScript, Goes
    <3>2. Fit(Advance(sc), Q, W)
      BY <1>1, AdvanceGood, KeepsFit DEF Fit
    <3> QED
      BY <1>1, <3>1, <3>2, ExitFit
  <2>14. Fit(sc', Q, W)
    BY <1>4, <2>2, <2>3, <2>5, <2>6, <2>7, <2>8, <2>9, <2>10, <2>11, <2>12, <2>13 DEF Step
  <2> QED
    BY <1>1, <2>1, <2>14 DEF Stepped, Q, W
<1> QED
  BY <1>2, <1>3, <1>4

LEMMA RewindFit ==
  ASSUME IInv, NEW yes \in BOOLEAN, Rewind(yes)
  PROVE  Stepped
<1> DEFINE P == Pop(sc, 0)
           Q == Push(P, Text.main)
           T == [Q EXCEPT !.state = "ACTIVE", !.why = None]
<1>1. /\ Loaded /\ Fit(sc, Silent(signal, missed), Reasons) /\ world \subseteq Conditions
      /\ signal \in [Signals -> 0 .. MaxSignals]
  BY IInvFit DEF Rewind
<1>2. Good(P) /\ Depth(P) = 0
  BY <1>1, PopEmpty DEF Fit
<1>3. /\ Good(Q) /\ Q.on = {} /\ Q.ahead = {}
      /\ Depth(Q) > 0 => Q.stack[1].block = Text.main
  BY <1>1, <1>2, RootGood
<1>4. sc' = T
  BY DEF Rewind
<1> HIDE DEF Q
<1>5. /\ T \in ScriptType /\ T.stack = Q.stack /\ T.on = {} /\ T.ahead = Q.ahead
      /\ T.state = "ACTIVE" /\ T.why = None
  BY <1>3 DEF Good, ScriptType
<1> HIDE DEF T
<1>6. Good(T) /\ Depth(T) = Depth(Q)
  BY <1>3, <1>5, StateGood DEF Depth
<1>7. Fit(T, Silent(signal', missed'), Reasons)
  BY <1>3, <1>5, <1>6 DEF Fit, Rooted, Quiet, Reasons
<1>8. signal' \in [Signals -> 0 .. MaxSignals] /\ missed' \subseteq Signals
  BY <1>1, ClauseAssumption DEF Rewind, Reset
<1> QED
  BY <1>1, <1>4, <1>7, <1>8 DEF Rewind, Stepped

LEMMA ClearFit ==
  ASSUME IInv, NEW s \in Signals, sc.state # "EMPTY", ClearSignal(s)
  PROVE  Stepped
<1>1. /\ Loaded /\ Fit(sc, Silent(signal, missed), Reasons) /\ world \subseteq Conditions
      /\ signal \in [Signals -> 0 .. MaxSignals] /\ missed \subseteq Signals
  BY IInvFit
<1>2. PICK n \in {signal[s] - 1, 0} : signal' = [signal EXCEPT ![s] = n]
  BY DEF ClearSignal
<1>3. n \in 0 .. MaxSignals /\ signal[s] > 0
  BY <1>1, <1>2, ClauseAssumption DEF ClearSignal
<1>4. signal' \in [Signals -> 0 .. MaxSignals]
  BY <1>1, <1>2, <1>3
<1>5. Silent(signal, missed) \subseteq Silent(signal', missed)
  BY <1>1, <1>2, <1>3 DEF Silent
<1>6. Fit(sc, Silent(signal', missed), Reasons)
  BY <1>1, <1>5 DEF Fit, Quiet
<1> QED
  BY <1>1, <1>4, <1>6 DEF ClearSignal, Stepped

LEMMA SteppedIInv ==
  ASSUME IInv, sc.state # "EMPTY", Stepped
  PROVE  IInv'
<1>1. Loaded
  BY DEF IInv
<1>2. Good(sc)'
  BY DEF Stepped, Fit, Good, Framed, Deepens, Linked, Enclosed, Listed, Watches, InOrder,
         Text, Stmt, Id, Depth
<1>3. Rooted(sc)' /\ Quiet(sc, Silent(signal, missed))'
  BY DEF Stepped, Fit, Rooted, Quiet, Silent, Text, Clause, Depth
<1>4. (sc.why \in {sc.why})' /\ sc'.state # "EMPTY"
  BY DEF Stepped, Fit
<1>5. Fit(sc, Silent(signal, missed), {sc.why})'
  BY <1>2, <1>3, <1>4 DEF Fit
<1>6. Loaded'
  BY <1>1 DEF Loaded, Stepped
<1> QED
  BY <1>4, <1>5, <1>6 DEF IInv, Stepped

LEMMA InitIInv ==
  ASSUME Init
  PROVE  IInv
BY ClauseAssumption DEF Init, IInv, NoScript

(* The stack is one frame, or empty if the program is.                     *)
LEMMA StageIInv ==
  ASSUME IInv, NEW p \in Scripts, NEW yes \in BOOLEAN, Stage(p, yes)
  PROVE  IInv'
<1>1. IInv /\ sc.state = "EMPTY" /\ prog' = p /\ world' = world
  BY DEF Stage
<1>2. signal' \in [Signals -> 0 .. MaxSignals] /\ missed' \subseteq Signals
  BY ClauseAssumption DEF Stage, Reset, IInv
<1>3. Loaded' /\ Text' = Program[p] /\ Parsed(Program[p])
  BY <1>1, ProgramAssumption DEF Loaded, Text
<1>4. /\ sc'.state = "ACTIVE" /\ sc'.on = {} /\ sc'.ahead = {} /\ sc'.why = None
      /\ sc'.stack = IF Program[p].block[Program[p].main] = <<>> THEN <<>>
                     ELSE <<[block |-> Program[p].main, pos |-> 1, next |-> "START", iteration |-> 0]>>
      /\ sc' = [state |-> "ACTIVE", stack |-> sc'.stack, on |-> {}, ahead |-> {}, why |-> None]
  BY DEF Stage, NoScript
<1> DEFINE f == [block |-> Program[p].main, pos |-> 1, next |-> "START", iteration |-> 0]
<1>5. f \in Frame
  BY <1>3 DEF Parsed, Frame
<1>6. /\ sc'.stack \in Seq(Frame) /\ Len(sc'.stack) \in {0, 1}
      /\ Len(sc'.stack) = 1 => sc'.stack[1] = f /\ Program[p].block[Program[p].main] # <<>>
  BY <1>4, <1>5
<1>7. sc' \in ScriptType
  BY <1>4, <1>6 DEF ScriptType
<1>8. ASSUME Len(sc'.stack) = 1
      PROVE  /\ 1 <= Len(Program[p].block[Program[p].main])
             /\ Program[p].block[Program[p].main][1] \in Statement
             /\ Program[p].main \notin Program[p].looped
  <2>1. Program[p].block[Program[p].main] \in Seq(Statement) /\ Program[p].main \notin Program[p].looped
    BY <1>3 DEF Parsed
  <2>2. Program[p].block[Program[p].main] # <<>>
    BY <1>6, <1>8
  <2> QED
    BY <2>1, <2>2
<1>9. Framed(sc)'
  <2>1. CASE Len(sc'.stack) = 0
    <3>1. 1 .. Len(sc'.stack) = {}
      BY <2>1
    <3> QED
      BY <3>1 DEF Framed, Depth
  <2>2. CASE Len(sc'.stack) = 1
    <3>1. /\ 1 .. Len(sc'.stack) = {1}
          /\ sc'.stack[1] = f
      BY <2>2, <1>6
    <3>2. Stmt(f)' = Program[p].block[Program[p].main][1]
      BY <1>3 DEF Stmt
    <3>3. Stmt(f)'.times \in Nat \ {0}
      BY <1>8, <2>2, <3>2 DEF Statement
    <3>4. /\ f.pos <= Len(Program[p].block[f.block])
          /\ f.iteration < Stmt(f)'.times /\ f.iteration <= Stmt(f)'.times
      BY <1>8, <2>2, <3>3
    <3>5. Stmt(sc.stack[1])' = Stmt(f)'
      BY <3>1 DEF Stmt
    <3> QED
      BY <1>3, <3>1, <3>4, <3>5 DEF Framed, Depth
  <2> QED
    BY <1>6, <2>1, <2>2
<1>10. (Deepens(sc) /\ Linked(sc) /\ Listed(sc) /\ InOrder(sc))'
  BY <1>4, <1>6 DEF Deepens, Linked, Listed, InOrder, Depth, Id
<1>11. Enclosed(sc)'
  BY <1>3, <1>6, <1>8 DEF Enclosed, Depth
<1>12. Rooted(sc)' /\ Quiet(sc, Silent(signal, missed))'
  BY <1>3, <1>4, <1>6 DEF Rooted, Quiet, Depth
<1>13. Fit(sc, Silent(signal, missed), {sc.why})'
  BY <1>4, <1>7, <1>9, <1>10, <1>11, <1>12 DEF Fit, Good
<1> QED
  BY <1>1, <1>2, <1>3, <1>4, <1>13 DEF IInv

(* A step either leaves a script that is loaded, or begins or ends one, or *)
(* finds none.                                                             *)
Followed == \/ sc.state # "EMPTY" /\ Stepped
            \/ IInv' /\ (sc'.why = None \/ sc' = sc)

LEMMA NextFollowed ==
  ASSUME IInv, [Next]_vars
  PROVE  Followed
<1>1. ASSUME Step PROVE Followed
  <2>1. sc.state # "EMPTY"
    BY <1>1 DEF Step, Simple, Counted, Until, While, Call, If, Break, NextIteration, Return, Exit,
                CatchStatement, SignalSelf, Fail, EndOfScript, Doing, Running
  <2> QED
    BY <1>1, <2>1, StepFit DEF Followed
<1>2. ASSUME Abort PROVE Followed
  <2>1. /\ sc.state # "EMPTY" /\ sc' = ExitScript(sc) /\ missed' = missed
        /\ prog' = prog /\ signal' = signal /\ world' = world
    BY <1>2 DEF Abort, Goes
  <2>2. Loaded /\ Fit(sc, Silent(signal, missed), Reasons)
    BY <2>1, IInvFit
  <2>3. Fit(sc', Silent(signal', missed'), Reasons)
    BY <2>1, <2>2, ExitFit
  <2>4. Stepped
    BY <2>1, <2>3 DEF IInv, Stepped
  <2> QED
    BY <2>1, <2>4 DEF Followed
<1>3. ASSUME Discard PROVE Followed
  BY <1>3 DEF Discard, IInv, NoScript, Followed
<1>4. ASSUME NEW p \in Scripts, NEW yes \in BOOLEAN, Stage(p, yes) PROVE Followed
  <2>1. IInv' /\ sc'.why = None
    BY <1>4, StageIInv DEF Stage, NoScript
  <2> QED
    BY <2>1 DEF Followed
<1>5. ASSUME NEW yes \in BOOLEAN, Rewind(yes) PROVE Followed
  BY <1>5, RewindFit DEF Rewind, Followed
<1>6. ASSUME NEW s \in Signals, Signal(s) PROVE Followed
  <2>1. /\ sc.state # "EMPTY" /\ SignalScript(sc, s) /\ prog' = prog /\ world' = world
    BY <1>6 DEF Signal, SignalScript
  <2>2. /\ Loaded /\ Fit(sc, Silent(signal, missed), Reasons) /\ world \subseteq Conditions
        /\ signal \in [Signals -> 0 .. MaxSignals] /\ missed \subseteq Signals
    BY <2>1, IInvFit
  <2>3. /\ signal' \in [Signals -> 0 .. MaxSignals] /\ missed' \subseteq Signals
        /\ Fit(sc', Silent(signal', missed'), Reasons)
    BY <1>6, <2>1, <2>2, SignalFit
  <2>5. Stepped
    BY <2>1, <2>2, <2>3 DEF Stepped
  <2> QED
    BY <2>1, <2>5 DEF Followed
<1>7. ASSUME NEW s \in Signals, ClearSignal(s) PROVE Followed
  <2>1. CASE sc.state = "EMPTY"
    <3>1. PICK n \in {signal[s] - 1, 0} : signal' = [signal EXCEPT ![s] = n]
      BY <1>7 DEF ClearSignal
    <3>2. signal[s] \in 0 .. MaxSignals /\ signal[s] > 0
      BY <1>7 DEF ClearSignal, IInv
    <3>3. n \in 0 .. MaxSignals
      BY <3>1, <3>2, ClauseAssumption
    <3>4. signal' \in [Signals -> 0 .. MaxSignals]
      BY <3>1, <3>3 DEF IInv
    <3> QED
      BY <1>7, <2>1, <3>4 DEF ClearSignal, IInv, Followed
  <2>2. CASE sc.state # "EMPTY"
    BY <1>7, <2>2, ClearFit DEF Followed
  <2> QED
    BY <2>1, <2>2
<1>8. ASSUME NEW c \in Conditions, Change(c) PROVE Followed
  <2>1. prog' = prog /\ sc' = sc /\ signal' = signal /\ missed' = missed /\ world' \subseteq Conditions
    BY <1>8 DEF Change, IInv
  <2>2. CASE sc.state = "EMPTY"
    BY <2>1, <2>2 DEF IInv, Followed
  <2>3. CASE sc.state # "EMPTY"
    <3>1. Stepped
      BY <2>1, <2>3, IInvFit DEF Stepped
    <3> QED
      BY <2>3, <3>1 DEF Followed
  <2> QED
    BY <2>2, <2>3
<1>9. ASSUME UNCHANGED vars PROVE Followed
  <2>1. prog' = prog /\ sc' = sc /\ signal' = signal /\ missed' = missed /\ world' = world
    BY <1>9 DEF vars
  <2>2. CASE sc.state = "EMPTY"
    BY <2>1, <2>2 DEF IInv, Followed
  <2>3. CASE sc.state # "EMPTY"
    <3>1. Stepped
      BY <2>1, <2>3, IInvFit DEF Stepped
    <3> QED
      BY <2>3, <3>1 DEF Followed
  <2> QED
    BY <2>2, <2>3
<1> QED
  BY <1>1, <1>2, <1>3, <1>4, <1>5, <1>6, <1>7, <1>8, <1>9 DEF Next

LEMMA NextIInv ==
  ASSUME IInv, [Next]_vars
  PROVE  IInv'
BY NextFollowed, SteppedIInv DEF Followed

LEMMA Invariant == Spec => []IInv
BY InitIInv, NextIInv, PTL DEF Spec

(* What the invariant says, while a script is loaded, in the terms of the  *)
(* properties.                                                             *)
LEMMA IInvIs ==
  ASSUME IInv
  PROVE  TypeOK /\ Scoped /\ CatchesNest /\ NoSignalMissed
<1>1. CASE sc.state = "EMPTY"
  <2>1. prog = None /\ sc = NoScript
    BY <1>1 DEF IInv
  <2>2. sc.stack = <<>> /\ sc.on = {} /\ sc.why = None /\ sc.state = "EMPTY" /\ sc \in ScriptType
    BY <2>1 DEF NoScript, ScriptType
  <2>3. DOMAIN sc.stack = {} /\ Len(sc.stack) = 0
    BY <2>2
  <2> HIDE DEF NoScript
  <2>4. TypeOK
    BY <2>1, <2>2, <2>3 DEF TypeOK, IInv
  <2>5. Scoped
    BY <2>3 DEF Scoped
  <2> QED
    BY <2>2, <2>3, <2>4, <2>5 DEF CatchesNest, NoSignalMissed
<1>2. CASE sc.state # "EMPTY"
  <2>1. Loaded /\ Fit(sc, Silent(signal, missed), {sc.why}) /\ Good(sc)
    BY <1>2 DEF IInv, Fit
  <2>2. DOMAIN sc.stack = 1 .. Depth(sc) /\ Depth(sc) = Len(sc.stack) /\ Depth(sc) \in Nat
    BY <2>1 DEF Good, ScriptType, Depth
  <2>3. TypeOK
    BY <1>2, <2>1, <2>2 DEF TypeOK, IInv, Loaded, Good, Framed
  <2>4. Scoped
    BY <2>1, <2>2 DEF Scoped, Fit, Rooted, Good, Linked
  <2>5. \A i \in 1 .. Depth(sc) : Watching(i) <=> Watches(sc, i)
    BY <2>2 DEF Watching, Watches
  <2>6. CatchesNest
    BY <2>1, <2>2, <2>5 DEF CatchesNest, Good, Listed, InOrder
  <2>7. NoSignalMissed
    BY <2>1 DEF NoSignalMissed, Fit, Quiet, Silent
  <2> QED
    BY <2>3, <2>4, <2>6, <2>7
<1> QED
  BY <1>1, <1>2

-----------------------------------------------------------------------------
(* Every frame stands at a statement, and no loop counts beyond its end.   *)
THEOREM TypeCorrect == Spec => []TypeOK
<1>1. IInv => TypeOK
  BY IInvIs
<1> QED
  BY <1>1, Invariant, PTL

(* The stack follows the text of the program, however statements are left. *)
THEOREM StackFollowsText == Spec => []Scoped
<1>1. IInv => Scoped
  BY IInvIs
<1> QED
  BY <1>1, Invariant, PTL

(* The catch list agrees with the stack: nothing stale in it, nothing      *)
(* missing, and the outermost catch first.                                 *)
THEOREM CatchesAgree == Spec => []CatchesNest
<1>1. IInv => CatchesNest
  BY IInvIs
<1> QED
  BY <1>1, Invariant, PTL

(* No signal passes a catch that waits for it, unless a clause failed as   *)
(* it came.                                                                *)
THEOREM SignalsAreCaught == Spec => []NoSignalMissed
<1>1. IInv => NoSignalMissed
  BY IInvIs
<1> QED
  BY <1>1, Invariant, PTL

(* What the parser accepted, a break or a next, finds its loop, unless the *)
(* exit handler was written inside of one; and a clause that becomes true  *)
(* always finds its catch.                                                 *)
THEOREM TargetsFound == Spec => TargetsAreThere
<1>1. ASSUME IInv, [Next]_vars, sc'.why # sc.why, sc'.why \notin {None, "evaluation"}
      PROVE  /\ sc'.why = "target"
             /\ sc.state = "EXITING" /\ Text.cleanup \in Text.looped
  <2>1. Stepped \/ sc'.why = None \/ sc' = sc
    BY <1>1, NextFollowed DEF Followed
  <2>2. sc'.why \in Reasons
    BY <1>1, <2>1 DEF Stepped, Fit
  <2> QED
    BY <1>1, <2>2 DEF Reasons
<1>2. IInv /\ [Next]_vars =>
        [sc'.why # sc.why /\ sc'.why \notin {None, "evaluation"} =>
           /\ sc'.why = "target"
           /\ sc.state = "EXITING" /\ Text.cleanup \in Text.looped]_vars
  BY <1>1
<1> QED
  BY <1>2, Invariant, PTL DEF Spec, TargetsAreThere
=============================================================================
