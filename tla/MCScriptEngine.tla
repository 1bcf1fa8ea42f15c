--------------------------- MODULE MCScriptEngine ---------------------------
EXTENDS ScriptEngine

CONSTANTS Main, Body, Inner, Remedy, Handler, Ready, Stop

St(k, b, a, c) ==
  [kind |-> k, body |-> b, action |-> a, clause |-> c, times |-> IF k = "foreach" THEN 2 ELSE 1]
Leaf(k) == St(k, None, None, IF k = "until" THEN Ready ELSE IF k = "signal" THEN Stop ELSE None)

(* All programs of one shape: a compound statement, whose body holds       *)
(* another one and an until, whose body holds two statements; both may be  *)
(* catches, with a remedy or without; without an exit handler or with one, *)
(* which may be written inside of the outer loop and hold a break; so may  *)
(* the command.                                                            *)
Outer  == <<St("while", Body, None, None), St("foreach", Body, None, None),
            St("catch", Body, None, Stop), St("catch", Body, Remedy, Ready)>>
Middle == <<St("call", Inner, None, None), St("if", Inner, Remedy, None),
            St("foreach", Inner, None, None), St("catch", Inner, Remedy, Stop),
            St("catch", Inner, None, Ready)>>
First  == <<Leaf("until"), Leaf("signal")>>
Last   == <<Leaf("until"), Leaf("return"), Leaf("exit"), Leaf("break"), Leaf("next")>>
Cure   == <<<<>>, <<Leaf("break")>>, <<Leaf("until")>>>>
Ending == <<None, Handler, Handler>>

Shape == {x \in (1..4) \X (1..5) \X (1..2) \X (1..5) \X (1..3) \X (1..3) :
            /\ x[1] # 4 /\ x[2] \notin {2, 4} => x[5] = 1
            /\ x[4] \notin {1, 3} => x[6] = 1
            /\ x[6] = 3 => x[3] = 1 /\ x[4] = 3}

ProgramOf(x) ==
  [block |-> [b \in Block |->
     CASE b = Main    -> <<Outer[x[1]], Leaf("simple")>>
       [] b = Body    -> <<Middle[x[2]], Leaf("until")>>
       [] b = Inner   -> <<First[x[3]], Last[x[4]]>>
       [] b = Remedy  -> Cure[x[5]]
       [] b = Handler -> IF x[6] = 3 THEN <<Leaf("break")>> ELSE <<Leaf("until")>>],
   main |-> Main, cleanup |-> Ending[x[6]],
   depth |-> [b \in Block |-> IF b \in {Main, Handler} THEN 0 ELSE IF b = Body THEN 1 ELSE 2],
   looped |-> {Body, Inner, Remedy} \cup (IF x[6] = 3 THEN {Handler} ELSE {})]

(* Their names: the shape read as a number.                                *)
Code(x) == ((((x[1] * 6 + x[2]) * 6 + x[3]) * 6 + x[4]) * 6 + x[5]) * 6 + x[6]
Names   == {Code(x) : x \in Shape}
Digit(n, d) == (n \div d) % 6
Decoded(n)  == <<n \div 7776, Digit(n, 1296), Digit(n, 216), Digit(n, 36), Digit(n, 6), Digit(n, 1)>>
Texts   == [n \in Names |-> ProgramOf(Decoded(n))]
=============================================================================
