------------------------------ MODULE M183Java ------------------------------
(***************************************************************************)
(* src/m183_LTL_CTL.java: the event-condition-action program, one action   *)
(* per if statement of calculateOutput.                                    *)
(*                                                                         *)
(* calculateOutput is a cascade: each block tests cf and the control       *)
(* variables as the blocks before it left them, so a block that fires      *)
(* moves the variables into a range that a later block tests for.  Only    *)
(* cf = false keeps the later block from firing too.  The steps are        *)
(* therefore modelled one by one and not as one transition.                *)
(*                                                                         *)
(* Arithmetic is on unbounded integers.  OperandRange is why that is the   *)
(* same as Java's 32-bit arithmetic: M183JavaProofs shows that no          *)
(* intermediate result leaves the range of an int.                         *)
(***************************************************************************)
EXTENDS Integers, Sequences

VARIABLES
  pc,            \* where calculateOutput is; "main" is the head of the i/o loop
  input,         \* the line last read
  cf,            \* no block has fired yet for this input
  a422009172, a2108127495, a1522448132, a1745113960,  \* fields of m183_LTL
  printed        \* lines written since the last input was read

fields == <<a422009172, a2108127495, a1522448132, a1745113960>>
vars   == <<pc, input, cf, a422009172, a2108127495, a1522448132, a1745113960, printed>>

-----------------------------------------------------------------------------
(***************************************************************************)
(* Java's % and /: the quotient is rounded towards zero, the remainder has *)
(* the sign of the dividend.  The divisors in the program are positive.    *)
(***************************************************************************)
Rem(a, b)  == IF a >= 0 THEN a % b ELSE -((-a) % b)
Quot(a, b) == IF a >= 0 THEN a \div b ELSE -((-a) \div b)

Inputs   == {"ai1_ce1", "usr4_ai1_VoidReply", "usr4_ni1_ne1", "ai1_ce2",
             "usr2_ai1_VoidReply"}
Other    == "other"
Rejected == "Invalid input"

PCs == {"main", "r1", "m1", "r2", "m2", "m3", "m4", "m5", "r3", "m6", "m7",
        "r4", "m8", "check", "crashed"}

Init ==
  /\ pc = "main"
  /\ input = Other
  /\ cf = TRUE
  /\ a422009172 = -68
  /\ a2108127495 = -44
  /\ a1522448132 = 173
  /\ a1745113960 = "h"
  /\ printed = <<>>

-----------------------------------------------------------------------------
(***************************************************************************)
(* A block that fires clears cf and prints its answer.                     *)
(***************************************************************************)
Fires(i)  == cf /\ input = i
Emit(out) == cf' = FALSE /\ printed' = Append(printed, out)
Idle      == UNCHANGED <<cf, fields, printed>>

calculateOutputm1 ==
  IF Fires("usr2_ai1_VoidReply")
  THEN /\ a1745113960' = "h"
       /\ a2108127495' =
            Rem(Rem(a2108127495 * a1522448132, 14999), 72) - 91 + 1
       /\ Emit("ai1_VoidReply")
       /\ UNCHANGED <<a422009172, a1522448132>>
  ELSE Idle

\* Mutant: a1745113960 = "h" forgotten.
calculateOutputm2_keepsLetter ==
  \/ /\ Fires("usr4_ni1_ne1")
     /\ Emit("ni1_ne1")
     /\ UNCHANGED fields
  \/ /\ Fires("ai1_ce2")
     /\ a2108127495' = Rem(a2108127495, 59) + 98 - 4 - 42
     /\ Emit("usr4_ai1_ce2")
     /\ UNCHANGED <<a422009172, a1522448132, a1745113960>>
  \/ /\ ~ (Fires("usr4_ni1_ne1") \/ Fires("ai1_ce2"))
     /\ Idle

calculateOutputm2 ==
  \/ /\ Fires("usr4_ni1_ne1")
     /\ Emit("ni1_ne1")
     /\ UNCHANGED fields
  \/ /\ Fires("ai1_ce2")
     /\ a1745113960' = "h"
     /\ a2108127495' = Rem(a2108127495, 59) + 98 - 4 - 42
     /\ Emit("usr4_ai1_ce2")
     /\ UNCHANGED <<a422009172, a1522448132>>
  \/ /\ ~ (Fires("usr4_ni1_ne1") \/ Fires("ai1_ce2"))
     /\ Idle

calculateOutputm3 ==
  IF Fires("usr4_ai1_VoidReply")
  THEN /\ a1522448132' =
            Rem((Rem(a2108127495 * a2108127495, 50) - 75) * 5, 50) - 31
       /\ a2108127495' = a2108127495 * a1522448132' - 22476 - 3649
       /\ Emit("usr2_ai1_ce4")
       /\ UNCHANGED <<a422009172, a1745113960>>
  ELSE Idle

calculateOutputm4 ==
  \/ /\ Fires("ai1_ce2")
     /\ Emit("ai1_VoidReply")
     /\ UNCHANGED fields
  \/ /\ Fires("ai1_ce1")
     /\ a1745113960' = "g"
     /\ a2108127495' = Rem(a2108127495 + 7243 + 1395, 59) + 16
     /\ Emit("usr4_ai1_ce1")
     /\ UNCHANGED <<a422009172, a1522448132>>
  \/ /\ Fires("usr4_ni1_ne1")
     /\ a1745113960' = "i"
     /\ Emit("usr2_ai1_ce4")
     /\ UNCHANGED <<a422009172, a2108127495, a1522448132>>
  \/ /\ ~ (Fires("ai1_ce2") \/ Fires("ai1_ce1") \/ Fires("usr4_ni1_ne1"))
     /\ Idle

calculateOutputm5 ==
  IF Fires("usr2_ai1_VoidReply")
  THEN /\ a1745113960' = "h"
       /\ Emit("none")
       /\ UNCHANGED <<a422009172, a2108127495, a1522448132>>
  ELSE Idle

calculateOutputm6 ==
  \/ /\ Fires("usr4_ni1_ne1")
     /\ a2108127495' = (a2108127495 + 13863) * 2
     /\ a422009172' =
          Rem(Rem(a2108127495' * a2108127495', 14999) - 1380, 47) + 150 + 23887 - 23885
     /\ Emit("none")
     /\ UNCHANGED <<a1522448132, a1745113960>>
  \/ /\ Fires("usr4_ai1_VoidReply")
     /\ a1745113960' = "e"
     /\ a2108127495' = a2108127495 - 139 - 4 + 5
     /\ Emit("ai1_VoidReply")
     /\ UNCHANGED <<a422009172, a1522448132>>
  \/ /\ ~ (Fires("usr4_ni1_ne1") \/ Fires("usr4_ai1_VoidReply"))
     /\ Idle

calculateOutputm7 ==
  \/ /\ Fires("usr4_ni1_ne1")
     /\ a1745113960' = "g"
     /\ a2108127495' = a2108127495 - 128 + 3384 - 4504 + 1107
     /\ Emit("none")
     /\ UNCHANGED <<a422009172, a1522448132>>
  \/ /\ Fires("usr4_ai1_VoidReply")
     /\ a2108127495' = Rem((a2108127495 - 22339 + 35662) * 2, 72) - 149
     /\ Emit("ai1_VoidReply")
     /\ UNCHANGED <<a422009172, a1522448132, a1745113960>>
  \/ /\ ~ (Fires("usr4_ni1_ne1") \/ Fires("usr4_ai1_VoidReply"))
     /\ Idle

\* Mutant: the letter of another state.
calculateOutputm8_wrongState ==
  IF Fires("usr4_ai1_VoidReply")
  THEN /\ a1745113960' = "h"
       /\ a2108127495' =
            Rem((Rem(Quot(Rem(a2108127495 * a422009172, 14999), 5), 72) - 156) * 5, 72) - 65
       /\ Emit("ni1_ne1__ai1_VoidReply")
       /\ UNCHANGED <<a422009172, a1522448132>>
  ELSE Idle

calculateOutputm8 ==
  IF Fires("usr4_ai1_VoidReply")
  THEN /\ a1745113960' = "e"
       /\ a2108127495' =
            Rem((Rem(Quot(Rem(a2108127495 * a422009172, 14999), 5), 72) - 156) * 5, 72) - 65
       /\ Emit("ni1_ne1__ai1_VoidReply")
       /\ UNCHANGED <<a422009172, a1522448132>>
  ELSE Idle

-----------------------------------------------------------------------------
(***************************************************************************)
(* The body of calculateOutput: four ranges of a2108127495, and inside     *)
(* them one test per method.                                               *)
(***************************************************************************)
Range1 == a2108127495 <= -164
Range2 == -164 < a2108127495 /\ -19 >= a2108127495
Range3 == -19 < a2108127495 /\ 100 >= a2108127495
Range4 == 100 < a2108127495

Enter(from, range, in, past) ==
  /\ pc = from
  /\ pc' = IF cf /\ range THEN in ELSE past
  /\ UNCHANGED <<input, cf, fields, printed>>

Call(at, test, method, next) ==
  /\ pc = at
  /\ IF cf /\ test THEN method ELSE Idle
  /\ pc' = next
  /\ UNCHANGED input

EnterRange1 == Enter("r1", Range1, "m1", "r2")
EnterRange2 == Enter("r2", Range2, "m2", "r3")
EnterRange3 == Enter("r3", Range3, "m6", "r4")
EnterRange4 == Enter("r4", Range4, "m8", "check")

Call1 == Call("m1", -83 < a1522448132 /\ 18 >= a1522448132, calculateOutputm1, "r2")
Call2 == Call("m2", a1745113960 = "e", calculateOutputm2, "m3")
Call3 == Call("m3", a1745113960 = "g", calculateOutputm3, "m4")
Call4 == Call("m4", a1745113960 = "h", calculateOutputm4, "m5")
Call5 == Call("m5", a1745113960 = "i", calculateOutputm5, "r3")
Call6 == Call("m6", a1745113960 = "g", calculateOutputm6, "m7")
Call7 == Call("m7", a1745113960 = "h", calculateOutputm7, "r4")
Call8 == Call("m8", 103 < a422009172 /\ 198 >= a422009172, calculateOutputm8, "check")

(***************************************************************************)
(* if(cf) throw: main catches the exception and reports the input.         *)
(***************************************************************************)
CheckFired ==
  /\ pc = "check"
  /\ printed' = IF cf THEN Append(printed, Rejected) ELSE printed
  /\ pc' = "main"
  /\ UNCHANGED <<input, cf, fields>>

(***************************************************************************)
(* One turn of the i/o loop.  The test meant to refuse unknown lines asks  *)
(* whether the line equals all five inputs at once; every line therefore   *)
(* reaches calculateOutput, which starts by setting cf.                    *)
(***************************************************************************)
ReadInput(i) ==
  /\ pc = "main"
  /\ input' = i
  /\ printed' = <<>>
  /\ pc' = IF \A k \in Inputs : i = k THEN "crashed" ELSE "r1"
  /\ cf' = TRUE
  /\ UNCHANGED fields

(***************************************************************************)
(* At the end of stdin readLine returns null and input.equals throws a     *)
(* NullPointerException that nothing catches.                              *)
(***************************************************************************)
ReadEndOfInput ==
  /\ pc = "main"
  /\ pc' = "crashed"
  /\ UNCHANGED <<input, cf, fields, printed>>

calculateOutput ==
  \/ EnterRange1 \/ EnterRange2 \/ EnterRange3 \/ EnterRange4
  \/ Call1 \/ Call2 \/ Call3 \/ Call4 \/ Call5 \/ Call6 \/ Call7 \/ Call8
  \/ CheckFired

Next ==
  \/ \E i \in Inputs \cup {Other} : ReadInput(i)
  \/ ReadEndOfInput
  \/ calculateOutput

Spec == Init /\ [][Next]_vars

-----------------------------------------------------------------------------
(***************************************************************************)
(* The eight regions of the fields in which the program rests between two  *)
(* inputs, named after the method that serves them.                        *)
(***************************************************************************)
InRegion(l) ==
  \/ /\ l = "m1" /\ Range1 /\ a1745113960 = "g"
     /\ -83 < a1522448132 /\ 18 >= a1522448132
  \/ l = "m2" /\ Range2 /\ a1745113960 = "e"
  \/ l = "m3" /\ Range2 /\ a1745113960 = "g"
  \/ l = "m4" /\ Range2 /\ a1745113960 = "h"
  \/ l = "m5" /\ Range2 /\ a1745113960 = "i"
  \/ l = "m6" /\ Range3 /\ a1745113960 = "g"
  \/ l = "m7" /\ Range3 /\ a1745113960 = "h"
  \/ /\ l = "m8" /\ Range4 /\ a1745113960 = "g"
     /\ 103 < a422009172 /\ 198 >= a422009172

Locs == {"m1", "m2", "m3", "m4", "m5", "m6", "m7", "m8"}

locOf == CHOOSE l \in Locs : InRegion(l)

(***************************************************************************)
(* The caller's view.  A call is over for the caller as soon as something  *)
(* was printed for it; the rest of the cascade must then be invisible.     *)
(***************************************************************************)
phaseOf == IF pc = "crashed" THEN "stopped"
           ELSE IF pc = "main" \/ printed # <<>> THEN "ready"
           ELSE "busy"

Mealy == INSTANCE Mealy183 WITH
           loc <- locOf, input <- input, reply <- printed, phase <- phaseOf

-----------------------------------------------------------------------------
TypeOK ==
  /\ pc \in PCs
  /\ input \in Inputs \cup {Other}
  /\ cf \in BOOLEAN
  /\ a422009172 \in Int /\ a2108127495 \in Int /\ a1522448132 \in Int
  /\ a1745113960 \in {"e", "g", "h", "i"}
  /\ printed \in Seq(Mealy!Outputs \cup {Rejected})

(***************************************************************************)
(* The fields are always in one of the eight regions: the integer formulas *)
(* in the eight methods, remainders of negative products included, never   *)
(* leave the program in a place where every input is refused for ever.     *)
(***************************************************************************)
NeverStranded == \E l \in Locs : InRegion(l)

(***************************************************************************)
(* The three integers stay so small that every product, sum and difference *)
(* in calculateOutputm1 .. calculateOutputm8 fits in a Java int; in m6 the *)
(* square of a2108127495 comes within a factor of 3 of the limit.          *)
(***************************************************************************)
OperandRange ==
  /\ a422009172 \in Int /\ -68 <= a422009172 /\ a422009172 <= 198
  /\ a2108127495 \in Int /\ -26125 <= a2108127495 /\ a2108127495 <= 27926
  /\ a1522448132 \in Int /\ -80 <= a1522448132 /\ a1522448132 <= 173

(***************************************************************************)
(* Bounded by its caller's view, calculateOutput is one transition of the  *)
(* Mealy machine: of the thirteen tests in the cascade exactly one answers *)
(* an input, and an input nobody answers changes nothing.                  *)
(***************************************************************************)
ImplementsMealy == Mealy!Spec

(***************************************************************************)
(* Where the cascade stands, cf tells whether anything was printed.  While *)
(* nothing was, the fields are still in the range whose block was entered, *)
(* and either the region they are in is still to be tested or its method   *)
(* has refused the input: no block is passed over before the input meets   *)
(* it.                                                                     *)
(***************************************************************************)
Pending(p) ==
  CASE p \in {"main", "r1", "m1"} -> Locs
    [] p \in {"r2", "m2"}        -> Locs \ {"m1"}
    [] p = "m3"                  -> Locs \ {"m1", "m2"}
    [] p = "m4"                  -> Locs \ {"m1", "m2", "m3"}
    [] p = "m5"                  -> Locs \ {"m1", "m2", "m3", "m4"}
    [] p \in {"r3", "m6"}        -> {"m6", "m7", "m8"}
    [] p = "m7"                  -> {"m7", "m8"}
    [] p \in {"r4", "m8"}        -> {"m8"}
    [] OTHER                     -> {}

CascadeMeetsRegion ==
  pc \notin {"main", "crashed"} =>
    \/ ~cf /\ Len(printed) = 1
    \/ /\ cf /\ printed = <<>>
       /\ pc = "m1" => Range1
       /\ pc \in {"m2", "m3", "m4", "m5"} => Range2
       /\ pc \in {"m6", "m7"} => Range3
       /\ pc = "m8" => Range4
       /\ \A l \in Locs : InRegion(l) => l \in Pending(pc) \/ ~ Mealy!Accepts(l, input)

(***************************************************************************)
(* However long the input, the program stays where it can answer, with     *)
(* operands that do not overflow, and no test of the cascade is passed     *)
(* over: the three hold together or not at all, since the range a method   *)
(* leaves its result in depends on the region and on the ranges it starts  *)
(* from.                                                                   *)
(***************************************************************************)
IInv == TypeOK /\ NeverStranded /\ OperandRange /\ CascadeMeetsRegion

=============================================================================
