------------------------------- MODULE Redo183 -------------------------------
(***************************************************************************)
(* The reworked instrumentation of problem 183                             *)
(* (Ass1Redo/T1Final/instm183_LTL_CTLDirectFinal.java).                    *)
(*                                                                         *)
(* The machine was taken over from the earlier programs by hand, and one   *)
(* brace moved on the way: the block of the fourth range and the final     *)
(* if(cf) throw are inside the block of the third range.  The steps of     *)
(* calculateOutput are therefore modelled one by one, as in M183Java.      *)
(*                                                                         *)
(* Each input counts in depth how many of the tests it met came out true;  *)
(* main prints the largest of these counts for every fuzzed array.         *)
(***************************************************************************)
EXTENDS Table183, ThreeAddress183

VARIABLES
  pc,       \* where calculateOutput is; "main" is the head of main's inner loop
  input,    \* val of the input being processed or the last one; Other before it
  cf, a422009172, a2108127495, a1522448132, a1745113960,  \* val of the fields
  printed,  \* what was printed for the input
  depth     \* its depth

fields == <<a422009172, a2108127495, a1522448132, a1745113960>>
vars   == <<pc, input, cf, a422009172, a2108127495, a1522448132, a1745113960, printed, depth>>

A == a422009172
B == a2108127495
C == a1522448132

(***************************************************************************)
(* Two constructors of MyBool and the myAssign that copies one.  The       *)
(* constructor with three arguments assigns this.val to itself, so a copy  *)
(* is false whatever was copied.                                           *)
(***************************************************************************)
MyBool2(val) == val
MyBool3(val) == FALSE
myAssign(b)  == MyBool3(b)

Start ==
  /\ cf = myAssign(TRUE)
  /\ a422009172 = -68
  /\ a2108127495 = -44
  /\ a1522448132 = 173
  /\ a1745113960 = "h"

Init == Start /\ pc = "main" /\ input = Other /\ printed = <<>> /\ depth = 0

-----------------------------------------------------------------------------
(***************************************************************************)
(* The eight methods.                                                      *)
(***************************************************************************)
On(i)     == input = i
Emit(out) == cf' = myAssign(FALSE) /\ printed' = <<out>>
Refuse    == UNCHANGED <<cf, fields, printed>>

calculateOutputm1 ==
  IF On("usr2_ai1_VoidReply")
  THEN /\ Emit("ai1_VoidReply")
       /\ a1745113960' = "h"
       /\ a2108127495' = Chain(B * C, <<Op("Mod", 14999), Op("Mod", 72), Op("Del", 91),
                                        Op("Del", -1), Op("Mul", 1)>>)
       /\ UNCHANGED <<a422009172, a1522448132>>
  ELSE Refuse

calculateOutputm2 ==
  \/ /\ On("usr4_ni1_ne1")
     /\ Emit("ni1_ne1")
     /\ UNCHANGED fields
  \/ /\ On("ai1_ce2")
     /\ Emit("usr4_ai1_ce2")
     /\ a1745113960' = "h"
     /\ a2108127495' = Chain(B, <<Op("Mod", 59), Op("Del", -98), Op("Del", 4), Op("Add", -42)>>)
     /\ UNCHANGED <<a422009172, a1522448132>>
  \/ ~ (On("usr4_ni1_ne1") \/ On("ai1_ce2")) /\ Refuse

calculateOutputm3 ==
  IF On("usr4_ai1_VoidReply")
  THEN /\ Emit("usr2_ai1_ce4")
       /\ a1522448132' = Chain(B * B, <<Op("Mod", 50), Op("Del", 75), Op("Mul", 5),
                                        Op("Mod", 50), Op("Add", -31)>>)
       /\ a2108127495' = Chain(B * a1522448132',
                               <<Op("Del", 22476), Op("Mul", 1), Op("Add", -3649)>>)
       /\ UNCHANGED <<a422009172, a1745113960>>
  ELSE Refuse

calculateOutputm4 ==
  \/ /\ On("ai1_ce2")
     /\ Emit("ai1_VoidReply")
     /\ UNCHANGED fields
  \/ /\ On("ai1_ce1")
     /\ Emit("usr4_ai1_ce1")
     /\ a1745113960' = "g"
     /\ a2108127495' = Chain(B, <<Op("Del", -7243), Op("Del", -1395), Op("Mod", 59),
                                  Op("Del", -16)>>)
     /\ UNCHANGED <<a422009172, a1522448132>>
  \/ /\ On("usr4_ni1_ne1")
     /\ Emit("usr2_ai1_ce4")
     /\ a1745113960' = "i"
     /\ UNCHANGED <<a422009172, a2108127495, a1522448132>>
  \/ ~ (On("ai1_ce2") \/ On("ai1_ce1") \/ On("usr4_ni1_ne1")) /\ Refuse

calculateOutputm5 ==
  IF On("usr2_ai1_VoidReply")
  THEN /\ Emit("none")
       /\ a1745113960' = "h"
       /\ UNCHANGED <<a422009172, a2108127495, a1522448132>>
  ELSE Refuse

\* Mutant: a1745113960 = "e" forgotten in the second block.
calculateOutputm6_keepsLetter ==
  \/ /\ On("usr4_ni1_ne1")
     /\ Emit("none")
     /\ a2108127495' = Chain(B, <<Op("Add", 13863), Op("Mul", 2), Op("Mul", 1)>>)
     /\ a422009172' = Chain(a2108127495' * a2108127495',
                            <<Op("Mod", 14999), Op("Add", -1380), Op("Mod", 47),
                              Op("Del", -150), Op("Add", 23887), Op("Add", -23885)>>)
     /\ UNCHANGED <<a1522448132, a1745113960>>
  \/ /\ On("usr4_ai1_VoidReply")
     /\ Emit("ai1_VoidReply")
     /\ a2108127495' = Chain(B, <<Op("Add", -139), Op("Add", -4), Op("Add", 5)>>)
     /\ UNCHANGED <<a422009172, a1522448132, a1745113960>>
  \/ ~ (On("usr4_ni1_ne1") \/ On("usr4_ai1_VoidReply")) /\ Refuse

calculateOutputm6 ==
  \/ /\ On("usr4_ni1_ne1")
     /\ Emit("none")
     /\ a2108127495' = Chain(B, <<Op("Add", 13863), Op("Mul", 2), Op("Mul", 1)>>)
     /\ a422009172' = Chain(a2108127495' * a2108127495',
                            <<Op("Mod", 14999), Op("Add", -1380), Op("Mod", 47),
                              Op("Del", -150), Op("Add", 23887), Op("Add", -23885)>>)
     /\ UNCHANGED <<a1522448132, a1745113960>>
  \/ /\ On("usr4_ai1_VoidReply")
     /\ Emit("ai1_VoidReply")
     /\ a1745113960' = "e"
     /\ a2108127495' = Chain(B, <<Op("Add", -139), Op("Add", -4), Op("Add", 5)>>)
     /\ UNCHANGED <<a422009172, a1522448132>>
  \/ ~ (On("usr4_ni1_ne1") \/ On("usr4_ai1_VoidReply")) /\ Refuse

\* Mutant: the sign of a constant lost when subtractions became I.myDel.
calculateOutputm7_sign ==
  \/ /\ On("usr4_ni1_ne1")
     /\ Emit("none")
     /\ a1745113960' = "g"
     /\ a2108127495' = Chain(B, <<Op("Del", 128), Op("Del", 3384), Op("Del", 4504),
                                  Op("Del", -1107)>>)
     /\ UNCHANGED <<a422009172, a1522448132>>
  \/ /\ On("usr4_ai1_VoidReply")
     /\ Emit("ai1_VoidReply")
     /\ a2108127495' = Chain(B, <<Op("Del", 22339), Op("Del", -35662), Op("Mul", 2),
                                  Op("Mod", 72), Op("Del", 149)>>)
     /\ UNCHANGED <<a422009172, a1522448132, a1745113960>>
  \/ ~ (On("usr4_ni1_ne1") \/ On("usr4_ai1_VoidReply")) /\ Refuse

calculateOutputm7 ==
  \/ /\ On("usr4_ni1_ne1")
     /\ Emit("none")
     /\ a1745113960' = "g"
     /\ a2108127495' = Chain(B, <<Op("Del", 128), Op("Del", -3384), Op("Del", 4504),
                                  Op("Del", -1107)>>)
     /\ UNCHANGED <<a422009172, a1522448132>>
  \/ /\ On("usr4_ai1_VoidReply")
     /\ Emit("ai1_VoidReply")
     /\ a2108127495' = Chain(B, <<Op("Del", 22339), Op("Del", -35662), Op("Mul", 2),
                                  Op("Mod", 72), Op("Del", 149)>>)
     /\ UNCHANGED <<a422009172, a1522448132, a1745113960>>
  \/ ~ (On("usr4_ni1_ne1") \/ On("usr4_ai1_VoidReply")) /\ Refuse

calculateOutputm8 ==
  IF On("usr4_ai1_VoidReply")
  THEN /\ Emit("ni1_ne1__ai1_VoidReply")
       /\ a1745113960' = "e"
       /\ a2108127495' = Chain(B * A, <<Op("Mod", 14999), Op("Div", 5), Op("Mod", 72),
                                        Op("Add", -156), Op("Mul", 5), Op("Mod", 72),
                                        Op("Add", -65)>>)
       /\ UNCHANGED <<a422009172, a1522448132>>
  ELSE Refuse

-----------------------------------------------------------------------------
(***************************************************************************)
(* calculateOutput, test by test; myIf counts a test that comes out true.  *)
(***************************************************************************)
Enter(from, range, in, past) ==
  /\ pc = from
  /\ IF cf /\ range THEN pc' = in /\ depth' = depth + 1
                    ELSE pc' = past /\ UNCHANGED depth
  /\ UNCHANGED <<input, cf, fields, printed>>

\* n true tests led to a method; if a block of it fired, its test was true too.
Deeper(n) == depth' = depth + n + (IF cf' THEN 0 ELSE 1)

Call(at, test, method, next) ==
  /\ pc = at
  /\ IF cf /\ test THEN method /\ Deeper(1)
                   ELSE UNCHANGED <<cf, fields, printed, depth>>
  /\ pc' = next
  /\ UNCHANGED input

EnterRange1 == Enter("r1", B <= -164, "m1", "r2")
Call1       == Call("m1", -83 < C /\ 18 >= C, calculateOutputm1, "r2")
EnterRange2 == Enter("r2", -164 < B /\ -19 >= B, "m2", "r3")
Call2       == Call("m2", a1745113960 = "e", calculateOutputm2, "m3")
Call3       == Call("m3", a1745113960 = "g", calculateOutputm3, "m4")
Call4       == Call("m4", a1745113960 = "h", calculateOutputm4, "m5")
Call5       == Call("m5", a1745113960 = "i", calculateOutputm5, "r3")

\* Past the third range calculateOutput is over: the rest is inside its block.
EnterRange3 == Enter("r3", -19 < B /\ 100 >= B, "m6", "main")
Call6       == Call("m6", a1745113960 = "g", calculateOutputm6, "m7")
Call7       == Call("m7", a1745113960 = "h", calculateOutputm7, "r4")

\* The block of the fourth range, with the call of calculateOutputm8.
Range4Block ==
  /\ pc = "r4"
  /\ IF cf /\ 100 < B
     THEN IF 103 < A /\ 198 >= A THEN calculateOutputm8 /\ Deeper(2)
                                ELSE depth' = depth + 1 /\ UNCHANGED <<cf, fields, printed>>
     ELSE UNCHANGED <<cf, fields, printed, depth>>
  /\ pc' = "check"
  /\ UNCHANGED input

CheckFired ==
  /\ pc = "check"
  /\ IF cf THEN printed' = Append(printed, Rejected) /\ depth' = depth + 1
           ELSE UNCHANGED <<printed, depth>>
  /\ pc' = "main"
  /\ UNCHANGED <<input, cf, fields>>

calculateOutput ==
  \/ EnterRange1 \/ Call1 \/ EnterRange2 \/ Call2 \/ Call3 \/ Call4 \/ Call5
  \/ EnterRange3 \/ Call6 \/ Call7 \/ Range4Block \/ CheckFired

(***************************************************************************)
(* One turn of main's inner loop up to the head of calculateOutput.  The   *)
(* test of main asks for all five names at once and is never true.         *)
(***************************************************************************)
ReadInput(i) ==
  /\ pc = "main"
  /\ input' = i
  /\ printed' = <<>>
  /\ depth' = 0
  /\ cf' = MyBool2(TRUE)
  /\ pc' = "r1"
  /\ UNCHANGED fields

\* reset and trainingReset, which differ in what they do to the taint sets.
reset ==
  /\ pc = "main"
  /\ input' = Other
  /\ printed' = <<>>
  /\ depth' = 0
  /\ cf' = MyBool2(TRUE)
  /\ a422009172' = -68
  /\ a2108127495' = -44
  /\ a1522448132' = 173
  /\ a1745113960' = "h"
  /\ UNCHANGED pc

Next == reset \/ calculateOutput \/ \E i \in Inputs : ReadInput(i)

Spec == Init /\ [][Next]_vars

-----------------------------------------------------------------------------
Original == INSTANCE M183Java

locOf   == Original!locOf
phaseOf == IF pc = "main" \/ printed # <<>> THEN "ready" ELSE "busy"

Mealy == INSTANCE Mealy183 WITH loc <- locOf, reply <- printed, phase <- phaseOf

TypeOK ==
  /\ pc \in Original!PCs
  /\ input \in Inputs \cup {Other}
  /\ cf \in BOOLEAN
  /\ A \in Int /\ B \in Int /\ C \in Int
  /\ a1745113960 \in {"e", "g", "h", "i"}
  /\ printed \in {<<>>} \cup {<<o>> : o \in Outputs \cup {Rejected}}
  /\ depth \in 0 .. 3

(***************************************************************************)
(* Where an input is answered, the fields change exactly as the method of  *)
(* src/m183_LTL_CTL.java for this state changes them: the rewritten        *)
(* three-address code is right.                                            *)
(***************************************************************************)
Originally ==
  CASE locOf = "m1" -> Original!calculateOutputm1
    [] locOf = "m2" -> Original!calculateOutputm2
    [] locOf = "m3" -> Original!calculateOutputm3
    [] locOf = "m4" -> Original!calculateOutputm4
    [] locOf = "m5" -> Original!calculateOutputm5
    [] locOf = "m6" -> Original!calculateOutputm6
    [] locOf = "m7" -> Original!calculateOutputm7
    [] locOf = "m8" -> Original!calculateOutputm8

ComputesOriginal ==
  [][printed = <<>> /\ printed' # <<>> /\ printed' # <<Rejected>> => Originally]_vars

(***************************************************************************)
(* What the misplaced brace leaves of the machine.  Seven states answer as *)
(* they should; m6 and m7 report the inputs they refuse, the other states  *)
(* refuse in silence; and m8, where an accepted notification leads, does   *)
(* nothing any more until the next reset.                                  *)
(***************************************************************************)
Silent ==
  /\ phaseOf = "busy" /\ phaseOf' = "ready"
  /\ UNCHANGED <<locOf, input, printed>>
  /\ locOf = "m8" \/ (~ Accepts(locOf, input) /\ locOf \notin {"m6", "m7"})

Restarted == phaseOf = "ready" /\ phaseOf' = "ready" /\ locOf' = "m4"

ImplementsWhatIsLeft ==
  /\ Mealy!Init
  /\ [][ \/ \E i \in Inputs : Mealy!Read(i)
         \/ locOf # "m8" /\ Mealy!Answer
         \/ locOf \in {"m6", "m7"} /\ Mealy!Reject
         \/ Silent
         \/ Restarted ]_Mealy!vars

(***************************************************************************)
(* The depth main reports for an input tells how it fared: three where     *)
(* something was printed, be it an answer or an exception, two where it    *)
(* was refused in silence, none in m8.                                     *)
(***************************************************************************)
DepthTellsOutcome ==
  /\ TypeOK
  /\ pc = "main" /\ input # Other =>
       /\ depth = 3 <=> printed # <<>>
       /\ depth = 2 <=> printed = <<>> /\ locOf # "m8"
       /\ depth = 0 <=> printed = <<>> /\ locOf = "m8"

=============================================================================
