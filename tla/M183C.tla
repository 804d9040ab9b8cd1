------------------------------- MODULE M183C --------------------------------
(***************************************************************************)
(* src/sources/m183_LTL_CTL.c: the C program generated from the same       *)
(* reactive system as src/m183_LTL_CTL.java, with its own variables, its   *)
(* own regions and numbers in the place of names (the table is             *)
(* src/sources/m183_LTL_CTL_alphabet_mapping_C_version.txt).               *)
(*                                                                         *)
(* As in M183Java each if statement of calculate_output is a step, and     *)
(* arithmetic is on unbounded integers; signed overflow would be undefined *)
(* behaviour, and OperandRange is why there is none.                       *)
(***************************************************************************)
EXTENDS Integers, Sequences

VARIABLES
  pc,            \* where the program is; "main" is the head of the i/o loop
  stdin,         \* "open", or "stuck" once scanf can convert nothing any more
  input,         \* the code last read
  cf,
  a1504052271, a355441369, a553774011,
  printed        \* lines written since the last input was read

fields == <<a1504052271, a355441369, a553774011>>
vars   == <<pc, stdin, input, cf, a1504052271, a355441369, a553774011, printed>>

-----------------------------------------------------------------------------
(***************************************************************************)
(* C's % and / round towards zero, like Java's.                            *)
(***************************************************************************)
Rem(a, b)  == IF a >= 0 THEN a % b ELSE -((-a) % b)
Quot(a, b) == IF a >= 0 THEN a \div b ELSE -((-a) \div b)

inputs  == 55 .. 59
OtherIn == 0        \* stands for every int outside 55 .. 59
Invalid == -1       \* stands for the line on stderr, "Invalid input: %d"

PCs == {"main", "test", "r1", "m1", "r2", "m2", "m3", "m4", "m5", "r3", "m6",
        "m7", "r4", "m8", "check", "returned"}

Init ==
  /\ pc = "main"
  /\ stdin = "open"
  /\ input = OtherIn
  /\ cf = 1
  /\ a1504052271 = 140
  /\ a355441369 = 296
  /\ a553774011 = 4
  /\ printed = <<>>

-----------------------------------------------------------------------------
Fires(i)  == cf = 1 /\ input = i
Emit(out) == cf' = 0 /\ printed' = Append(printed, out)
Idle      == UNCHANGED <<cf, fields, printed>>

calculate_outputm1 ==
  \/ /\ Fires(56)
     /\ a355441369' =
          Rem((Rem(Rem(a355441369 * a1504052271, 14999), 95) + 212 - 3724) * 5, 95) + 250
     /\ a1504052271' =
          Rem(Rem(a1504052271 * a355441369', 14999), 12) + 146 + 26865 - 26866
     /\ Emit(64)
     /\ UNCHANGED a553774011
  \/ /\ Fires(57)
     /\ a1504052271' =
          Rem(Rem(a1504052271 * a355441369, 14999), 105) + 27 - 4968 + 11739 - 6772
     /\ a553774011' = 7
     /\ Emit(60)
     /\ UNCHANGED a355441369
  \/ /\ ~ (Fires(56) \/ Fires(57))
     /\ Idle

\* Mutant: input 57 leads to another state.
calculate_outputm2_wrongState ==
  \/ /\ Fires(57)
     /\ a553774011' = 7
     /\ Emit(60)
     /\ UNCHANGED <<a1504052271, a355441369>>
  \/ /\ Fires(56)
     /\ a355441369' = Rem(a1504052271 * a1504052271, 48) + 68
     /\ a1504052271' = a1504052271 * a355441369' + 12704 + 528 + 896
     /\ Emit(64)
     /\ UNCHANGED a553774011
  \/ /\ ~ (Fires(57) \/ Fires(56))
     /\ Idle

calculate_outputm2 ==
  \/ /\ Fires(57)
     /\ a553774011' = 9
     /\ Emit(60)
     /\ UNCHANGED <<a1504052271, a355441369>>
  \/ /\ Fires(56)
     /\ a355441369' = Rem(a1504052271 * a1504052271, 48) + 68
     /\ a1504052271' = a1504052271 * a355441369' + 12704 + 528 + 896
     /\ Emit(64)
     /\ UNCHANGED a553774011
  \/ /\ ~ (Fires(57) \/ Fires(56))
     /\ Idle

calculate_outputm3 ==
  IF Fires(59)
  THEN /\ a1504052271' = Rem(a1504052271, 12) + 146 - 18935 + 18934
       /\ a355441369' = Rem(Quot(a1504052271' * a1504052271', 5), 95) + 164 - 33
       /\ Emit(60)
       /\ UNCHANGED a553774011
  ELSE Idle

calculate_outputm4 ==
  IF Fires(56)
  THEN /\ a355441369' = a1504052271 * a1504052271 + 10765 + 1445 + 189
       /\ a1504052271' =
            Rem(Quot(Rem(a1504052271 * a355441369', 14999) - 8929, 5) * 5, 12) + 145
       /\ Emit(63)
       /\ UNCHANGED a553774011
  ELSE Idle

calculate_outputm5 ==
  IF Fires(56)
  THEN /\ a1504052271' = Quot(Quot((a1504052271 + 9836) * 10, 9), 5)
       /\ a355441369' =
            Quot((Rem(Rem(a1504052271' * a1504052271', 14999), 48) + 50) * 9, 10) - 18
       /\ Emit(66)
       /\ UNCHANGED a553774011
  ELSE Idle

calculate_outputm6 ==
  \/ /\ Fires(57)
     /\ a1504052271' =
          Quot(Rem(Rem(a1504052271 * a355441369, 14999), 105) - 14, 5) - 24176 + 24226
     /\ a553774011' = 4
     /\ Emit(63)
     /\ UNCHANGED a355441369
  \/ /\ Fires(58)
     /\ Emit(64)
     /\ UNCHANGED fields
  \/ /\ Fires(55)
     /\ a1504052271' =
          Quot(Rem(Rem(a1504052271 * a355441369, 14999), 105) + 4, 5) + 5260 - 5306
     /\ a553774011' = 2
     /\ Emit(62)
     /\ UNCHANGED a355441369
  \/ /\ ~ (Fires(57) \/ Fires(58) \/ Fires(55))
     /\ Idle

\* Mutant: the last term forgotten.
calculate_outputm7_noShift ==
  IF Fires(59)
  THEN /\ a355441369' =
            Rem((Rem(Rem(a355441369 * a1504052271, 14999), 95) + 212) * 5, 95)
       /\ Emit(64)
       /\ UNCHANGED <<a1504052271, a553774011>>
  ELSE Idle

calculate_outputm7 ==
  IF Fires(59)
  THEN /\ a355441369' =
            Rem((Rem(Rem(a355441369 * a1504052271, 14999), 95) + 212) * 5, 95) + 169
       /\ Emit(64)
       /\ UNCHANGED <<a1504052271, a553774011>>
  ELSE Idle

calculate_outputm8 ==
  \/ /\ Fires(57)
     /\ Emit(65)
     /\ UNCHANGED fields
  \/ /\ Fires(58)
     /\ a1504052271' =
          Quot((Quot((Rem(a1504052271 * a355441369, 14999) - 19076) * 10, 9) + 29218) * (-1), 10)
     /\ a355441369' = Rem(a355441369 * a1504052271', 14999) + 17432 - 12283 + 19411
     /\ Emit(61)
     /\ UNCHANGED a553774011
  \/ /\ ~ (Fires(57) \/ Fires(58))
     /\ Idle

-----------------------------------------------------------------------------
Range1 == a1504052271 <= -80
Range2 == -80 < a1504052271 /\ 132 >= a1504052271
Range3 == 132 < a1504052271 /\ 158 >= a1504052271
Range4 == 158 < a1504052271

Enter(from, range, in, past) ==
  /\ pc = from
  /\ pc' = IF cf = 1 /\ range THEN in ELSE past
  /\ UNCHANGED <<stdin, input, cf, fields, printed>>

Call(at, test, method, next) ==
  /\ pc = at
  /\ IF cf = 1 /\ test THEN method ELSE Idle
  /\ pc' = next
  /\ UNCHANGED <<stdin, input>>

EnterRange1 == Enter("r1", Range1, "m1", "r2")
EnterRange2 == Enter("r2", Range2, "m2", "r3")
EnterRange3 == Enter("r3", Range3, "m6", "r4")
EnterRange4 == Enter("r4", Range4, "m8", "check")

Call1 == Call("m1", 308 < a355441369, calculate_outputm1, "r2")
Call2 == Call("m2", a553774011 = 2, calculate_outputm2, "m3")
Call3 == Call("m3", a553774011 = 4, calculate_outputm3, "m4")
Call4 == Call("m4", a553774011 = 7, calculate_outputm4, "m5")
Call5 == Call("m5", a553774011 = 9, calculate_outputm5, "r3")
Call6 == Call("m6", 116 < a355441369 /\ 308 >= a355441369, calculate_outputm6, "m7")
Call7 == Call("m7", 308 < a355441369, calculate_outputm7, "r4")
Call8 == Call("m8", 19 < a355441369 /\ 116 >= a355441369, calculate_outputm8, "check")

(***************************************************************************)
(* if(cf==1) fprintf(stderr, ...): the input was refused.                  *)
(***************************************************************************)
\* Mutant: an input that no block took is tried again.
CheckFired_retries ==
  /\ pc = "check"
  /\ pc' = IF cf = 1 THEN "r1" ELSE "main"
  /\ UNCHANGED <<stdin, input, cf, fields, printed>>

CheckFired ==
  /\ pc = "check"
  /\ printed' = IF cf = 1 THEN Append(printed, Invalid) ELSE printed
  /\ pc' = "main"
  /\ UNCHANGED <<stdin, input, cf, fields>>

calculate_output ==
  \/ EnterRange1 \/ EnterRange2 \/ EnterRange3 \/ EnterRange4
  \/ Call1 \/ Call2 \/ Call3 \/ Call4 \/ Call5 \/ Call6 \/ Call7 \/ Call8
  \/ CheckFired

(***************************************************************************)
(* scanf stores a number.                                                  *)
(***************************************************************************)
ScanNumber(i) ==
  /\ pc = "main"
  /\ stdin = "open"
  /\ input' = i
  /\ printed' = <<>>
  /\ pc' = "test"
  /\ UNCHANGED <<stdin, cf, fields>>

(***************************************************************************)
(* scanf stores nothing: stdin is at its end, or holds a token that is not *)
(* a number and that the next scanf will meet again.  Its result is not    *)
(* looked at, so the uninitialised local is used: any value, what the last *)
(* turn left in that place included.                                       *)
(***************************************************************************)
ScanNothing ==
  /\ pc = "main"
  /\ stdin' = "stuck"
  /\ input' \in inputs \cup {OtherIn}
  /\ printed' = <<>>
  /\ pc' = "test"
  /\ UNCHANGED <<cf, fields>>

(***************************************************************************)
(* The test of main, and calculate_output's first assignment.              *)
(***************************************************************************)
TestInput ==
  /\ pc = "test"
  /\ \/ /\ input \in inputs
        /\ cf' = 1
        /\ pc' = "r1"
     \/ /\ input \notin inputs
        /\ pc' = "returned"    \* return -2
        /\ UNCHANGED cf
  /\ UNCHANGED <<stdin, input, fields, printed>>

main ==
  \/ \E i \in inputs \cup {OtherIn} : ScanNumber(i)
  \/ ScanNothing
  \/ TestInput

Next == main \/ calculate_output

Spec == Init /\ [][Next]_vars

(***************************************************************************)
(* A single thread that never blocks but in scanf: once a code is read the *)
(* statements that follow are executed.                                    *)
(***************************************************************************)
FairSpec == Spec /\ WF_vars(TestInput \/ calculate_output)

-----------------------------------------------------------------------------
(***************************************************************************)
(* The regions in which the program rests, by the state of Mealy183 that   *)
(* they stand for; the methods' numbers differ from the Java ones.         *)
(***************************************************************************)
InRegion(l) ==
  \/ l = "m7" /\ Range1 /\ 308 < a355441369
  \/ l = "m6" /\ Range2 /\ a553774011 = 2
  \/ l = "m5" /\ Range2 /\ a553774011 = 4
  \/ l = "m3" /\ Range2 /\ a553774011 = 7
  \/ l = "m8" /\ Range2 /\ a553774011 = 9
  \/ l = "m4" /\ Range3 /\ 116 < a355441369 /\ 308 >= a355441369
  \/ l = "m1" /\ Range3 /\ 308 < a355441369
  \/ l = "m2" /\ Range4 /\ 19 < a355441369 /\ 116 >= a355441369

Locs == {"m1", "m2", "m3", "m4", "m5", "m6", "m7", "m8"}

locOf == CHOOSE l \in Locs : InRegion(l)

phaseOf == IF pc = "returned" THEN "stopped"
           ELSE IF pc = "main" \/ printed # <<>> THEN "ready"
           ELSE "busy"

(***************************************************************************)
(* The alphabet mapping, inputs and outputs.                               *)
(***************************************************************************)
NameOf(code) ==
  CASE code = 55 -> "ai1_ce1"
    [] code = 56 -> "usr4_ai1_VoidReply"
    [] code = 57 -> "usr4_ni1_ne1"
    [] code = 58 -> "ai1_ce2"
    [] code = 59 -> "usr2_ai1_VoidReply"
    [] code = 60 -> "none"
    [] code = 61 -> "usr4_ai1_ce2"
    [] code = 62 -> "usr4_ai1_ce1"
    [] code = 63 -> "usr2_ai1_ce4"
    [] code = 64 -> "ai1_VoidReply"
    [] code = 65 -> "ni1_ne1"
    [] code = 66 -> "ni1_ne1__ai1_VoidReply"
    [] code = Invalid -> "Invalid input"
    [] OTHER -> "other"

replyOf == [k \in DOMAIN printed |-> NameOf(printed[k])]

Mealy == INSTANCE Mealy183 WITH
           loc <- locOf, input <- NameOf(input), reply <- replyOf, phase <- phaseOf

-----------------------------------------------------------------------------
TypeOK ==
  /\ pc \in PCs
  /\ stdin \in {"open", "stuck"}
  /\ input \in inputs \cup {OtherIn}
  /\ cf \in {0, 1}
  /\ a1504052271 \in Int /\ a355441369 \in Int
  /\ a553774011 \in {2, 4, 7, 9}
  /\ printed \in Seq((60 .. 66) \cup {Invalid})

(***************************************************************************)
(* The fields are always in one of the eight regions: whatever the         *)
(* truncating divisions and remainders make of negative operands, the C    *)
(* program never reaches a place where every code is refused for ever.     *)
(***************************************************************************)
NeverStranded == \E l \in Locs : InRegion(l)

(***************************************************************************)
(* Every operand stays so small that no product in the eight functions     *)
(* overflows an int, which in C would be undefined behaviour.              *)
(***************************************************************************)
OperandRange ==
  /\ a1504052271 \in Int /\ -2468 <= a1504052271 /\ a1504052271 <= 29308
  /\ a355441369 \in Int /\ 27 <= a355441369 /\ a355441369 <= 29823

(***************************************************************************)
(* Where the cascade stands, cf tells whether a line was printed.  While   *)
(* none was, the fields are in the range whose block was entered, and      *)
(* their region is still to be tested or has refused the code.  Pending(p) *)
(* are the states of Mealy183 whose region has its test at or after p.     *)
(***************************************************************************)
Pending(p) ==
  CASE p \in {"r1", "m1"} -> Locs
    [] p \in {"r2", "m2"} -> Locs \ {"m7"}
    [] p = "m3"           -> Locs \ {"m7", "m6"}
    [] p = "m4"           -> Locs \ {"m7", "m6", "m5"}
    [] p = "m5"           -> Locs \ {"m7", "m6", "m5", "m3"}
    [] p \in {"r3", "m6"} -> {"m4", "m1", "m2"}
    [] p = "m7"           -> {"m1", "m2"}
    [] p \in {"r4", "m8"} -> {"m2"}
    [] OTHER              -> {}

CascadeMeetsRegion ==
  /\ pc = "test" => printed = <<>>
  /\ pc \notin {"main", "test", "returned"} =>
       \/ cf = 0 /\ Len(printed) = 1
       \/ /\ cf = 1 /\ printed = <<>>
          /\ pc = "m1" => Range1
          /\ pc \in {"m2", "m3", "m4", "m5"} => Range2
          /\ pc \in {"m6", "m7"} => Range3
          /\ pc = "m8" => Range4
          /\ \A l \in Locs :
               InRegion(l) => l \in Pending(pc) \/ ~ Mealy!Accepts(l, NameOf(input))

(***************************************************************************)
(* However long the input, indeterminate codes included, the program stays *)
(* where it can answer, its operands where they do not overflow, and no    *)
(* test of the cascade is passed over: none of it holds without the rest.  *)
(***************************************************************************)
IInv == TypeOK /\ NeverStranded /\ OperandRange /\ CascadeMeetsRegion

(***************************************************************************)
(* Up to the alphabet mapping the C program is the same reactive system as *)
(* the Java one: it implements the same Mealy machine, even when it runs   *)
(* on the indeterminate value that a failed scanf leaves.                  *)
(***************************************************************************)
ImplementsMealy == Mealy!Spec

(***************************************************************************)
(* Every code that was read is answered or refused by exactly one line, or *)
(* ends the program: the caller is never left waiting in the cascade.      *)
(***************************************************************************)
Responsive ==
  pc = "test" ~> \/ pc = "main" /\ Len(printed) = 1
                 \/ pc = "returned" /\ printed = <<>>

=============================================================================
