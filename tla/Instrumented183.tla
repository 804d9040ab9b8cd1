--------------------------- MODULE Instrumented183 ---------------------------
(***************************************************************************)
(* The instrumented copy of problem 183 that the fuzzer drives             *)
(* (Assignment1/Code/T3Final/instm183_LTL_CTLFuzzer.java, CalculateOutput, *)
(* reset and the operations of class I).                                   *)
(*                                                                         *)
(* The instrumentation turned every variable into an object with a value   *)
(* and a taint flag `flow', and every expression into three-address code   *)
(* on static temporaries I.var1 .. I.var8.  A temporary's value is always  *)
(* written before it is read, so only its flag outlives a block; the flag  *)
(* is raised by an operand's flag and never lowered, not even by reset.    *)
(*                                                                         *)
(* CalculateOutput is one action: M183Java takes its cascade apart, and    *)
(* here too each block that fires clears cf and silences the later ones.   *)
(***************************************************************************)
EXTENDS Table183, ThreeAddress183

VARIABLES
  phase,   \* "ready" for the next fuzzed input or "busy" with one
  input,   \* val of the input being processed, or the last one processed
  reply,   \* what was printed for it
  cf, a422009172, a2108127495, a1522448132, a1745113960,  \* [val, flow]
  var      \* var[j] is the flow flag of the static temporary I.varj

fields == <<cf, a422009172, a2108127495, a1522448132, a1745113960>>
vars   == <<phase, input, reply, fields, var>>

Temps == 1 .. 8

My(v, b) == [val |-> v, flow |-> b]     \* MyInt, MyBool, MyString

Start ==
  /\ cf = My(TRUE, FALSE)
  /\ a422009172 = My(-68, FALSE)
  /\ a2108127495 = My(-44, FALSE)
  /\ a1522448132 = My(173, FALSE)
  /\ a1745113960 = My("h", FALSE)
  /\ var = [j \in Temps |-> FALSE]

Init == Start /\ phase = "ready" /\ input = Other /\ reply = <<>>

-----------------------------------------------------------------------------
(***************************************************************************)
(* The operations of class I: the flags.                                   *)
(***************************************************************************)
\* The flag of I.var1 after I.myF(I.var1, b, c): raised by an operand's flag.
Raised(v, b, c) == v[1] \/ b.flow \/ c.flow
\* myAdd and myMul with a fourth argument true raise it unconditionally.
Forced == TRUE
\* myDel with a fourth argument sets the flag of c instead, a throw-away constant.
Missed(v) == v[1]

\* Mutant: a tainted operand turns a raised flag off again.
FlowsAfter_toggles(v, first, n) ==
  [j \in Temps |-> IF j > n THEN v[j]
                   ELSE IF j = 1 THEN first ELSE v[j] # (first \/ \E k \in 2 .. (j - 1) : v[k])]

(***************************************************************************)
(* The flags after a block of n instructions, each of which reads the      *)
(* temporary the one before it wrote.                                      *)
(***************************************************************************)
FlowsAfter(v, first, n) ==
  [j \in Temps |-> IF j > n THEN v[j] ELSE first \/ \E k \in 2 .. j : v[k]]

(***************************************************************************)
(* A block: I.var1 gets the value v1 and the flag `first', the operations  *)
(* ops carry it on, and myAssign copies the last temporary.                *)
(***************************************************************************)
Block(v, v1, first, ops) ==
  LET n     == Len(ops) + 1
      flows == FlowsAfter(v, first, n)
  IN  [var |-> flows, res |-> My(Chain(v1, ops), flows[n])]

-----------------------------------------------------------------------------
(***************************************************************************)
(* The eight methods.                                                      *)
(***************************************************************************)
A == a422009172
B == a2108127495
C == a1522448132

On(i) == input = i   \* I.myIf of the input test; cf is set when it is reached

Emit(out, tainted) ==
  /\ cf' = My(FALSE, tainted)
  /\ reply' = <<out>>

\* Code1 .. Code8: the instructions after the first in each expression.
Code1 == <<Op("Mod", 14999), Op("Mod", 72), Op("Del", 91), Op("Del", -1), Op("Mul", 1)>>

CalculateOutputm1 ==
  /\ On("usr2_ai1_VoidReply")
  /\ Emit("ai1_VoidReply", FALSE)
  /\ a1745113960' = My("h", TRUE)
  /\ LET b == Block(var, B.val * C.val, Forced, Code1)
     IN  a2108127495' = b.res /\ var' = b.var
  /\ UNCHANGED <<a422009172, a1522448132>>

Code2 == <<Op("Del", -98), Op("Del", 4), Op("Add", -42)>>

CalculateOutputm2 ==
  \/ /\ On("usr4_ni1_ne1")
     /\ Emit("ni1_ne1", TRUE)
     /\ UNCHANGED <<a422009172, a2108127495, a1522448132, a1745113960, var>>
  \/ /\ On("ai1_ce2")
     /\ Emit("usr4_ai1_ce2", FALSE)
     /\ a1745113960' = My("h", FALSE)
     /\ LET b == Block(var, Rem(B.val, 59), Raised(var, B, My(59, FALSE)), Code2)
        IN  a2108127495' = b.res /\ var' = b.var
     /\ UNCHANGED <<a422009172, a1522448132>>

Code3C == <<Op("Mod", 50), Op("Del", 75), Op("Mul", 5), Op("Mod", 50), Op("Add", -31)>>
Code3B == <<Op("Del", 22476), Op("Mul", 1), Op("Add", -3649)>>

CalculateOutputm3 ==
  /\ On("usr4_ai1_VoidReply")
  /\ Emit("usr2_ai1_ce4", FALSE)
  /\ LET c == Block(var, B.val * B.val, Forced, Code3C)
         b == Block(c.var, B.val * c.res.val, Raised(c.var, B, c.res), Code3B)
     IN  a1522448132' = c.res /\ a2108127495' = b.res /\ var' = b.var
  /\ UNCHANGED <<a422009172, a1745113960>>

Code4 == <<Op("Del", -1395), Op("Mod", 59), Op("Del", -16)>>

CalculateOutputm4 ==
  \/ /\ On("ai1_ce2")
     /\ Emit("ai1_VoidReply", TRUE)
     /\ UNCHANGED <<a422009172, a2108127495, a1522448132, a1745113960, var>>
  \/ /\ On("ai1_ce1")
     /\ Emit("usr4_ai1_ce1", TRUE)
     /\ a1745113960' = My("g", TRUE)
     /\ LET b == Block(var, B.val + 7243, Missed(var), Code4)
        IN  a2108127495' = b.res /\ var' = b.var
     /\ UNCHANGED <<a422009172, a1522448132>>
  \/ /\ On("usr4_ni1_ne1")
     /\ Emit("usr2_ai1_ce4", TRUE)
     /\ a1745113960' = My("i", TRUE)
     /\ UNCHANGED <<a422009172, a2108127495, a1522448132, var>>

CalculateOutputm5 ==
  /\ On("usr2_ai1_VoidReply")
  /\ Emit("none", TRUE)
  /\ a1745113960' = My("h", TRUE)
  /\ UNCHANGED <<a422009172, a2108127495, a1522448132, var>>

Code6B == <<Op("Mul", 2), Op("Mul", 1)>>
Code6A == <<Op("Mod", 14999), Op("Add", -1380), Op("Mod", 47), Op("Del", -150),
            Op("Add", 23887), Op("Add", -23885)>>
Code6E == <<Op("Add", -4), Op("Add", 5)>>

CalculateOutputm6 ==
  \/ /\ On("usr4_ni1_ne1")
     /\ Emit("none", TRUE)
     /\ LET b == Block(var, B.val + 13863, Forced, Code6B)
            a == Block(b.var, b.res.val * b.res.val, Raised(b.var, b.res, b.res), Code6A)
        IN  a2108127495' = b.res /\ a422009172' = a.res /\ var' = a.var
     /\ UNCHANGED <<a1522448132, a1745113960>>
  \/ /\ On("usr4_ai1_VoidReply")
     /\ Emit("ai1_VoidReply", TRUE)
     /\ a1745113960' = My("e", TRUE)
     /\ LET b == Block(var, B.val - 139, Raised(var, B, My(-139, FALSE)), Code6E)
        IN  a2108127495' = b.res /\ var' = b.var
     /\ UNCHANGED <<a422009172, a1522448132>>

Code7G == <<Op("Del", -3384), Op("Del", 4504), Op("Del", -1107)>>
Code7H == <<Op("Del", -35662), Op("Mul", 2), Op("Mod", 72), Op("Del", 149)>>

CalculateOutputm7 ==
  \/ /\ On("usr4_ni1_ne1")
     /\ Emit("none", TRUE)
     /\ a1745113960' = My("g", TRUE)
     /\ LET b == Block(var, B.val - 128, Raised(var, B, My(128, FALSE)), Code7G)
        IN  a2108127495' = b.res /\ var' = b.var
     /\ UNCHANGED <<a422009172, a1522448132>>
  \/ /\ On("usr4_ai1_VoidReply")
     /\ Emit("ai1_VoidReply", TRUE)
     /\ LET b == Block(var, B.val - 22339, Missed(var), Code7H)
        IN  a2108127495' = b.res /\ var' = b.var
     /\ UNCHANGED <<a422009172, a1522448132, a1745113960>>

Code8 == <<Op("Mod", 14999), Op("Div", 5), Op("Mod", 72), Op("Add", -156), Op("Mul", 5),
           Op("Mod", 72), Op("Add", -65)>>

CalculateOutputm8 ==
  /\ On("usr4_ai1_VoidReply")
  /\ Emit("ni1_ne1__ai1_VoidReply", TRUE)
  /\ a1745113960' = My("e", TRUE)
  /\ LET b == Block(var, B.val * A.val, Forced, Code8)
     IN  a2108127495' = b.res /\ var' = b.var
  /\ UNCHANGED <<a422009172, a1522448132>>

-----------------------------------------------------------------------------
(***************************************************************************)
(* The tests of CalculateOutput that guard the call of each method, and    *)
(* the inputs that method tests for.                                       *)
(***************************************************************************)
Serves(l) ==
  CASE l = "m1" -> B.val <= -164 /\ -83 < C.val /\ 18 >= C.val
    [] l = "m2" -> -164 < B.val /\ -19 >= B.val /\ a1745113960.val = "e"
    [] l = "m3" -> -164 < B.val /\ -19 >= B.val /\ a1745113960.val = "g"
    [] l = "m4" -> -164 < B.val /\ -19 >= B.val /\ a1745113960.val = "h"
    [] l = "m5" -> -164 < B.val /\ -19 >= B.val /\ a1745113960.val = "i"
    [] l = "m6" -> -19 < B.val /\ 100 >= B.val /\ a1745113960.val = "g"
    [] l = "m7" -> -19 < B.val /\ 100 >= B.val /\ a1745113960.val = "h"
    [] l = "m8" -> 100 < B.val /\ 103 < A.val /\ 198 >= A.val

Tests(l) ==
  CASE l \in {"m1", "m5"} -> {"usr2_ai1_VoidReply"}
    [] l \in {"m3", "m8"} -> {"usr4_ai1_VoidReply"}
    [] l = "m2"           -> {"usr4_ni1_ne1", "ai1_ce2"}
    [] l = "m4"           -> {"ai1_ce2", "ai1_ce1", "usr4_ni1_ne1"}
    [] l \in {"m6", "m7"} -> {"usr4_ni1_ne1", "usr4_ai1_VoidReply"}

\* if(I.myIf(cf)) throw: no block fired, and main catches the exception.
NoTransition ==
  /\ ~ \E l \in Locs : Serves(l) /\ input \in Tests(l)
  /\ cf' = My(TRUE, FALSE)
  /\ reply' = <<Rejected>>
  /\ UNCHANGED <<a422009172, a2108127495, a1522448132, a1745113960, var>>

CalculateOutput ==
  /\ phase = "busy"
  /\ phase' = "ready"
  /\ UNCHANGED input
  /\ \/ Serves("m1") /\ CalculateOutputm1
     \/ Serves("m2") /\ CalculateOutputm2
     \/ Serves("m3") /\ CalculateOutputm3
     \/ Serves("m4") /\ CalculateOutputm4
     \/ Serves("m5") /\ CalculateOutputm5
     \/ Serves("m6") /\ CalculateOutputm6
     \/ Serves("m7") /\ CalculateOutputm7
     \/ Serves("m8") /\ CalculateOutputm8
     \/ NoTransition

\* The driver takes the next element of the fuzzed array.
NextInput(i) ==
  /\ phase = "ready"
  /\ phase' = "busy"
  /\ input' = i
  /\ reply' = <<>>
  /\ UNCHANGED <<fields, var>>

\* Mutant: the string is not among the fields restored.
reset_keepsLetter ==
  /\ phase = "ready"
  /\ cf' = My(TRUE, FALSE)
  /\ a422009172' = My(-68, FALSE)
  /\ a2108127495' = My(-44, FALSE)
  /\ a1522448132' = My(173, FALSE)
  /\ UNCHANGED <<phase, input, reply, a1745113960, var>>

(***************************************************************************)
(* Between two fuzzed arrays the driver keeps the object and calls reset,  *)
(* which replaces the fields and leaves the temporaries of class I alone.  *)
(***************************************************************************)
reset ==
  /\ phase = "ready"
  /\ cf' = My(TRUE, FALSE)
  /\ a422009172' = My(-68, FALSE)
  /\ a2108127495' = My(-44, FALSE)
  /\ a1522448132' = My(173, FALSE)
  /\ a1745113960' = My("h", FALSE)
  /\ UNCHANGED <<phase, input, reply, var>>

Next == reset \/ CalculateOutput \/ \E i \in Inputs : NextInput(i)

Spec == Init /\ [][Next]_vars

-----------------------------------------------------------------------------
TypeOK ==
  /\ phase \in {"ready", "busy"}
  /\ input \in Inputs \cup {Other}
  /\ reply \in {<<>>} \cup {<<o>> : o \in Outputs \cup {Rejected}}
  /\ cf \in [val : BOOLEAN, flow : BOOLEAN]
  /\ \A f \in {A, B, C} : f.val \in Int /\ f.flow \in BOOLEAN
  /\ a1745113960 \in [val : {"e", "g", "h", "i"}, flow : BOOLEAN]
  /\ var \in [Temps -> BOOLEAN]

locOf == CHOOSE l \in Locs : Serves(l)

Mealy    == INSTANCE Mealy183 WITH loc <- locOf
Original == INSTANCE M183Java WITH
              pc <- phase, printed <- reply, cf <- (phase = "busy"),
              a422009172 <- A.val, a2108127495 <- B.val,
              a1522448132 <- C.val, a1745113960 <- a1745113960.val

(***************************************************************************)
(* Seen from the driver the instrumented program is the Mealy machine, put *)
(* back into its first state by reset.                                     *)
(***************************************************************************)
Restarted == locOf' = "m4" /\ phase = "ready" /\ UNCHANGED <<phase, input, reply>>

ImplementsMealy == Mealy!Init /\ [][Mealy!Next \/ Restarted]_Mealy!vars

(***************************************************************************)
(* The three-address code computes what the expression it replaced does:   *)
(* every answered input changes the values of all four fields exactly as   *)
(* the method of src/m183_LTL_CTL.java that serves the state would.        *)
(***************************************************************************)
Originally ==
  CASE locOf = "m1" -> Original!calculateOutputm1
    [] locOf = "m2" -> Original!calculateOutputm2
    [] locOf = "m3" -> Original!calculateOutputm3
    [] locOf = "m4" -> Original!calculateOutputm4
    [] locOf = "m5" -> Original!calculateOutputm5
    [] locOf = "m6" -> Original!calculateOutputm6
    [] locOf = "m7" -> Original!calculateOutputm7
    [] locOf = "m8" -> Original!calculateOutputm8

ComputesOriginal == [][phase = "busy" /\ reply' # <<Rejected>> => Originally]_vars

=============================================================================
