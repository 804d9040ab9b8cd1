--------------------------- MODULE ThreeAddress183 ---------------------------
(***************************************************************************)
(* The values that the integer operations of class I compute.  In all the  *)
(* instrumented programs an expression is a chain of instructions          *)
(* I.myF(I.varj, I.var(j-1), c), each of which reads the temporary the one *)
(* before it wrote.                                                        *)
(***************************************************************************)
EXTENDS Integers, Sequences

\* Java's / and % round towards zero; the divisors in the programs are positive.
Quot(a, b) == IF a >= 0 THEN a \div b ELSE -((-a) \div b)
Rem(a, b)  == IF a >= 0 THEN a % b ELSE -((-a) % b)

Op(f, c) == [f |-> f, c |-> c]   \* I.myF(I.varj, I.var(j-1), c)

\* Mutant: the remainder has the sign of the divisor.
Apply_floorMod(v, op) ==
  CASE op.f = "Add" -> v + op.c
    [] op.f = "Del" -> v - op.c
    [] op.f = "Mul" -> v * op.c
    [] op.f = "Div" -> Quot(v, op.c)
    [] op.f = "Mod" -> v % op.c

Apply(v, op) ==
  CASE op.f = "Add" -> v + op.c
    [] op.f = "Del" -> v - op.c
    [] op.f = "Mul" -> v * op.c
    [] op.f = "Div" -> Quot(v, op.c)
    [] op.f = "Mod" -> Rem(v, op.c)

\* The value of the last temporary, when the first has the value v1.
Chain(v1, ops) ==
  LET val[n \in 0 .. Len(ops)] == IF n = 0 THEN v1 ELSE Apply(val[n - 1], ops[n])
  IN  val[Len(ops)]

=============================================================================
