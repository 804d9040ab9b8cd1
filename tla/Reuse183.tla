------------------------------ MODULE Reuse183 ------------------------------
(***************************************************************************)
(* One program reset between runs beside one started anew for each run.    *)
(*                                                                         *)
(* The fuzzer keeps a single object for its thousand runs and calls reset  *)
(* between them (T3Final, main).  This module drives two copies of         *)
(* Instrumented183 with the same inputs: the copy with the plain names is  *)
(* reset, the copy with the names in f is replaced by a fresh program.     *)
(* What the two disagree on is what one run leaks into the next.           *)
(***************************************************************************)
EXTENDS Instrumented183

VARIABLES freply, fcf, fA, fB, fC, fS, fvar

fresh == <<freply, fcf, fA, fB, fC, fS, fvar>>

Fresh == INSTANCE Instrumented183 WITH
           reply <- freply, cf <- fcf, a422009172 <- fA, a2108127495 <- fB,
           a1522448132 <- fC, a1745113960 <- fS, var <- fvar

RInit == Init /\ Fresh!Init

\* A new process: fields and temporaries as the class initialisers leave them.
NewProcess ==
  /\ fcf' = My(TRUE, FALSE)
  /\ fA' = My(-68, FALSE)
  /\ fB' = My(-44, FALSE)
  /\ fC' = My(173, FALSE)
  /\ fS' = My("h", FALSE)
  /\ fvar' = [j \in Temps |-> FALSE]
  /\ UNCHANGED freply

NextRun == reset /\ NewProcess

BothRead(i) == NextInput(i) /\ Fresh!NextInput(i)

BothCalculate == CalculateOutput /\ Fresh!CalculateOutput

RNext == NextRun \/ BothCalculate \/ \E i \in Inputs : BothRead(i)

RSpec == RInit /\ [][RNext]_<<vars, fresh>>

-----------------------------------------------------------------------------
Ints    == <<A, B, C>>
FInts   == <<fA, fB, fC>>

(***************************************************************************)
(* reset restores all the state that answers depend on: a run answers and  *)
(* computes as it would in a process of its own, whatever ran before it.   *)
(***************************************************************************)
SameBehaviour ==
  /\ TypeOK
  /\ reply = freply
  /\ cf = fcf /\ a1745113960 = fS
  /\ \A k \in 1 .. 3 : Ints[k].val = FInts[k].val

(***************************************************************************)
(* The flags left in the static temporaries can add taint to a later run   *)
(* and never hide any: what a fresh process marks, the reused one marks.   *)
(***************************************************************************)
TaintNeverLost ==
  /\ \A k \in 1 .. 3 : FInts[k].flow => Ints[k].flow
  /\ \A j \in Temps : fvar[j] => var[j]

=============================================================================
