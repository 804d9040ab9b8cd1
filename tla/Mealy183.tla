------------------------------ MODULE Mealy183 ------------------------------
(***************************************************************************)
(* What problem 183 promises to whoever drives it: a Mealy machine.        *)
(*                                                                         *)
(* The repository holds the same reactive system twice, obfuscated in two  *)
(* different ways: src/m183_LTL_CTL.java keeps its control state in three  *)
(* integers and a string, src/sources/m183_LTL_CTL.c in three integers.    *)
(* Both are shown to implement this module, and so is the instrumented     *)
(* copy of the Java program that the fuzzer of Assignment1 drives.         *)
(***************************************************************************)
EXTENDS Table183, Sequences

VARIABLES
  loc,    \* the machine's state
  input,  \* the input being processed, or the last one processed
  reply,  \* what has been written since that input was read
  phase   \* "ready" to read, "busy" with an input, or "stopped"

vars == <<loc, input, reply, phase>>

TypeOK ==
  /\ loc \in Locs
  /\ input \in Inputs \cup {Other}
  /\ reply \in {<<>>} \cup {<<o>> : o \in Outputs \cup {Rejected}}
  /\ phase \in {"ready", "busy", "stopped"}

Init == loc = "m4" /\ input = Other /\ reply = <<>> /\ phase = "ready"

Read(i) ==
  /\ phase = "ready"
  /\ input' = i
  /\ reply' = <<>>
  /\ phase' = "busy"
  /\ UNCHANGED loc

Takes(t) ==
  /\ phase = "busy"
  /\ t.from = loc
  /\ t.in = input
  /\ loc' = t.to
  /\ reply' = <<t.out>>
  /\ phase' = "ready"
  /\ UNCHANGED input

\* Mutants: m4 takes a return nobody owes; m8 never returns; m3 replies to the
\* client before usr2 was called.
Answer_strayReturn  ==
  \E t \in Trans \cup {T("m4", "usr4_ai1_VoidReply", "none", "m4")} : Takes(t)
Answer_m8Silent     == \E t \in Trans : t.from # "m8" /\ Takes(t)
Answer_m3Replies    ==
  \E t \in Trans : Takes(IF t.from = "m3" THEN [t EXCEPT !.out = "ai1_VoidReply"] ELSE t)
Answer == \E t \in Trans : Takes(t)

Reject ==
  /\ phase = "busy"
  /\ ~ Accepts(loc, input)
  /\ reply' = <<Rejected>>
  /\ phase' = "ready"
  /\ UNCHANGED <<loc, input>>

(***************************************************************************)
(* The driver's loop ends at the end of its input, or on a line that is no *)
(* input at all.                                                           *)
(***************************************************************************)
Stop ==
  /\ \/ phase = "ready"
     \/ phase = "busy" /\ input = Other
  /\ phase' = "stopped"
  /\ UNCHANGED <<loc, input, reply>>

Next ==
  \/ \E i \in Inputs \cup {Other} : Read(i)
  \/ Answer
  \/ Reject
  \/ Stop

Spec == Init /\ [][Next]_vars

=============================================================================
