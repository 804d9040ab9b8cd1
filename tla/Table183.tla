------------------------------ MODULE Table183 ------------------------------
(***************************************************************************)
(* Problem 183 as a transition table: which inputs each state accepts,     *)
(* what it answers and which state comes next.  The programs name no       *)
(* states; the eight methods calculateOutputm1 .. calculateOutputm8 are    *)
(* one state each.                                                         *)
(***************************************************************************)
Inputs == {"ai1_ce1", "usr4_ai1_VoidReply", "usr4_ni1_ne1", "ai1_ce2",
           "usr2_ai1_VoidReply"}

Other    == "other"          \* any line that is none of the five inputs
Rejected == "Invalid input"  \* the diagnostic on the error stream

T(from, in, out, to) == [from |-> from, in |-> in, out |-> out, to |-> to]

(***************************************************************************)
(* A state is named after the Java method that handles it; "m4" is the     *)
(* state both programs start in.                                           *)
(***************************************************************************)
Trans ==
  { T("m4", "ai1_ce2",            "ai1_VoidReply",          "m4"),
    T("m4", "ai1_ce1",            "usr4_ai1_ce1",           "m6"),
    T("m4", "usr4_ni1_ne1",       "usr2_ai1_ce4",           "m5"),
    T("m5", "usr2_ai1_VoidReply", "none",                   "m4"),
    T("m6", "usr4_ni1_ne1",       "none",                   "m8"),
    T("m6", "usr4_ai1_VoidReply", "ai1_VoidReply",          "m2"),
    T("m8", "usr4_ai1_VoidReply", "ni1_ne1__ai1_VoidReply", "m2"),
    T("m2", "usr4_ni1_ne1",       "ni1_ne1",                "m2"),
    T("m2", "ai1_ce2",            "usr4_ai1_ce2",           "m7"),
    T("m7", "usr4_ni1_ne1",       "none",                   "m3"),
    T("m7", "usr4_ai1_VoidReply", "ai1_VoidReply",          "m4"),
    T("m3", "usr4_ai1_VoidReply", "usr2_ai1_ce4",           "m1"),
    T("m1", "usr2_ai1_VoidReply", "ai1_VoidReply",          "m4") }

Locs    == {"m1", "m2", "m3", "m4", "m5", "m6", "m7", "m8"}
Outputs == {"ai1_VoidReply", "usr4_ai1_ce1", "usr2_ai1_ce4", "none", "ni1_ne1",
            "ni1_ne1__ai1_VoidReply", "usr4_ai1_ce2"}

Accepts(l, i) == \E t \in Trans : t.from = l /\ t.in = i

=============================================================================
