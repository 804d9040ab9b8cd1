---------------------------- MODULE Exchange183 -----------------------------
(***************************************************************************)
(* The inputs and outputs of problem 183 read as calls and returns.        *)
(*                                                                         *)
(* ai1_ce1 and ai1_ce2 are calls a client makes, an output that contains   *)
(* ai1_VoidReply returns from the last of them; the outputs usr2_ai1_ce4,  *)
(* usr4_ai1_ce1 and usr4_ai1_ce2 are calls made to usr2 and usr4, which    *)
(* return with usr2_ai1_VoidReply and usr4_ai1_VoidReply.  Nothing in the  *)
(* programs keeps track of who waits for whom; the history variable owed   *)
(* does, and the properties say that the machine never gets it wrong,      *)
(* whatever the environment sends and in whatever order.                   *)
(***************************************************************************)
EXTENDS Mealy183

VARIABLE owed   \* the calls in progress: the client's, and those to usr2, usr4

xvars == <<vars, owed>>

Users == {"usr2", "usr4"}

CallOf(i)   == IF i \in {"ai1_ce1", "ai1_ce2"} THEN {"client"} ELSE {}
ReturnOf(i) == IF i = "usr2_ai1_VoidReply" THEN {"usr2"}
               ELSE IF i = "usr4_ai1_VoidReply" THEN {"usr4"} ELSE {}
Called(o)   == IF o = "usr2_ai1_ce4" THEN {"usr2"}
               ELSE IF o \in {"usr4_ai1_ce1", "usr4_ai1_ce2"} THEN {"usr4"} ELSE {}
Returned(o) == IF o \in {"ai1_VoidReply", "ni1_ne1__ai1_VoidReply"}
               THEN {"client"} ELSE {}

XInit == Init /\ owed = {}

XAnswer ==
  /\ Answer
  /\ LET out == reply'[1]
     IN  owed' = ((((owed \cup CallOf(input)) \ ReturnOf(input))
                    \cup Called(out)) \ Returned(out))

XStep(A) == A /\ UNCHANGED owed

XNext ==
  \/ \E i \in Inputs \cup {Other} : XStep(Read(i))
  \/ XAnswer
  \/ XStep(Reject)
  \/ XStep(Stop)

XSpec == XInit /\ [][XNext]_xvars

(***************************************************************************)
(* The environment assumed for progress: the machine works off the input   *)
(* it has read, and unless the input ends a user that was called returns   *)
(* one day.  It may still send anything else, as often as it likes.        *)
(***************************************************************************)
Return(u) == phase = "ready" /\ u \in owed
             /\ \E i \in Inputs : u \in ReturnOf(i) /\ XStep(Read(i))

XFairSpec ==
  /\ XSpec
  /\ WF_xvars(XAnswer \/ XStep(Reject))
  /\ \A u \in Users : SF_xvars(Return(u))

-----------------------------------------------------------------------------
(***************************************************************************)
(* Who waits for whom is settled by the state the machine is in, although  *)
(* the programs reach that state along many paths: a call is open exactly  *)
(* where this table says.  It is the inductive invariant behind the rest.  *)
(***************************************************************************)
OwedIn(l) ==
  CASE l \in {"m4", "m2"}             -> {}
    [] l \in {"m6", "m8", "m7", "m3"} -> {"client", "usr4"}
    [] l = "m1"                       -> {"client", "usr2"}
    [] l = "m5"                       -> {"usr2"}

OwedByState == TypeOK /\ owed = OwedIn(loc)

(***************************************************************************)
(* A return is accepted only from a user that was called and has not       *)
(* returned yet, a client only while its last call is closed; and the      *)
(* machine calls nobody who has not returned from an earlier call, and     *)
(* replies to no client that did not call.                                 *)
(***************************************************************************)
CallsMatchReturns ==
  [][XAnswer =>
       /\ ReturnOf(input) \subseteq owed
       /\ CallOf(input) \cap owed = {}
       /\ Called(reply'[1]) \cap (owed \ ReturnOf(input)) = {}
       /\ Returned(reply'[1]) \subseteq owed \cup CallOf(input)]_xvars

(***************************************************************************)
(* A client's accepted call is answered one day, however many unrelated    *)
(* notifications and refused inputs come in between.                       *)
(***************************************************************************)
ClientServed ==
  "client" \in owed ~> "client" \notin owed \/ phase = "stopped"

=============================================================================
