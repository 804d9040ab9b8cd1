-------------------------- MODULE BranchDistance183 --------------------------
(***************************************************************************)
(* Branch recording and branch distances                                   *)
(* (Assignment1/Code/T2Final/instm183_LTL_CTLBranchDistance.java).         *)
(*                                                                         *)
(* The machine is the one of Instrumented183: the two files agree on it    *)
(* line for line.  Around it every test of main and CalculateOutput makes  *)
(* a Branch object with one Condition per comparison, and at the end Calc  *)
(* asks for each fuzzed input how far the recorded branches were from      *)
(* being taken.                                                            *)
(*                                                                         *)
(* A Condition refers to its result and to the operands of an && by        *)
(* reference, and these are the static temporaries I.bool1 .. I.bool9 that *)
(* the next test overwrites.  Integers, strings and cf are replaced and    *)
(* never modified, so for them the reference is as good as the value.      *)
(***************************************************************************)
EXTENDS Instrumented183, FiniteSets, SequencesExt

CONSTANT MaxInputs   \* length of the fuzzed array, 10 to 59 in the code

ASSUME MaxInputsAssumption == MaxInputs \in Nat \ {0}

VARIABLES
  bool,      \* bool[k] is the value of the static temporary I.boolk
  branches,  \* the Branch objects, in the order of their creation
  calls,     \* inputs processed
  map        \* what CalculateDistance last returned, and for which trace

dvars == <<vars, bool, branches, calls, map>>

Bools    == 1 .. 9
NotAsked == [trace |-> "none", throws |-> FALSE, dist |-> <<>>]

DInit ==
  /\ Init
  /\ bool = [k \in Bools |-> FALSE]
  /\ branches = <<>>
  /\ calls = 0
  /\ map = NotAsked

-----------------------------------------------------------------------------
(***************************************************************************)
(* Conditions.  kept tells whether the call passed a Branch; was remembers *)
(* the outcome at the time, which the program itself does not.             *)
(***************************************************************************)
Cond(t, a, b, c) == [type |-> t, a |-> a, b |-> b, c |-> c, kept |-> TRUE]
Unrecorded(c)    == [c EXCEPT !.kept = FALSE]

Ref(k)   == [ref |-> k, val |-> FALSE]   \* I.boolk
Obj(v)   == [ref |-> 0, val |-> v]       \* the MyBool object cf refers to

Deref(o, bo) == IF o.ref = 0 THEN o.val ELSE bo[o.ref]

Outcome(c, bo) ==
  CASE c.type = "myEquals"       -> c.b = c.c
    [] c.type = "myAnd"          -> Deref(c.b, bo) /\ Deref(c.c, bo)
    [] c.type = "myLess"         -> c.b < c.c
    [] c.type = "myLessEqual"    -> c.b <= c.c
    [] c.type = "myGreaterEqual" -> c.b >= c.c

Evaluate(st, c) ==
  LET v == Outcome(c, st.bool)
  IN  [bool |-> [st.bool EXCEPT ![c.a] = v],
       lst  |-> IF c.kept
                THEN Append(st.lst, [type |-> c.type, a |-> c.a, b |-> c.b, c |-> c.c, was |-> v])
                ELSE st.lst]

\* A test: a new Branch, its comparisons, branches.add.
Record(st, test) ==
  LET done == FoldLeft(Evaluate, [bool |-> st.bool, lst |-> <<>>], test.conds)
  IN  [bool |-> done.bool,
       new  |-> Append(st.new, [input |-> test.input, kind |-> test.kind, condLst |-> done.lst])]

Recording(tests) == FoldLeft(Record, [bool |-> bool, new |-> <<>>], tests)

Test(k, in, conds) == [kind |-> k, input |-> in, conds |-> conds]

-----------------------------------------------------------------------------
(***************************************************************************)
(* The tests in the code.                                                  *)
(***************************************************************************)
MainTest(in) ==
  Test("main", in,
    <<Cond("myEquals", 1, in, "ai1_ce1"), Cond("myEquals", 2, in, "usr4_ai1_VoidReply"),
      Cond("myEquals", 3, in, "usr4_ni1_ne1"), Cond("myEquals", 4, in, "ai1_ce2"),
      Cond("myEquals", 5, in, "usr2_ai1_VoidReply"),
      Cond("myAnd", 6, Ref(1), Ref(2)), Cond("myAnd", 7, Ref(3), Ref(4)),
      Cond("myAnd", 8, Ref(6), Ref(7)), Cond("myAnd", 9, Ref(8), Ref(5))>>)

\* Mutant: the last comparison writes a temporary of main's test.
WindowTest_bool5(kind, lo, x, hi, c) ==
  Test(kind, input,
    <<Cond("myLess", 1, lo, x), Cond("myGreaterEqual", 2, hi, x),
      Cond("myAnd", 3, Ref(1), Ref(2)), Cond("myAnd", 5, Obj(c), Ref(3))>>)

WindowTest(kind, lo, x, hi, c) ==
  Test(kind, input,
    <<Cond("myLess", 1, lo, x), Cond("myGreaterEqual", 2, hi, x),
      Cond("myAnd", 3, Ref(1), Ref(2)), Cond("myAnd", 4, Obj(c), Ref(3))>>)

FirstRangeTest(x, c) ==
  Test("range", input,
    <<Cond("myLessEqual", 1, x, -164), Unrecorded(Cond("myAnd", 2, Obj(c), Ref(1)))>>)

LastRangeTest(x, c) ==
  Test("range", input, <<Cond("myLess", 1, 100, x), Cond("myAnd", 2, Obj(c), Ref(1))>>)

StringTest(kind, s, x, c) ==
  Test(kind, input, <<Cond("myEquals", 1, s, x), Cond("myAnd", 2, Obj(c), Ref(1))>>)

Letter == <<"", "e", "g", "h", "i", "g", "h">>   \* the letter that selects method k

\* The input tests of a method, in order.
InputOrder ==
  << <<"usr2_ai1_VoidReply">>, <<"usr4_ni1_ne1", "ai1_ce2">>, <<"usr4_ai1_VoidReply">>,
     <<"ai1_ce2", "ai1_ce1", "usr4_ni1_ne1">>, <<"usr2_ai1_VoidReply">>,
     <<"usr4_ni1_ne1", "usr4_ai1_VoidReply">>, <<"usr4_ni1_ne1", "usr4_ai1_VoidReply">>,
     <<"usr4_ai1_VoidReply">> >>

MethodTests(l) ==
  LET order == InputOrder[l]
  IN  [j \in DOMAIN order |->
         StringTest("input", input, order[j], ~ \E k \in 1 .. (j - 1) : order[k] = input)]

Method(k) == <<"m1", "m2", "m3", "m4", "m5", "m6", "m7", "m8">>[k]

\* Mutant: the tests read a copy of cf made at the head of CalculateOutput.
Seen_copiedCf(k, l, before, after) ==
  IF l <= k THEN [after EXCEPT !.cf = TRUE] ELSE before

\* The fields as a test made after the k-th method sees them.
Seen(k, l, before, after) == IF l <= k THEN after ELSE before

(***************************************************************************)
(* The tests one call of CalculateOutput makes, where l is the method that *)
(* serves the state; the last Branch has no Condition.                     *)
(***************************************************************************)
CallTests(l, before, after) ==
  LET at(k)        == Seen(k, l, before, after)
      letterOf(k)  == <<StringTest("letter", at(k - 1).s, Letter[k], at(k - 1).cf)>>
                        \o (IF k = l THEN MethodTests(l) ELSE <<>>)
  IN  <<FirstRangeTest(at(0).b, at(0).cf)>>
      \o (IF l = 1 THEN <<WindowTest("window", -83, before.c, 18, at(0).cf)>> \o MethodTests(1)
          ELSE <<>>)
      \o <<WindowTest("range", -164, at(1).b, -19, at(1).cf)>>
      \o (IF l \in 2 .. 5 THEN letterOf(2) \o letterOf(3) \o letterOf(4) \o letterOf(5) ELSE <<>>)
      \o <<WindowTest("range", -19, at(5).b, 100, at(5).cf)>>
      \o (IF l \in 6 .. 7 THEN letterOf(6) \o letterOf(7) ELSE <<>>)
      \o <<LastRangeTest(at(7).b, at(7).cf)>>
      \o (IF l = 8 THEN <<WindowTest("window", 103, before.a, 198, at(7).cf)>> \o MethodTests(8)
          ELSE <<>>)
      \o <<Test("cf", input, <<>>)>>

-----------------------------------------------------------------------------
(***************************************************************************)
(* main: read an input and test it, process it, and ask for distances.     *)
(***************************************************************************)
Read(in) ==
  /\ calls < MaxInputs
  /\ NextInput(in)
  /\ LET r == Recording(<<MainTest(in)>>)
     IN  bool' = r.bool /\ branches' = branches \o r.new
  /\ UNCHANGED <<calls, map>>

Calculate ==
  /\ CalculateOutput
  /\ LET l      == CHOOSE k \in 1 .. 8 : Serves(Method(k))
         before == [a |-> A.val, b |-> B.val, c |-> C.val, s |-> a1745113960.val, cf |-> TRUE]
         after  == [b |-> a2108127495'.val, s |-> a1745113960'.val, cf |-> cf'.val]
         r      == Recording(CallTests(l, before, after))
     IN  bool' = r.bool /\ branches' = branches \o r.new
  /\ calls' = calls + 1
  /\ UNCHANGED map

(***************************************************************************)
(* Calc.CalculateDistance.  Each Condition of a branch made for this input *)
(* is compared again; one that gives the stored result counts, one that    *)
(* does not puts the count so far into the map.  The cases of the switch   *)
(* fall through: myAnd into myLessEqual, that into myGreaterEqual, that    *)
(* into myLess.  An && is compared with ==, and the string test compares   *)
(* the trace, whatever string the program had compared.                    *)
(***************************************************************************)
\* The cases that leave the switch when there are no integer operands.
NullChecked(case) == case \in {"myLessEqual", "myLess"}

AndFallsTo ==
  IF NullChecked("myLessEqual") \/ NullChecked("myGreaterEqual") THEN "fails" ELSE "throws"

\* Mutant: the operands of an && are joined by &&.
AndCounts_joined(c) == (Deref(c.b, bool) /\ Deref(c.c, bool)) = bool[c.a]

AndCounts(c) == (Deref(c.b, bool) = Deref(c.c, bool)) = bool[c.a]

Compare(trace, c) ==
  LET stored == bool[c.a]
      le == (c.b <= c.c) = stored
      ge == (c.b >= c.c) = stored
      lt == (c.b < c.c) = stored
      verdict(b) == IF b THEN "counts" ELSE "fails"
  IN  CASE c.type = "myEquals"       -> verdict((trace = c.c) = stored)
        [] c.type = "myAnd"          -> IF AndCounts(c) THEN "counts" ELSE AndFallsTo
        [] c.type = "myLessEqual"    -> verdict(le \/ ge \/ lt)
        [] c.type = "myGreaterEqual" -> verdict(ge \/ lt)
        [] c.type = "myLess"         -> verdict(lt)

\* counter before the n-th Condition of branch b is compared.
CounterAt(trace, b, n) ==
  1 + Cardinality({k \in 1 .. (n - 1) : Compare(trace, b.condLst[k]) = "counts"})

Failing(trace, b) == {n \in DOMAIN b.condLst : Compare(trace, b.condLst[n]) # "counts"}

CalculateDistance(trace) ==
  LET mine == {k \in DOMAIN branches : branches[k].input = trace}
  IN  [trace  |-> trace,
       throws |-> \E k \in mine : \E n \in DOMAIN branches[k].condLst :
                    Compare(trace, branches[k].condLst[n]) = "throws",
       dist   |-> [k \in {k \in mine : Failing(trace, branches[k]) # {}} |->
                     CounterAt(trace, branches[k], Max(Failing(trace, branches[k])))]]

\* After the last input; main prints the map before it asks for the next one.
Ask(trace) ==
  /\ phase = "ready"
  /\ calls = MaxInputs
  /\ trace \in {branches[k].input : k \in DOMAIN branches}
  /\ map' = CalculateDistance(trace)
  /\ UNCHANGED <<vars, bool, branches, calls>>

DNext == (\E in \in Inputs : Read(in) \/ Ask(in)) \/ Calculate

DSpec == DInit /\ [][DNext]_dvars

-----------------------------------------------------------------------------
\* The branches made for the input processed last: main's and all after it.
LastMain == Max({k \in DOMAIN branches : branches[k].kind = "main"})

Taken(b) == b.condLst[Len(b.condLst)].was

(***************************************************************************)
(* What was recorded for an input tells what happened to it, although the  *)
(* tests behind the answer see fields the answer has already moved: of the *)
(* four range tests exactly one came out true, and so did one input test   *)
(* if the input was answered and none if it was refused.                   *)
(***************************************************************************)
RecordTellsAnswer ==
  branches # <<>> /\ phase = "ready" =>
    LET mine     == LastMain .. Len(branches)
        taken(t) == Cardinality({k \in mine : branches[k].kind = t /\ Taken(branches[k])})
    IN  /\ taken("main") = 0
        /\ taken("range") = 1
        /\ taken("input") = IF reply = <<Rejected>> THEN 0 ELSE 1

(***************************************************************************)
(* main's test never comes true, so each branch it made for the trace that *)
(* is asked about gets a distance, those of earlier inputs as well: by then*)
(* the results and the operands CalculateDistance reads through I.bool1 .. *)
(* I.bool9 are those of later inputs and of the tests of CalculateOutput,  *)
(* and the && falls through the cases of the switch.                       *)
(***************************************************************************)
MainReported ==
  map # NotAsked =>
    /\ ~ map.throws
    /\ \A k \in DOMAIN branches :
         branches[k].kind = "main" /\ branches[k].input = map.trace => k \in DOMAIN map.dist

(***************************************************************************)
(* I.bool5 .. I.bool9 belong to main's test alone: whatever CalculateOutput*)
(* did since, the results CalculateDistance reads through them are those   *)
(* of the latest input's test.                                             *)
(***************************************************************************)
MainResultsSurvive ==
  branches # <<>> =>
    \A n \in 5 .. 9 : LET c == branches[LastMain].condLst[n] IN bool[c.a] = c.was

=============================================================================
