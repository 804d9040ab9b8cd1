--------------------------- MODULE Table183Proofs ---------------------------
(***************************************************************************)
(* What rests on the table of the machine alone: the protocol it speaks    *)
(* (Exchange183) and the campaign that is driven against it (Fuzzer183).   *)
(***************************************************************************)
EXTENDS Exchange183, Fuzzer183, WellFoundedInduction, TLAPS

-----------------------------------------------------------------------------
(***************************************************************************)
(* The protocol: calls match returns, whatever the environment sends and   *)
(* however long it goes on.                                                *)
(***************************************************************************)
\* The table relates states, inputs and outputs.
LEMMA TransTypes ==
  ASSUME NEW t \in Trans
  PROVE  /\ t.from \in Locs /\ t.to \in Locs
         /\ t.in \in Inputs /\ t.out \in Outputs
BY DEF Trans, T, Locs, Inputs, Outputs

(***************************************************************************)
(* The table and the calls in progress: a transition closes only calls     *)
(* that are open, opens only calls that are not, and leaves those open     *)
(* that the state it leads to says.                                        *)
(***************************************************************************)
LEMMA Balance ==
  ASSUME NEW t \in Trans
  PROVE  LET before == OwedIn(t.from)
         IN  /\ ReturnOf(t.in) \subseteq before
             /\ CallOf(t.in) \cap before = {}
             /\ Called(t.out) \cap (before \ ReturnOf(t.in)) = {}
             /\ Returned(t.out) \subseteq before \cup CallOf(t.in)
             /\ (((before \cup CallOf(t.in)) \ ReturnOf(t.in)) \cup Called(t.out))
                  \ Returned(t.out) = OwedIn(t.to)
BY DEF Trans, T, OwedIn, ReturnOf, CallOf, Called, Returned

\* The transition XAnswer takes.
LEMMA AnswerTakes ==
  ASSUME TypeOK, Answer
  PROVE  \E t \in Trans : /\ t.from = loc /\ t.in = input
                          /\ loc' = t.to /\ reply' = <<t.out>> /\ reply'[1] = t.out
                          /\ phase' = "ready" /\ UNCHANGED input
BY DEF Answer, Takes

(***************************************************************************)
(* Who waits for whom is settled by the state of the machine.              *)
(***************************************************************************)
THEOREM OwedInvariance == XSpec => []OwedByState
<1>1. XInit => OwedByState
  BY DEF XInit, Init, OwedByState, OwedIn, TypeOK, Locs
<1>2. OwedByState /\ [XNext]_xvars => OwedByState'
  <2> SUFFICES ASSUME OwedByState, [XNext]_xvars PROVE OwedByState'
    OBVIOUS
  <2> USE DEF OwedByState
  <2>1. ASSUME NEW in \in Inputs \cup {Other}, XStep(Read(in)) PROVE OwedByState'
    BY <2>1 DEF XStep, Read, TypeOK
  <2>2. CASE XAnswer
    <3>1. PICK t \in Trans : /\ t.from = loc /\ t.in = input
                             /\ loc' = t.to /\ reply' = <<t.out>> /\ reply'[1] = t.out
                             /\ phase' = "ready" /\ UNCHANGED input
      BY <2>2, AnswerTakes DEF XAnswer
    <3>2. TypeOK'
      BY <3>1, TransTypes DEF TypeOK
    <3>3. owed' = (((owed \cup CallOf(t.in)) \ ReturnOf(t.in)) \cup Called(t.out))
                    \ Returned(t.out)
      BY <2>2, <3>1 DEF XAnswer
    <3>4. owed' = OwedIn(t.to)
      BY <3>1, <3>3, Balance
    <3>5. OwedIn(loc)' = OwedIn(t.to)
      BY <3>1 DEF OwedIn
    <3> QED BY <3>2, <3>4, <3>5
  <2>3. CASE XStep(Reject)
    BY <2>3 DEF XStep, Reject, TypeOK
  <2>4. CASE XStep(Stop)
    BY <2>4 DEF XStep, Stop, TypeOK
  <2>5. CASE UNCHANGED xvars
    BY <2>5 DEF xvars, vars, TypeOK, OwedIn
  <2> QED BY <2>1, <2>2, <2>3, <2>4, <2>5 DEF XNext
<1> QED BY <1>1, <1>2, PTL DEF XSpec

(***************************************************************************)
(* The machine accepts no return nobody owes and no second call of the     *)
(* client, calls nobody who has not returned, and replies to no client     *)
(* that did not call.                                                      *)
(***************************************************************************)
THEOREM CallsMatch == XSpec => CallsMatchReturns
<1> DEFINE Matched == /\ ReturnOf(input) \subseteq owed
                      /\ CallOf(input) \cap owed = {}
                      /\ Called(reply'[1]) \cap (owed \ ReturnOf(input)) = {}
                      /\ Returned(reply'[1]) \subseteq owed \cup CallOf(input)
<1>1. ASSUME OwedByState, XAnswer PROVE Matched
  <2>1. PICK t \in Trans : t.from = loc /\ t.in = input /\ reply'[1] = t.out
    BY <1>1, AnswerTakes DEF OwedByState, XAnswer
  <2>2. owed = OwedIn(t.from)
    BY <1>1, <2>1 DEF OwedByState
  <2> QED BY <2>1, <2>2, Balance
<1>2. OwedByState /\ [XNext]_xvars => [XAnswer => Matched]_xvars
  BY <1>1
<1> QED BY <1>2, OwedInvariance, PTL DEF XSpec, CallsMatchReturns

-----------------------------------------------------------------------------
(***************************************************************************)
(* The bookkeeping of the campaign, for arrays and campaigns of any        *)
(* length: what a collected Run says about its inputs, and that nothing    *)
(* main does later changes it through the shared set of branches.          *)
(*                                                                         *)
(* The argument is about aliasing.  While a run is in progress its set may *)
(* be reachable both from the static variable and from currentRun, and no  *)
(* collected run reaches it; a collected run's set lies below the static   *)
(* one in the order of creation, so growing the current set leaves it as   *)
(* it was.                                                                 *)
(***************************************************************************)

(***************************************************************************)
(* A fuzzed array is a non-empty sequence of inputs.                       *)
(***************************************************************************)
LEMMA TraceLength ==
  ASSUME NEW s \in Traces \cup {<<>>}
  PROVE  s \in Seq(Inputs) /\ Len(s) \in Nat
  <1>1. CASE s \in Traces
    <2>1. PICK n \in MinLength .. MaxLength : s \in [1 .. n -> Inputs]
      BY <1>1 DEF Traces
    <2>2. n \in Nat
      BY LengthAssumption
    <2> QED BY <2>1, <2>2
  <1>2. CASE s = <<>>
    BY <1>2
  <1> QED BY <1>1, <1>2

(***************************************************************************)
(* Every transition leads to a state of the machine, and every input       *)
(* records at least one branch.                                            *)
(***************************************************************************)
LEMMA TableTypes ==
  /\ \A t \in Trans : t.to \in Locs
  /\ \A l \in Locs : Recorded(l) \in Nat
  <1>1. \A t \in Trans : t.to \in Locs
    BY DEF Trans, T, Locs
  <1>2. \A l \in Locs : LetterTests(l) \in Nat /\ InputTests(l) \in Nat
    BY DEF Locs, LetterTests, InputTests
  <1> QED BY <1>1, <1>2 DEF Recorded

(***************************************************************************)
(* The fields of a Run, and of the runs in a list of them.                 *)
(***************************************************************************)
LEMMA RunFields ==
  ASSUME NEW r \in RunType
  PROVE  /\ r.inputs \in Traces \cup {<<>>}
         /\ r.exceptions \in Nat
         /\ r.branches \in Nat
         /\ r = [inputs |-> r.inputs, exceptions |-> r.exceptions, branches |-> r.branches]
  BY DEF RunType

LEMMA ListedRuns ==
  ASSUME NEW lst \in Seq(RunType), NEW n \in DOMAIN lst
  PROVE  lst[n].branches \in Nat
  <1>1. lst[n] \in RunType
    OBVIOUS
  <1> QED BY <1>1, RunFields

(***************************************************************************)
(* The program starts with no set of branches and no runs.                 *)
(***************************************************************************)
LEMMA InitFInv == FInit => Bookkept
  BY DEF FInit, Bookkept, FTypeOK, RunType, Run, null, CurrentSound, OlderSets,
         SetsComplete, Locs

(***************************************************************************)
(* A new set is above all collected ones, and no run has it yet.           *)
(***************************************************************************)
LEMMA StartKeeps ==
  ASSUME Bookkept, NEW s \in Traces, StartRun(s)
  PROVE  Bookkept' /\ Frozen
  <1>1. /\ heap' = Append(heap, 0) /\ heap \in Seq(Nat)
        /\ branches' = Len(heap) + 1
        /\ run' = [inputs |-> s, exceptions |-> 0, branches |-> 0]
        /\ i' = 0 /\ pc' = "for" /\ pc = "while"
        /\ runLst' = runLst /\ count' = count /\ state' = "m4"
    BY DEF Bookkept, FTypeOK, StartRun, Run, null
  <1>2. /\ heap' \in Seq(Nat) /\ Len(heap') = Len(heap) + 1
        /\ \A k \in 1 .. Len(heap) : heap'[k] = heap[k]
    BY <1>1
  <1>3. FTypeOK'
    BY <1>1, <1>2, TraceLength DEF Bookkept, FTypeOK, RunType, Locs
  <1>4. CurrentSound'
    BY <1>1 DEF CurrentSound, null
  <1>5. \A n \in DOMAIN runLst : runLst[n].branches \in Nat /\ runLst[n].branches <= Len(heap)
    BY ListedRuns DEF Bookkept, FTypeOK, OlderSets
  <1>6. OlderSets'
    BY <1>1, <1>2, <1>5 DEF OlderSets
  <1>7. SetsComplete'
    BY <1>1 DEF Bookkept, SetsComplete
  <1>8. Frozen
    BY <1>1, <1>2, <1>5 DEF Frozen, null
  <1> QED BY <1>3, <1>4, <1>6, <1>7, <1>8 DEF Bookkept

(***************************************************************************)
(* An input grows the current set only, which no collected run has; the    *)
(* run gets it with the first accepted input, when fewer exceptions than   *)
(* inputs were counted, and keeps it.                                      *)
(***************************************************************************)
LEMMA ProcessKeeps ==
  ASSUME Bookkept, ProcessInput
  PROVE  Bookkept' /\ Frozen
  <1>1. /\ pc = "for" /\ pc' = pc /\ runLst' = runLst /\ count' = count
        /\ branches' = branches /\ i' = i + 1 /\ i \in Nat /\ i < Len(run.inputs)
        /\ heap' = [heap EXCEPT ![branches] = heap[branches] + Recorded(state)]
        /\ heap \in Seq(Nat) /\ branches = Len(heap) /\ state \in Locs
        /\ run \in RunType /\ runLst \in Seq(RunType)
    BY DEF Bookkept, FTypeOK, ProcessInput
  <1>2. /\ 0 < branches /\ run.branches \in {null, branches}
        /\ run.exceptions <= i
        /\ run.branches = null <=> run.exceptions = i
    BY <1>1 DEF Bookkept, CurrentSound
  <1>3. /\ heap' \in Seq(Nat) /\ Len(heap') = Len(heap)
        /\ \A k \in 1 .. Len(heap) : k # branches => heap'[k] = heap[k]
    <2>1. heap[branches] \in Nat /\ Recorded(state) \in Nat
      BY <1>1, <1>2, TableTypes
    <2>2. heap[branches] + Recorded(state) \in Nat
      BY <2>1
    <2> QED BY <1>1, <1>2, <2>2
  <1>4. /\ state' \in Locs
        /\ \/ run' = [run EXCEPT !.branches = branches]
           \/ run' = [run EXCEPT !.exceptions = run.exceptions + 1]
    BY <1>1, TableTypes DEF ProcessInput
  <1>5. /\ run.inputs \in Traces \cup {<<>>} /\ run.exceptions \in Nat /\ run.branches \in Nat
        /\ run = [inputs |-> run.inputs, exceptions |-> run.exceptions,
                  branches |-> run.branches]
    BY <1>1, RunFields
  <1>6. Len(run.inputs) \in Nat
    BY <1>5, TraceLength
  <1>7. /\ run' \in RunType /\ run'.inputs = run.inputs
        /\ run'.branches \in {null, branches}
        /\ run'.exceptions <= i + 1
        /\ run'.branches = null <=> run'.exceptions = i + 1
    <2>1. CASE run' = [run EXCEPT !.branches = branches]
      <3>1. run' = [inputs |-> run.inputs, exceptions |-> run.exceptions, branches |-> branches]
        BY <2>1, <1>5
      <3>2. branches \in Nat
        BY <1>1
      <3>3. run' \in RunType
        BY <3>1, <3>2, <1>5 DEF RunType
      <3> QED BY <3>1, <3>2, <3>3, <1>1, <1>2, <1>5 DEF null
    <2>2. CASE run' = [run EXCEPT !.exceptions = run.exceptions + 1]
      <3>1. run' = [inputs |-> run.inputs, exceptions |-> run.exceptions + 1,
                    branches |-> run.branches]
        BY <2>2, <1>5
      <3>2. run' \in RunType
        BY <3>1, <1>5 DEF RunType
      <3> QED BY <3>1, <3>2, <1>1, <1>2, <1>5 DEF null
    <2> QED BY <1>4, <2>1, <2>2
  <1>8. FTypeOK'
    BY <1>1, <1>3, <1>4, <1>6, <1>7 DEF Bookkept, FTypeOK
  <1>9. CurrentSound'
    BY <1>1, <1>2, <1>7 DEF CurrentSound
  <1>10. \A n \in DOMAIN runLst : runLst[n].branches \in Nat /\ runLst[n].branches < branches
    BY <1>1, ListedRuns DEF Bookkept, OlderSets
  <1>11. OlderSets'
    BY <1>1, <1>3, <1>10 DEF OlderSets
  <1>12. SetsComplete'
    BY <1>1 DEF Bookkept, SetsComplete
  <1>13. Frozen
    BY <1>1, <1>3, <1>10 DEF Frozen, null
  <1> QED BY <1>8, <1>9, <1>11, <1>12, <1>13 DEF Bookkept

(***************************************************************************)
(* The run that joins the list brings either no set or the newest one.     *)
(***************************************************************************)
LEMMA FinishKeeps ==
  ASSUME Bookkept, FinishRun
  PROVE  Bookkept' /\ Frozen
  <1>1. /\ pc = "for" /\ pc' = "while" /\ i = Len(run.inputs)
        /\ runLst' = Append(runLst, run) /\ count' = count + 1
        /\ heap' = heap /\ branches' = branches /\ run' = run /\ i' = i /\ state' = state
        /\ run \in RunType /\ runLst \in Seq(RunType) /\ count = Len(runLst)
        /\ branches = Len(heap) /\ heap \in Seq(Nat)
    BY DEF Bookkept, FTypeOK, FinishRun
  <1>2. /\ runLst' \in Seq(RunType) /\ Len(runLst') = Len(runLst) + 1
        /\ DOMAIN runLst' = 1 .. (Len(runLst) + 1)
        /\ DOMAIN runLst = 1 .. Len(runLst) /\ Len(runLst) \in Nat
        /\ \A n \in DOMAIN runLst : runLst'[n] = runLst[n]
        /\ runLst'[Len(runLst) + 1] = run
    BY <1>1
  <1>3. FTypeOK'
    BY <1>1, <1>2 DEF Bookkept, FTypeOK
  <1>4. CurrentSound'
    BY <1>1 DEF CurrentSound
  <1>5. /\ run.branches \in {null, branches}
        /\ run.branches = null <=> run.exceptions = Len(run.inputs)
        /\ 0 < branches
    BY <1>1 DEF Bookkept, CurrentSound
  <1>6. \A n \in DOMAIN runLst : runLst[n].branches \in Nat /\ runLst[n].branches < branches
    BY <1>1, ListedRuns DEF Bookkept, OlderSets
  <1>7. OlderSets'
    BY <1>1, <1>2, <1>5, <1>6 DEF OlderSets, null
  <1>8. SetsComplete'
    <2> SUFFICES ASSUME NEW n \in DOMAIN runLst', NEW k \in DOMAIN runLst'
                 PROVE  /\ runLst'[n].branches = null
                             <=> runLst'[n].exceptions = Len(runLst'[n].inputs)
                        /\ k # n /\ runLst'[n].branches # null
                             => runLst'[k].branches # runLst'[n].branches
      BY DEF SetsComplete
    <2>1. CASE n \in DOMAIN runLst /\ k \in DOMAIN runLst
      BY <2>1, <1>2 DEF Bookkept, SetsComplete
    <2>2. CASE n \in DOMAIN runLst /\ k = Len(runLst) + 1
      BY <2>2, <1>2, <1>5, <1>6 DEF Bookkept, SetsComplete, null
    <2>3. CASE n = Len(runLst) + 1 /\ k \in DOMAIN runLst
      BY <2>3, <1>2, <1>5, <1>6 DEF null
    <2>4. CASE n = Len(runLst) + 1 /\ k = Len(runLst) + 1
      BY <2>4, <1>2, <1>5
    <2> QED BY <1>2, <2>1, <2>2, <2>3, <2>4
  <1>9. Frozen
    BY <1>1, <1>2 DEF Frozen
  <1> QED BY <1>3, <1>4, <1>7, <1>8, <1>9 DEF Bookkept

(***************************************************************************)
(* Every step keeps the invariant and freezes the collected runs.          *)
(***************************************************************************)
LEMMA NextKeeps == Bookkept /\ [FNext]_fvars => Bookkept' /\ [Frozen]_fvars
  <1> SUFFICES ASSUME Bookkept, [FNext]_fvars PROVE Bookkept' /\ [Frozen]_fvars
    OBVIOUS
  <1>1. ASSUME NEW s \in Traces, StartRun(s) PROVE Bookkept' /\ Frozen
    BY <1>1, StartKeeps
  <1>2. CASE ProcessInput
    BY <1>2, ProcessKeeps
  <1>3. CASE FinishRun
    BY <1>3, FinishKeeps
  <1>4. CASE UNCHANGED fvars
    BY <1>4 DEF fvars, Bookkept, FTypeOK, CurrentSound, OlderSets, SetsComplete
  <1> QED BY <1>1, <1>2, <1>3, <1>4 DEF FNext

-----------------------------------------------------------------------------
(***************************************************************************)
(* The replay of an array.  Replayed is a recursive function, so that it   *)
(* is one, and that it follows ReplayStep from one input to the next, is   *)
(* itself proved: an approximation that covers m inputs extends to m + 1.  *)
(***************************************************************************)
Start == [loc |-> "m4", exc |-> 0, size |-> 0]

States == [loc : Locs, exc : Nat, size : Nat]

Follows(g, s, m) ==
  g[0] = Start /\ \A n \in 1 .. m : g[n] = ReplayStep(g[n - 1], s[n])

(***************************************************************************)
(* A set of numbers closed under successor up to n reaches n.              *)
(***************************************************************************)
LEMMA Climbs ==
  ASSUME NEW n \in Nat, NEW S, 0 \in S, \A m \in 0 .. n - 1 : m \in S => m + 1 \in S
  PROVE  0 .. n \subseteq S
  <1> SUFFICES ASSUME NEW x \in 0 .. n, x \notin S PROVE FALSE
    OBVIOUS
  <1> DEFINE U == {m \in 0 .. n : m \notin S}
  <1>1. U \subseteq Nat /\ x \in U
    OBVIOUS
  <1> HIDE DEF U
  <1>2. PICK y \in U : \A z \in U : ~(<<z, y>> \in OpToRel(<, Nat))
    BY <1>1, NatLessThanWellFounded, WFMin
  <1>3. \A z \in U : ~(z < y)
    BY <1>1, <1>2 DEF OpToRel
  <1>4. y \in 0 .. n /\ y \notin S /\ y # 0
    BY <1>2 DEF U
  <1>5. y - 1 \in 0 .. n - 1 /\ y - 1 \in 0 .. n /\ y - 1 < y /\ y - 1 + 1 = y
    BY <1>4
  <1>6. y - 1 \in S
    BY <1>3, <1>5 DEF U
  <1> QED BY <1>4, <1>5, <1>6

(***************************************************************************)
(* No state has two transitions for one input, so a replay has no choice.  *)
(***************************************************************************)
LEMMA Deterministic ==
  ASSUME NEW t \in Trans, NEW u \in Trans, t.from = u.from, t.in = u.in
  PROVE  t.to = u.to
  BY DEF Trans, T

LEMMA AcceptedStep ==
  ASSUME NEW st \in States, NEW in, NEW t \in Trans, t.from = st.loc, t.in = in
  PROVE  ReplayStep(st, in) = [loc |-> t.to, exc |-> st.exc,
                               size |-> st.size + Recorded(st.loc)]
  <1> DEFINE c == CHOOSE u \in Trans : u.from = st.loc /\ u.in = in
  <1>1. c \in Trans /\ c.from = st.loc /\ c.in = in
    OBVIOUS
  <1>2. ReplayStep(st, in) = [loc |-> c.to, exc |-> st.exc,
                              size |-> st.size + Recorded(st.loc)]
    <2>1. Accepts(st.loc, in)
      BY DEF Accepts
    <2> QED BY <2>1 DEF ReplayStep
  <1> HIDE DEF c
  <1>3. c.to = t.to
    BY <1>1, Deterministic
  <1> QED BY <1>2, <1>3

LEMMA RefusedStep ==
  ASSUME NEW st \in States, NEW in, ~ Accepts(st.loc, in)
  PROVE  ReplayStep(st, in) = [loc |-> st.loc, exc |-> st.exc + 1,
                               size |-> st.size + Recorded(st.loc)]
  BY DEF ReplayStep

LEMMA StepStates ==
  ASSUME NEW st \in States, NEW in
  PROVE  ReplayStep(st, in) \in States
  <1>1. st.loc \in Locs /\ st.exc \in Nat /\ st.size \in Nat
    BY DEF States
  <1>2. Recorded(st.loc) \in Nat
    BY <1>1, TableTypes
  <1>3. st.size + Recorded(st.loc) \in Nat
    BY <1>1, <1>2
  <1>4. CASE Accepts(st.loc, in)
    <2>1. PICK t \in Trans : t.from = st.loc /\ t.in = in
      BY <1>4 DEF Accepts
    <2>2. ReplayStep(st, in) = [loc |-> t.to, exc |-> st.exc,
                                size |-> st.size + Recorded(st.loc)]
      BY <2>1, AcceptedStep
    <2>3. t.to \in Locs
      BY <2>1, TableTypes
    <2> QED BY <1>1, <1>3, <2>2, <2>3 DEF States
  <1>5. CASE ~ Accepts(st.loc, in)
    <2>1. ReplayStep(st, in) = [loc |-> st.loc, exc |-> st.exc + 1,
                                size |-> st.size + Recorded(st.loc)]
      BY <1>5, RefusedStep
    <2> QED BY <1>1, <1>3, <2>1 DEF States
  <1> QED BY <1>4, <1>5

LEMMA StartState == Start \in States
  BY DEF Start, States, Locs

LEMMA FollowsExists ==
  ASSUME NEW s \in Seq(Inputs)
  PROVE  \E g \in [0 .. Len(s) -> States] : Follows(g, s, Len(s))
  <1> DEFINE n == Len(s)
             S == {m \in 0 .. n : \E g \in [0 .. m -> States] : Follows(g, s, m)}
  <1>1. n \in Nat
    OBVIOUS
  <1>2. 0 \in S
    <2> DEFINE g == [k \in 0 .. 0 |-> Start]
    <2>1. g \in [0 .. 0 -> States] /\ g[0] = Start
      BY StartState
    <2>2. Follows(g, s, 0)
      BY <2>1 DEF Follows
    <2> HIDE DEF g
    <2> QED BY <1>1, <2>1, <2>2
  <1>3. ASSUME NEW m \in 0 .. n - 1, m \in S PROVE m + 1 \in S
    <2>1. PICK g \in [0 .. m -> States] : Follows(g, s, m)
      BY <1>3
    <2> DEFINE f == [k \in 0 .. m + 1 |->
                       IF k \in 0 .. m THEN g[k] ELSE ReplayStep(g[m], s[m + 1])]
    <2>2. m \in 0 .. m /\ g[m] \in States /\ m + 1 \notin 0 .. m
          /\ 0 \in 0 .. m /\ m + 1 \in 0 .. n
      BY <1>1
    <2>3. ReplayStep(g[m], s[m + 1]) \in States
      BY <2>2, StepStates
    <2>4. f \in [0 .. m + 1 -> States]
      BY <2>3
    <2>5. /\ \A k \in 0 .. m : f[k] = g[k]
          /\ f[m + 1] = ReplayStep(g[m], s[m + 1])
      BY <1>1, <2>2
    <2> HIDE DEF f
    <2>6. f[0] = Start
      BY <2>1, <2>2, <2>5 DEF Follows
    <2>7. ASSUME NEW k \in 1 .. m + 1 PROVE f[k] = ReplayStep(f[k - 1], s[k])
      <3>1. CASE k = m + 1
        <4>1. k - 1 = m
          BY <3>1
        <4> QED BY <2>2, <2>5, <3>1, <4>1
      <3>2. CASE k # m + 1
        <4>1. k \in 1 .. m /\ k \in 0 .. m /\ k - 1 \in 0 .. m
          BY <3>2
        <4> QED BY <2>1, <2>5, <4>1 DEF Follows
      <3> QED BY <3>1, <3>2
    <2>8. Follows(f, s, m + 1)
      BY <2>6, <2>7 DEF Follows
    <2> QED BY <2>2, <2>4, <2>8
  <1>4. n \in S
    <2> HIDE DEF S
    <2>1. 0 .. n \subseteq S
      BY <1>1, <1>2, <1>3, Climbs
    <2> QED BY <1>1, <2>1
  <1> QED BY <1>4

LEMMA ReplayedDef ==
  ASSUME NEW s \in Seq(Inputs)
  PROVE  Follows(Replayed(s), s, Len(s))
  <1> DEFINE n == Len(s)
             Eq(f) == f = [k \in 0 .. n |->
                        IF k = 0 THEN [loc |-> "m4", exc |-> 0, size |-> 0]
                                 ELSE ReplayStep(f[k - 1], s[k])]
             c == CHOOSE f : Eq(f)
  <1>1. n \in Nat
    OBVIOUS
  <1>2. PICK g \in [0 .. n -> States] : Follows(g, s, n)
    BY FollowsExists
  <1>3. Eq(g)
    <2>1. ASSUME NEW k \in 0 .. n
          PROVE  g[k] = IF k = 0 THEN [loc |-> "m4", exc |-> 0, size |-> 0]
                                 ELSE ReplayStep(g[k - 1], s[k])
      <3>1. CASE k = 0
        BY <1>2, <3>1 DEF Follows, Start
      <3>2. CASE k # 0
        <4>1. k \in 1 .. n
          BY <3>2
        <4> QED BY <1>2, <3>2, <4>1 DEF Follows
      <3> QED BY <3>1, <3>2
    <2> QED BY <2>1
  <1>4. Eq(c)
    <2> HIDE DEF Eq
    <2> QED BY <1>3
  <1>5. Replayed(s) = c
    BY DEF Replayed
  <1> HIDE DEF c
  <1>6. c[0] = Start
    BY <1>1, <1>4 DEF Start
  <1>7. ASSUME NEW k \in 1 .. n PROVE c[k] = ReplayStep(c[k - 1], s[k])
    <2>1. k \in 0 .. n /\ k # 0
      OBVIOUS
    <2> QED BY <1>4, <2>1
  <1> QED BY <1>5, <1>6, <1>7 DEF Follows

LEMMA ReplayedStates ==
  ASSUME NEW s \in Seq(Inputs), NEW m \in 0 .. Len(s)
  PROVE  Replayed(s)[m] \in States
  <1> DEFINE n == Len(s)
             c == Replayed(s)
             S == {k \in 0 .. n : c[k] \in States}
  <1>1. n \in Nat /\ Follows(c, s, n)
    BY ReplayedDef
  <1> HIDE DEF c
  <1>2. 0 \in S
    BY <1>1, StartState DEF Follows
  <1>3. ASSUME NEW k \in 0 .. n - 1, k \in S PROVE k + 1 \in S
    <2>1. k + 1 \in 1 .. n /\ k + 1 \in 0 .. n /\ k + 1 - 1 = k /\ c[k] \in States
      BY <1>1, <1>3
    <2>2. c[k + 1] = ReplayStep(c[k], s[k + 1])
      BY <1>1, <2>1 DEF Follows
    <2>3. c[k + 1] \in States
      BY <2>1, <2>2, StepStates
    <2> QED BY <2>1, <2>3
  <1>4. m \in S
    <2> HIDE DEF S
    <2>1. 0 .. n \subseteq S
      BY <1>1, <1>2, <1>3, Climbs
    <2> QED BY <2>1
  <1> QED BY <1>4 DEF c

-----------------------------------------------------------------------------
(***************************************************************************)
(* A run begins where the replay of its inputs begins.                     *)
(***************************************************************************)
LEMMA StartReplays ==
  ASSUME Bookkept, RunsReproducible, NEW s \in Traces, StartRun(s), Frozen
  PROVE  InProgress' /\ RunsReproducible'
  <1>1. /\ heap' = Append(heap, 0) /\ heap \in Seq(Nat)
        /\ branches' = Len(heap) + 1
        /\ run' = [inputs |-> s, exceptions |-> 0, branches |-> 0]
        /\ i' = 0 /\ state' = "m4" /\ runLst' = runLst
    BY DEF Bookkept, FTypeOK, StartRun, Run, null
  <1>2. heap'[branches'] = 0
    BY <1>1
  <1>3. Replayed(s)[0] = Start
    BY TraceLength, ReplayedDef DEF Follows
  <1>4. /\ run'.inputs = s /\ run'.exceptions = 0
        /\ Start.loc = "m4" /\ Start.exc = 0 /\ Start.size = 0
    BY <1>1 DEF Start
  <1>5. InProgress'
    BY <1>1, <1>2, <1>3, <1>4 DEF InProgress
  <1>6. RunsReproducible'
    BY <1>1 DEF RunsReproducible, Frozen
  <1> QED BY <1>5, <1>6

(***************************************************************************)
(* An input takes the run and the replay one step further, alike.          *)
(***************************************************************************)
LEMMA ProcessReplays ==
  ASSUME Bookkept, InProgress, RunsReproducible, ProcessInput, Frozen
  PROVE  InProgress' /\ RunsReproducible'
  <1> DEFINE s  == run.inputs
             e  == Replayed(s)[i]
             e1 == Replayed(s)[i + 1]
  <1>1. /\ pc = "for" /\ runLst' = runLst
        /\ branches' = branches /\ i' = i + 1 /\ i \in Nat /\ i < Len(s)
        /\ heap' = [heap EXCEPT ![branches] = heap[branches] + Recorded(state)]
        /\ heap \in Seq(Nat) /\ branches = Len(heap)
        /\ run \in RunType
    BY DEF Bookkept, FTypeOK, ProcessInput
  <1>2. 0 < branches
    BY <1>1 DEF Bookkept, CurrentSound
  <1>3. heap'[branches'] = heap[branches] + Recorded(state)
    BY <1>1, <1>2
  <1>4. s \in Seq(Inputs) /\ Len(s) \in Nat
    BY <1>1, RunFields, TraceLength
  <1>5. state = e.loc /\ run.exceptions = e.exc /\ heap[branches] = e.size
    BY <1>1 DEF InProgress
  <1>6. e \in States
    <2>1. i \in 0 .. Len(s)
      BY <1>1, <1>4
    <2> QED BY <1>4, <2>1, ReplayedStates
  <1>7. e1 = ReplayStep(e, s[i + 1])
    <2>1. PICK k \in 1 .. Len(s) : k = i + 1 /\ k - 1 = i
      BY <1>1, <1>4
    <2>2. Follows(Replayed(s), s, Len(s))
      BY <1>4, ReplayedDef
    <2>3. Replayed(s)[k] = ReplayStep(Replayed(s)[k - 1], s[k])
      BY <2>2 DEF Follows
    <2>4. k - 1 = i
      BY <2>1
    <2>5. k = i + 1
      BY <2>1
    <2> QED BY <2>3, <2>4, <2>5, Zenon
  <1>8. run'.inputs = s
    <2>1. \/ run' = [run EXCEPT !.branches = branches]
          \/ run' = [run EXCEPT !.exceptions = run.exceptions + 1]
      BY DEF ProcessInput
    <2> QED BY <1>1, <2>1 DEF RunType
  <1>9. state' = e1.loc /\ run'.exceptions = e1.exc /\ heap'[branches'] = e1.size
    <2>1. ASSUME NEW t \in Trans, t.from = state, t.in = s[i + 1], state' = t.to,
                 run' = [run EXCEPT !.branches = branches]
          PROVE  state' = e1.loc /\ run'.exceptions = e1.exc /\ heap'[branches'] = e1.size
      <3>1. e1 = [loc |-> t.to, exc |-> e.exc, size |-> e.size + Recorded(e.loc)]
        BY <1>5, <1>6, <1>7, <2>1, AcceptedStep
      <3>2. run'.exceptions = run.exceptions
        BY <1>1, <2>1 DEF RunType
      <3> HIDE DEF e, e1
      <3> QED BY <1>3, <1>5, <2>1, <3>1, <3>2
    <2>2. ASSUME ~ Accepts(state, s[i + 1]), state' = state,
                 run' = [run EXCEPT !.exceptions = run.exceptions + 1]
          PROVE  state' = e1.loc /\ run'.exceptions = e1.exc /\ heap'[branches'] = e1.size
      <3>1. e1 = [loc |-> e.loc, exc |-> e.exc + 1, size |-> e.size + Recorded(e.loc)]
        BY <1>5, <1>6, <1>7, <2>2, RefusedStep
      <3>2. run'.exceptions = run.exceptions + 1
        BY <1>1, <2>2 DEF RunType
      <3> HIDE DEF e, e1
      <3> QED BY <1>3, <1>5, <2>2, <3>1, <3>2
    <2> QED BY <2>1, <2>2 DEF ProcessInput
  <1>10. InProgress'
    BY <1>1, <1>8, <1>9 DEF InProgress
  <1>11. RunsReproducible'
    BY <1>1 DEF RunsReproducible, Frozen
  <1> QED BY <1>10, <1>11

(***************************************************************************)
(* A run that has processed all its inputs is where their replay ends.     *)
(***************************************************************************)
LEMMA FinishReplays ==
  ASSUME Bookkept, InProgress, RunsReproducible, FinishRun
  PROVE  InProgress' /\ RunsReproducible'
  <1>1. /\ pc = "for" /\ pc' = "while" /\ i = Len(run.inputs)
        /\ runLst' = Append(runLst, run) /\ heap' = heap
        /\ run \in RunType /\ runLst \in Seq(RunType)
    BY DEF Bookkept, FTypeOK, FinishRun
  <1>2. /\ DOMAIN runLst' = 1 .. (Len(runLst) + 1)
        /\ DOMAIN runLst = 1 .. Len(runLst) /\ Len(runLst) \in Nat
        /\ \A n \in DOMAIN runLst : runLst'[n] = runLst[n]
        /\ runLst'[Len(runLst) + 1] = run
    BY <1>1
  <1>3. InProgress'
    BY <1>1 DEF InProgress
  <1>4. /\ run.branches \in {null, branches}
        /\ run.exceptions = Replay(run.inputs).exc
        /\ heap[branches] = Replay(run.inputs).size
    BY <1>1 DEF Bookkept, CurrentSound, InProgress, Replay
  <1>5. RunsReproducible'
    <2> SUFFICES ASSUME NEW n \in DOMAIN runLst'
                 PROVE  /\ runLst'[n].exceptions = Replay(runLst'[n].inputs).exc
                        /\ runLst'[n].branches # null =>
                             heap'[runLst'[n].branches] = Replay(runLst'[n].inputs).size
      BY DEF RunsReproducible
    <2>1. CASE n \in DOMAIN runLst
      BY <1>1, <1>2, <2>1 DEF RunsReproducible
    <2>2. CASE n = Len(runLst) + 1
      BY <1>1, <1>2, <1>4, <2>2
    <2> QED BY <1>2, <2>1, <2>2
  <1> QED BY <1>3, <1>5

(***************************************************************************)
(* Every step keeps the run in progress and the collected runs in step     *)
(* with their replays.                                                     *)
(***************************************************************************)
LEMMA NextReplays ==
  FInv /\ RunsReproducible /\ [FNext]_fvars => FInv' /\ RunsReproducible'
  <1> SUFFICES ASSUME FInv, RunsReproducible, [FNext]_fvars PROVE FInv' /\ RunsReproducible'
    OBVIOUS
  <1>1. Bookkept /\ InProgress /\ Bookkept'
    BY NextKeeps DEF FInv
  <1>2. ASSUME NEW s \in Traces, StartRun(s) PROVE InProgress' /\ RunsReproducible'
    BY <1>1, <1>2, StartKeeps, StartReplays
  <1>3. CASE ProcessInput
    BY <1>1, <1>3, ProcessKeeps, ProcessReplays DEF FInv
  <1>4. CASE FinishRun
    BY <1>1, <1>4, FinishReplays DEF FInv
  <1>5. CASE UNCHANGED fvars
    BY <1>1, <1>5 DEF fvars, FInv, InProgress, RunsReproducible
  <1> QED BY <1>1, <1>2, <1>3, <1>4, <1>5 DEF FNext, FInv

LEMMA InitReplays == FInit => FInv /\ RunsReproducible
  BY InitFInv DEF FInit, FInv, InProgress, RunsReproducible

(***************************************************************************)
(* For every campaign: the types and the aliases; that a run lacks its set *)
(* exactly when main saw all its inputs refused, while no two collected    *)
(* runs share a set; and that the run in progress is where a program just  *)
(* started would be on the same inputs.                                    *)
(***************************************************************************)
THEOREM Bookkeeping == FSpec => []FInv
  BY InitReplays, NextReplays, PTL DEF FSpec

(***************************************************************************)
(* For every campaign: the exceptions and the branches main stored with a  *)
(* collected run are those its inputs give on a program just started.      *)
(***************************************************************************)
THEOREM RunsReproduced == FSpec => []RunsReproducible
  BY InitReplays, NextReplays, PTL DEF FSpec

(***************************************************************************)
(* For every campaign: once main has added a run to runLst, neither the    *)
(* run nor the set of branches it refers to changes.                       *)
(***************************************************************************)
THEOREM CollectedRunsFrozen == FSpec => RunsFrozen
  BY InitFInv, NextKeeps, PTL DEF FSpec, RunsFrozen

=============================================================================
