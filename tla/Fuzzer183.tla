------------------------------ MODULE Fuzzer183 ------------------------------
(***************************************************************************)
(* The fuzzing campaign of Assignment1/Code/T3Final: main's two loops, the *)
(* Run objects it collects, the static set of Branch objects they share,   *)
(* and Fuzzer.fuzz.                                                        *)
(*                                                                         *)
(* The machine under test is its transition table: Instrumented183 is why  *)
(* CalculateOutput takes one of these transitions or throws, and why reset *)
(* leads back to m4.  A HashSet<Branch> is represented by its size.        *)
(* Branch has no equals, so every Branch object counts.                    *)
(***************************************************************************)
EXTENDS Table183, Integers, Sequences

CONSTANTS
  MinLength, MaxLength,  \* lengths of a fuzzed array: 10 and 59 in the code
  Campaign               \* runs of a campaign: 1000 in the code

ASSUME LengthAssumption ==
  MinLength \in Nat /\ MaxLength \in Nat /\ 0 < MinLength /\ MinLength <= MaxLength
ASSUME CampaignAssumption == Campaign \in Nat

VARIABLES
  pc,        \* "while" at the head of the outer loop, "for" in the inner one
  count,     \* finished runs
  runLst,    \* the Run objects collected
  heap,      \* heap[k] is the size of the k-th HashSet<Branch> ever created
  branches,  \* the static variable: which of them is filled; 0 before the first
  run,       \* currentRun
  i,         \* inputs of it that were processed
  state      \* state of the machine under test

fvars == <<pc, count, runLst, heap, branches, run, i, state>>

null == 0

Traces == UNION {[1 .. n -> Inputs] : n \in MinLength .. MaxLength}   \* Fuzzer.fuzz
Run(s) == [inputs |-> s, exceptions |-> 0, branches |-> null]

FInit ==
  /\ pc = "while"
  /\ count = 0
  /\ runLst = <<>>
  /\ heap = <<>>
  /\ branches = null
  /\ run = Run(<<>>)
  /\ i = 0
  /\ state = "m4"

-----------------------------------------------------------------------------
(***************************************************************************)
(* Branch objects made for one input.  main makes one, CalculateOutput     *)
(* five that are always reached, one per letter or window tested in the    *)
(* range the machine is in, and the method it calls one per test of its    *)
(* own.  Only main's has nine conditions; no other has more than four.     *)
(***************************************************************************)
LetterTests(l) ==
  CASE l \in {"m1", "m8"}             -> 1
    [] l \in {"m2", "m3", "m4", "m5"} -> 4
    [] l \in {"m6", "m7"}             -> 2

InputTests(l) ==
  CASE l = "m4"                       -> 3
    [] l \in {"m2", "m6", "m7"}       -> 2
    [] l \in {"m1", "m3", "m5", "m8"} -> 1

Recorded(l) == 1 + 5 + LetterTests(l) + InputTests(l)

\* Mutants: reset is forgotten; the run goes on filling the previous run's set.
StartRun_noReset(s) ==
  /\ pc = "while"
  /\ count # Campaign
  /\ heap' = Append(heap, 0)
  /\ branches' = Len(heap) + 1
  /\ run' = Run(s)
  /\ i' = 0
  /\ pc' = "for"
  /\ UNCHANGED <<count, runLst, state>>

StartRun_sameSet(s) ==
  /\ pc = "while"
  /\ count # Campaign
  /\ heap' = IF heap = <<>> THEN <<0>> ELSE heap
  /\ branches' = 1
  /\ state' = "m4"
  /\ run' = Run(s)
  /\ i' = 0
  /\ pc' = "for"
  /\ UNCHANGED <<count, runLst>>

(***************************************************************************)
(* A new set of branches, eca.reset() and a freshly fuzzed array.          *)
(***************************************************************************)
StartRun(s) ==
  /\ pc = "while"
  /\ count # Campaign
  /\ heap' = Append(heap, 0)
  /\ branches' = Len(heap) + 1
  /\ state' = "m4"
  /\ run' = Run(s)
  /\ i' = 0
  /\ pc' = "for"
  /\ UNCHANGED <<count, runLst>>

\* Mutant: currentRun.branches = branches moved in front of the try.
ProcessInput_alwaysRecords ==
  /\ pc = "for"
  /\ i < Len(run.inputs)
  /\ heap' = [heap EXCEPT ![branches] = @ + Recorded(state)]
  /\ i' = i + 1
  /\ LET in == run.inputs[i + 1]
     IN \/ \E t \in Trans :
             /\ t.from = state /\ t.in = in
             /\ state' = t.to
             /\ run' = [run EXCEPT !.branches = branches]
        \/ /\ ~ Accepts(state, in)
           /\ run' = [run EXCEPT !.exceptions = @ + 1, !.branches = branches]
           /\ UNCHANGED state
  /\ UNCHANGED <<pc, count, runLst, branches>>

(***************************************************************************)
(* One turn of the inner loop.  The set grows whether or not the input is  *)
(* accepted; the run is handed the set only after an accepted input.       *)
(* main's own test asks for an input equal to all five names, so the only  *)
(* exception is the one CalculateOutput throws.                            *)
(***************************************************************************)
ProcessInput ==
  /\ pc = "for"
  /\ i < Len(run.inputs)
  /\ heap' = [heap EXCEPT ![branches] = @ + Recorded(state)]
  /\ i' = i + 1
  /\ LET in == run.inputs[i + 1]
     IN \/ \E t \in Trans :
             /\ t.from = state /\ t.in = in
             /\ state' = t.to
             /\ run' = [run EXCEPT !.branches = branches]
        \/ /\ ~ Accepts(state, in)
           /\ run' = [run EXCEPT !.exceptions = @ + 1]
           /\ UNCHANGED state
  /\ UNCHANGED <<pc, count, runLst, branches>>

FinishRun ==
  /\ pc = "for"
  /\ i = Len(run.inputs)
  /\ count' = count + 1
  /\ runLst' = Append(runLst, run)
  /\ pc' = "while"
  /\ UNCHANGED <<heap, branches, run, i, state>>

FNext == (\E s \in Traces : StartRun(s)) \/ ProcessInput \/ FinishRun

FSpec == FInit /\ [][FNext]_fvars

-----------------------------------------------------------------------------
RunType == [inputs : Traces \cup {<<>>}, exceptions : Nat, branches : Nat]

FTypeOK ==
  /\ pc \in {"while", "for"}
  /\ count = Len(runLst)
  /\ runLst \in Seq(RunType)
  /\ heap \in Seq(Nat)
  /\ branches = Len(heap)
  /\ run \in RunType
  /\ i \in Nat /\ i <= Len(run.inputs)
  /\ state \in Locs

(***************************************************************************)
(* What a run should have recorded, computed from its inputs alone.        *)
(***************************************************************************)
ReplayStep(st, in) ==
  IF Accepts(st.loc, in)
  THEN [loc  |-> (CHOOSE t \in Trans : t.from = st.loc /\ t.in = in).to,
        exc  |-> st.exc, size |-> st.size + Recorded(st.loc)]
  ELSE [loc  |-> st.loc,
        exc  |-> st.exc + 1, size |-> st.size + Recorded(st.loc)]

Replayed(s) ==  \* after each of the inputs
  LET st[n \in 0 .. Len(s)] ==
        IF n = 0 THEN [loc |-> "m4", exc |-> 0, size |-> 0]
                 ELSE ReplayStep(st[n - 1], s[n])
  IN  st

Replay(s) == Replayed(s)[Len(s)]

(***************************************************************************)
(* A run in the list can be reproduced from its inputs: the exceptions and *)
(* the branches stored with it are those of these inputs on a program just *)
(* started, so no earlier run of the campaign left a trace in them.        *)
(***************************************************************************)
RunsReproducible ==
  \A n \in DOMAIN runLst :
    LET r == runLst[n]
        e == Replay(r.inputs)
    IN  /\ r.exceptions = e.exc
        /\ r.branches # null => heap[r.branches] = e.size

(***************************************************************************)
(* currentRun.branches is an alias of the static set that main keeps       *)
(* filling; once the run is in the list neither the Run object nor the set *)
(* behind the alias ever changes again.                                    *)
(***************************************************************************)
Frozen ==
  \A n \in DOMAIN runLst :
    /\ n \in DOMAIN runLst' /\ runLst'[n] = runLst[n]
    /\ runLst[n].branches # null =>
         heap'[runLst[n].branches] = heap[runLst[n].branches]

RunsFrozen == [][Frozen]_fvars

(***************************************************************************)
(* A collected run lacks its set of branches exactly when every one of its *)
(* inputs was refused, and no two runs share a set.                        *)
(***************************************************************************)
SetsComplete ==
  \A n \in DOMAIN runLst :
    /\ runLst[n].branches = null <=> runLst[n].exceptions = Len(runLst[n].inputs)
    /\ \A k \in DOMAIN runLst :
         k # n /\ runLst[n].branches # null => runLst[k].branches # runLst[n].branches

(***************************************************************************)
(* The aliasing behind it.  The set of the run in progress is reachable    *)
(* from the static variable and, once an input was accepted, from          *)
(* currentRun; the sets of collected runs are older than the current one.  *)
(***************************************************************************)
CurrentSound ==
  pc = "for" =>
    /\ 0 < branches
    /\ run.branches \in {null, branches}
    /\ run.exceptions <= i
    /\ run.branches = null <=> run.exceptions = i

OlderSets ==
  \A n \in DOMAIN runLst :
    /\ runLst[n].branches <= Len(heap)
    /\ pc = "for" => runLst[n].branches < branches

(***************************************************************************)
(* The run in progress is where the replay of its inputs is after as many  *)
(* of them, in the machine, in the exceptions and in the set that is still *)
(* shared with the static variable.                                        *)
(***************************************************************************)
InProgress ==
  pc = "for" =>
    LET e == Replayed(run.inputs)[i]
    IN  /\ state = e.loc
        /\ run.exceptions = e.exc
        /\ heap[branches] = e.size

(***************************************************************************)
(* What main keeps of a campaign is right at every moment of it: for the   *)
(* collected runs, and for the run in progress whose set is still shared.  *)
(***************************************************************************)
Bookkept == FTypeOK /\ CurrentSound /\ OlderSets /\ SetsComplete

FInv == Bookkept /\ InProgress

=============================================================================
