--------------------------- MODULE Z3ThreadsProofs ---------------------------
(***************************************************************************)
(* The threads of Z3.                                                      *)
(*                                                                         *)
(* Cube and conquer, for any number of workers, leaves and calls: no leaf  *)
(* that has a model is lost, a worker is stopped only for a reason, the    *)
(* answer of a call that nobody interrupted is right, and the count of     *)
(* open branches does not wrap around.                                     *)
(*                                                                         *)
(* The ring buffer of learned clauses, for any number of solvers, any size *)
(* and any lengths: a head is always at a complete entry that its reader   *)
(* has not passed, and only old clauses are lost.                          *)
(*                                                                         *)
(* How a check is stopped, for any number of threads, checks and           *)
(* interrupts: the handler outlives its callers, a cancel reaches every    *)
(* thread, and a check is unknown only for a reason of its own.            *)
(***************************************************************************)
EXTENDS ParallelTactic, SatParallel, CheckPar, FiniteSetTheorems, SequenceTheorems,
        WellFoundedInduction, TLAPS

-----------------------------------------------------------------------------
(* The inductive invariant *)

InShutdown == {"sd_set", "sd_notify", "sd_cancel"}

AtWork == {"split", "simplify", "simplified", "cube", "tail", "throw", "finish"}

\* A worker whose exception counts: the shutdown is its own.
Raised(t) == pc[t] = "exn" \/ (pc[t] \in InShutdown /\ ret[t] = "exn")

\* A state that waits has not been cancelled, and one that is worked on is in
\* m_active: shutdown() finds it there.
QueueInv ==
  /\ \A i \in DOMAIN m_tasks : ~m_tasks[i].cancel
  /\ \A t \in Threads :
       pc[t] \in AtWork \/ (pc[t] \in InShutdown /\ ret[t] # "loop") => t \in m_active

\* Cubes are parts of the region they were cut from, and are gone when the cube
\* loop is left; the bound on the attempts to simplify leaves room for one more.
CubesInv ==
  \A t \in Threads :
    /\ pc[t] \in {"cube", "tail"} =>
         /\ loc[t].todo \subseteq held[t].region
         /\ \A i \in DOMAIN loc[t].cubes : loc[t].cubes[i] \subseteq held[t].region
    /\ pc[t] \notin {"cube", "tail", "throw"} => loc[t].cubes = <<>>
    /\ pc[t] = "simplify" => loc[t].num < MaxSimplify

\* No worker outlives a call; one that has left it knew of a shutdown.
CallInv ==
  /\ main = "ready" => ~mainCancel /\ \A t \in Threads : pc[t] = "exit"
  /\ main = "join" /\ ~m_shutdown /\ ~m_exn => \A t \in Threads : pc[t] # "exit"

\* While there is work, a shutdown and all that it leads to have their cause in
\* a model, an exception or the user.
ShutdownInv ==
  (/\ main = "join" /\ ~interrupted /\ ~m_models /\ ~m_exn
   /\ \A t \in Threads : ~Raised(t)
   /\ m_active # {} \/ m_tasks # <<>>)
  => /\ ~m_shutdown /\ ~mainCancel
     /\ \A t \in Threads : ~held[t].cancel /\ pc[t] \notin InShutdown

\* A model is one of this goal.
ModelInv == main = "join" /\ m_models => sat # {}

PInv ==
  /\ NothingLost /\ QueueInv /\ CubesInv /\ CallInv /\ ShutdownInv
  /\ ModelInv /\ AnswerRight

-----------------------------------------------------------------------------
(* Sequences *)

\* The last element of a sequence, which is taken, and the others.
LEMMA FrontLast ==
  ASSUME NEW S, NEW s \in Seq(S), s # <<>>
  PROVE  /\ Last(s) \in S /\ Front(s) \in Seq(S)
         /\ Len(s) \in DOMAIN s /\ Last(s) = s[Len(s)]
         /\ DOMAIN Front(s) = DOMAIN s \ {Len(s)}
         /\ \A i \in DOMAIN Front(s) : Front(s)[i] = s[i]
         /\ Len(s) > 1 => Front(s) # <<>>
BY DEF Last, Front

\* A new element goes to the end.
LEMMA Appended ==
  ASSUME NEW S, NEW s \in Seq(S), NEW e \in S
  PROVE  /\ Append(s, e) \in Seq(S) /\ Append(s, e) # <<>>
         /\ DOMAIN Append(s, e) = DOMAIN s \cup {Len(s) + 1}
         /\ \A i \in DOMAIN s : Append(s, e)[i] = s[i]
         /\ Append(s, e)[Len(s) + 1] = e
OBVIOUS

-----------------------------------------------------------------------------
(* Types *)

Locals == [todo : SUBSET Leaves, cubes : Seq(SUBSET Leaves), num : 0 .. MaxSimplify]

Rets == {"loop", "finish", "exn"}

WorkersOK ==
  /\ m_tasks \in Seq(States) /\ m_active \subseteq Threads
  /\ held \in [Threads -> States]
  /\ loc \in [Threads -> Locals]
  /\ pc \in [Threads -> Labels] /\ ret \in [Threads -> Rets]

BoolsOK ==
  /\ m_shutdown \in BOOLEAN /\ m_has_undef \in BOOLEAN /\ m_exn \in BOOLEAN
  /\ m_models \in BOOLEAN /\ mainCancel \in BOOLEAN /\ interrupted \in BOOLEAN

RestOK ==
  /\ m_branches \in Int
  /\ sat \subseteq Leaves /\ main \in {"ready", "join"}
  /\ answer \in {"none", "throw", "l_true", "l_false", "l_undef"}
  /\ calls \in 0 .. MaxCalls

LEMMA PTypeParts == PTypeOK <=> WorkersOK /\ BoolsOK /\ RestOK
BY Zenon DEF PTypeOK, WorkersOK, BoolsOK, RestOK, Locals, Rets

LEMMA TypePartsPrimed == PTypeOK' <=> WorkersOK' /\ BoolsOK' /\ RestOK'
BY Zenon DEF PTypeOK, WorkersOK, BoolsOK, RestOK, Locals, Rets, Leaves, States, Labels

LEMMA StateTypes ==
  /\ NoTask \in States /\ NoLocals \in Locals
  /\ \A st \in States, cs \in Seq(SUBSET Leaves) : Clone(st, cs) \in States
  /\ [NoTask EXCEPT !.main = TRUE, !.region = Leaves] \in States
  /\ \A st \in States : [NoTask EXCEPT !.main = st.main, !.cancel = st.cancel] \in States
<1>1. NoTask \in States
  BY DEF NoTask, States
<1>2. NoLocals \in Locals
  BY ParallelAssumption DEF NoLocals, Locals
<1>3. ASSUME NEW st \in States, NEW cs \in Seq(SUBSET Leaves)
      PROVE  Clone(st, cs) \in States
  BY DEF Clone, States
<1>4. [NoTask EXCEPT !.main = TRUE, !.region = Leaves] \in States
  BY <1>1 DEF States
<1>5. ASSUME NEW st \in States
      PROVE  [NoTask EXCEPT !.main = st.main, !.cancel = st.cancel] \in States
  BY <1>1 DEF States
<1> QED
  BY <1>1, <1>2, <1>3, <1>4, <1>5

-----------------------------------------------------------------------------
(* What a step of one worker leaves of the others *)

\* Of another worker only the cancel flag changes, and the sleep it is woken from.
Frame(t) ==
  \A u \in Threads \ {t} :
    /\ loc'[u] = loc[u] /\ ret'[u] = ret[u]
    /\ pc'[u] = pc[u] \/ (u \in Asleep /\ pc'[u] = "loop")
    /\ held'[u].region = held[u].region /\ held'[u].cubes = held[u].cubes
    /\ held'[u].main = held[u].main

PcMoves(t, l) ==
  /\ pc' \in [Threads -> Labels] /\ pc'[t] = l
  /\ \A u \in Threads \ {t} : pc'[u] = pc[u] \/ (u \in Asleep /\ pc'[u] = "loop")

LEMMA GotoMoves ==
  ASSUME WorkersOK, NEW t \in Threads, NEW l \in Labels
  PROVE  /\ Goto(t, l) => PcMoves(t, l)
         /\ NotifyAllGoto(t, l) => PcMoves(t, l)
BY DEF WorkersOK, Goto, NotifyAllGoto, PcMoves, Asleep, Labels

LEMMA AddTaskMoves ==
  ASSUME WorkersOK, NEW t \in Threads, NEW st \in States, NEW l \in Labels,
         t \notin Asleep, AddTask(t, st, l)
  PROVE  PcMoves(t, l) /\ m_tasks' \in Seq(States) /\ m_tasks' = Append(m_tasks, st)
BY DEF WorkersOK, Goto, PcMoves, AddTask, Asleep, Labels

LEMMA CallShutdownMoves ==
  ASSUME WorkersOK, NEW t \in Threads, NEW l \in Rets, l \in Labels, CallShutdown(t, l)
  PROVE  /\ ret' \in [Threads -> Rets]
         /\ \A u \in Threads \ {t} : ret'[u] = ret[u]
         /\ m_shutdown => PcMoves(t, l) /\ ret'[t] = ret[t]
         /\ ~m_shutdown => PcMoves(t, "sd_set") /\ ret'[t] = l
BY DEF WorkersOK, Goto, PcMoves, CallShutdown, Asleep, Labels

LEMMA LeaveTypes ==
  ASSUME WorkersOK, NEW t \in Threads, Leave(t)
  PROVE  /\ loc' \in [Threads -> Locals] /\ held' \in [Threads -> States]
         /\ loc'[t] = NoLocals /\ held'[t].main = held[t].main
         /\ held'[t].cancel = held[t].cancel
         /\ \A u \in Threads \ {t} : loc'[u] = loc[u] /\ held'[u] = held[u]
<1>1. [NoTask EXCEPT !.main = held[t].main, !.cancel = held[t].cancel] \in States
  BY StateTypes DEF WorkersOK
<1>2. held' \in [Threads -> States] /\ \A u \in Threads \ {t} : held'[u] = held[u]
  BY <1>1 DEF Leave, WorkersOK
<1>3. held'[t] = [NoTask EXCEPT !.main = held[t].main, !.cancel = held[t].cancel]
  BY DEF Leave, WorkersOK
<1>4. held'[t].main = held[t].main /\ held'[t].cancel = held[t].cancel
  BY <1>3 DEF NoTask
<1> QED
  BY <1>2, <1>4, StateTypes DEF Leave, WorkersOK

\* The verdicts, and the end of cube_and_conquer with each of them.
LEMMA ReportSteps ==
  ASSUME WorkersOK, NEW t \in Threads,
         ReportSat(t) \/ ReportUnsat(t) \/ ReportUndef(t) \/ GiveUpCanceled(t),
         UNCHANGED m_tasks, UNCHANGED m_active
  PROVE  WorkersOK' /\ Frame(t)
<1> DEFINE Ends == /\ pc' \in [Threads -> Labels] /\ ret' \in [Threads -> Rets]
                   /\ \A u \in Threads \ {t} :
                        /\ ret'[u] = ret[u]
                        /\ pc'[u] = pc[u] \/ (u \in Asleep /\ pc'[u] = "loop")
<1>1. "finish" \in Labels /\ "finish" \in Rets
  BY DEF Labels, Rets
<1>2. Leave(t)
  BY DEF ReportSat, ReportUnsat, ReportUndef, GiveUpCanceled
<1>3. CASE CallShutdown(t, "finish")
  <2>1. Ends
    BY <1>1, <1>3, CallShutdownMoves DEF PcMoves
  <2> QED
    BY <1>2, <2>1, LeaveTypes DEF WorkersOK, Frame
<1>4. CASE Goto(t, "finish") /\ UNCHANGED ret
  <2>1. Ends
    BY <1>1, <1>4, GotoMoves DEF PcMoves, WorkersOK
  <2> QED
    BY <1>2, <2>1, LeaveTypes DEF WorkersOK, Frame
<1> QED
  BY <1>3, <1>4 DEF ReportSat, ReportUnsat, ReportUndef, GiveUpCanceled

LEMMA QueueSteps ==
  ASSUME WorkersOK, NEW t \in Threads,
         \/ LoopTest(t) \/ TryGetTask(t) \/ Wait(t) \/ SpuriousWakeup(t)
         \/ TaskDone(t) \/ Shutdown(t)
  PROVE  WorkersOK' /\ Frame(t)
<1> USE DEF WorkersOK, Frame, queue, verdict, client
<1>1. CASE LoopTest(t)
  BY <1>1 DEF LoopTest, Goto, Labels
<1>2. CASE TryGetTask(t)
  <2>1. CASE m_tasks = <<>>
    BY <1>2, <2>1 DEF TryGetTask, Goto, Labels
  <2>2. CASE m_tasks # <<>>
    <3>1. Last(m_tasks) \in States /\ Front(m_tasks) \in Seq(States)
      BY <2>2, FrontLast
    <3> QED
      BY <1>2, <2>2, <3>1 DEF TryGetTask, Goto, Labels
  <2> QED
    BY <2>1, <2>2
<1>3. CASE Wait(t)
  BY <1>3 DEF Wait, Goto, Labels
<1>4. CASE SpuriousWakeup(t)
  BY <1>4 DEF SpuriousWakeup, Goto, Labels
<1>5. CASE TaskDone(t)
  <2>1. "after" \in Labels
    BY DEF Labels
  <2>2. PcMoves(t, "after")
    BY <1>5, <2>1, GotoMoves DEF TaskDone
  <2> QED
    BY <1>5, <2>2 DEF TaskDone, PcMoves
<1>6. CASE Shutdown(t)
  <2>1. CASE pc[t] = "sd_set"
    BY <1>6, <2>1 DEF Shutdown, Goto, Labels
  <2>2. CASE pc[t] = "sd_notify"
    <3>1. PcMoves(t, "sd_cancel")
      BY <1>6, <2>2, GotoMoves DEF Shutdown, Labels
    <3> QED
      BY <1>6, <2>2, <3>1 DEF Shutdown, PcMoves
  <2>3. CASE pc[t] = "sd_cancel"
    <3>1. /\ held' = [u \in Threads |-> [held[u] EXCEPT !.cancel = @ \/ u \in m_active]]
          /\ Goto(t, ret[t]) /\ ret' = [ret EXCEPT ![t] = "loop"]
          /\ UNCHANGED <<m_tasks, m_active, loc>>
      BY <1>6, <2>3 DEF Shutdown
    <3>2. ASSUME NEW u \in Threads
          PROVE  /\ held'[u] \in States /\ held'[u].region = held[u].region
                 /\ held'[u].cubes = held[u].cubes /\ held'[u].main = held[u].main
      BY <3>1 DEF States
    <3>3. held' \in [Threads -> States]
      BY <3>1, <3>2
    <3> QED
      BY <3>1, <3>2, <3>3 DEF Goto, Labels, Rets
  <2> QED
    BY <1>6, <2>1, <2>2, <2>3 DEF Shutdown
<1> QED
  BY <1>1, <1>2, <1>3, <1>4, <1>5, <1>6

LEMMA SplitStep ==
  ASSUME WorkersOK, NEW t \in Threads, Split(t)
  PROVE  /\ WorkersOK' /\ Frame(t)
         /\ held'[t].region = IF held[t].cubes = <<>> THEN held[t].region
                              ELSE held[t].region \cap Last(held[t].cubes)
         /\ held'[t].cancel = held[t].cancel
         /\ pc'[t] = "simplify" /\ loc'[t].num = 0 /\ loc'[t].cubes = loc[t].cubes
         /\ Len(held[t].cubes) > 1 =>
              /\ m_tasks' = Append(m_tasks, Clone(held[t], Front(held[t].cubes)))
              /\ Clone(held[t], Front(held[t].cubes)) \in States
         /\ Len(held[t].cubes) <= 1 => m_tasks' = m_tasks
<1> DEFINE st == held[t]
           mine == IF st.cubes = <<>> THEN st.region ELSE st.region \cap Last(st.cubes)
<1> USE DEF WorkersOK
<1>1. st \in States /\ st.cubes \in Seq(SUBSET Leaves) /\ mine \in SUBSET Leaves
  BY DEF States
<1>2. /\ held' = [held EXCEPT ![t].region = mine, ![t].cubes = <<>>,
                              ![t].asserted = @ \/ st.cubes # <<>>]
      /\ loc' = [loc EXCEPT ![t].num = 0]
      /\ pc[t] = "split" /\ UNCHANGED <<m_active, ret>>
  BY DEF Split
<1>3. held' \in [Threads -> States]
  <2> HIDE DEF mine
  <2>1. (st.asserted \/ st.cubes # <<>>) \in BOOLEAN /\ <<>> \in Seq(SUBSET Leaves)
    OBVIOUS
  <2>2. [st EXCEPT !.region = mine, !.cubes = <<>>,
                   !.asserted = @ \/ st.cubes # <<>>] \in States
    BY <1>1, <2>1 DEF States
  <2>3. held' = [held EXCEPT ![t] = [st EXCEPT !.region = mine, !.cubes = <<>>,
                                               !.asserted = @ \/ st.cubes # <<>>]]
    BY <1>2
  <2> QED
    BY <2>2, <2>3
<1>4. /\ held'[t].region = mine /\ held'[t].cancel = held[t].cancel
      /\ \A u \in Threads \ {t} : held'[u] = held[u]
  BY <1>1, <1>2 DEF States
<1>5. /\ loc' \in [Threads -> Locals]
      /\ loc'[t].num = 0 /\ loc'[t].cubes = loc[t].cubes
      /\ \A u \in Threads \ {t} : loc'[u] = loc[u]
  <2>1. 0 \in 0 .. MaxSimplify
    BY ParallelAssumption
  <2> QED
    BY <1>2, <2>1 DEF Locals
<1>6. Len(st.cubes) > 1 => Clone(st, Front(st.cubes)) \in States
  <2> HAVE Len(st.cubes) > 1
  <2>1. st.cubes # <<>>
    BY <1>1
  <2> QED
    BY <1>1, <2>1, FrontLast, StateTypes
<1>7. t \notin Asleep /\ "simplify" \in Labels
  BY <1>2 DEF Asleep, Labels
<1>8. CASE Len(st.cubes) > 1
  <2>1. AddTask(t, Clone(st, Front(st.cubes)), "simplify")
    BY <1>8 DEF Split
  <2>2. PcMoves(t, "simplify") /\ m_tasks' \in Seq(States)
        /\ m_tasks' = Append(m_tasks, Clone(st, Front(st.cubes)))
    BY <1>6, <1>7, <1>8, <2>1, AddTaskMoves
  <2> QED
    BY <1>1, <1>2, <1>3, <1>4, <1>5, <1>6, <1>8, <2>2 DEF PcMoves, Frame
<1>9. CASE ~(Len(st.cubes) > 1)
  <2>1. m_tasks' = m_tasks /\ Goto(t, "simplify")
    BY <1>9 DEF Split
  <2>2. PcMoves(t, "simplify")
    BY <1>7, <2>1, GotoMoves
  <2> QED
    BY <1>1, <1>2, <1>3, <1>4, <1>5, <1>9, <2>1, <2>2 DEF PcMoves, Frame
<1> QED
  BY <1>8, <1>9

LEMMA SimplifySteps ==
  ASSUME WorkersOK, NEW t \in Threads, Simplify(t) \/ Simplified(t),
         pc[t] = "simplify" => loc[t].num < MaxSimplify
  PROVE  WorkersOK' /\ Frame(t)
<1>1. CASE ReportSat(t) \/ ReportUnsat(t) \/ ReportUndef(t) \/ GiveUpCanceled(t)
  BY <1>1, ReportSteps DEF Simplify, Simplified, queue
<1>2. CASE /\ pc[t] = "simplify"
           /\ loc' = [loc EXCEPT ![t].num = @ + 1]
           /\ \E l \in {"simplified", "throw"} : Goto(t, l)
           /\ UNCHANGED <<held, ret>> /\ UNCHANGED <<m_tasks, m_active>>
  <2>1. loc[t].num + 1 \in 0 .. MaxSimplify
    BY <1>2, ParallelAssumption DEF WorkersOK, Locals
  <2>2. loc' \in [Threads -> Locals] /\ \A u \in Threads \ {t} : loc'[u] = loc[u]
    BY <1>2, <2>1 DEF WorkersOK, Locals
  <2> QED
    BY <1>2, <2>2 DEF WorkersOK, Frame, Goto, Labels
<1>3. CASE Goto(t, "simplify") /\ UNCHANGED <<held, loc, ret>> /\ UNCHANGED <<m_tasks, m_active>>
  BY <1>3 DEF WorkersOK, Frame, Goto, Labels
<1>4. CASE /\ loc' = [loc EXCEPT ![t].todo = held[t].region]
           /\ Goto(t, "cube")
           /\ UNCHANGED <<held, ret>> /\ UNCHANGED <<m_tasks, m_active>>
  BY <1>4 DEF WorkersOK, Frame, Goto, Labels, Locals, States
<1> QED
  BY <1>1, <1>2, <1>3, <1>4 DEF Simplify, Simplified, queue

LEMMA KeepCubeStep ==
  ASSUME WorkersOK, NEW t \in Threads, NEW c \in SUBSET Leaves,
         pc[t] = "cube", KeepCube(t, c), UNCHANGED m_active
  PROVE  LET cs == Append(loc[t].cubes, c)
         IN  /\ WorkersOK' /\ Frame(t) /\ held' = held
             /\ pc'[t] = "cube" /\ loc'[t].todo = Behind(c, loc[t].todo)
             /\ cs \in Seq(SUBSET Leaves)
             /\ \/ loc'[t].cubes = cs /\ m_tasks' = m_tasks
                \/ /\ loc'[t].cubes = <<>>
                   /\ m_tasks' = Append(m_tasks, Clone(held[t], cs))
                   /\ Clone(held[t], cs) \in States
<1> DEFINE cs == Append(loc[t].cubes, c)
<1> USE DEF WorkersOK
<1>1. cs \in Seq(SUBSET Leaves) /\ Behind(c, loc[t].todo) \in SUBSET Leaves
  BY DEF Locals, Behind
<1>2. held' = held /\ ret' = ret
  BY DEF KeepCube
<1>3. CASE Len(cs) < BatchSize
  <2>1. /\ loc' = [loc EXCEPT ![t].todo = Behind(c, @), ![t].cubes = cs]
        /\ UNCHANGED <<m_tasks, pc>>
    BY <1>3 DEF KeepCube
  <2> HIDE DEF cs
  <2>2. /\ loc' \in [Threads -> Locals] /\ loc'[t].cubes = cs
        /\ loc'[t].todo = Behind(c, loc[t].todo)
        /\ \A u \in Threads \ {t} : loc'[u] = loc[u]
    BY <1>1, <2>1 DEF Locals
  <2> QED
    BY <1>1, <1>2, <2>1, <2>2 DEF cs, Frame
<1>4. CASE ~(Len(cs) < BatchSize)
  <2>1. /\ loc' = [loc EXCEPT ![t].todo = Behind(c, @), ![t].cubes = <<>>]
        /\ AddTask(t, Clone(held[t], cs), "cube")
    BY <1>4 DEF KeepCube
  <2>2. Clone(held[t], cs) \in States /\ t \notin Asleep /\ "cube" \in Labels
    BY <1>1, StateTypes DEF Asleep, Labels
  <2>3. /\ PcMoves(t, "cube") /\ m_tasks' \in Seq(States)
        /\ m_tasks' = Append(m_tasks, Clone(held[t], cs))
    BY <2>1, <2>2, AddTaskMoves
  <2>4. /\ loc' \in [Threads -> Locals] /\ loc'[t].cubes = <<>>
        /\ loc'[t].todo = Behind(c, loc[t].todo)
        /\ \A u \in Threads \ {t} : loc'[u] = loc[u]
    <3>1. <<>> \in Seq(SUBSET Leaves)
      OBVIOUS
    <3> QED
      BY <1>1, <2>1, <3>1 DEF Locals
  <2> QED
    BY <1>1, <1>2, <2>2, <2>3, <2>4 DEF Frame, PcMoves
<1> QED
  BY <1>3, <1>4

\* A cube that the lookahead returns is a part of the leaves ahead.
LEMMA CubeTypes ==
  ASSUME WorkersOK, NEW t \in Threads, NEW c \in NextCubes(t)
  PROVE  c \in SUBSET Leaves /\ c \subseteq loc[t].todo
BY DEF WorkersOK, NextCubes, Locals

LEMMA CubeSteps ==
  ASSUME WorkersOK, NEW t \in Threads, CubeLoop(t)
  PROVE  WorkersOK' /\ Frame(t)
<1> USE DEF verdict
<1>1. pc[t] = "cube" /\ UNCHANGED m_active
  BY DEF CubeLoop
<1>2. CASE (ReportSat(t) \/ ReportUndef(t)) /\ UNCHANGED m_tasks
  BY <1>1, <1>2, ReportSteps
<1>3. CASE \/ Goto(t, "tail") /\ UNCHANGED <<m_tasks, held, loc, ret>>
           \/ Goto(t, "throw") /\ UNCHANGED <<m_tasks, held, loc, ret>>
  BY <1>1, <1>3 DEF WorkersOK, Frame, Goto, Labels
<1>4. CASE /\ Goto(t, "simplify")
           /\ loc' = [loc EXCEPT ![t].todo = {}, ![t].cubes = <<>>]
           /\ UNCHANGED <<m_tasks, held, ret>>
  <2>1. <<>> \in Seq(SUBSET Leaves) /\ {} \in SUBSET Leaves
    OBVIOUS
  <2>2. loc' \in [Threads -> Locals] /\ \A u \in Threads \ {t} : loc'[u] = loc[u]
    BY <1>4, <2>1 DEF WorkersOK, Locals
  <2> QED
    BY <1>1, <1>4, <2>2 DEF WorkersOK, Frame, Goto, Labels
<1>5. CASE ConquerUnsat(t)
  <2>1. PICK d : loc' = [loc EXCEPT ![t].todo = @ \ d]
    BY <1>5 DEF ConquerUnsat
  <2>2. UNCHANGED <<m_tasks, held, pc, ret>>
    BY <1>5 DEF ConquerUnsat
  <2> QED
    BY <1>1, <2>1, <2>2 DEF WorkersOK, Frame, Locals
<1>6. CASE \E c \in NextCubes(t) : KeepCube(t, c)
  <2>1. PICK c \in NextCubes(t) : KeepCube(t, c)
    BY <1>6
  <2> QED
    BY <1>1, <2>1, CubeTypes, KeepCubeStep
<1> QED
  BY <1>2, <1>3, <1>4, <1>5, <1>6 DEF CubeLoop, NoCube, LastCube, ConquerSat

LEMMA EndSteps ==
  ASSUME WorkersOK, NEW t \in Threads, AfterCubes(t) \/ AfterTask(t) \/ Catch(t)
  PROVE  WorkersOK' /\ Frame(t)
<1> USE DEF queue, verdict
<1>0. "loop" \in Labels /\ "loop" \in Rets /\ "exn" \in Labels /\ "exn" \in Rets
      /\ "exit" \in Labels /\ "finish" \in Labels /\ "split" \in Labels
      /\ "sd_set" \in Labels
  BY DEF Labels, Rets
<1>1. CASE AfterCubes(t)
  <2>1. UNCHANGED <<m_tasks, m_active, ret>>
    BY <1>1 DEF AfterCubes
  <2>2. CASE loc[t].cubes = <<>>
    <3>1. Goto(t, "finish") /\ Leave(t)
      BY <1>1, <2>2 DEF AfterCubes
    <3>2. PcMoves(t, "finish")
      BY <1>0, <3>1, GotoMoves
    <3> QED
      BY <2>1, <3>1, <3>2, LeaveTypes DEF WorkersOK, Frame, PcMoves
  <2>3. CASE loc[t].cubes # <<>>
    <3>1. /\ held' = [held EXCEPT ![t].cubes = loc[t].cubes]
          /\ loc' = [loc EXCEPT ![t] = NoLocals]
          /\ Goto(t, "split")
      BY <1>1, <2>3 DEF AfterCubes
    <3>2. /\ held' \in [Threads -> States]
          /\ \A u \in Threads \ {t} : held'[u] = held[u]
      BY <3>1 DEF WorkersOK, States, Locals
    <3> QED
      BY <1>0, <2>1, <3>1, <3>2, StateTypes DEF WorkersOK, Frame, Goto
  <2> QED
    BY <2>2, <2>3
<1>2. CASE AfterTask(t)
  <2>1. UNCHANGED <<m_tasks, m_active, loc>> /\ held' = [held EXCEPT ![t] = NoTask]
    BY <1>2 DEF AfterTask
  <2>2. CallShutdown(t, "loop") \/ (Goto(t, "loop") /\ UNCHANGED ret)
    BY <1>2 DEF AfterTask
  <2>3. /\ ret' \in [Threads -> Rets] /\ pc' \in [Threads -> Labels]
        /\ \A u \in Threads \ {t} : ret'[u] = ret[u] /\ pc'[u] = pc[u]
    BY <1>0, <2>2 DEF CallShutdown, WorkersOK, Goto
  <2> QED
    BY <2>1, <2>3, StateTypes DEF WorkersOK, Frame
<1>3. CASE Catch(t)
  <2>1. CASE pc[t] = "throw"
    <3>1. UNCHANGED <<m_tasks, m_active>> /\ Leave(t)
      BY <1>3, <2>1 DEF Catch
    <3>2. (Goto(t, "exit") /\ UNCHANGED ret) \/ CallShutdown(t, "exn")
      BY <1>3, <2>1 DEF Catch
    <3>3. /\ ret' \in [Threads -> Rets] /\ pc' \in [Threads -> Labels]
          /\ \A u \in Threads \ {t} : ret'[u] = ret[u] /\ pc'[u] = pc[u]
      BY <1>0, <3>2 DEF CallShutdown, WorkersOK, Goto
    <3> QED
      BY <3>1, <3>3, LeaveTypes DEF WorkersOK, Frame
  <2>2. CASE pc[t] = "exn"
    BY <1>0, <1>3, <2>2 DEF Catch, WorkersOK, Frame, Goto
  <2> QED
    BY <1>3, <2>1, <2>2 DEF Catch
<1> QED
  BY <1>1, <1>2, <1>3

\* Every step of a worker keeps the types and leaves the others alone.
LEMMA WorkerStep ==
  ASSUME WorkersOK, NEW t \in Threads, Step(t) \/ SpuriousWakeup(t),
         pc[t] = "simplify" => loc[t].num < MaxSimplify
  PROVE  WorkersOK' /\ Frame(t)
BY QueueSteps, SplitStep, SimplifySteps, CubeSteps, EndSteps DEF Step

-----------------------------------------------------------------------------
(* Flags and counters *)

\* A worker only ever raises a flag, and never touches what belongs to the caller.
LEMMA WorkerFlags ==
  ASSUME BoolsOK, NEW t \in Threads, Step(t) \/ SpuriousWakeup(t)
  PROVE  /\ BoolsOK' /\ UNCHANGED client
         /\ m_shutdown => m_shutdown'
         /\ m_has_undef => m_has_undef'
         /\ m_models => m_models'
         /\ m_exn => m_exn'
<1> USE DEF BoolsOK, queue, verdict, client
<1>1. CASE LoopTest(t)
  BY <1>1 DEF LoopTest
<1>2. CASE TryGetTask(t)
  BY <1>2 DEF TryGetTask
<1>3. CASE Wait(t) \/ SpuriousWakeup(t)
  BY <1>3 DEF Wait, SpuriousWakeup
<1>4. CASE TaskDone(t)
  BY <1>4 DEF TaskDone
<1>5. CASE Shutdown(t)
  BY <1>5 DEF Shutdown
<1>6. CASE Split(t)
  BY <1>6 DEF Split
<1>7. CASE Simplify(t)
  BY <1>7 DEF Simplify, GiveUpCanceled, ReportSat, ReportUnsat
<1>8. CASE Simplified(t)
  BY <1>8 DEF Simplified, GiveUpCanceled, ReportUndef
<1>9. CASE CubeLoop(t)
  BY <1>9 DEF CubeLoop, NoCube, LastCube, ConquerSat, ConquerUnsat, KeepCube,
              ReportSat, ReportUndef
<1>10. CASE AfterCubes(t)
  BY <1>10 DEF AfterCubes
<1>11. CASE AfterTask(t)
  BY <1>11 DEF AfterTask
<1>12. CASE Catch(t)
  BY <1>12 DEF Catch
<1> QED
  BY <1>1, <1>2, <1>3, <1>4, <1>5, <1>6, <1>7, <1>8, <1>9, <1>10, <1>11, <1>12 DEF Step

LEMMA WorkerBranches ==
  ASSUME WorkersOK, RestOK, NEW t \in Threads, Step(t) \/ SpuriousWakeup(t)
  PROVE  m_branches' \in Int
<1> USE DEF RestOK, queue, verdict
<1>1. CASE LoopTest(t) \/ TryGetTask(t) \/ Wait(t) \/ SpuriousWakeup(t)
  BY <1>1 DEF LoopTest, TryGetTask, Wait, SpuriousWakeup
<1>2. CASE TaskDone(t) \/ Shutdown(t) \/ Split(t) \/ AfterTask(t) \/ Catch(t)
  BY <1>2 DEF TaskDone, Shutdown, Split, AfterTask, Catch
<1>3. CASE Simplify(t) \/ Simplified(t)
  BY <1>3 DEF Simplify, Simplified, GiveUpCanceled, ReportSat, ReportUnsat, ReportUndef
<1>4. CASE CubeLoop(t)
  <2>1. CASE \E c \in NextCubes(t) : KeepCube(t, c)
    <3>1. PICK c \in NextCubes(t) : KeepCube(t, c)
      BY <2>1
    <3>2. Len(Append(loc[t].cubes, c)) \in Nat
      BY CubeTypes DEF WorkersOK, Locals
    <3> QED
      BY <3>1, <3>2 DEF KeepCube
  <2> QED
    BY <1>4, <2>1 DEF CubeLoop, NoCube, LastCube, ConquerSat, ConquerUnsat,
                      ReportSat, ReportUndef
<1>5. CASE AfterCubes(t)
  <2>1. Len(loc[t].cubes) \in Nat
    BY DEF WorkersOK, Locals
  <2> QED
    BY <1>5, <2>1 DEF AfterCubes
<1> QED
  BY <1>1, <1>2, <1>3, <1>4, <1>5 DEF Step

\* The steps of the caller keep the types.
LEMMA CallerTypes ==
  ASSUME PTypeOK, Call \/ Interrupt \/ Join
  PROVE  PTypeOK'
<1> USE DEF queue, verdict, client
<1>1. WorkersOK /\ BoolsOK /\ RestOK
  BY PTypeParts
<1>2. CASE Call
  <2>1. /\ m_shutdown' = FALSE /\ m_active' = {} /\ m_models' = FALSE
        /\ sat' \in SUBSET Leaves
        /\ m_tasks' = <<[NoTask EXCEPT !.main = TRUE, !.region = Leaves]>>
        /\ m_branches' = m_branches + 1
        /\ held' = [t \in Threads |-> NoTask] /\ loc' = [t \in Threads |-> NoLocals]
        /\ pc' = [t \in Threads |-> "loop"] /\ main' = "join"
        /\ calls < MaxCalls /\ calls' = calls + 1
        /\ answer' = "none" /\ interrupted' = FALSE
        /\ UNCHANGED <<ret, m_has_undef, m_exn, mainCancel>>
    BY <1>2 DEF Call, Cleanup
  <2>2. WorkersOK'
    <3>1. m_tasks' \in Seq(States)
      <4>1. \A st \in States : <<st>> \in Seq(States)
        OBVIOUS
      <4> QED
        BY <2>1, <4>1, StateTypes
    <3> QED
      BY <1>1, <2>1, <3>1, StateTypes DEF WorkersOK, Labels
  <2>3. BoolsOK'
    BY <1>1, <2>1 DEF BoolsOK
  <2>4. RestOK'
    BY <1>1, <2>1, ParallelAssumption DEF RestOK
  <2> QED
    BY <2>2, <2>3, <2>4, TypePartsPrimed
<1>3. CASE Interrupt
  <2>1. WorkersOK' /\ RestOK'
    BY <1>1, <1>3 DEF Interrupt, WorkersOK, RestOK
  <2>2. BoolsOK'
    BY <1>1, <1>3 DEF Interrupt, BoolsOK
  <2> QED
    BY <2>1, <2>2, TypePartsPrimed
<1>4. CASE Join
  <2>1. WorkersOK' /\ RestOK'
    BY <1>1, <1>4 DEF Join, WorkersOK, RestOK, Answer
  <2>2. BoolsOK'
    BY <1>1, <1>4 DEF Join, BoolsOK
  <2> QED
    BY <2>1, <2>2, TypePartsPrimed
<1> QED
  BY <1>2, <1>3, <1>4

-----------------------------------------------------------------------------
(* What each invariant says after a step of a worker *)

LEMMA NoneCancelled ==
  ASSUME NEW s \in Seq(States), \A i \in DOMAIN s : ~s[i].cancel
  PROVE  /\ \A st \in States : ~st.cancel =>
              \A i \in DOMAIN Append(s, st) : ~Append(s, st)[i].cancel
         /\ s # <<>> => \A i \in DOMAIN Front(s) : ~Front(s)[i].cancel
<1>1. ASSUME NEW st \in States, ~st.cancel, NEW i \in DOMAIN Append(s, st)
      PROVE  ~Append(s, st)[i].cancel
  <2>1. CASE i \in DOMAIN s
    <3>1. Append(s, st)[i] = s[i]
      BY <2>1, Appended
    <3> QED
      BY <2>1, <3>1
  <2>2. CASE i = Len(s) + 1
    <3>1. Append(s, st)[i] = st
      BY <2>2, Appended
    <3> QED
      BY <1>1, <3>1
  <2> QED
    BY <2>1, <2>2, Appended
<1>2. ASSUME s # <<>>, NEW i \in DOMAIN Front(s)
      PROVE  ~Front(s)[i].cancel
  <2>1. Front(s)[i] = s[i] /\ i \in DOMAIN s
    BY <1>2, FrontLast
  <2> QED
    BY <2>1
<1> QED
  BY <1>1, <1>2

LEMMA QueueKept ==
  ASSUME WorkersOK, WorkersOK', QueueInv, NEW t \in Threads, Frame(t),
         Step(t) \/ SpuriousWakeup(t)
  PROVE  QueueInv'
<1> DEFINE Busy(u) == pc[u] \in AtWork \/ (pc[u] \in InShutdown /\ ret[u] # "loop")
           TasksOK == \A i \in DOMAIN m_tasks : ~m_tasks[i].cancel
<1> USE DEF WorkersOK, queue
<1>1. SUFFICES /\ \A u \in Threads \ {t} : u \in m_active => u \in m_active'
               /\ Busy(t)' => t \in m_active'
               /\ TasksOK'
  <2>1. \A u \in Threads \ {t} : Busy(u)' => Busy(u)
    BY DEF Frame, AtWork, InShutdown
  <2> QED
    BY <2>1 DEF QueueInv
<1>2. TasksOK /\ (Busy(t) => t \in m_active)
  BY DEF QueueInv
<1>3. CASE LoopTest(t) \/ Wait(t) \/ SpuriousWakeup(t)
  BY <1>2, <1>3 DEF LoopTest, Wait, SpuriousWakeup, Goto, AtWork, InShutdown
<1>4. CASE TryGetTask(t)
  <2>1. CASE m_tasks = <<>>
    BY <1>2, <1>4, <2>1 DEF TryGetTask, Goto, AtWork, InShutdown
  <2>2. CASE m_tasks # <<>>
    <3>1. m_tasks' = Front(m_tasks) /\ m_active' = m_active \cup {t}
      BY <1>4, <2>2 DEF TryGetTask
    <3>2. TasksOK'
      BY <1>2, <2>2, <3>1, NoneCancelled
    <3> QED
      BY <3>1, <3>2
  <2> QED
    BY <2>1, <2>2
<1>5. CASE TaskDone(t)
  <2>1. pc'[t] = "after"
    BY <1>5, GotoMoves DEF TaskDone, PcMoves, Labels
  <2> QED
    BY <1>2, <1>5, <2>1 DEF TaskDone, AtWork, InShutdown
<1>6. CASE Shutdown(t)
  <2>1. pc[t] = "sd_notify" => pc'[t] = "sd_cancel"
    BY <1>6, GotoMoves DEF Shutdown, PcMoves, Labels
  <2>2. UNCHANGED <<m_tasks, m_active>>
    BY <1>6 DEF Shutdown
  <2>3. Busy(t)' => Busy(t)
    BY <1>6, <2>1 DEF Shutdown, AtWork, InShutdown, Goto
  <2> QED
    BY <1>2, <2>2, <2>3
<1>7. CASE Split(t)
  <2>1. t \in m_active /\ m_active' = m_active
    BY <1>2, <1>7 DEF Split, AtWork
  <2>2. ~Clone(held[t], Front(held[t].cubes)).cancel
    BY DEF Clone, States
  <2>3. TasksOK'
    <3>1. CASE Len(held[t].cubes) > 1
      <4> DEFINE st == Clone(held[t], Front(held[t].cubes))
      <4>1. m_tasks' = Append(m_tasks, st) /\ st \in States
        BY <1>7, <3>1, SplitStep
      <4> HIDE DEF st
      <4>2. ~st.cancel
        BY <2>2 DEF st
      <4> QED
        BY <1>2, <4>1, <4>2, NoneCancelled
    <3>2. CASE Len(held[t].cubes) <= 1
      BY <1>2, <1>7, <3>2, SplitStep
    <3> QED
      BY <3>1, <3>2 DEF States
  <2> QED
    BY <2>1, <2>3
<1>8. CASE Simplify(t) \/ Simplified(t) \/ AfterCubes(t) \/ Catch(t)
  <2>1. UNCHANGED <<m_tasks, m_active>>
    BY <1>8 DEF Simplify, Simplified, AfterCubes, Catch
  <2>2. pc[t] # "exn" => t \in m_active
    BY <1>2, <1>8 DEF Simplify, Simplified, AfterCubes, Catch, AtWork
  <2>3. pc[t] = "exn" => pc'[t] = "exit"
    BY <1>8 DEF Simplify, Simplified, AfterCubes, Catch, Goto
  <2> QED
    BY <1>2, <2>1, <2>2, <2>3 DEF AtWork, InShutdown
<1>9. CASE CubeLoop(t)
  <2>1. t \in m_active /\ m_active' = m_active
    BY <1>2, <1>9 DEF CubeLoop, AtWork
  <2>2. CASE \E c \in NextCubes(t) : KeepCube(t, c)
    <3>1. PICK c \in NextCubes(t) : KeepCube(t, c)
      BY <2>2
    <3> DEFINE st == Clone(held[t], Append(loc[t].cubes, c))
    <3>2. ~st.cancel
      BY DEF Clone, States
    <3>3. m_tasks' = m_tasks \/ (st \in States /\ m_tasks' = Append(m_tasks, st))
      BY <1>9, <2>1, <3>1, CubeTypes, KeepCubeStep DEF CubeLoop
    <3> HIDE DEF st
    <3>4. TasksOK'
      BY <1>2, <3>2, <3>3, NoneCancelled
    <3> QED
      BY <2>1, <3>4
  <2>3. CASE UNCHANGED m_tasks
    BY <1>2, <2>1, <2>3
  <2> QED
    BY <1>9, <2>2, <2>3 DEF CubeLoop, NoCube, LastCube, ConquerSat, ConquerUnsat
<1>10. CASE AfterTask(t)
  <2>1. UNCHANGED <<m_tasks, m_active>> /\ pc[t] = "after"
    BY <1>10 DEF AfterTask
  <2>2. pc'[t] = "loop" \/ (pc'[t] = "sd_set" /\ ret'[t] = "loop")
    BY <1>10 DEF AfterTask, CallShutdown, Goto
  <2> QED
    BY <1>2, <2>1, <2>2 DEF AtWork, InShutdown
<1> QED
  BY <1>3, <1>4, <1>5, <1>6, <1>7, <1>8, <1>9, <1>10 DEF Step

LEMMA CubesKept ==
  ASSUME WorkersOK, WorkersOK', CubesInv, NEW t \in Threads, Frame(t),
         Step(t) \/ SpuriousWakeup(t)
  PROVE  CubesInv'
<1> DEFINE Inner(u) ==
             /\ pc[u] \in {"cube", "tail"} =>
                  /\ loc[u].todo \subseteq held[u].region
                  /\ \A i \in DOMAIN loc[u].cubes : loc[u].cubes[i] \subseteq held[u].region
             /\ pc[u] \notin {"cube", "tail", "throw"} => loc[u].cubes = <<>>
             /\ pc[u] = "simplify" => loc[u].num < MaxSimplify
<1> USE DEF WorkersOK
<1>1. SUFFICES Inner(t)'
  <2>1. \A u \in Threads \ {t} : Inner(u) => Inner(u)'
    BY DEF Frame, Asleep
  <2> QED
    BY <2>1 DEF CubesInv
<1>2. Inner(t)
  BY DEF CubesInv
<1>3. ASSUME Leave(t), pc'[t] \notin {"cube", "tail", "throw", "simplify"}
      PROVE  Inner(t)'
  BY <1>3, LeaveTypes DEF NoLocals
<1>4. CASE LoopTest(t) \/ Wait(t) \/ SpuriousWakeup(t)
  BY <1>2, <1>4 DEF LoopTest, Wait, SpuriousWakeup, Goto, Asleep
<1>5. CASE TryGetTask(t)
  BY <1>2, <1>5 DEF TryGetTask, Goto
<1>6. CASE TaskDone(t)
  <2>1. pc'[t] = "after"
    BY <1>6, GotoMoves DEF TaskDone, PcMoves, Labels
  <2> QED
    BY <1>2, <1>6, <2>1 DEF TaskDone
<1>7. CASE Shutdown(t)
  <2>1. pc[t] = "sd_notify" => pc'[t] = "sd_cancel"
    BY <1>7, GotoMoves DEF Shutdown, PcMoves, Labels
  <2>2. pc'[t] \in {"sd_notify", "sd_cancel", "loop", "finish", "exn"}
    BY <1>7, <2>1 DEF Shutdown, Goto, Rets
  <2>3. loc'[t] = loc[t] /\ pc[t] \in {"sd_set", "sd_notify", "sd_cancel"}
    BY <1>7 DEF Shutdown
  <2> QED
    BY <1>2, <2>2, <2>3
<1>8. CASE Split(t)
  <2>1. loc[t].cubes = <<>>
    BY <1>2, <1>8 DEF Split
  <2> QED
    <3>1. pc'[t] = "simplify" /\ loc'[t].num = 0 /\ loc'[t].cubes = loc[t].cubes
      BY <1>8, SplitStep
    <3>2. 0 < MaxSimplify
      BY ParallelAssumption
    <3> QED
      BY <2>1, <3>1, <3>2
<1>9. ASSUME ReportSat(t) \/ ReportUnsat(t) \/ ReportUndef(t) \/ GiveUpCanceled(t)
      PROVE  Inner(t)'
  <2>1. Leave(t)
    BY <1>9 DEF ReportSat, ReportUnsat, ReportUndef, GiveUpCanceled
  <2>2. pc'[t] \in {"finish", "sd_set"}
    BY <1>9 DEF ReportSat, ReportUnsat, ReportUndef, GiveUpCanceled, CallShutdown, Goto
  <2> QED
    BY <1>3, <2>1, <2>2
<1>10. CASE Simplify(t)
  <2>1. CASE /\ loc' = [loc EXCEPT ![t].num = @ + 1]
             /\ \E l \in {"simplified", "throw"} : Goto(t, l)
    BY <1>2, <1>10, <2>1 DEF Goto, Simplify, Locals
  <2> QED
    BY <1>9, <1>10, <2>1 DEF Simplify
<1>11. CASE Simplified(t)
  <2>1. CASE loc[t].num < MaxSimplify /\ Goto(t, "simplify") /\ UNCHANGED <<held, loc>>
    BY <1>2, <1>11, <2>1 DEF Goto, Simplified
  <2>2. CASE /\ loc' = [loc EXCEPT ![t].todo = held[t].region]
             /\ Goto(t, "cube") /\ UNCHANGED held
    BY <1>2, <1>11, <2>2 DEF Goto, Simplified, Locals
  <2> QED
    BY <1>9, <1>11, <2>1, <2>2 DEF Simplified
<1>12. CASE CubeLoop(t)
  <2>1. pc[t] = "cube" /\ UNCHANGED m_active
    BY <1>12 DEF CubeLoop
  <2>2. CASE ReportSat(t) \/ ReportUndef(t)
    BY <1>9, <2>2
  <2>3. CASE \/ Goto(t, "tail") /\ UNCHANGED <<held, loc>>
             \/ Goto(t, "throw") /\ UNCHANGED <<held, loc>>
    BY <1>2, <2>1, <2>3 DEF Goto
  <2>4. CASE /\ ~(loc[t].num > 1) /\ Goto(t, "simplify")
             /\ loc' = [loc EXCEPT ![t].todo = {}, ![t].cubes = <<>>]
    BY <2>4, ParallelAssumption DEF Goto, Locals
  <2>5. CASE ConquerUnsat(t)
    BY <1>2, <2>1, <2>5 DEF ConquerUnsat, Locals
  <2>6. CASE \E c \in NextCubes(t) : KeepCube(t, c)
    <3>1. PICK c \in NextCubes(t) : KeepCube(t, c)
      BY <2>6
    <3>2. c \in SUBSET Leaves /\ c \subseteq held[t].region
      BY <1>2, <2>1, CubeTypes
    <3> DEFINE cs == Append(loc[t].cubes, c)
    <3>3. /\ held' = held /\ pc'[t] = "cube" /\ loc'[t].todo = Behind(c, loc[t].todo)
          /\ loc'[t].cubes = cs \/ loc'[t].cubes = <<>>
      BY <2>1, <3>1, <3>2, KeepCubeStep
    <3>4. \A i \in DOMAIN cs : cs[i] \subseteq held[t].region
      BY <1>2, <2>1, <3>2, Appended DEF Locals
    <3> HIDE DEF cs
    <3> QED
      BY <1>2, <2>1, <3>3, <3>4 DEF Behind
  <2> QED
    BY <1>12, <2>2, <2>3, <2>4, <2>5, <2>6
    DEF CubeLoop, NoCube, LastCube, ConquerSat, verdict
<1>13. CASE AfterCubes(t)
  <2>1. CASE Goto(t, "finish") /\ Leave(t)
    BY <1>3, <2>1 DEF Goto
  <2>2. CASE loc' = [loc EXCEPT ![t] = NoLocals] /\ Goto(t, "split")
    BY <2>2 DEF Goto, NoLocals
  <2> QED
    BY <1>13, <2>1, <2>2 DEF AfterCubes
<1>14. CASE AfterTask(t)
  <2>1. loc' = loc /\ pc[t] = "after" /\ pc'[t] \in {"loop", "sd_set"}
    BY <1>14 DEF AfterTask, CallShutdown, Goto
  <2> QED
    BY <1>2, <2>1
<1>15. CASE Catch(t)
  <2>1. pc'[t] \in {"exit", "sd_set"}
    BY <1>15 DEF Catch, CallShutdown, Goto
  <2>2. Leave(t) \/ (loc' = loc /\ pc[t] = "exn")
    BY <1>15 DEF Catch
  <2> QED
    BY <1>2, <1>3, <2>1, <2>2
<1> QED
  BY <1>4, <1>5, <1>6, <1>7, <1>8, <1>10, <1>11, <1>12, <1>13, <1>14, <1>15 DEF Step

\* A worker that has left stays away, and leaves only after a shutdown.
LEMMA CallKept ==
  ASSUME WorkersOK, WorkersOK', BoolsOK, CallInv, RestOK, NEW t \in Threads, Frame(t),
         Step(t) \/ SpuriousWakeup(t)
  PROVE  CallInv' /\ main = "join" /\ main' = "join"
<1> USE DEF WorkersOK, queue, verdict
<1>1. pc[t] # "exit"
  BY DEF Step, LoopTest, TryGetTask, Wait, TaskDone, Shutdown, Split, Simplify, Simplified,
         CubeLoop, AfterCubes, AfterTask, Catch, SpuriousWakeup, Asleep
<1>2. main = "join" /\ UNCHANGED client
  BY <1>1, WorkerFlags DEF CallInv, RestOK
<1>3. pc'[t] = "exit" => m_shutdown \/ m_exn'
  <2>1. CASE LoopTest(t) \/ TryGetTask(t) \/ Wait(t) \/ SpuriousWakeup(t)
    BY <2>1 DEF LoopTest, TryGetTask, Wait, SpuriousWakeup, Goto
  <2>2. CASE TaskDone(t) \/ Shutdown(t)
    BY <2>2, GotoMoves DEF TaskDone, Shutdown, PcMoves, Labels, Goto, Rets
  <2>3. CASE Split(t)
    BY <2>3, SplitStep
  <2>4. CASE Simplify(t) \/ Simplified(t)
    BY <2>4 DEF Simplify, Simplified, GiveUpCanceled, ReportSat, ReportUnsat, ReportUndef,
                CallShutdown, Goto
  <2>5. CASE CubeLoop(t)
    <3>1. CASE \E c \in NextCubes(t) : KeepCube(t, c)
      BY <2>5, <3>1, CubeTypes, KeepCubeStep DEF CubeLoop
    <3> QED
      BY <2>5, <3>1 DEF CubeLoop, NoCube, LastCube, ConquerSat, ConquerUnsat, ReportSat,
                        ReportUndef, CallShutdown, Goto
  <2>6. CASE AfterCubes(t) \/ AfterTask(t)
    BY <2>6 DEF AfterCubes, AfterTask, CallShutdown, Goto
  <2>7. CASE Catch(t)
    BY <2>7 DEF Catch, CallShutdown, Goto
  <2> QED
    BY <2>1, <2>2, <2>3, <2>4, <2>5, <2>6, <2>7 DEF Step
<1>4. m_shutdown \/ m_exn => m_shutdown' \/ m_exn'
  BY WorkerFlags
<1> QED
  BY <1>2, <1>3, <1>4 DEF CallInv, client, Frame

\* An exception that counts is on its way until it is on record.
LEMMA RaisedStays ==
  ASSUME WorkersOK, WorkersOK', NEW t \in Threads, Frame(t),
         Step(t) \/ SpuriousWakeup(t), NEW u \in Threads, Raised(u)
  PROVE  Raised(u)' \/ m_exn'
<1> USE DEF WorkersOK, Raised, InShutdown
<1>1. CASE u # t
  BY <1>1 DEF Frame, Asleep
<1>2. CASE u = t
  <2>1. Shutdown(t) \/ (pc[t] = "exn" /\ Catch(t))
    BY <1>2 DEF Step, LoopTest, TryGetTask, Wait, TaskDone, Split, Simplify, Simplified,
                CubeLoop, AfterCubes, AfterTask, Catch, SpuriousWakeup, Asleep
  <2>2. CASE pc[t] = "exn" /\ Catch(t)
    BY <2>2 DEF Catch
  <2>3. CASE Shutdown(t)
    <3>1. pc[t] = "sd_notify" => pc'[t] = "sd_cancel"
      BY <2>3, GotoMoves DEF Shutdown, PcMoves, Labels
    <3> QED
      BY <1>2, <2>3, <3>1 DEF Shutdown, Goto
  <2> QED
    BY <2>1, <2>2, <2>3
<1> QED
  BY <1>1, <1>2

LEMMA CauseKept ==
  ASSUME WorkersOK, WorkersOK', BoolsOK, QueueInv, ShutdownInv, NEW t \in Threads, Frame(t),
         Step(t) \/ SpuriousWakeup(t)
  PROVE  ShutdownInv'
<1> USE DEF WorkersOK, queue, verdict
<1> DEFINE Calm == /\ main = "join" /\ ~interrupted /\ ~m_models /\ ~m_exn
                   /\ \A u \in Threads : ~Raised(u)
           Ongoing == m_active # {} \/ m_tasks # <<>>
           Free == /\ ~m_shutdown /\ ~mainCancel
                   /\ \A u \in Threads : ~held[u].cancel /\ pc[u] \notin InShutdown
<1>1. SUFFICES ASSUME Calm', Ongoing' PROVE Free'
  BY DEF ShutdownInv
<1>2. Calm
  BY <1>1, WorkerFlags, RaisedStays DEF client
<1>3. Ongoing
  <2>1. \/ t \in m_active
        \/ m_tasks # <<>>
        \/ UNCHANGED <<m_active, m_tasks>>
    BY DEF QueueInv, AtWork, Step, LoopTest, TryGetTask, Wait, TaskDone, Shutdown, Split,
           Simplify, Simplified, CubeLoop, AfterCubes, AfterTask, Catch, SpuriousWakeup
  <2> QED
    BY <1>1, <2>1
<1>4. Free
  BY <1>2, <1>3 DEF ShutdownInv
<1>5. SUFFICES /\ m_shutdown' = m_shutdown /\ mainCancel' = mainCancel
               /\ \A u \in Threads : ~held'[u].cancel
               /\ pc'[t] \notin InShutdown
  BY <1>4, <1>5 DEF Frame, InShutdown
<1>6. CASE LoopTest(t) \/ Wait(t) \/ SpuriousWakeup(t)
  BY <1>4, <1>6 DEF LoopTest, Wait, SpuriousWakeup, Goto, InShutdown
<1>7. CASE TryGetTask(t)
  <2>1. CASE m_tasks = <<>>
    BY <1>4, <1>7, <2>1 DEF TryGetTask, Goto, InShutdown
  <2>2. CASE m_tasks # <<>>
    <3>1. ~Last(m_tasks).cancel
      <4>1. Last(m_tasks) = m_tasks[Len(m_tasks)] /\ Len(m_tasks) \in DOMAIN m_tasks
        BY <2>2, FrontLast
      <4> QED
        BY <4>1 DEF QueueInv
    <3>2. \A u \in Threads : held'[u] = IF u = t THEN Last(m_tasks) ELSE held[u]
      BY <1>7, <2>2 DEF TryGetTask
    <3>3. \A u \in Threads : ~held'[u].cancel
      BY <1>4, <3>1, <3>2
    <3> QED
      BY <1>7, <2>2, <3>3 DEF TryGetTask, Goto, InShutdown
  <2> QED
    BY <2>1, <2>2
<1>8. CASE TaskDone(t)
  <2>1. pc'[t] = "after"
    BY <1>8, GotoMoves DEF TaskDone, PcMoves, Labels
  <2>2. ~(m_tasks = <<>> /\ m_active' = {})
    BY <1>1, <1>8 DEF TaskDone
  <2>3. UNCHANGED <<m_shutdown, mainCancel, held>>
    BY <1>8, <2>2 DEF TaskDone
  <2> QED
    BY <1>4, <2>1, <2>3 DEF InShutdown
<1>9. CASE Shutdown(t)
  BY <1>4, <1>9 DEF Shutdown, InShutdown
<1>10. CASE Split(t)
  <2>1. UNCHANGED <<m_shutdown, mainCancel>>
    BY <1>10 DEF Split
  <2>2. \A u \in Threads \ {t} : held'[u] = held[u]
    BY <1>10 DEF Split
  <2>3. held'[t].cancel = held[t].cancel /\ pc'[t] = "simplify"
    BY <1>10, SplitStep
  <2> QED
    BY <1>4, <2>1, <2>2, <2>3 DEF InShutdown
<1>11. ASSUME Leave(t) PROVE \A u \in Threads : ~held'[u].cancel
  BY <1>4, <1>11, LeaveTypes
<1>12. ASSUME ReportSat(t) \/ ReportUnsat(t) \/ ReportUndef(t) \/ GiveUpCanceled(t)
       PROVE  (\A u \in Threads : ~held'[u].cancel) /\ pc'[t] \notin InShutdown
  <2>1. ~ReportSat(t)
    BY <1>1 DEF ReportSat
  <2>2. Leave(t) /\ pc'[t] = "finish"
    BY <1>12, <2>1 DEF ReportUnsat, ReportUndef, GiveUpCanceled, Goto
  <2> QED
    BY <1>11, <2>2 DEF InShutdown
<1>13. CASE Simplify(t) \/ Simplified(t)
  <2>1. UNCHANGED <<m_shutdown, mainCancel>>
    BY <1>13 DEF Simplify, Simplified
  <2>2. CASE ReportSat(t) \/ ReportUnsat(t) \/ ReportUndef(t) \/ GiveUpCanceled(t)
    BY <1>12, <2>1, <2>2
  <2>3. CASE /\ held' = held
             /\ \E l \in {"simplify", "simplified", "throw", "cube"} : Goto(t, l)
    BY <1>4, <2>1, <2>3 DEF Goto, InShutdown
  <2> QED
    BY <1>13, <2>2, <2>3 DEF Simplify, Simplified
<1>14. CASE CubeLoop(t)
  <2>1. UNCHANGED <<m_shutdown, m_active, mainCancel>> /\ pc[t] = "cube"
    BY <1>14 DEF CubeLoop
  <2>2. CASE ReportSat(t) \/ ReportUndef(t)
    BY <1>12, <2>1, <2>2
  <2>3. CASE \E c \in NextCubes(t) : KeepCube(t, c)
    <3>1. held' = held /\ pc'[t] = "cube"
      BY <2>1, <2>3, CubeTypes, KeepCubeStep
    <3> QED
      BY <1>4, <2>1, <3>1 DEF InShutdown
  <2>4. CASE /\ held' = held
             /\ pc' = pc \/ \E l \in {"simplify", "throw", "tail"} : Goto(t, l)
    BY <1>4, <2>1, <2>4 DEF Goto, InShutdown
  <2> QED
    BY <1>14, <2>2, <2>3, <2>4 DEF CubeLoop, NoCube, LastCube, ConquerSat, ConquerUnsat
<1>15. CASE AfterCubes(t)
  <2>1. UNCHANGED <<m_shutdown, mainCancel>> /\ pc'[t] \in {"finish", "split"}
    BY <1>15 DEF AfterCubes, Goto
  <2>2. CASE Leave(t)
    BY <1>11, <2>1, <2>2 DEF InShutdown
  <2>3. CASE held' = [held EXCEPT ![t].cubes = loc[t].cubes]
    BY <1>4, <2>1, <2>3 DEF States, InShutdown
  <2> QED
    BY <1>15, <2>2, <2>3 DEF AfterCubes
<1>16. CASE AfterTask(t)
  <2>1. ~Canceled(t)
    BY <1>4 DEF Canceled
  <2>2. UNCHANGED <<m_shutdown, mainCancel>> /\ held' = [held EXCEPT ![t] = NoTask]
        /\ Goto(t, "loop")
    BY <1>16, <2>1 DEF AfterTask
  <2>3. ~NoTask.cancel
    BY DEF NoTask
  <2> QED
    BY <1>4, <2>2, <2>3 DEF Goto, InShutdown
<1>17. CASE Catch(t)
  <2>1. UNCHANGED <<m_shutdown, mainCancel>> /\ pc[t] = "throw" /\ Leave(t)
    BY <1>1, <1>17 DEF Catch
  <2>2. pc'[t] = "sd_set" /\ ret'[t] = "exn"
    BY <1>4, <1>17, <2>1 DEF Catch, CallShutdown, Goto
  <2> QED
    BY <1>1, <2>2 DEF Raised, InShutdown
<1> QED
  BY <1>6, <1>7, <1>8, <1>9, <1>10, <1>13, <1>14, <1>15, <1>16, <1>17 DEF Step

-----------------------------------------------------------------------------
(* No leaf is lost *)

\* A leaf is open in a state that waits or with a worker.
LEMMA OpenParts ==
  ASSUME NEW x
  PROVE  /\ x \in OpenLeaves <=>
              \/ \E i \in DOMAIN m_tasks : x \in OpenTask(m_tasks[i])
              \/ \E u \in Threads : x \in Open(u)
         /\ x \in OpenLeaves' <=>
              \/ \E i \in DOMAIN m_tasks' : x \in OpenTask(m_tasks'[i])
              \/ \E u \in Threads : x \in Open(u)'
BY DEF OpenLeaves, ToSet

\* What a state that waits stands for: a part of its region.
LEMMA OpenTaskParts ==
  ASSUME NEW st \in States, NEW x
  PROVE  x \in OpenTask(st) <=>
           /\ x \in st.region
           /\ st.cubes = <<>> \/ \E i \in DOMAIN st.cubes : x \in st.cubes[i]
BY DEF OpenTask, ToSet, States

\* What a worker stands for depends on where it is, its state and its cubes.
LEMMA OpenAt ==
  ASSUME NEW u \in Threads, NEW x
  PROVE  /\ pc[u] = "split" => (x \in Open(u) <=> x \in OpenTask(held[u]))
         /\ pc[u] \in {"simplify", "simplified"} => (x \in Open(u) <=> x \in held[u].region)
         /\ pc[u] = "cube" =>
              (x \in Open(u) <=> \/ x \in loc[u].todo
                                 \/ \E i \in DOMAIN loc[u].cubes : x \in loc[u].cubes[i])
         /\ pc[u] = "tail" =>
              (x \in Open(u) <=> \E i \in DOMAIN loc[u].cubes : x \in loc[u].cubes[i])
         /\ pc[u] \notin {"split", "simplify", "simplified", "cube", "tail"} => x \notin Open(u)
BY DEF Open, ToSet

LEMMA OpenAtPrimed ==
  ASSUME NEW u \in Threads, NEW x
  PROVE  /\ pc'[u] = "split" => (x \in Open(u)' <=> x \in OpenTask(held'[u]))
         /\ pc'[u] \in {"simplify", "simplified"} => (x \in Open(u)' <=> x \in held'[u].region)
         /\ pc'[u] = "cube" =>
              (x \in Open(u)' <=> \/ x \in loc'[u].todo
                                  \/ \E i \in DOMAIN loc'[u].cubes : x \in loc'[u].cubes[i])
         /\ pc'[u] = "tail" =>
              (x \in Open(u)' <=> \E i \in DOMAIN loc'[u].cubes : x \in loc'[u].cubes[i])
BY DEF Open, ToSet

LEMMA OthersOpen ==
  ASSUME NEW t \in Threads, NEW u \in Threads \ {t}, Frame(t), NEW x \in Open(u)
  PROVE  x \in Open(u)'
BY DEF Frame, Open, OpenTask, Asleep

\* A leaf that has a model and is ahead of the cube is in it or behind it.
LEMMA CubeCovers ==
  ASSUME WorkersOK, NEW t \in Threads, NEW c \in NextCubes(t),
         NEW x \in loc[t].todo, x \in sat
  PROVE  x \in c \/ x \in Behind(c, loc[t].todo)
<1>1. PICK a \in Leaves, b \in Leaves : c = {y \in loc[t].todo : a <= y /\ y <= b}
  BY DEF NextCubes
<1>2. loc[t].todo \subseteq Leaves
  BY DEF WorkersOK, Locals
<1>3. PICK y \in c : y <= x
  BY DEF NextCubes
<1>4. CASE \A z \in c : x > z
  BY <1>4 DEF Behind
<1>5. CASE ~(\A z \in c : x > z)
  <2>1. PICK z \in c : ~(x > z)
    BY <1>5
  <2>2. /\ x \in Int /\ y \in Int /\ z \in Int /\ a \in Int /\ b \in Int
        /\ a <= y /\ z <= b
    BY <1>1, <1>2, <1>3, <2>1, ParallelAssumption DEF Leaves
  <2>3. a <= x /\ x <= b
    BY <1>3, <2>1, <2>2
  <2> QED
    BY <1>1, <2>3
<1> QED
  BY <1>4, <1>5

\* The verdicts leave it open whether the goal has a model, and nobody is raising.
Silent ==
  /\ main = "join" /\ ~interrupted
  /\ ~m_has_undef /\ ~m_models /\ ~m_exn
  /\ \A t \in Threads : ~Raising(t)

\* Verdicts stay; an exception is dropped only after a shutdown, and a shutdown
\* that finds a worker at work has a cause.
LEMMA SilentBefore ==
  ASSUME WorkersOK, WorkersOK', BoolsOK, QueueInv, ShutdownInv, NEW t \in Threads, Frame(t),
         Step(t) \/ SpuriousWakeup(t), Silent'
  PROVE  Silent
<1> USE DEF WorkersOK
<1>1. /\ main = "join" /\ ~interrupted
      /\ ~m_has_undef /\ ~m_models /\ ~m_exn /\ ~m_exn'
  BY WorkerFlags DEF Silent, client
<1>2. \A u \in Threads : ~Raised(u)
  <2> SUFFICES ASSUME NEW u \in Threads, Raised(u) PROVE FALSE
    OBVIOUS
  <2>1. Raised(u)'
    BY <1>1, RaisedStays
  <2>2. Raising(u)'
    BY <2>1 DEF Raised, Raising, InShutdown
  <2> QED
    BY <2>2 DEF Silent
<1>3. \A u \in Threads : pc[u] # "throw"
  <2> SUFFICES ASSUME NEW u \in Threads, pc[u] = "throw" PROVE FALSE
    OBVIOUS
  <2>1. u = t
    BY DEF Frame, Asleep, Silent, Raising
  <2>2. Catch(t)
    BY <2>1 DEF Step, LoopTest, TryGetTask, Wait, TaskDone, Shutdown, Split, Simplify,
                Simplified, CubeLoop, AfterCubes, AfterTask, SpuriousWakeup, Asleep
  <2>3. t \in m_active
    BY <2>1 DEF QueueInv, AtWork
  <2>4. ~m_shutdown
    BY <1>1, <1>2, <2>3 DEF ShutdownInv
  <2>5. pc'[t] = "sd_set" /\ ret'[t] = "exn"
    BY <2>1, <2>2, <2>4 DEF Catch, CallShutdown, Goto
  <2> QED
    BY <2>5 DEF Silent, Raising
<1> QED
  BY <1>1, <1>2, <1>3 DEF Silent, Raising, Raised, InShutdown

\* What is open in the queue stays open: the worker that takes a state has it.
LEMMA QueueOpen ==
  ASSUME WorkersOK, WorkersOK', NEW t \in Threads, Step(t) \/ SpuriousWakeup(t),
         NEW i \in DOMAIN m_tasks, NEW x \in OpenTask(m_tasks[i])
  PROVE  x \in OpenLeaves'
<1> USE DEF WorkersOK, queue
<1>1. ASSUME NEW st \in States, m_tasks' = Append(m_tasks, st)
      PROVE  x \in OpenLeaves'
  <2>1. i \in DOMAIN m_tasks' /\ m_tasks'[i] = m_tasks[i]
    BY <1>1, Appended
  <2> QED
    BY <2>1, OpenParts
<1>2. ASSUME m_tasks' = m_tasks PROVE x \in OpenLeaves'
  BY <1>2, OpenParts
<1>3. CASE TryGetTask(t)
  <2>1. m_tasks # <<>>
    OBVIOUS
  <2>2. m_tasks' = Front(m_tasks) /\ held'[t] = Last(m_tasks) /\ pc'[t] = "split"
    BY <1>3, <2>1 DEF TryGetTask, Goto
  <2>3. CASE i = Len(m_tasks)
    <3>1. held'[t] = m_tasks[i]
      BY <2>1, <2>2, <2>3, FrontLast
    <3>2. x \in Open(t)'
      BY <2>2, <3>1, OpenAtPrimed
    <3> QED
      BY <3>2, OpenParts
  <2>4. CASE i # Len(m_tasks)
    <3>1. i \in DOMAIN m_tasks' /\ m_tasks'[i] = m_tasks[i]
      BY <2>1, <2>2, <2>4, FrontLast
    <3> QED
      BY <3>1, OpenParts
  <2> QED
    BY <2>3, <2>4
<1>4. CASE Split(t)
  <2>1. CASE Len(held[t].cubes) > 1
    BY <1>1, <1>4, <2>1, SplitStep
  <2>2. CASE ~(Len(held[t].cubes) > 1)
    BY <1>2, <1>4, <2>2 DEF Split
  <2> QED
    BY <2>1, <2>2
<1>5. CASE CubeLoop(t)
  <2>1. CASE \E c \in NextCubes(t) : KeepCube(t, c)
    <3>1. PICK c \in NextCubes(t) : KeepCube(t, c)
      BY <2>1
    <3> DEFINE st == Clone(held[t], Append(loc[t].cubes, c))
    <3>2. m_tasks' = m_tasks \/ (st \in States /\ m_tasks' = Append(m_tasks, st))
      BY <1>5, <3>1, CubeTypes, KeepCubeStep DEF CubeLoop
    <3> QED
      BY <1>1, <1>2, <3>2
  <2> QED
    BY <1>2, <1>5, <2>1 DEF CubeLoop, NoCube, LastCube, ConquerSat, ConquerUnsat
<1>6. CASE \/ LoopTest(t) \/ Wait(t) \/ SpuriousWakeup(t) \/ TaskDone(t) \/ Shutdown(t)
           \/ Simplify(t) \/ Simplified(t) \/ AfterCubes(t) \/ AfterTask(t) \/ Catch(t)
  <2>1. m_tasks' = m_tasks
    BY <1>6 DEF LoopTest, Wait, SpuriousWakeup, TaskDone, Shutdown, Simplify, Simplified,
                AfterCubes, AfterTask, Catch
  <2> QED
    BY <1>2, <2>1
<1> QED
  BY <1>3, <1>4, <1>5, <1>6 DEF Step

\* What a worker has is handed on, refuted or named in a verdict.
LEMMA WorkerOpen ==
  ASSUME WorkersOK, WorkersOK', CubesInv, NEW t \in Threads, Step(t) \/ SpuriousWakeup(t),
         Silent, Silent', NEW x \in Open(t), x \in sat
  PROVE  x \in OpenLeaves'
<1> USE DEF WorkersOK, queue, verdict
<1>1. pc[t] \in {"split", "simplify", "simplified", "cube", "tail"}
  BY OpenAt
<1>2. Split(t) \/ Simplify(t) \/ Simplified(t) \/ CubeLoop(t) \/ AfterCubes(t)
  BY <1>1 DEF Step, LoopTest, TryGetTask, Wait, TaskDone, Shutdown, AfterTask, Catch,
              SpuriousWakeup, Asleep
<1>3. ASSUME x \in Open(t)' PROVE x \in OpenLeaves'
  BY <1>3, OpenParts
<1>4. ASSUME NEW st \in States, m_tasks' = Append(m_tasks, st), x \in OpenTask(st)
      PROVE  x \in OpenLeaves'
  <2>1. Len(m_tasks) + 1 \in DOMAIN m_tasks' /\ m_tasks'[Len(m_tasks) + 1] = st
    BY <1>4, Appended
  <2> QED
    BY <1>4, <2>1, OpenParts
<1>5. ~ReportSat(t) /\ ~ReportUndef(t) /\ ~GiveUpCanceled(t)
  BY DEF ReportSat, ReportUndef, GiveUpCanceled, Silent
<1>6. CASE Split(t)
  <2> DEFINE st == held[t]
  <2>1. st \in States /\ st.cubes \in Seq(SUBSET Leaves) /\ st.region \in SUBSET Leaves
    BY DEF States
  <2>2. x \in OpenTask(st)
    BY <1>6, OpenAt DEF Split
  <2>3. /\ x \in st.region
        /\ st.cubes = <<>> \/ \E i \in DOMAIN st.cubes : x \in st.cubes[i]
    BY <2>1, <2>2, OpenTaskParts
  <2>4. pc'[t] = "simplify"
    BY <1>6, SplitStep
  <2>5. CASE st.cubes = <<>>
    <3>1. held'[t].region = st.region
      BY <1>6, <2>5, SplitStep
    <3> QED
      BY <1>3, <2>3, <2>4, <3>1, OpenAtPrimed
  <2>6. CASE st.cubes # <<>>
    <3>1. PICK i \in DOMAIN st.cubes : x \in st.cubes[i]
      BY <2>3, <2>6
    <3>2. CASE i = Len(st.cubes)
      <4>1. x \in Last(st.cubes)
        BY <2>1, <2>6, <3>1, <3>2, FrontLast
      <4>2. x \in held'[t].region
        BY <1>6, <2>3, <2>6, <4>1, SplitStep
      <4> QED
        BY <1>3, <2>4, <4>2, OpenAtPrimed
    <3>3. CASE i # Len(st.cubes)
      <4> DEFINE cs == Front(st.cubes)
                 cl == Clone(st, cs)
      <4>1. Len(st.cubes) > 1
        BY <2>1, <3>1, <3>3
      <4>2. /\ cs \in Seq(SUBSET Leaves) /\ i \in DOMAIN cs /\ cs[i] = st.cubes[i]
            /\ cs # <<>>
        BY <2>1, <2>6, <3>1, <3>3, <4>1, FrontLast
      <4>3. cl \in States /\ m_tasks' = Append(m_tasks, cl)
        BY <1>6, <4>1, SplitStep
      <4>4. cl.region = st.region /\ cl.cubes = cs
        BY <2>1 DEF Clone, States
      <4> HIDE DEF cs, cl, st
      <4>5. x \in OpenTask(cl)
        BY <2>3, <3>1, <4>2, <4>3, <4>4, OpenTaskParts
      <4> QED
        BY <1>4, <4>3, <4>5
    <3> QED
      BY <3>2, <3>3
  <2> QED
    BY <2>5, <2>6
<1>7. CASE Simplify(t)
  <2>1. x \in held[t].region
    BY <1>7, OpenAt DEF Simplify
  <2>2. ~ReportUnsat(t) \/ held[t].region \cap sat # {}
    BY <2>1
  <2>3. held' = held /\ \E l \in {"simplified", "throw"} : Goto(t, l)
    BY <1>5, <1>7, <2>1 DEF Simplify
  <2>4. pc'[t] = "simplified"
    BY <2>3 DEF Goto, Silent, Raising
  <2> QED
    BY <1>3, <2>1, <2>3, <2>4, OpenAtPrimed
<1>8. CASE Simplified(t)
  <2>1. x \in held[t].region
    BY <1>8, OpenAt DEF Simplified
  <2>2. \/ held' = held /\ pc'[t] = "simplify"
        \/ loc' = [loc EXCEPT ![t].todo = held[t].region] /\ pc'[t] = "cube"
    BY <1>5, <1>8 DEF Simplified, Goto
  <2>3. loc' = [loc EXCEPT ![t].todo = held[t].region] => loc'[t].todo = held[t].region
    BY DEF Locals
  <2> QED
    BY <1>3, <2>1, <2>2, <2>3, OpenAtPrimed
<1>9. CASE AfterCubes(t)
  <2>1. PICK i \in DOMAIN loc[t].cubes : x \in loc[t].cubes[i]
    BY <1>9, OpenAt DEF AfterCubes
  <2>2. loc[t].cubes # <<>>
    BY <2>1
  <2>3. held' = [held EXCEPT ![t].cubes = loc[t].cubes] /\ pc'[t] = "split"
    BY <1>9, <2>2 DEF AfterCubes, Goto
  <2>4. held'[t] \in States /\ held'[t].region = held[t].region /\ held'[t].cubes = loc[t].cubes
    BY <2>3 DEF States
  <2>5. x \in held[t].region
    BY <1>9, <2>1 DEF CubesInv, AfterCubes
  <2>6. x \in OpenTask(held'[t])
    BY <2>1, <2>4, <2>5, OpenTaskParts
  <2> QED
    BY <1>3, <2>3, <2>6, OpenAtPrimed
<1>10. CASE CubeLoop(t)
  <2>1. pc[t] = "cube" /\ UNCHANGED m_active
    BY <1>10 DEF CubeLoop
  <2>2. x \in loc[t].todo \/ \E i \in DOMAIN loc[t].cubes : x \in loc[t].cubes[i]
    BY <2>1, OpenAt
  <2>3. x \in held[t].region
    BY <2>1, <2>2 DEF CubesInv
  <2>4. CASE NoCube(t)
    <3>1. pc'[t] = "simplify" /\ held' = held
      BY <1>5, <2>4 DEF NoCube, Goto
    <3> QED
      BY <1>3, <2>3, <3>1, OpenAtPrimed
  <2>5. CASE LastCube(t)
    <3>1. pc'[t] = "tail" /\ loc' = loc /\ x \notin loc[t].todo
      BY <2>5 DEF LastCube, Goto
    <3> QED
      BY <1>3, <2>2, <3>1, OpenAtPrimed
  <2>6. CASE ConquerUnsat(t)
    <3>1. PICK d : d \cap sat = {} /\ loc' = [loc EXCEPT ![t].todo = @ \ d]
      BY <2>6 DEF ConquerUnsat
    <3>2. loc'[t].todo = loc[t].todo \ d /\ loc'[t].cubes = loc[t].cubes
      BY <3>1 DEF Locals
    <3>3. pc'[t] = "cube"
      BY <2>1, <2>6 DEF ConquerUnsat
    <3> QED
      BY <1>3, <2>2, <3>1, <3>2, <3>3, OpenAtPrimed
  <2>7. CASE \E c \in NextCubes(t) : KeepCube(t, c)
    <3>1. PICK c \in NextCubes(t) : KeepCube(t, c)
      BY <2>7
    <3> DEFINE cs == Append(loc[t].cubes, c)
               cl == Clone(held[t], cs)
    <3>2. c \in SUBSET Leaves
      BY CubeTypes
    <3>3. /\ pc'[t] = "cube" /\ loc'[t].todo = Behind(c, loc[t].todo)
          /\ cs \in Seq(SUBSET Leaves)
          /\ \/ loc'[t].cubes = cs
             \/ m_tasks' = Append(m_tasks, cl) /\ cl \in States
      BY <2>1, <3>1, <3>2, KeepCubeStep
    <3>4. CASE x \in Behind(c, loc[t].todo)
      BY <1>3, <3>3, <3>4, OpenAtPrimed
    <3>5. CASE x \notin Behind(c, loc[t].todo)
      <4>1. \E i \in DOMAIN cs : x \in cs[i]
        <5>1. loc[t].cubes \in Seq(SUBSET Leaves)
          BY DEF Locals
        <5>2. CASE x \in loc[t].todo
          <6>1. x \in c
            BY <3>1, <3>5, <5>2, CubeCovers
          <6>2. cs[Len(loc[t].cubes) + 1] = c /\ Len(loc[t].cubes) + 1 \in DOMAIN cs
            BY <3>2, <5>1, Appended
          <6> QED
            BY <6>1, <6>2
        <5>3. CASE \E i \in DOMAIN loc[t].cubes : x \in loc[t].cubes[i]
          <6>1. PICK i \in DOMAIN loc[t].cubes : x \in loc[t].cubes[i]
            BY <5>3
          <6>2. i \in DOMAIN cs /\ cs[i] = loc[t].cubes[i]
            BY <3>2, <5>1, <6>1, Appended
          <6> QED
            BY <6>1, <6>2
        <5> QED
          BY <2>2, <5>2, <5>3
      <4>2. CASE loc'[t].cubes = cs
        BY <1>3, <3>3, <4>1, <4>2, OpenAtPrimed
      <4>3. CASE m_tasks' = Append(m_tasks, cl) /\ cl \in States
        <5>1. cl.region = held[t].region /\ cl.cubes = cs
          BY DEF Clone, States
        <5> HIDE DEF cl, cs
        <5>2. x \in OpenTask(cl)
          BY <2>3, <4>1, <4>3, <5>1, OpenTaskParts
        <5> QED
          BY <1>4, <4>3, <5>2
      <4> QED
        BY <3>3, <4>2, <4>3
    <3> QED
      BY <3>4, <3>5
  <2>8. ~ConquerSat(t) /\ ~Goto(t, "throw") /\ m_has_undef' # TRUE
    BY <1>5 DEF ConquerSat, Goto, Silent, Raising
  <2> QED
    BY <1>10, <2>4, <2>5, <2>6, <2>7, <2>8 DEF CubeLoop
<1> QED
  BY <1>2, <1>6, <1>7, <1>8, <1>9, <1>10

\* A model comes from a leaf that has one.
LEMMA ModelKept ==
  ASSUME BoolsOK, ModelInv, NEW t \in Threads, Step(t) \/ SpuriousWakeup(t)
  PROVE  ModelInv' /\ (AnswerRight => AnswerRight')
<1> USE DEF queue, verdict
<1>1. UNCHANGED client
  BY WorkerFlags
<1>2. m_models' => m_models \/ sat # {}
  <2>1. CASE LoopTest(t) \/ TryGetTask(t) \/ Wait(t) \/ SpuriousWakeup(t) \/ TaskDone(t)
    BY <2>1 DEF LoopTest, TryGetTask, Wait, SpuriousWakeup, TaskDone
  <2>2. CASE Shutdown(t) \/ Split(t) \/ AfterCubes(t) \/ AfterTask(t) \/ Catch(t)
    BY <2>2 DEF Shutdown, Split, AfterCubes, AfterTask, Catch
  <2>3. CASE Simplify(t) \/ Simplified(t)
    BY <2>3 DEF Simplify, Simplified, GiveUpCanceled, ReportUnsat, ReportUndef
  <2>4. CASE CubeLoop(t)
    BY <2>4 DEF CubeLoop, NoCube, LastCube, ConquerSat, ConquerUnsat, KeepCube, ReportUndef
  <2> QED
    BY <2>1, <2>2, <2>3, <2>4 DEF Step
<1> QED
  BY <1>1, <1>2 DEF ModelInv, AnswerRight, client

-----------------------------------------------------------------------------
(* The theorems *)

LEMMA LostParts ==
  /\ NothingLost <=> PTypeOK /\ (Silent => sat \subseteq OpenLeaves)
  /\ NothingLost' <=> PTypeOK' /\ (Silent' => sat' \subseteq OpenLeaves')
BY DEF NothingLost, Silent

LEMMA PInvInit == PInit => PInv
<1> SUFFICES ASSUME PInit PROVE PInv
  OBVIOUS
<1> USE DEF PInit
<1>1. PTypeOK
  <2>1. WorkersOK
    <3>1. NoTask \in States /\ NoLocals \in Locals
      BY StateTypes
    <3>2. <<>> \in Seq(States)
      OBVIOUS
    <3> QED
      BY <3>1, <3>2 DEF WorkersOK, Labels, Rets
  <2>2. BoolsOK
    BY DEF BoolsOK
  <2>3. RestOK
    BY ParallelAssumption DEF RestOK
  <2> QED
    BY <2>1, <2>2, <2>3, PTypeParts
<1>2. NothingLost /\ ShutdownInv /\ ModelInv
  BY <1>1 DEF NothingLost, ShutdownInv, ModelInv
<1>3. QueueInv /\ CubesInv /\ CallInv /\ AnswerRight
  BY DEF QueueInv, CubesInv, CallInv, AnswerRight, AtWork, InShutdown, NoLocals
<1> QED
  BY <1>2, <1>3 DEF PInv

LEMMA PInvWorker ==
  ASSUME PInv, NEW t \in Threads, Step(t) \/ SpuriousWakeup(t)
  PROVE  PInv'
<1> USE DEF PInv
<1>1. WorkersOK /\ BoolsOK /\ RestOK
  BY PTypeParts DEF NothingLost
<1>2. WorkersOK' /\ Frame(t)
  BY <1>1, WorkerStep DEF CubesInv
<1>3. BoolsOK' /\ UNCHANGED client
  BY <1>1, WorkerFlags
<1>4. RestOK'
  BY <1>1, <1>3, WorkerBranches DEF RestOK, client
<1>5. PTypeOK'
  BY <1>2, <1>3, <1>4, TypePartsPrimed
<1>6. ASSUME Silent' PROVE sat' \subseteq OpenLeaves'
  <2>1. Silent
    BY <1>1, <1>2, <1>6, SilentBefore
  <2>2. SUFFICES ASSUME NEW x \in sat PROVE x \in OpenLeaves'
    BY <1>3 DEF client
  <2>3. x \in OpenLeaves
    BY <2>1, LostParts
  <2>4. CASE \E i \in DOMAIN m_tasks : x \in OpenTask(m_tasks[i])
    BY <1>1, <1>2, <2>4, QueueOpen
  <2>5. CASE \E u \in Threads : x \in Open(u)
    <3>1. PICK u \in Threads : x \in Open(u)
      BY <2>5
    <3>2. CASE u = t
      BY <1>1, <1>2, <1>6, <2>1, <3>1, <3>2, WorkerOpen
    <3>3. CASE u # t
      BY <1>2, <3>1, <3>3, OthersOpen, OpenParts
    <3> QED
      BY <3>2, <3>3
  <2> QED
    BY <2>3, <2>4, <2>5, OpenParts
<1>7. NothingLost'
  BY <1>5, <1>6, LostParts
<1>8. QueueInv' /\ CubesInv'
  BY <1>1, <1>2, QueueKept, CubesKept
<1>9. CallInv' /\ ShutdownInv'
  BY <1>1, <1>2, CallKept, CauseKept
<1>10. ModelInv' /\ AnswerRight'
  BY <1>1, ModelKept
<1> QED
  BY <1>7, <1>8, <1>9, <1>10

LEMMA PInvCaller ==
  ASSUME PInv, Call \/ Interrupt \/ Join
  PROVE  PInv'
<1> USE DEF PInv, queue, verdict
<1>1. PTypeOK' /\ WorkersOK /\ BoolsOK /\ RestOK
  BY CallerTypes, PTypeParts DEF NothingLost
<1>2. CASE Call
  <2> DEFINE st == [NoTask EXCEPT !.main = TRUE, !.region = Leaves]
  <2>1. /\ m_shutdown' = FALSE /\ m_active' = {} /\ m_models' = FALSE
        /\ sat' \in SUBSET Leaves /\ main = "ready"
        /\ m_tasks' = <<st>>
        /\ held' = [t \in Threads |-> NoTask] /\ loc' = [t \in Threads |-> NoLocals]
        /\ pc' = [t \in Threads |-> "loop"] /\ main' = "join"
        /\ answer' = "none" /\ interrupted' = FALSE
        /\ UNCHANGED <<ret, m_has_undef, m_exn, mainCancel>>
    BY <1>2 DEF Call, Cleanup
  <2>2. st.region = Leaves /\ st.cubes = <<>> /\ ~st.cancel /\ ~NoTask.cancel
    BY DEF NoTask
  <2>3. DOMAIN m_tasks' = {1} /\ m_tasks'[1] = st /\ st \in States
    <3>1. st \in States
      BY StateTypes
    <3> HIDE DEF st
    <3> QED
      BY <2>1, <3>1
  <2> HIDE DEF st
  <2>4. NothingLost'
    <3>1. \A x \in sat' : x \in OpenTask(m_tasks'[1])
      BY <2>1, <2>2, <2>3, OpenTaskParts
    <3>2. sat' \subseteq OpenLeaves'
      BY <2>3, <3>1, OpenParts
    <3> QED
      BY <1>1, <3>2, LostParts
  <2>5. QueueInv'
    BY <2>1, <2>2, <2>3 DEF QueueInv, AtWork, InShutdown
  <2>6. CubesInv'
    BY <2>1 DEF CubesInv, NoLocals
  <2>7. CallInv'
    BY <2>1 DEF CallInv
  <2>8. ShutdownInv'
    <3>1. ~mainCancel
      BY <2>1 DEF CallInv
    <3>2. \A t \in Threads : held'[t] = NoTask /\ pc'[t] = "loop"
      BY <2>1
    <3>3. \A t \in Threads : ~held'[t].cancel /\ pc'[t] \notin InShutdown
      BY <2>2, <3>2 DEF InShutdown
    <3> QED
      BY <2>1, <3>1, <3>3 DEF ShutdownInv
  <2>9. ModelInv' /\ AnswerRight'
    BY <2>1 DEF ModelInv, AnswerRight
  <2> QED
    BY <2>4, <2>5, <2>6, <2>7, <2>8, <2>9
<1>3. CASE Interrupt
  <2>1. /\ main = "join" /\ mainCancel' = TRUE /\ interrupted' = TRUE
        /\ UNCHANGED <<m_tasks, m_active, m_shutdown, held, loc, pc, ret, m_has_undef, m_exn,
                       m_models, sat, main, answer>>
    BY <1>3 DEF Interrupt
  <2>2. NothingLost' /\ ShutdownInv'
    BY <1>1, <2>1 DEF NothingLost, ShutdownInv
  <2>3. QueueInv' /\ CubesInv'
    BY <2>1 DEF QueueInv, CubesInv
  <2>4. CallInv' /\ ModelInv' /\ AnswerRight'
    BY <2>1 DEF CallInv, ModelInv, AnswerRight
  <2> QED
    BY <2>2, <2>3, <2>4
<1>4. CASE Join
  <2>1. /\ main = "join" /\ \A t \in Threads : pc[t] = "exit"
        /\ mainCancel' = FALSE /\ answer' = Answer /\ main' = "ready"
        /\ UNCHANGED <<m_tasks, m_active, m_shutdown, held, loc, pc, ret, m_has_undef, m_exn,
                       m_models, sat, interrupted>>
    BY <1>4 DEF Join
  <2>2. NothingLost' /\ ShutdownInv' /\ ModelInv'
    BY <1>1, <2>1 DEF NothingLost, ShutdownInv, ModelInv
  <2>3. QueueInv' /\ CubesInv' /\ CallInv'
    BY <2>1 DEF QueueInv, CubesInv, CallInv
  <2>4. Answer = "l_true" => sat # {}
    BY <2>1 DEF Answer, ModelInv
  <2>5. ASSUME Answer = "l_false", ~interrupted PROVE sat = {}
    <3>1. ~m_exn /\ ~m_models /\ ~m_has_undef
      BY <2>5 DEF Answer
    <3>2. Silent /\ \A t \in Threads : ~Raised(t)
      BY <2>1, <2>5, <3>1 DEF Silent, Raising, Raised, InShutdown
    <3>3. PICK t \in Threads : pc[t] = "exit"
      BY <2>1, ParallelAssumption
    <3>4. m_shutdown
      BY <2>1, <3>1, <3>3 DEF CallInv
    <3>5. m_tasks = <<>>
      BY <2>1, <2>5, <3>1, <3>2, <3>4 DEF ShutdownInv
    <3>6. \A x : x \notin OpenLeaves
      BY <2>1, <3>5, OpenParts, OpenAt
    <3> QED
      BY <3>2, <3>6, LostParts
  <2>6. AnswerRight'
    BY <2>1, <2>4, <2>5 DEF AnswerRight
  <2> QED
    BY <2>2, <2>3, <2>6
<1> QED
  BY <1>2, <1>3, <1>4

\* Every step of the workers, the caller and the user keeps the invariant.
LEMMA PInvStep == PInv /\ [PNext]_pvars => PInv'
<1> SUFFICES ASSUME PInv, [PNext]_pvars PROVE PInv'
  OBVIOUS
<1>1. CASE UNCHANGED pvars
  <2> USE <1>1 DEF PInv, pvars, queue, verdict, client
  <2>1. NothingLost'
    <3>1. PTypeOK'
      BY DEF NothingLost, PTypeOK
    <3>2. Silent' => Silent
      BY DEF Silent, Raising
    <3>3. OpenLeaves' = OpenLeaves
      BY DEF OpenLeaves, Open
    <3> QED
      BY <3>1, <3>2, <3>3, LostParts
  <2>2. QueueInv' /\ CubesInv' /\ CallInv'
    BY DEF QueueInv, CubesInv, CallInv
  <2>3. ShutdownInv' /\ ModelInv' /\ AnswerRight'
    BY DEF ShutdownInv, Raised, ModelInv, AnswerRight
  <2> QED
    BY <2>1, <2>2, <2>3
<1>2. CASE PNext
  BY <1>2, PInvWorker, PInvCaller DEF PNext
<1> QED
  BY <1>1, <1>2

\* The invariant holds in every reachable state.
THEOREM PInvariance == PSpec => []PInv
BY PInvInit, PInvStep, PTL DEF PSpec

\* As long as no verdict says otherwise every leaf that has a model is in a cube
\* of the queue or of a worker, for any number of workers and any tree.
THEOREM LeavesKept == PSpec => []NothingLost
<1>1. PInv => NothingLost
  BY DEF PInv
<1> QED
  BY <1>1, PInvariance, PTL

\* report_sat, report_unsat and the exceptions add up to the right answer, unless
\* the user interrupted the call.
THEOREM AnswersRight == PSpec => []AnswerRight
<1>1. PInv => AnswerRight
  BY DEF PInv
<1> QED
  BY <1>1, PInvariance, PTL

\* Nobody is stopped without a model, an exception or an interrupt.
THEOREM ReasonToCancel == PSpec => []CancelledForAReason
<1>1. PInv => CancelledForAReason
  <2>1. \A t \in Threads : Raised(t) => Raising(t)
    BY DEF Raised, Raising, InShutdown
  <2> QED
    BY <2>1 DEF PInv, NothingLost, PTypeOK, ShutdownInv, CancelledForAReason, Canceled
<1> QED
  BY <1>1, PInvariance, PTL

-----------------------------------------------------------------------------
(* Counting branches *)

\* The branches are pairs of an argument and a number.
LEMMA BranchAt ==
  ASSUME NEW w, NEW e
  PROVE  e \in Branches(w) <=> \E x \in DOMAIN w : \E k \in 1 .. w[x] : e = <<x, k>>
BY DEF Branches

\* An argument more adds its branches, and no others.
LEMMA BranchesAdded ==
  ASSUME NEW v, NEW w, NEW x, x \notin DOMAIN w, DOMAIN v = DOMAIN w \cup {x},
         v[x] \in Nat, \A y \in DOMAIN w : v[y] = w[y]
  PROVE  /\ IsFiniteSet(Branches(v)) <=> IsFiniteSet(Branches(w))
         /\ IsFiniteSet(Branches(w)) =>
              Cardinality(Branches(v)) = Cardinality(Branches(w)) + v[x]
<1> DEFINE new == {x} \X (1 .. v[x])
<1>1. IsFiniteSet(new) /\ Cardinality(new) = v[x]
  <2>1. IsFiniteSet(1 .. v[x]) /\ Cardinality(1 .. v[x]) = v[x]
    BY FS_Interval
  <2>2. IsFiniteSet({x}) /\ Cardinality({x}) = 1
    BY FS_Singleton
  <2>3. IsFiniteSet(new) /\ Cardinality(new) = Cardinality({x}) * Cardinality(1 .. v[x])
    BY <2>1, <2>2, FS_Product
  <2> QED
    BY <2>1, <2>2, <2>3
<1>2. Branches(v) = Branches(w) \cup new
  <2>1. ASSUME NEW e PROVE e \in Branches(v) <=> e \in Branches(w) \/ e \in new
    BY BranchAt
  <2> HIDE DEF new
  <2> QED
    BY <2>1
<1>3. Branches(w) \cap new = {}
  BY BranchAt
<1> HIDE DEF new
<1>4. IsFiniteSet(Branches(v)) => IsFiniteSet(Branches(w))
  BY <1>2, FS_Subset
<1>5. ASSUME IsFiniteSet(Branches(w))
      PROVE  /\ IsFiniteSet(Branches(v))
             /\ Cardinality(Branches(v)) = Cardinality(Branches(w)) + v[x]
  <2>1. /\ IsFiniteSet(Branches(w) \cup new)
        /\ Cardinality(Branches(w) \cup new)
             = Cardinality(Branches(w)) + Cardinality(new) - Cardinality(Branches(w) \cap new)
    BY <1>1, <1>5, FS_Union
  <2>2. Cardinality({}) = 0 /\ Cardinality(Branches(w)) \in Nat
    BY <1>5, FS_EmptySet, FS_CardinalityType
  <2>3. /\ Cardinality(Branches(w) \cap new) = 0
        /\ Cardinality(Branches(v)) = Cardinality(Branches(w) \cup new)
        /\ IsFiniteSet(Branches(v))
    BY <1>2, <1>3, <2>1, <2>2, Zenon
  <2> QED
    BY <1>1, <2>1, <2>2, <2>3
<1> QED
  BY <1>4, <1>5

\* When the load of one argument changes, the number of branches changes by as much.
LEMMA BranchesChanged ==
  ASSUME NEW v, NEW w, NEW x \in DOMAIN w, DOMAIN v = DOMAIN w,
         v[x] \in Nat, w[x] \in Nat, \A y \in DOMAIN w \ {x} : v[y] = w[y],
         IsFiniteSet(Branches(w))
  PROVE  /\ IsFiniteSet(Branches(v))
         /\ Cardinality(Branches(v)) = Cardinality(Branches(w)) + v[x] - w[x]
<1> DEFINE r == [y \in DOMAIN w \ {x} |-> w[y]]
<1>1. /\ x \notin DOMAIN r /\ DOMAIN w = DOMAIN r \cup {x}
      /\ \A y \in DOMAIN r : w[y] = r[y] /\ v[y] = r[y]
  OBVIOUS
<1> HIDE DEF r
<1>2. /\ IsFiniteSet(Branches(r))
      /\ Cardinality(Branches(w)) = Cardinality(Branches(r)) + w[x]
  BY <1>1, BranchesAdded
<1>3. /\ IsFiniteSet(Branches(v))
      /\ Cardinality(Branches(v)) = Cardinality(Branches(r)) + v[x]
  BY <1>1, <1>2, BranchesAdded
<1>4. Cardinality(Branches(r)) \in Nat
  BY <1>2, FS_CardinalityType
<1> QED
  BY <1>2, <1>3, <1>4

\* Nobody has a branch.
LEMMA BranchesNone ==
  ASSUME NEW w, \A x \in DOMAIN w : w[x] = 0
  PROVE  IsFiniteSet(Branches(w)) /\ Cardinality(Branches(w)) = 0
<1>1. Branches(w) = {}
  BY BranchAt
<1> QED
  BY <1>1, FS_EmptySet

\* The length of a sequence and of its front.
LEMMA LengthsAre ==
  ASSUME NEW S, NEW s \in Seq(S)
  PROVE  /\ Len(s) \in Nat /\ (s = <<>> <=> Len(s) = 0)
         /\ s # <<>> => Len(Front(s)) = Len(s) - 1
<1>1. Len(s) \in Nat /\ (s = <<>> <=> Len(s) = 0)
  OBVIOUS
<1>2. ASSUME s # <<>> PROVE Len(Front(s)) = Len(s) - 1
  <2> DEFINE n == Len(s) - 1
  <2>1. n \in Nat /\ \A i \in 1 .. n : s[i] \in S
    BY <1>1, <1>2
  <2>2. Front(s) = SubSeq(s, 1, n)
    BY DEF Front
  <2> HIDE DEF n
  <2>3. Len(SubSeq(s, 1, n)) = IF 1 <= n THEN n - 1 + 1 ELSE 0
    BY <2>1, SubSeqProperties
  <2>4. Len(SubSeq(s, 1, n)) = n
    BY <2>1, <2>3
  <2>5. Len(Front(s)) = n
    BY <2>2, <2>4, Zenon
  <2> QED
    BY <2>5 DEF n
<1> QED
  BY <1>1, <1>2

\* Loads are numbers, and a task counts for at least one.
LEMMA WeightTypes ==
  ASSUME NEW st \in States
  PROVE  /\ Weight(st) \in Nat /\ Weight(st) >= 1
         /\ st.cubes # <<>> => Weight(st) = Len(st.cubes)
BY DEF Weight, States

LEMMA LoadTypes ==
  ASSUME WorkersOK, NEW t \in Threads
  PROVE  Load(t) \in Nat
BY WeightTypes DEF Load, WorkersOK

\* Of the workers only the one that moves has another load.
LEMMA WorkersCounted ==
  ASSUME WorkersOK, WorkersOK', NEW t \in Threads, Frame(t),
         IsFiniteSet(Branches(WorkerLoads))
  PROVE  /\ IsFiniteSet(Branches(WorkerLoads))'
         /\ Cardinality(Branches(WorkerLoads))'
              = Cardinality(Branches(WorkerLoads)) + Load(t)' - Load(t)
<1> DEFINE w == WorkerLoads
           v == WorkerLoads'
<1>1. ASSUME NEW u \in Threads \ {t} PROVE Load(u)' = Load(u)
  BY DEF Frame, Load, Weight, Asleep, WorkersOK
<1>2. DOMAIN w = Threads /\ \A u \in Threads : w[u] = Load(u)
  BY DEF WorkerLoads
<1>3. DOMAIN v = Threads /\ \A u \in Threads : v[u] = Load(u)'
  BY DEF WorkerLoads
<1>4. Load(t) \in Nat /\ Load(t)' \in Nat
  BY LoadTypes, WeightTypes DEF Load, WorkersOK
<1>5. IsFiniteSet(Branches(w))
  OBVIOUS
<1>6. /\ IsFiniteSet(Branches(v))
      /\ Cardinality(Branches(v)) = Cardinality(Branches(w)) + v[t] - w[t]
  <2> HIDE DEF v, w
  <2> QED
    BY <1>1, <1>2, <1>3, <1>4, <1>5, BranchesChanged
<1>7. /\ IsFiniteSet(Branches(WorkerLoads')) <=> IsFiniteSet(Branches(v))
      /\ v[t] = Load(t)' /\ w[t] = Load(t)
  BY <1>2, <1>3
<1> QED
  BY <1>6, <1>7

\* A task is put at the end of the queue, or taken from there.
LEMMA QueueGrown ==
  ASSUME WorkersOK, NEW st \in States, m_tasks' = Append(m_tasks, st),
         IsFiniteSet(Branches(QueueLoads))
  PROVE  /\ IsFiniteSet(Branches(QueueLoads))'
         /\ Cardinality(Branches(QueueLoads))' = Cardinality(Branches(QueueLoads)) + Weight(st)
<1> DEFINE w == QueueLoads
           v == QueueLoads'
           n == Len(m_tasks) + 1
<1>1. /\ n \notin DOMAIN m_tasks
      /\ DOMAIN m_tasks' = DOMAIN m_tasks \cup {n} /\ m_tasks'[n] = st
      /\ \A i \in DOMAIN m_tasks : m_tasks'[i] = m_tasks[i]
  BY Appended DEF WorkersOK
<1> HIDE DEF n
<1>2. DOMAIN w = DOMAIN m_tasks /\ \A i \in DOMAIN m_tasks : w[i] = Weight(m_tasks[i])
  BY DEF QueueLoads
<1>3. DOMAIN v = DOMAIN m_tasks' /\ \A i \in DOMAIN m_tasks' : v[i] = Weight(m_tasks'[i])
  BY DEF QueueLoads, Weight
<1>4. v[n] = Weight(st) /\ v[n] \in Nat
  BY <1>1, <1>3, WeightTypes
<1>5. IsFiniteSet(Branches(w))
  OBVIOUS
<1>6. /\ IsFiniteSet(Branches(v))
      /\ Cardinality(Branches(v)) = Cardinality(Branches(w)) + v[n]
  <2> HIDE DEF v, w
  <2> QED
    BY <1>1, <1>2, <1>3, <1>4, <1>5, BranchesAdded
<1> QED
  BY <1>4, <1>6

LEMMA QueueTaken ==
  ASSUME WorkersOK, m_tasks # <<>>, m_tasks' = Front(m_tasks),
         IsFiniteSet(Branches(QueueLoads))
  PROVE  /\ IsFiniteSet(Branches(QueueLoads))'
         /\ Cardinality(Branches(QueueLoads))
              = Cardinality(Branches(QueueLoads))' + Weight(Last(m_tasks))
<1> DEFINE w == QueueLoads
           v == QueueLoads'
           n == Len(m_tasks)
<1>1. /\ n \notin DOMAIN m_tasks' /\ DOMAIN m_tasks = DOMAIN m_tasks' \cup {n}
      /\ m_tasks[n] = Last(m_tasks) /\ Last(m_tasks) \in States
      /\ \A i \in DOMAIN m_tasks' : m_tasks'[i] = m_tasks[i]
  <2>1. /\ DOMAIN Front(m_tasks) = DOMAIN m_tasks \ {n} /\ n \in DOMAIN m_tasks
        /\ Last(m_tasks) = m_tasks[n] /\ Last(m_tasks) \in States
        /\ \A i \in DOMAIN Front(m_tasks) : Front(m_tasks)[i] = m_tasks[i]
    BY FrontLast DEF WorkersOK
  <2> HIDE DEF n
  <2> QED
    BY <2>1
<1> HIDE DEF n
<1>2. DOMAIN w = DOMAIN m_tasks /\ \A i \in DOMAIN m_tasks : w[i] = Weight(m_tasks[i])
  BY DEF QueueLoads
<1>3. DOMAIN v = DOMAIN m_tasks' /\ \A i \in DOMAIN m_tasks' : v[i] = Weight(m_tasks'[i])
  BY DEF QueueLoads, Weight
<1>4. w[n] = Weight(Last(m_tasks)) /\ w[n] \in Nat
  BY <1>1, <1>2, WeightTypes
<1>5. IsFiniteSet(Branches(w))
  OBVIOUS
<1>6. /\ IsFiniteSet(Branches(v))
      /\ Cardinality(Branches(w)) = Cardinality(Branches(v)) + w[n]
  <2> HIDE DEF v, w
  <2> QED
    BY <1>1, <1>2, <1>3, <1>4, <1>5, BranchesAdded
<1> QED
  BY <1>4, <1>6

\* What a step adds to the queue and to the worker that takes it is counted.
LEMMA StepCounted ==
  ASSUME WorkersOK, m_branches \in Int, NEW t \in Threads, Step(t) \/ SpuriousWakeup(t)
  PROVE  \/ m_tasks' = m_tasks /\ m_branches' >= m_branches + Load(t)' - Load(t)
         \/ /\ m_tasks # <<>> /\ m_tasks' = Front(m_tasks) /\ m_branches' = m_branches
            /\ Load(t) = 0 /\ Load(t)' = Weight(Last(m_tasks))
         \/ \E st \in States :
              /\ m_tasks' = Append(m_tasks, st)
              /\ m_branches' = m_branches + Weight(st) + Load(t)' - Load(t)
<1> DEFINE Kept == m_tasks' = m_tasks /\ m_branches' >= m_branches + Load(t)' - Load(t)
<1> USE DEF queue, verdict
<1>1. CASE \/ LoopTest(t) \/ Wait(t) \/ SpuriousWakeup(t) \/ TaskDone(t)
           \/ AfterTask(t) \/ Shutdown(t) \/ Catch(t)
  <2>1. /\ pc[t] \notin {"split", "simplify", "simplified", "cube", "tail"}
        /\ m_tasks' = m_tasks /\ m_branches' = m_branches
    BY <1>1 DEF LoopTest, Wait, SpuriousWakeup, TaskDone, AfterTask, Shutdown, Catch, Asleep
  <2>2. pc'[t] \notin {"split", "simplify", "simplified", "cube", "tail"}
    <3>1. CASE LoopTest(t) \/ Wait(t) \/ SpuriousWakeup(t) \/ TaskDone(t)
      BY <3>1 DEF LoopTest, Wait, SpuriousWakeup, TaskDone, Goto, NotifyAllGoto, WorkersOK
    <3>2. CASE AfterTask(t) \/ Catch(t)
      BY <3>2 DEF AfterTask, Catch, CallShutdown, Goto, WorkersOK
    <3>3. CASE Shutdown(t)
      BY <3>3 DEF Shutdown, Goto, NotifyAllGoto, WorkersOK, Rets
    <3> QED
      BY <1>1, <3>1, <3>2, <3>3
  <2> QED
    BY <2>1, <2>2 DEF Load
<1>2. CASE TryGetTask(t)
  <2>1. CASE m_tasks = <<>>
    BY <1>2, <2>1 DEF TryGetTask, Goto, WorkersOK, Load
  <2>2. CASE m_tasks # <<>>
    <3>1. /\ pc[t] = "try" /\ m_tasks' = Front(m_tasks) /\ m_branches' = m_branches
          /\ held'[t] = Last(m_tasks) /\ pc'[t] = "split"
      BY <1>2, <2>2 DEF TryGetTask, Goto, WorkersOK
    <3>2. Load(t) = 0 /\ Load(t)' = Weight(Last(m_tasks))
      BY <3>1 DEF Load, Weight
    <3> QED
      BY <2>2, <3>1, <3>2
  <2> QED
    BY <2>1, <2>2
<1>3. ASSUME \/ ReportSat(t) \/ ReportUnsat(t) \/ ReportUndef(t) \/ GiveUpCanceled(t),
             pc[t] \in {"simplify", "simplified", "cube"}, m_tasks' = m_tasks
      PROVE  Kept
  <2>1. m_branches' >= m_branches - 1
    BY <1>3 DEF ReportSat, ReportUnsat, ReportUndef, GiveUpCanceled
  <2>2. pc'[t] \in {"finish", "sd_set"}
    BY <1>3 DEF ReportSat, ReportUnsat, ReportUndef, GiveUpCanceled, CallShutdown, Goto,
                WorkersOK
  <2>3. Load(t) = 1 /\ Load(t)' = 0
    BY <1>3, <2>2 DEF Load
  <2> QED
    BY <1>3, <2>1, <2>3
<1>4. ASSUME pc[t] \in {"simplify", "simplified", "cube"},
             pc'[t] \in {"simplify", "simplified", "cube", "tail", "throw"},
             m_tasks' = m_tasks, m_branches' = m_branches
      PROVE  Kept
  BY <1>4 DEF Load
<1>5. CASE Split(t)
  <2> DEFINE st == held[t]
             cs == Front(st.cubes)
             cl == Clone(st, cs)
  <2>1. st \in States /\ st.cubes \in Seq(SUBSET Leaves)
    BY DEF States, WorkersOK
  <2>2. pc[t] = "split" /\ pc'[t] = "simplify" /\ m_branches' = m_branches
    BY <1>5, SplitStep DEF Split
  <2>3. Load(t) = Weight(st) /\ Load(t)' = 1
    BY <2>2 DEF Load
  <2>4. CASE Len(st.cubes) > 1
    <3>1. m_tasks' = Append(m_tasks, cl) /\ cl \in States
      BY <1>5, <2>4, SplitStep
    <3>2. cl.cubes = cs
      BY <2>1 DEF Clone, States
    <3>3. Len(cs) = Len(st.cubes) - 1 /\ cs # <<>> /\ st.cubes # <<>>
      <4>1. Len(st.cubes) \in Nat /\ st.cubes # <<>>
        BY <2>1, <2>4, LengthsAre
      <4>2. Len(cs) = Len(st.cubes) - 1 /\ cs # <<>>
        BY <2>1, <2>4, <4>1, LengthsAre, FrontLast
      <4> QED
        BY <4>1, <4>2
    <3>4. Weight(cl) = Weight(st) - 1
      BY <3>2, <3>3 DEF Weight
    <3>5. Weight(st) \in Nat
      BY <2>1, WeightTypes
    <3> HIDE DEF cl, cs
    <3> QED
      BY <2>2, <2>3, <3>1, <3>4, <3>5
  <2>5. CASE Len(st.cubes) <= 1
    <3>1. m_tasks' = m_tasks
      BY <1>5, <2>5, SplitStep
    <3>2. Weight(st) = 1
      <4>1. Len(st.cubes) \in Nat /\ (st.cubes = <<>> <=> Len(st.cubes) = 0)
        BY <2>1, LengthsAre
      <4>2. Weight(st) = IF st.cubes = <<>> THEN 1 ELSE Len(st.cubes)
        BY DEF Weight
      <4>3. CASE st.cubes = <<>>
        BY <4>2, <4>3
      <4>4. CASE st.cubes # <<>>
        <5> DEFINE k == Len(st.cubes)
        <5>1. Weight(st) = k /\ k \in Nat /\ k # 0 /\ k <= 1
          BY <2>5, <4>1, <4>2, <4>4
        <5> HIDE DEF k
        <5> QED
          BY <5>1
      <4> QED
        BY <4>3, <4>4
    <3> QED
      BY <2>2, <2>3, <3>1, <3>2
  <2> QED
    BY <2>1, <2>4, <2>5
<1>6. CASE Simplify(t) \/ Simplified(t)
  <2>1. m_tasks' = m_tasks /\ pc[t] \in {"simplify", "simplified"}
    BY <1>6 DEF Simplify, Simplified
  <2>2. \/ ReportSat(t) \/ ReportUnsat(t) \/ ReportUndef(t) \/ GiveUpCanceled(t)
        \/ /\ \E l \in {"simplify", "simplified", "cube", "throw"} : Goto(t, l)
           /\ m_branches' = m_branches
    BY <1>6 DEF Simplify, Simplified
  <2>3. CASE /\ \E l \in {"simplify", "simplified", "cube", "throw"} : Goto(t, l)
             /\ m_branches' = m_branches
    BY <1>4, <2>1, <2>3 DEF Goto, WorkersOK
  <2> QED
    BY <1>3, <2>1, <2>2, <2>3
<1>7. CASE CubeLoop(t)
  <2>1. pc[t] = "cube" /\ UNCHANGED m_active
    BY <1>7 DEF CubeLoop
  <2>2. CASE \E c \in NextCubes(t) : KeepCube(t, c)
    <3>1. PICK c \in NextCubes(t) : KeepCube(t, c)
      BY <2>2
    <3> DEFINE cs == Append(loc[t].cubes, c)
               cl == Clone(held[t], cs)
    <3>2. c \in SUBSET Leaves
      BY CubeTypes
    <3>3. pc'[t] = "cube" /\ cs \in Seq(SUBSET Leaves)
      BY <2>1, <3>1, <3>2, KeepCubeStep
    <3>4. CASE Len(cs) < BatchSize
      BY <1>4, <2>1, <3>1, <3>3, <3>4 DEF KeepCube
    <3>5. CASE ~(Len(cs) < BatchSize)
      <4>1. m_branches' = m_branches + Len(cs) /\ m_tasks' = Append(m_tasks, cl)
        BY <3>1, <3>5 DEF KeepCube, AddTask
      <4>2. cl \in States /\ cl.cubes = cs
        <5>1. held[t] \in States
          BY DEF WorkersOK
        <5> HIDE DEF cs
        <5>2. Clone(held[t], cs) \in States
          BY <3>3, <5>1, StateTypes
        <5> QED
          BY <5>1, <5>2 DEF Clone, States
      <4>3. cs # <<>>
        <5>1. loc[t].cubes \in Seq(SUBSET Leaves)
          BY DEF WorkersOK, Locals
        <5> QED
          BY <3>2, <5>1
      <4> HIDE DEF cs, cl
      <4>4. Weight(cl) = Len(cs) /\ Len(cs) \in Nat
        BY <3>3, <4>2, <4>3 DEF Weight
      <4>5. Load(t) = 1 /\ Load(t)' = 1
        BY <2>1, <3>3 DEF Load
      <4> QED
        BY <4>1, <4>2, <4>4, <4>5
    <3> QED
      BY <3>4, <3>5
  <2>3. CASE (ReportSat(t) \/ ReportUndef(t)) /\ m_tasks' = m_tasks
    BY <1>3, <2>1, <2>3
  <2>4. CASE /\ m_tasks' = m_tasks /\ m_branches' = m_branches
             /\ pc' = pc \/ \E l \in {"simplify", "tail", "throw"} : Goto(t, l)
    BY <1>4, <2>1, <2>4 DEF Goto, WorkersOK
  <2> QED
    BY <1>7, <2>2, <2>3, <2>4 DEF CubeLoop, NoCube, LastCube, ConquerSat, ConquerUnsat
<1>8. CASE AfterCubes(t)
  <2> DEFINE cs == loc[t].cubes
  <2>1. pc[t] = "tail" /\ m_branches' = m_branches + Len(cs) - 1 /\ m_tasks' = m_tasks
    BY <1>8 DEF AfterCubes
  <2>2. cs \in Seq(SUBSET Leaves) /\ Load(t) = 1
    BY <2>1 DEF WorkersOK, Locals, Load
  <2>3. CASE cs = <<>>
    <3>1. pc'[t] = "finish"
      BY <1>8, <2>3 DEF AfterCubes, Goto, WorkersOK
    <3> QED
      BY <2>1, <2>2, <2>3, <3>1 DEF Load
  <2>4. CASE cs # <<>>
    <3>1. pc'[t] = "split" /\ held' = [held EXCEPT ![t].cubes = cs]
      BY <1>8, <2>4 DEF AfterCubes, Goto, WorkersOK
    <3>2. held'[t].cubes = cs
      BY <3>1 DEF WorkersOK, States
    <3>3. Load(t)' = Len(cs)
      BY <2>4, <3>1, <3>2 DEF Load, Weight
    <3> QED
      BY <2>1, <2>2, <3>3
  <2> QED
    BY <2>3, <2>4
<1> QED
  BY <1>1, <1>2, <1>5, <1>6, <1>7, <1>8 DEF Step

\* The branches are finitely many and covered, between the calls by a count that
\* is not negative.
BranchInv ==
  /\ IsFiniteSet(Branches(QueueLoads)) /\ IsFiniteSet(Branches(WorkerLoads))
  /\ BranchesCovered
  /\ main = "ready" => m_branches >= 0

LEMMA BranchesWorker ==
  ASSUME PInv, BranchInv, NEW t \in Threads, Step(t) \/ SpuriousWakeup(t)
  PROVE  BranchInv'
<1> DEFINE q  == Cardinality(Branches(QueueLoads))
           r  == Cardinality(Branches(WorkerLoads))
           qq == Cardinality(Branches(QueueLoads))'
           rr == Cardinality(Branches(WorkerLoads))'
<1>1. WorkersOK /\ BoolsOK /\ RestOK
  BY PTypeParts DEF PInv, NothingLost
<1>2. WorkersOK' /\ Frame(t) /\ UNCHANGED client
  BY <1>1, WorkerStep, WorkerFlags DEF PInv, CubesInv
<1>3. m_branches \in Int /\ m_branches' \in Int /\ main' = main
  BY <1>1, <1>2, WorkerBranches DEF RestOK, client
<1>4. IsFiniteSet(Branches(QueueLoads)) /\ IsFiniteSet(Branches(WorkerLoads))
  BY DEF BranchInv
<1>5. q \in Nat /\ r \in Nat
  BY <1>4, FS_CardinalityType
<1>6. IsFiniteSet(Branches(WorkerLoads))' /\ rr = r + Load(t)' - Load(t)
  BY <1>1, <1>2, <1>4, WorkersCounted
<1>7. Load(t) \in Nat /\ Load(t)' \in Nat
  BY <1>1, <1>2, LoadTypes, WeightTypes DEF Load, WorkersOK
<1>8. main = "join"
  <2>1. pc[t] # "exit"
    BY DEF Step, LoopTest, TryGetTask, Wait, TaskDone, Shutdown, Split, Simplify, Simplified,
           CubeLoop, AfterCubes, AfterTask, Catch, SpuriousWakeup, Asleep
  <2> QED
    BY <1>1, <2>1 DEF PInv, CallInv, RestOK
<1>9. m_branches >= q + r
  BY <1>8 DEF BranchInv, BranchesCovered, OpenBranches
<1>10. IsFiniteSet(Branches(QueueLoads))' /\ m_branches' >= qq + rr
  <2>1. CASE m_tasks' = m_tasks /\ m_branches' >= m_branches + Load(t)' - Load(t)
    <3>1. QueueLoads' = QueueLoads
      BY <2>1 DEF QueueLoads, Weight
    <3>2. qq = q /\ IsFiniteSet(Branches(QueueLoads))'
      BY <1>4, <3>1
    <3> HIDE DEF q, qq, r, rr
    <3> QED
      BY <1>3, <1>5, <1>6, <1>7, <1>9, <2>1, <3>2
  <2>2. CASE /\ m_tasks # <<>> /\ m_tasks' = Front(m_tasks) /\ m_branches' = m_branches
             /\ Load(t) = 0 /\ Load(t)' = Weight(Last(m_tasks))
    <3>1. IsFiniteSet(Branches(QueueLoads))' /\ q = qq + Weight(Last(m_tasks))
      BY <1>1, <1>4, <2>2, QueueTaken
    <3>2. qq \in Nat
      BY <3>1, FS_CardinalityType
    <3> HIDE DEF q, qq, r, rr
    <3> QED
      BY <1>3, <1>5, <1>6, <1>7, <1>9, <2>2, <3>1, <3>2
  <2>3. CASE \E st \in States :
               /\ m_tasks' = Append(m_tasks, st)
               /\ m_branches' = m_branches + Weight(st) + Load(t)' - Load(t)
    <3>1. PICK st \in States :
               /\ m_tasks' = Append(m_tasks, st)
               /\ m_branches' = m_branches + Weight(st) + Load(t)' - Load(t)
      BY <2>3
    <3>2. IsFiniteSet(Branches(QueueLoads))' /\ qq = q + Weight(st)
      BY <1>1, <1>4, <3>1, QueueGrown
    <3>3. Weight(st) \in Nat
      BY WeightTypes
    <3> HIDE DEF q, qq, r, rr
    <3>4. m_branches' = m_branches + Weight(st) + Load(t)' - Load(t)
      BY <3>1
    <3> QED
      BY <1>3, <1>5, <1>6, <1>7, <1>9, <3>2, <3>3, <3>4
  <2> QED
    BY <1>1, <1>3, <2>1, <2>2, <2>3, StepCounted
<1> QED
  BY <1>3, <1>6, <1>8, <1>10 DEF BranchInv, BranchesCovered, OpenBranches

LEMMA BranchesInit == PInit => BranchInv
<1> SUFFICES ASSUME PInit PROVE BranchInv
  OBVIOUS
<1>1. m_tasks = <<>> /\ pc = [t \in Threads |-> "exit"] /\ main = "ready" /\ m_branches = 0
  BY DEF PInit
<1>2. IsFiniteSet(Branches(QueueLoads))
  <2>1. \A x \in DOMAIN QueueLoads : QueueLoads[x] = 0
    BY <1>1 DEF QueueLoads
  <2> QED
    BY <2>1, BranchesNone
<1>3. IsFiniteSet(Branches(WorkerLoads))
  <2>1. \A x \in DOMAIN WorkerLoads : WorkerLoads[x] = 0
    BY <1>1 DEF WorkerLoads, Load
  <2> QED
    BY <2>1, BranchesNone
<1> QED
  BY <1>1, <1>2, <1>3 DEF BranchInv, BranchesCovered

LEMMA BranchesCaller ==
  ASSUME PInv, BranchInv, Call \/ Interrupt \/ Join
  PROVE  BranchInv'
<1>1. WorkersOK /\ RestOK
  BY PTypeParts DEF PInv, NothingLost
<1>2. m_branches \in Int
  BY <1>1 DEF RestOK
<1>3. CASE Call
  <2> DEFINE st == [NoTask EXCEPT !.main = TRUE, !.region = Leaves]
             v  == QueueLoads'
             w  == WorkerLoads'
  <2>1. /\ main = "ready" /\ main' = "join" /\ m_tasks' = <<st>>
        /\ m_branches' = m_branches + 1 /\ pc' = [t \in Threads |-> "loop"]
    BY <1>3 DEF Call
  <2>2. st.cubes = <<>>
    BY DEF NoTask
  <2> HIDE DEF st
  <2>3. \A x \in DOMAIN w : w[x] = 0
    BY <2>1 DEF WorkerLoads, Load
  <2>4. IsFiniteSet(Branches(w)) /\ Cardinality(Branches(w)) = 0
    <3> HIDE DEF w
    <3> QED
      BY <2>3, BranchesNone
  <2>5. DOMAIN v = {1} /\ v[1] = 1
    <3>1. DOMAIN m_tasks' = {1} /\ m_tasks'[1] = st
      BY <2>1
    <3> QED
      BY <2>2, <3>1 DEF QueueLoads, Weight
  <2>6. IsFiniteSet(Branches(v)) /\ Cardinality(Branches(v)) = 1
    <3> DEFINE e == [x \in {} |-> 0]
    <3> HIDE DEF v
    <3>1. DOMAIN e = {} /\ \A x \in DOMAIN e : e[x] = 0
      OBVIOUS
    <3> HIDE DEF e
    <3>2. IsFiniteSet(Branches(e)) /\ Cardinality(Branches(e)) = 0
      BY <3>1, BranchesNone
    <3>3. 1 \notin DOMAIN e /\ DOMAIN v = DOMAIN e \cup {1} /\ v[1] \in Nat
          /\ \A y \in DOMAIN e : v[y] = e[y]
      BY <2>5, <3>1
    <3>4. /\ IsFiniteSet(Branches(v))
          /\ Cardinality(Branches(v)) = Cardinality(Branches(e)) + v[1]
      BY <3>2, <3>3, BranchesAdded
    <3> QED
      BY <2>5, <3>2, <3>4
  <2>7. m_branches >= 0
    BY <2>1 DEF BranchInv
  <2> QED
    BY <1>2, <2>1, <2>4, <2>6, <2>7 DEF BranchInv, BranchesCovered, OpenBranches
<1>4. CASE Interrupt \/ Join
  <2>1. UNCHANGED <<m_tasks, held, pc, m_branches>> /\ main = "join"
    BY <1>4 DEF Interrupt, Join, queue, verdict
  <2>2. QueueLoads' = QueueLoads /\ WorkerLoads' = WorkerLoads
    BY <2>1 DEF QueueLoads, WorkerLoads, Load, Weight
  <2>3. m_branches >= OpenBranches
    BY <2>1 DEF BranchInv, BranchesCovered
  <2>4. OpenBranches >= 0 /\ OpenBranches \in Int
    <3>1. Cardinality(Branches(QueueLoads)) \in Nat /\ Cardinality(Branches(WorkerLoads)) \in Nat
      BY FS_CardinalityType DEF BranchInv
    <3> QED
      BY <3>1 DEF OpenBranches
  <2>5. OpenBranches' = OpenBranches
    BY <2>2 DEF OpenBranches
  <2>6. (IsFiniteSet(Branches(QueueLoads)) /\ IsFiniteSet(Branches(WorkerLoads)))'
    BY <2>2 DEF BranchInv
  <2>7. m_branches' >= OpenBranches' /\ m_branches' >= 0
    BY <1>2, <2>1, <2>3, <2>4, <2>5
  <2> QED
    BY <2>6, <2>7 DEF BranchInv, BranchesCovered
<1> QED
  BY <1>3, <1>4

\* m_branches, unsigned in the code, never falls below the branches that are open.
THEOREM BranchesNeverWrap == PSpec => [](BranchesCovered /\ m_branches >= 0)
<1>1. PInit => BranchInv
  BY BranchesInit
<1>2. PInv /\ BranchInv /\ [PNext]_pvars => BranchInv'
  <2> SUFFICES ASSUME PInv, BranchInv, [PNext]_pvars PROVE BranchInv'
    OBVIOUS
  <2>1. CASE UNCHANGED pvars
    <3>1. UNCHANGED <<m_tasks, held, pc, m_branches, main>>
      BY <2>1 DEF pvars, queue, verdict, client
    <3>2. QueueLoads' = QueueLoads /\ WorkerLoads' = WorkerLoads
      BY <3>1 DEF QueueLoads, WorkerLoads, Load, Weight
    <3> QED
      BY <3>1, <3>2 DEF BranchInv, BranchesCovered, OpenBranches
  <2>2. CASE PNext
    BY <2>2, BranchesWorker, BranchesCaller DEF PNext
  <2> QED
    BY <2>1, <2>2
<1>3. PInv /\ BranchInv => BranchesCovered /\ m_branches >= 0
  <2> SUFFICES ASSUME PInv, BranchInv PROVE BranchesCovered /\ m_branches >= 0
    OBVIOUS
  <2>1. m_branches \in Int /\ main \in {"ready", "join"}
    BY DEF PInv, NothingLost, PTypeOK
  <2>2. Cardinality(Branches(QueueLoads)) \in Nat /\ Cardinality(Branches(WorkerLoads)) \in Nat
    BY FS_CardinalityType DEF BranchInv
  <2> QED
    BY <2>1, <2>2 DEF BranchInv, BranchesCovered, OpenBranches
<1> QED
  BY <1>1, <1>2, <1>3, PInvariance, PTL DEF PSpec

-----------------------------------------------------------------------------
(* The ring buffer and the units: the inductive invariant *)

\* The clause whose first literal is in the third word of an entry at b.
Key(b) == m_vectors[b + 2]

\* E is the set of the words at which entries begin.  An entry is complete, and
\* ends before the tail if it begins there.  From each the next one is younger,
\* and the youngest ends where the tail is.
Entries(E) ==
  \A b \in E :
    /\ Key(b) \in 1 .. Len(log) /\ EntryIs(b, Key(b))
    /\ b < m_tail => b + 2 + m_vectors[b + 1] <= m_tail
    /\ next(b) = m_tail => Key(b) = Len(log)
    /\ next(b) # m_tail => next(b) \in E /\ Key(next(b)) > Key(b)

\* A reader is at the beginning of an entry it has not passed, or at the end.
Readers(E) ==
  \A s \in Solvers :
    /\ Pending(s) => m_heads[s] \in E /\ last[s] < Key(m_heads[s])
    /\ ~Pending(s) => last[s] = Len(log)

RingInv == \E E \in SUBSET (0 .. Size - 1) : Entries(E) /\ Readers(E)

\* The mutex is held, and the flag is set, while clauses are imported.
MutexInv ==
  /\ \A s \in Solvers : at[s] = "drain" => m_par_syncing_clauses[s]
  /\ blocked = {}

\* The limits are within the lists.
LimitsInv ==
  \A s \in Solvers :
    m_par_limit_in[s] <= Len(m_units) /\ m_par_limit_out[s] <= Len(m_trail[s])

\* What is in the common list is common, and somebody has derived it.
ListInv ==
  \A i \in DOMAIN m_units :
    Common(m_units[i]) /\ \E r \in Solvers : <<r, m_units[i]>> \in derived

UnitsInv == LimitsInv /\ ListInv /\ UnitsDelivered /\ UnitsGenuine

SInv == TypeOK /\ RingInv /\ MutexInv /\ UnitsInv

-----------------------------------------------------------------------------
(* Numbers *)

\* A set of naturals up to n has a greatest element.
LEMMA MaxExists ==
  ASSUME NEW n \in Nat, NEW S \in SUBSET (0 .. n), S # {}
  PROVE  \E m \in S : \A x \in S : x <= m
<1> DEFINE T == {n - x : x \in S}
<1>1. T \subseteq Nat
  OBVIOUS
<1>2. T # {}
  <2>1. PICK x : x \in S
    OBVIOUS
  <2>2. n - x \in T
    BY <2>1
  <2> QED
    BY <2>2
<1> HIDE DEF T
<1>3. IsWellFoundedOn(OpToRel(<, Nat), Nat)
  BY NatLessThanWellFounded
<1>4. PICK y \in T : \A z \in T : ~(<<z, y>> \in OpToRel(<, Nat))
  BY <1>1, <1>2, <1>3, WFMin
<1>5. \A z \in T : ~(z < y)
  BY <1>1, <1>4 DEF OpToRel
<1>6. PICK m \in S : y = n - m
  BY <1>4 DEF T
<1>7. ASSUME NEW x \in S PROVE x <= m
  <2>1. n - x \in T
    BY DEF T
  <2>2. ~(n - x < n - m)
    BY <1>5, <1>6, <2>1
  <2> QED
    BY <2>2
<1> QED
  BY <1>7

LEMMA SeqElement ==
  ASSUME NEW S, NEW q \in Seq(S), NEW i \in 1 .. Len(q)
  PROVE  q[i] \in S
OBVIOUS

\* A finite set of naturals has a greatest element.
LEMMA FiniteMax ==
  ASSUME NEW S \in SUBSET Nat, IsFiniteSet(S), S # {}
  PROVE  \E m \in S : \A x \in S : x <= m
<1> DEFINE Bad == {A \in FiniteSubsetsOf(S) : A # {} /\ ~(\E m \in A : \A x \in A : x <= m)}
<1> SUFFICES ASSUME Bad # {} PROVE FALSE
  BY DEF FiniteSubsetsOf
<1>1. PICK A \in Bad : \A B \in Bad : ~(<<B, A>> \in StrictSubsetOrdering(S))
  <2>1. Bad \subseteq FiniteSubsetsOf(S)
    OBVIOUS
  <2> HIDE DEF Bad
  <2> QED
    BY <2>1, FS_StrictSubsetOrderingWellFounded, WFMin
<1>2. PICK a : a \in A
  OBVIOUS
<1> DEFINE B == A \ {a}
<1>3. A \subseteq Nat /\ B \in FiniteSubsetsOf(S) /\ A \in FiniteSubsetsOf(S)
  BY FS_Subset DEF FiniteSubsetsOf
<1>4. <<B, A>> \in StrictSubsetOrdering(S)
  BY <1>2, <1>3 DEF StrictSubsetOrdering, FiniteSubsetsOf
<1>5. B \notin Bad
  BY <1>1, <1>4
<1>6. CASE B = {}
  <2>1. \A x \in A : x = a /\ a <= a
    BY <1>2, <1>3, <1>6
  <2> QED
    BY <1>1, <1>2, <2>1
<1>7. CASE B # {}
  <2>1. PICK m \in B : \A x \in B : x <= m
    BY <1>3, <1>5, <1>7
  <2>2. CASE a <= m
    BY <1>1, <2>1, <2>2
  <2>3. CASE m <= a
    <3>1. \A x \in A : x <= a
      BY <1>2, <1>3, <2>1, <2>3
    <3> QED
      BY <1>1, <1>2, <3>1
  <2> QED
    BY <1>2, <1>3, <2>1, <2>2, <2>3
<1> QED
  BY <1>6, <1>7

MaxLength == CHOOSE n \in Lengths : \A k \in Lengths : k <= n

LEMMA WordsParts ==
  /\ MaxLength \in Lengths /\ \A k \in Lengths : k <= MaxLength
  /\ Words = 0 .. Size + MaxLength + 1
  /\ Size \in Nat \ {0} /\ Lengths \subseteq Nat \ {0, 1}
<1>1. \E n \in Lengths : \A k \in Lengths : k <= n
  BY SatParallelAssumption, FiniteMax
<1> QED
  BY <1>1, SatParallelAssumption DEF MaxLength, Words

\* A function that follows nx as long as it is in Over is well defined when nx goes
\* up, or back to 0.
LEMMA ChainRecursion ==
  ASSUME NEW n \in Nat \ {0}, NEW nx \in [0 .. n - 1 -> 0 .. n - 1],
         NEW Over \in SUBSET (1 .. n - 1), \A h \in Over : nx[h] = 0 \/ nx[h] > h
  PROVE  \E g : g = [h \in 0 .. n - 1 |-> IF h \in Over THEN g[nx[h]] ELSE h]
<1> DEFINE D(m) == {0} \cup (m .. n - 1)
           Good(g, m) == \A h \in D(m) : g[h] = IF h \in Over THEN g[nx[h]] ELSE h
           Bad == {m \in 0 .. n : ~(\E g \in [D(m) -> 0 .. n - 1] : Good(g, m))}
<1>1. n \notin Bad
  <2>1. [h \in {0} |-> 0] \in [D(n) -> 0 .. n - 1]
    OBVIOUS
  <2>2. Good([h \in {0} |-> 0], n)
    OBVIOUS
  <2> QED
    BY <2>1, <2>2
<1>2. ASSUME NEW m \in 0 .. n - 1, m + 1 \notin Bad
      PROVE  m \notin Bad
  <2>0. m + 1 \in 0 .. n
    OBVIOUS
  <2>1. PICK g \in [D(m + 1) -> 0 .. n - 1] : Good(g, m + 1)
    <3> HIDE DEF Good, D
    <3> QED
      BY <1>2, <2>0
  <2> DEFINE v == IF m \in Over THEN g[nx[m]] ELSE m
             f == [h \in D(m) |-> IF h \in D(m + 1) THEN g[h] ELSE v]
  <2>2. D(m) = D(m + 1) \cup {m}
    <3>1. \A x \in m .. n - 1 : x = m \/ x \in m + 1 .. n - 1
      OBVIOUS
    <3>2. m \in m .. n - 1 /\ \A x \in m + 1 .. n - 1 : x \in m .. n - 1
      OBVIOUS
    <3> QED
      BY <3>1, <3>2
  <2>3. m \in Over => nx[m] \in D(m + 1)
    OBVIOUS
  <2>4. v \in 0 .. n - 1
    BY <2>1, <2>3
  <2>5. f \in [D(m) -> 0 .. n - 1]
    BY <2>1, <2>4
  <2>6. ASSUME NEW h \in D(m + 1) PROVE f[h] = IF h \in Over THEN f[nx[h]] ELSE h
    <3>1. h \in Over => nx[h] \in D(m + 1)
      OBVIOUS
    <3>2. f[h] = g[h] /\ (h \in Over => f[nx[h]] = g[nx[h]])
      BY <2>2, <3>1
    <3> QED
      BY <2>1, <3>2
  <2>7. m \notin D(m + 1) => f[m] = IF m \in Over THEN f[nx[m]] ELSE m
    BY <2>2, <2>3
  <2>8. Good(f, m)
    <3> HIDE DEF f, D
    <3> QED
      BY <2>2, <2>6, <2>7
  <2> HIDE DEF f, Good, D
  <2> QED
    BY <2>5, <2>8
<1>3. Bad = {}
  <2> SUFFICES ASSUME Bad # {} PROVE FALSE
    OBVIOUS
  <2>1. Bad \in SUBSET (0 .. n)
    OBVIOUS
  <2> HIDE DEF Bad
  <2>2. PICK m \in Bad : \A x \in Bad : x <= m
    BY <2>1, MaxExists
  <2>3. m \in 0 .. n - 1 /\ m + 1 \notin Bad
    BY <1>1, <2>1, <2>2
  <2> QED
    BY <1>2, <2>2, <2>3
<1>4. PICK g \in [D(0) -> 0 .. n - 1] : Good(g, 0)
  <2>1. 0 \in 0 .. n
    OBVIOUS
  <2> HIDE DEF Good, D
  <2> QED
    BY <1>3, <2>1
<1>5. D(0) = 0 .. n - 1
  <2>1. 0 \in 0 .. n - 1
    OBVIOUS
  <2> QED
    BY <2>1
<1>6. g = [h \in 0 .. n - 1 |-> IF h \in Over THEN g[nx[h]] ELSE h]
  BY <1>4, <1>5
<1> QED
  BY <1>6

-----------------------------------------------------------------------------
(* The chain of entries *)

LEMMA NextTypes ==
  ASSUME TypeOK, NEW b \in 0 .. Size - 1
  PROVE  /\ b \in Words /\ b + 1 \in Words /\ b + 2 \in Words
         /\ m_vectors[b] \in Nat /\ m_vectors[b + 1] \in Nat /\ m_vectors[b + 2] \in Nat
         /\ next(b) \in 0 .. Size - 1
         /\ next(b) = 0 \/ next(b) > b
         /\ next(b) = IF b + 2 + m_vectors[b + 1] >= Size THEN 0 ELSE b + 2 + m_vectors[b + 1]
<1>1. b \in Words /\ b + 1 \in Words /\ b + 2 \in Words
  BY WordsParts
<1>2. m_vectors[b] \in Nat /\ m_vectors[b + 1] \in Nat /\ m_vectors[b + 2] \in Nat
  BY <1>1 DEF TypeOK
<1> QED
  BY <1>1, <1>2, WordsParts DEF next, get_length

\* The loop that moves a head ends, and does what its definition says.
LEMMA MoveHeadDef ==
  ASSUME TypeOK, NEW cap \in Nat, NEW h \in 0 .. Size - 1
  PROVE  MoveHead(cap)[h] = IF m_tail < h /\ h < m_tail + cap
                            THEN MoveHead(cap)[next(h)] ELSE h
<1> DEFINE D  == 0 .. Size - 1
           Over == {b \in D : m_tail < b /\ b < m_tail + cap}
           nx == [b \in D |-> next(b)]
<1>1. Size \in Nat \ {0} /\ m_tail \in D
  BY WordsParts DEF TypeOK
<1>2. nx \in [D -> D] /\ Over \in SUBSET (1 .. Size - 1)
  BY <1>1, NextTypes
<1>3. \A b \in Over : nx[b] = 0 \/ nx[b] > b
  BY NextTypes
<1>4. PICK g : g = [b \in D |-> IF b \in Over THEN g[nx[b]] ELSE b]
  <2> HIDE DEF nx, Over
  <2> QED
    BY <1>1, <1>2, <1>3, ChainRecursion, SMTT(30)
<1>5. g = [b \in D |-> IF m_tail < b /\ b < m_tail + cap THEN g[next(b)] ELSE b]
  BY <1>4
<1>6. MoveHead(cap) = CHOOSE f : f = [b \in D |-> IF m_tail < b /\ b < m_tail + cap
                                                  THEN f[next(b)] ELSE b]
  BY DEF MoveHead
<1>7. MoveHead(cap) = [b \in D |-> IF m_tail < b /\ b < m_tail + cap
                                   THEN MoveHead(cap)[next(b)] ELSE b]
  BY <1>5, <1>6
<1> QED
  BY <1>7

\* A head leaves the words that are overwritten, to a younger entry or the tail.
LEMMA MoveHeadLands ==
  ASSUME TypeOK, NEW cap \in Nat, NEW E \in SUBSET (0 .. Size - 1), Entries(E), NEW b \in E
  PROVE  LET r == MoveHead(cap)[b]
         IN  \/ r = m_tail
             \/ r \in E /\ Key(r) >= Key(b) /\ (r < m_tail \/ r >= m_tail + cap)
<1> DEFINE Lands(h) == LET r == MoveHead(cap)[h]
                       IN  \/ r = m_tail
                           \/ r \in E /\ Key(r) >= Key(h) /\ (r < m_tail \/ r >= m_tail + cap)
           Bad == {h \in E : ~Lands(h)}
<1>1. Size \in Nat \ {0} /\ m_tail \in 0 .. Size - 1
  BY WordsParts DEF TypeOK
<1>2. \A h \in E : h \in 0 .. Size - 1 /\ Key(h) \in Nat
  BY NextTypes DEF Key
<1>3. ASSUME NEW h \in 0 .. Size - 1, ~(m_tail < h /\ h < m_tail + cap)
      PROVE  MoveHead(cap)[h] = h
  BY <1>3, MoveHeadDef
<1>4. MoveHead(cap)[m_tail] = m_tail
  BY <1>1, <1>3
<1>5. ASSUME NEW h \in E, ~(m_tail < h /\ h < m_tail + cap)
      PROVE  Lands(h)
  BY <1>1, <1>2, <1>3, <1>5
<1>6. ASSUME NEW h \in E, m_tail < h, h < m_tail + cap, next(h) > h => Lands(next(h))
      PROVE  Lands(h)
  <2>1. MoveHead(cap)[h] = MoveHead(cap)[next(h)]
    BY <1>2, <1>6, MoveHeadDef
  <2>2. CASE next(h) = m_tail
    BY <1>4, <2>1, <2>2
  <2>3. CASE next(h) # m_tail
    <3>1. next(h) \in E /\ Key(next(h)) > Key(h)
      BY <2>3 DEF Entries
    <3>2. next(h) = 0 \/ next(h) > h
      BY <1>2, NextTypes
    <3>3. Lands(next(h))
      <4>1. CASE next(h) = 0
        BY <1>1, <1>5, <3>1, <4>1
      <4>2. CASE next(h) > h
        BY <1>6, <4>2
      <4> QED
        BY <3>2, <4>1, <4>2
    <3>4. ASSUME NEW r \in E, Key(r) >= Key(next(h)) PROVE Key(r) >= Key(h)
      <4>1. Key(r) \in Nat /\ Key(next(h)) \in Nat /\ Key(h) \in Nat
        BY <1>2, <3>1
      <4> QED
        BY <3>1, <3>4, <4>1
    <3> QED
      BY <2>1, <3>3, <3>4
  <2> QED
    BY <2>2, <2>3
<1>7. Bad = {}
  <2> SUFFICES ASSUME Bad # {} PROVE FALSE
    OBVIOUS
  <2>1. Bad \in SUBSET (0 .. Size - 1) /\ Size - 1 \in Nat
    <3>1. Bad \subseteq E
      OBVIOUS
    <3> HIDE DEF Bad
    <3> QED
      BY <1>1, <3>1
  <2> HIDE DEF Bad
  <2>2. PICK h \in Bad : \A x \in Bad : x <= h
    BY <2>1, MaxExists
  <2> HIDE DEF Lands
  <2>3. h \in E /\ ~Lands(h)
    BY <2>2 DEF Bad
  <2>4. m_tail < h /\ h < m_tail + cap
    BY <1>5, <2>3
  <2>5. next(h) > h /\ ~Lands(next(h))
    BY <1>6, <2>3, <2>4
  <2>6. next(h) \in E
    BY <1>1, <1>2, <2>3, <2>4, <2>5, NextTypes DEF Entries
  <2>7. next(h) \in Bad
    BY <2>5, <2>6 DEF Bad
  <2>8. next(h) <= h
    BY <2>2, <2>7
  <2>9. h \in Nat /\ next(h) \in Nat
    <3>1. h \in 0 .. Size - 1 /\ next(h) \in 0 .. Size - 1
      BY <2>3, <2>6
    <3> QED
      BY <1>1, <3>1
  <2> QED
    BY <2>5, <2>8, <2>9
<1> QED
  BY <1>7

-----------------------------------------------------------------------------
(* A clause is added *)

\* The words a clause of length n takes, and the entries it leaves.
LEMMA AddVectorParts ==
  ASSUME TypeOK, NEW s \in Solvers, NEW n \in Lengths, AddVector(s, n)
  PROVE  /\ m_tail \in 0 .. Size - 1 /\ n \in Nat /\ n >= 2
         /\ m_vectors' \in [Words -> Nat]
         /\ \A w \in Words : w < m_tail \/ w >= m_tail + n + 2 => m_vectors'[w] = m_vectors[w]
         /\ m_tail \in Words /\ m_vectors'[m_tail] = s
         /\ m_tail + 1 \in Words /\ m_vectors'[m_tail + 1] = n
         /\ \A w \in m_tail + 2 .. m_tail + 1 + n :
              w \in Words /\ m_vectors'[w] = Len(log) + 1
         /\ m_tail' \in 0 .. Size - 1
         /\ m_tail + n + 2 >= Size => m_tail' = 0
         /\ m_tail + n + 2 < Size => m_tail' = m_tail + n + 2
         /\ log' \in Seq([owner : Solvers, len : Lengths])
         /\ Len(log) \in Nat /\ Len(log') = Len(log) + 1
         /\ \A k \in 1 .. Len(log) : log'[k] = log[k]
         /\ log'[Len(log) + 1] = [owner |-> s, len |-> n]
<1>1. /\ m_tail \in 0 .. Size - 1 /\ n \in Nat /\ n >= 2 /\ n <= MaxLength
      /\ MaxLength \in Nat /\ Size \in Nat \ {0}
      /\ s \in Nat /\ Len(log) \in Nat
  BY WordsParts, SatParallelAssumption DEF TypeOK, Solvers
<1> DEFINE end == m_tail + n + 2
<1>2. /\ m_vectors' = [w \in Words |->
                         IF w = m_tail THEN s
                         ELSE IF w = m_tail + 1 THEN n
                         ELSE IF m_tail + 1 < w /\ w < end THEN Len(log) + 1 ELSE m_vectors[w]]
      /\ m_tail' = IF end >= Size THEN 0 ELSE end
      /\ log' = Append(log, [owner |-> s, len |-> n])
  BY DEF AddVector
<1>3. \A w \in Words : w \in Nat
  BY <1>1, WordsParts
<1>4. /\ m_tail \in Words /\ m_tail + 1 \in Words
      /\ \A w \in m_tail + 2 .. m_tail + 1 + n : w \in Words
  BY <1>1, WordsParts
<1>5. m_vectors' \in [Words -> Nat]
  BY <1>1, <1>2 DEF TypeOK
<1>6. /\ \A w \in Words : w < m_tail \/ w >= m_tail + n + 2 => m_vectors'[w] = m_vectors[w]
      /\ m_vectors'[m_tail] = s /\ m_vectors'[m_tail + 1] = n
  BY <1>1, <1>2, <1>3, <1>4
<1>7. \A w \in m_tail + 2 .. m_tail + 1 + n : m_vectors'[w] = Len(log) + 1
  BY <1>1, <1>2, <1>4
<1>8. m_tail' \in 0 .. Size - 1
  BY <1>1, <1>2
<1>9. /\ log' \in Seq([owner : Solvers, len : Lengths])
      /\ Len(log') = Len(log) + 1
      /\ \A k \in 1 .. Len(log) : log'[k] = log[k]
      /\ log'[Len(log) + 1] = [owner |-> s, len |-> n]
  <2>1. [owner |-> s, len |-> n] \in [owner : Solvers, len : Lengths]
    OBVIOUS
  <2> QED
    BY <1>1, <1>2, <2>1 DEF TypeOK
<1> QED
  BY <1>1, <1>2, <1>4, <1>5, <1>6, <1>7, <1>8, <1>9

\* An entry outside the words that are overwritten is as it was.
LEMMA EntryKept ==
  ASSUME TypeOK, NEW s \in Solvers, NEW n \in Lengths, AddVector(s, n),
         NEW b \in 0 .. Size - 1, Key(b) \in 1 .. Len(log), EntryIs(b, Key(b)),
         b + 2 + m_vectors[b + 1] <= m_tail \/ b >= m_tail + n + 2
  PROVE  /\ Key(b)' = Key(b) /\ m_vectors'[b + 1] = m_vectors[b + 1]
         /\ EntryIs(b, Key(b))' /\ next(b)' = next(b)
<1> DEFINE k == Key(b)
<1>1. /\ log[k].len \in Lengths /\ log[k].len \in Nat /\ log[k].len >= 2
      /\ log[k].len <= MaxLength /\ MaxLength \in Nat /\ Size \in Nat \ {0}
  <2>1. k \in 1 .. Len(log) /\ log \in Seq([owner : Solvers, len : Lengths])
    BY DEF TypeOK
  <2> HIDE DEF k
  <2>2. log[k] \in [owner : Solvers, len : Lengths]
    BY <2>1, SeqElement
  <2>3. log[k].len \in Lengths
    BY <2>2
  <2> DEFINE len == log[k].len
  <2>4. len \in Lengths
    BY <2>3
  <2> HIDE DEF len
  <2>5. len \in Nat /\ len >= 2 /\ len <= MaxLength /\ MaxLength \in Nat /\ Size \in Nat \ {0}
    BY <2>4, WordsParts
  <2> QED
    BY <2>4, <2>5 DEF len
<1>2. /\ m_vectors[b] = log[k].owner /\ m_vectors[b + 1] = log[k].len
      /\ \A w \in b + 2 .. b + 1 + log[k].len : m_vectors[w] = k
  BY DEF EntryIs
<1>3. m_tail \in Nat /\ n \in Nat
  <2>1. m_tail \in 0 .. Size - 1 /\ n \in Nat
    BY AddVectorParts
  <2> QED
    BY <1>1, <2>1
<1>4. ASSUME NEW w \in b .. b + 1 + log[k].len
      PROVE  m_vectors'[w] = m_vectors[w]
  <2>1. w \in Words
    BY <1>1, WordsParts
  <2>2. w < m_tail \/ w >= m_tail + n + 2
    BY <1>1, <1>2, <1>3
  <2> QED
    BY <2>1, <2>2, AddVectorParts
<1>5. /\ b \in b .. b + 1 + log[k].len /\ b + 1 \in b .. b + 1 + log[k].len
      /\ b + 2 \in b .. b + 1 + log[k].len
      /\ \A w \in b + 2 .. b + 1 + log[k].len : w \in b .. b + 1 + log[k].len
  BY <1>1
<1>6. Key(b)' = k /\ m_vectors'[b] = m_vectors[b] /\ m_vectors'[b + 1] = m_vectors[b + 1]
  BY <1>4, <1>5 DEF Key
<1>7. log'[k] = log[k]
  BY AddVectorParts
<1>8. EntryIs(b, Key(b))'
  <2>1. \A w \in b + 2 .. b + 1 + log[k].len : m_vectors'[w] = k
    BY <1>2, <1>4, <1>5
  <2> HIDE DEF k
  <2> QED
    BY <1>2, <1>6, <1>7, <2>1 DEF EntryIs
<1>9. next(b)' = next(b)
  BY <1>6 DEF next, get_length
<1> QED
  BY <1>6, <1>8, <1>9

\* The entries after a clause of length n was added at t: those that begin outside
\* its words, and itself.
Left(E, t, n) == {b \in E : b < t \/ b >= t + n + 2} \cup {t}

LEMMA EntriesAdd ==
  ASSUME TypeOK, NEW s \in Solvers, NEW n \in Lengths, AddVector(s, n),
         NEW E \in SUBSET (0 .. Size - 1), Entries(E), NEW t, t = m_tail
  PROVE  /\ Left(E, t, n) \in SUBSET (0 .. Size - 1)
         /\ Entries(Left(E, t, n))'
         /\ Key(t)' = Len(log) + 1
         /\ \A b \in Left(E, t, n) : b # t => Key(b)' = Key(b)
<1> DEFINE end == t + n + 2
           F == Left(E, t, n)
<1>0. \A w \in t + 2 .. t + 1 + n : m_vectors'[w] = Len(log) + 1
  <2>1. \A w \in m_tail + 2 .. m_tail + 1 + n : m_vectors'[w] = Len(log) + 1
    BY AddVectorParts
  <2> QED
    BY <2>1
<1>1. /\ t \in 0 .. Size - 1 /\ t \in Nat /\ n \in Nat /\ n >= 2 /\ Size \in Nat \ {0}
      /\ Len(log) \in Nat /\ Len(log') = Len(log) + 1
  <2>1. t \in 0 .. Size - 1 /\ n \in Nat /\ n >= 2
        /\ Len(log) \in Nat /\ Len(log') = Len(log) + 1
    BY AddVectorParts
  <2> QED
    BY <2>1, WordsParts
<1>2. F \in SUBSET (0 .. Size - 1)
  BY <1>1 DEF Left
<1>3. /\ m_tail' \in 0 .. Size - 1 /\ (end >= Size => m_tail' = 0)
      /\ (end < Size => m_tail' = end)
  BY AddVectorParts
<1>4. /\ Key(t)' = Len(log) + 1 /\ m_vectors'[t] = s /\ m_vectors'[t + 1] = n
      /\ next(t)' = m_tail'
  <2>1. m_vectors'[t + 1] = n /\ m_vectors'[t] = s
    BY AddVectorParts
  <2>2. t + 2 \in t + 2 .. t + 1 + n
    BY <1>1
  <2>3. Key(t)' = Len(log) + 1
    BY <1>0, <2>2 DEF Key
  <2>4. next(t)' = IF end >= Size THEN 0 ELSE end
    <3>1. next(t)' = IF t + 2 + m_vectors'[t + 1] >= Size THEN 0 ELSE t + 2 + m_vectors'[t + 1]
      BY DEF next, get_length
    <3> QED
      BY <1>1, <2>1, <3>1
  <2> QED
    BY <1>1, <1>3, <2>1, <2>3, <2>4
<1>5. EntryIs(t, Len(log))'
  <2>1. log'[Len(log) + 1] = [owner |-> s, len |-> n]
    BY AddVectorParts
  <2>2. log'[Len(log) + 1].owner = s /\ log'[Len(log) + 1].len = n
    BY <2>1
  <2> QED
    BY <1>0, <1>1, <1>4, <2>2 DEF EntryIs
<1>6. ASSUME NEW b \in F, b # t
      PROVE  /\ b \in E /\ b \in 0 .. Size - 1 /\ b \in Nat
             /\ b < t \/ b >= end
             /\ Key(b) \in 1 .. Len(log) /\ Key(b)' = Key(b)
             /\ m_vectors'[b + 1] = m_vectors[b + 1] /\ m_vectors[b + 1] \in Nat
             /\ EntryIs(b, Key(b))' /\ next(b)' = next(b)
             /\ b < t => b + 2 + m_vectors[b + 1] <= t
  <2>1. b \in E /\ b \in 0 .. Size - 1 /\ (b < t \/ b >= end)
    BY <1>2, <1>6 DEF Left
  <2>2. /\ Key(b) \in 1 .. Len(log) /\ EntryIs(b, Key(b))
        /\ b < t => b + 2 + m_vectors[b + 1] <= t
    BY <2>1 DEF Entries
  <2>3. b + 2 + m_vectors[b + 1] <= t \/ b >= end
    BY <2>1, <2>2
  <2>4. b \in Nat /\ m_vectors[b + 1] \in Nat
    BY <1>1, <2>1, NextTypes
  <2> QED
    BY <2>1, <2>2, <2>3, <2>4, EntryKept
<1>7. ASSUME NEW b \in F, b # t
      PROVE  next(b)' # m_tail' /\ next(b)' \in F /\ Key(next(b))' > Key(b)'
  <2>0. b \in Nat /\ Key(b) \in Nat /\ Key(b) <= Len(log)
    <3>1. b \in Nat /\ Key(b) \in 1 .. Len(log)
      BY <1>6, <1>7
    <3> QED
      BY <1>1, <3>1
  <2>1. CASE b < t
    <3>1. next(b) = b + 2 + m_vectors[b + 1] /\ next(b) <= t /\ next(b) > b
      <4>1. /\ b \in 0 .. Size - 1 /\ m_vectors[b + 1] \in Nat
            /\ b + 2 + m_vectors[b + 1] <= t
        BY <1>6, <1>7, <2>1
      <4>2. next(b) = IF b + 2 + m_vectors[b + 1] >= Size THEN 0 ELSE b + 2 + m_vectors[b + 1]
        BY <4>1, NextTypes
      <4> QED
        BY <1>1, <2>0, <4>1, <4>2
    <3>2. next(b) # m_tail' /\ next(b) \in Nat
      BY <1>1, <1>3, <2>0, <3>1, <1>6, <1>7
    <3>3. CASE next(b) = t
      <4>1. Key(next(b))' = Len(log) + 1
        BY <1>4, <1>6, <1>7, <3>3
      <4>2. Len(log) + 1 > Key(b)
        BY <1>1, <2>0
      <4> QED
        BY <1>6, <1>7, <3>2, <3>3, <4>1, <4>2 DEF Left
    <3>4. CASE next(b) # t
      <4>1. next(b) \in E /\ Key(next(b)) > Key(b)
        BY <1>6, <1>7, <3>4 DEF Entries
      <4>2. next(b) < t
        BY <1>1, <3>1, <3>2, <3>4
      <4>3. next(b) \in F
        BY <4>1, <4>2 DEF Left
      <4>4. next(b)' = next(b) /\ Key(next(b))' = Key(next(b))
        BY <1>6, <1>7, <3>4, <4>3
      <4> QED
        BY <1>6, <1>7, <3>2, <4>1, <4>3, <4>4
    <3> QED
      BY <3>3, <3>4
  <2>2. CASE b >= end
    <3>1. b \in 0 .. Size - 1
      BY <1>6, <1>7
    <3>2. end < Size /\ m_tail' = end
      BY <1>1, <1>3, <2>0, <2>2, <3>1
    <3>3. next(b) \in Nat /\ (next(b) = 0 \/ next(b) > b)
      BY <1>1, <3>1, NextTypes
    <3>4. next(b) # m_tail' /\ (next(b) = 0 \/ next(b) >= end)
      BY <1>1, <2>0, <2>2, <3>2, <3>3
    <3>5. CASE next(b) = t
      <4>1. Key(next(b))' = Len(log) + 1
        BY <1>4, <1>6, <1>7, <3>5
      <4>2. Len(log) + 1 > Key(b)
        BY <1>1, <2>0
      <4> QED
        BY <1>6, <1>7, <3>4, <3>5, <4>1, <4>2 DEF Left
    <3>6. CASE next(b) # t
      <4>1. next(b) \in E /\ Key(next(b)) > Key(b)
        BY <1>6, <1>7, <3>6 DEF Entries
      <4>2. next(b) < t \/ next(b) >= end
        BY <1>1, <3>3, <3>4, <3>6
      <4>3. next(b) \in F
        BY <4>1, <4>2 DEF Left
      <4>4. next(b)' = next(b) /\ Key(next(b))' = Key(next(b))
        BY <1>6, <1>7, <3>6, <4>3
      <4> QED
        BY <1>6, <1>7, <3>4, <4>1, <4>3, <4>4
    <3> QED
      BY <3>5, <3>6
  <2> QED
    BY <1>6, <1>7, <2>1, <2>2
<1>8. ASSUME NEW b \in F
      PROVE  /\ Key(b)' \in 1 .. Len(log') /\ EntryIs(b, Key(b))'
             /\ b < m_tail' => b + 2 + m_vectors'[b + 1] <= m_tail'
             /\ next(b)' = m_tail' => Key(b)' = Len(log')
             /\ next(b)' # m_tail' => next(b)' \in F /\ Key(next(b))' > Key(b)'
  <2>1. CASE b = t
    <3>1. Len(log) + 1 \in 1 .. Len(log')
      BY <1>1
    <3>2. EntryIs(b, Key(b))'
      BY <1>1, <1>4, <1>5, <2>1 DEF EntryIs
    <3>3. t < m_tail' => t + 2 + m_vectors'[t + 1] <= m_tail'
      BY <1>1, <1>3, <1>4
    <3> QED
      BY <1>1, <1>4, <2>1, <3>1, <3>2, <3>3
  <2>2. CASE b # t
    <3>1. Key(b)' \in 1 .. Len(log')
      <4>1. Key(b)' \in 1 .. Len(log)
        BY <1>6, <2>2
      <4> QED
        BY <1>1, <4>1
    <3>2. b < m_tail' => b + 2 + m_vectors'[b + 1] <= m_tail'
      <4>1. /\ b \in Nat /\ (b < t \/ b >= end) /\ m_vectors[b + 1] \in Nat
            /\ m_vectors'[b + 1] = m_vectors[b + 1]
            /\ (b < t => b + 2 + m_vectors[b + 1] <= t)
        BY <1>6, <2>2
      <4> QED
        BY <1>1, <1>3, <4>1
    <3> QED
      BY <1>6, <1>7, <2>2, <3>1, <3>2
  <2> QED
    BY <2>1, <2>2
<1>9. Entries(F)'
  <2>1. \A b \in F : /\ Key(b)' \in 1 .. Len(log') /\ EntryIs(b, Key(b))'
                     /\ b < m_tail' => b + 2 + m_vectors'[b + 1] <= m_tail'
                     /\ next(b)' = m_tail' => Key(b)' = Len(log')
                     /\ next(b)' # m_tail' => next(b)' \in F /\ Key(next(b))' > Key(b)'
    BY <1>8
  <2> HIDE DEF F
  <2> QED
    BY <2>1 DEF Entries
<1> QED
  BY <1>2, <1>4, <1>6, <1>9

LEMMA RingAdd ==
  ASSUME TypeOK, NEW s \in Solvers, NEW n \in Lengths, AddVector(s, n), RingInv
  PROVE  RingInv' /\ m_heads' \in [Solvers -> 0 .. Size - 1]
<1>1. PICK E \in SUBSET (0 .. Size - 1) : Entries(E) /\ Readers(E)
  BY DEF RingInv
<1>2. PICK t : t = m_tail
  OBVIOUS
<1> DEFINE F == Left(E, t, n)
<1>3. /\ F \in SUBSET (0 .. Size - 1) /\ Entries(F)' /\ Key(t)' = Len(log) + 1
      /\ \A b \in F : b # t => Key(b)' = Key(b)
  BY <1>1, <1>2, EntriesAdd
<1>4. /\ t \in 0 .. Size - 1 /\ n \in Nat /\ Size \in Nat \ {0} /\ Len(log) \in Nat
      /\ t \in F /\ n + 2 \in Nat
  <2>1. t \in 0 .. Size - 1 /\ n \in Nat /\ Len(log) \in Nat
    BY <1>2, AddVectorParts
  <2> QED
    BY <2>1, WordsParts DEF Left
<1>5. /\ m_heads' = [r \in Solvers |-> MoveHead(n + 2)[m_heads[r]]]
      /\ m_at_end' = [r \in Solvers |-> FALSE] /\ UNCHANGED last
  BY DEF AddVector
<1>6. \A r \in Solvers : last[r] \in 0 .. Len(log) /\ m_heads[r] \in 0 .. Size - 1
  BY DEF TypeOK
<1>7. ASSUME NEW r \in Solvers
      PROVE  m_heads'[r] \in F /\ last[r] < Key(m_heads[r])'
  <2> DEFINE h == m_heads[r]
             g == MoveHead(n + 2)[h]
  <2>1. m_heads'[r] = g
    BY <1>5
  <2>2. CASE g = t
    <3>1. Key(m_heads[r])' = Len(log) + 1
      BY <1>3, <2>1, <2>2 DEF Key
    <3> QED
      BY <1>4, <1>6, <2>1, <2>2, <3>1
  <2>3. CASE g # t
    <3>1. Pending(r)
      <4> SUFFICES ASSUME ~Pending(r) PROVE FALSE
        OBVIOUS
      <4>1. h = t
        BY <1>2 DEF Pending
      <4>2. MoveHead(n + 2)[t] = t
        BY <1>2, <1>4, MoveHeadDef
      <4> QED
        BY <2>3, <4>1, <4>2
    <3>2. h \in E /\ last[r] < Key(h)
      BY <1>1, <3>1 DEF Readers
    <3>3. g \in E /\ Key(g) >= Key(h) /\ (g < t \/ g >= t + (n + 2))
      BY <1>1, <1>2, <1>4, <2>3, <3>2, MoveHeadLands
    <3>4. g \in F
      BY <1>4, <3>3 DEF Left
    <3>5. Key(h) \in 1 .. Len(log) /\ Key(g) \in 1 .. Len(log)
      BY <1>1, <3>2, <3>3 DEF Entries
    <3>6. Key(m_heads[r])' = Key(g)
      <4>1. PICK c : c = g
        OBVIOUS
      <4>2. Key(c)' = Key(c)
        BY <1>3, <2>3, <3>4, <4>1
      <4>3. Key(m_heads[r])' = Key(c)'
        BY <2>1, <4>1 DEF Key
      <4> QED
        BY <4>1, <4>2, <4>3
    <3>7. last[r] < Key(g)
      BY <1>4, <1>6, <3>2, <3>3, <3>5
    <3> QED
      BY <2>1, <3>4, <3>6, <3>7
  <2> QED
    BY <2>2, <2>3
<1>8. m_heads' \in [Solvers -> 0 .. Size - 1]
  BY <1>3, <1>5, <1>7
<1>9. Readers(F)'
  <2>1. \A r \in Solvers : Pending(r)'
    BY <1>5 DEF Pending
  <2> QED
    BY <1>5, <1>7, <2>1 DEF Readers
<1> QED
  BY <1>3, <1>8, <1>9 DEF RingInv

\* One clause is read: the head moves to a younger one, or to the end.
LEMMA RingGet ==
  ASSUME TypeOK, NEW s \in Solvers, get_vector(s), RingInv
  PROVE  /\ RingInv' /\ m_heads' \in [Solvers -> 0 .. Size - 1]
         /\ last' \in [Solvers -> 0 .. Len(log)]
         /\ \A r \in Solvers : last'[r] >= last[r]
<1>1. PICK E \in SUBSET (0 .. Size - 1) : Entries(E) /\ Readers(E)
  BY DEF RingInv
<1> DEFINE h == m_heads[s]
<1>2. /\ Pending(s)
      /\ m_heads' = [m_heads EXCEPT ![s] = next(h)]
      /\ m_at_end' = [m_at_end EXCEPT ![s] = (next(h) = m_tail)]
      /\ last' = [last EXCEPT ![s] = Key(h)]
      /\ UNCHANGED <<m_vectors, m_tail, log>>
  BY DEF get_vector, Key
<1>3. /\ h \in E /\ h \in 0 .. Size - 1 /\ last[s] < Key(h) /\ Key(h) \in 1 .. Len(log)
      /\ (next(h) = m_tail => Key(h) = Len(log))
      /\ (next(h) # m_tail => next(h) \in E /\ Key(next(h)) > Key(h))
  BY <1>1, <1>2 DEF Readers, Entries
<1>4. next(h) \in 0 .. Size - 1
  BY <1>3, NextTypes
<1>5. /\ m_heads \in [Solvers -> 0 .. Size - 1] /\ m_at_end \in [Solvers -> BOOLEAN]
      /\ last \in [Solvers -> 0 .. Len(log)] /\ Len(log) \in Nat
  <2>1. /\ m_heads \in [Solvers -> 0 .. Size - 1] /\ m_at_end \in [Solvers -> BOOLEAN]
        /\ last \in [Solvers -> 0 .. Len(log)]
        /\ log \in Seq([owner : Solvers, len : Lengths])
    BY Zenon DEF TypeOK
  <2> QED
    BY <2>1
<1>6. /\ m_heads' \in [Solvers -> 0 .. Size - 1] /\ last' \in [Solvers -> 0 .. Len(log)]
      /\ \A r \in Solvers : last'[r] >= last[r]
  BY <1>2, <1>3, <1>4, <1>5
<1>7. Entries(E)'
  BY <1>1, <1>2 DEF Entries, EntryIs, Key, next, get_length
<1>8. ASSUME NEW r \in Solvers, r # s
      PROVE  /\ Pending(r)' => m_heads'[r] \in E /\ last'[r] < Key(m_heads[r])'
             /\ ~Pending(r)' => last'[r] = Len(log)'
  <2>1. m_heads'[r] = m_heads[r] /\ last'[r] = last[r] /\ m_at_end'[r] = m_at_end[r]
    BY <1>2, <1>5, <1>8
  <2> QED
    BY <1>1, <1>2, <2>1 DEF Readers, Pending, Key
<1>9. /\ Pending(s)' => m_heads'[s] \in E /\ last'[s] < Key(m_heads[s])'
      /\ ~Pending(s)' => last'[s] = Len(log)'
  <2>1. m_heads'[s] = next(h) /\ last'[s] = Key(h) /\ m_at_end'[s] = (next(h) = m_tail)
    BY <1>2, <1>5
  <2>2. CASE next(h) = m_tail
    BY <1>2, <1>3, <2>1, <2>2 DEF Pending
  <2>3. CASE next(h) # m_tail
    <3>1. Pending(s)'
      BY <1>2, <2>1, <2>3 DEF Pending
    <3>2. Key(m_heads[s])' = Key(next(h))
      BY <1>2, <2>1 DEF Key
    <3> QED
      BY <1>3, <2>1, <2>3, <3>1, <3>2
  <2> QED
    BY <2>2, <2>3
<1>10. Readers(E)'
  BY <1>8, <1>9 DEF Readers
<1> QED
  BY <1>6, <1>7, <1>10 DEF RingInv

\* Nothing else touches the pool.
LEMMA RingStays ==
  ASSUME RingInv, UNCHANGED pool
  PROVE  RingInv'
BY DEF RingInv, Entries, Readers, pool, Pending, EntryIs, Key, next, get_length

-----------------------------------------------------------------------------
(* Literals pushed one by one *)

\* Induction over 0 .. n, by the least number that is not in the set.
LEMMA Reaches ==
  ASSUME NEW n \in Nat, NEW S, 0 \in S, \A i \in 0 .. n - 1 : i \in S => i + 1 \in S
  PROVE  0 .. n \subseteq S
<1> DEFINE T == {i \in 0 .. n : i \notin S}
<1> SUFFICES ASSUME T # {} PROVE FALSE
  OBVIOUS
<1>1. T \subseteq Nat
  OBVIOUS
<1> HIDE DEF T
<1>2. PICK y \in T : \A z \in T : ~(<<z, y>> \in OpToRel(<, Nat))
  BY <1>1, NatLessThanWellFounded, WFMin
<1>3. \A z \in T : ~(z < y)
  BY <1>1, <1>2 DEF OpToRel
<1>4. y \in 0 .. n /\ y \notin S /\ y # 0
  BY <1>2 DEF T
<1>5. y - 1 \in 0 .. n - 1 /\ y - 1 \in 0 .. n /\ y - 1 < y /\ y - 1 + 1 = y
  BY <1>4
<1>6. y - 1 \in S
  BY <1>3, <1>5 DEF T
<1> QED
  BY <1>4, <1>5, <1>6

Runs(g, st, q, F, m) == g[0] = st /\ \A i \in 1 .. m : g[i] = F[<<g[i - 1], q[i]>>]

\* A step that keeps a set can be repeated for every element of a sequence.
LEMMA StepsExist ==
  ASSUME NEW A, NEW T, NEW st \in A, NEW q \in Seq(T), NEW F \in [A \X T -> A]
  PROVE  \E g \in [0 .. Len(q) -> A] : Runs(g, st, q, F, Len(q))
<1> DEFINE n == Len(q)
           S == {m \in 0 .. n : \E g \in [0 .. m -> A] : Runs(g, st, q, F, m)}
<1>1. n \in Nat
  OBVIOUS
<1>2. 0 \in S
  <2> DEFINE g == [i \in 0 .. 0 |-> st]
  <2>1. g \in [0 .. 0 -> A] /\ g[0] = st
    OBVIOUS
  <2>2. Runs(g, st, q, F, 0)
    BY <2>1 DEF Runs
  <2> HIDE DEF g
  <2> QED
    BY <1>1, <2>1, <2>2
<1>3. ASSUME NEW m \in 0 .. n - 1, m \in S PROVE m + 1 \in S
  <2>1. PICK g \in [0 .. m -> A] : Runs(g, st, q, F, m)
    BY <1>3
  <2> DEFINE f == [i \in 0 .. m + 1 |-> IF i \in 0 .. m THEN g[i] ELSE F[<<g[m], q[m + 1]>>]]
  <2>2. m \in 0 .. m /\ g[m] \in A /\ q[m + 1] \in T /\ m + 1 \notin 0 .. m
        /\ 0 \in 0 .. m /\ m + 1 \in 0 .. n
    BY <1>1
  <2>3. F[<<g[m], q[m + 1]>>] \in A
    BY <2>2
  <2>4. f \in [0 .. m + 1 -> A]
    BY <2>3
  <2>5. /\ \A i \in 0 .. m : f[i] = g[i]
        /\ f[m + 1] = F[<<g[m], q[m + 1]>>]
    BY <1>1, <2>2
  <2> HIDE DEF f
  <2>6. f[0] = st
    BY <2>1, <2>2, <2>5 DEF Runs
  <2>7. ASSUME NEW i \in 1 .. m + 1 PROVE f[i] = F[<<f[i - 1], q[i]>>]
    <3>1. CASE i = m + 1
      <4>1. i - 1 = m
        BY <3>1
      <4> QED
        BY <2>2, <2>5, <3>1, <4>1
    <3>2. CASE i # m + 1
      <4>1. i \in 1 .. m /\ i \in 0 .. m /\ i - 1 \in 0 .. m
        BY <3>2
      <4> QED
        BY <2>1, <2>5, <4>1 DEF Runs
    <3> QED
      BY <3>1, <3>2
  <2>8. Runs(f, st, q, F, m + 1)
    BY <2>6, <2>7 DEF Runs
  <2> QED
    BY <2>2, <2>4, <2>8
<1>4. n \in S
  <2> HIDE DEF S
  <2>1. 0 .. n \subseteq S
    BY <1>1, <1>2, <1>3, Reaches
  <2> QED
    BY <1>1, <2>1
<1> QED
  BY <1>4

Push(l, x) == IF ~Common(x) \/ In(l, x) THEN l ELSE Append(l, x)

Pushes(g, list, q, m) ==
  g[0] = list /\ \A i \in 1 .. m : g[i] = Push(g[i - 1], q[i])

LEMMA PushSeq ==
  ASSUME NEW T, NEW l \in Seq(T), NEW x \in T
  PROVE  Push(l, x) \in Seq(T)
BY DEF Push

LEMMA PushTypes ==
  ASSUME NEW T, NEW l \in Seq(T), NEW x \in T
  PROVE  /\ Push(l, x) \in Seq(T) /\ Len(l) <= Len(Push(l, x))
         /\ Common(x) => In(Push(l, x), x)
         /\ \A j \in DOMAIN l : j \in DOMAIN Push(l, x) /\ Push(l, x)[j] = l[j]
         /\ \A j \in DOMAIN Push(l, x) :
              In(l, Push(l, x)[j]) \/ (Push(l, x)[j] = x /\ Common(x))
         /\ (\A i, j \in DOMAIN l : l[i] = l[j] => i = j) =>
              \A i, j \in DOMAIN Push(l, x) : Push(l, x)[i] = Push(l, x)[j] => i = j
<1>1. CASE ~Common(x) \/ In(l, x)
  <2>1. Push(l, x) = l
    BY <1>1 DEF Push
  <2>2. \A j \in DOMAIN l : In(l, l[j])
    BY DEF In
  <2> QED
    BY <1>1, <2>1, <2>2
<1>2. CASE Common(x) /\ ~In(l, x)
  <2> DEFINE p == Append(l, x)
  <2>1. Push(l, x) = p
    BY <1>2 DEF Push
  <2>2. /\ p \in Seq(T) /\ Len(p) = Len(l) + 1 /\ Len(l) \in Nat
        /\ DOMAIN l = 1 .. Len(l) /\ DOMAIN p = 1 .. Len(l) + 1
        /\ \A j \in DOMAIN l : p[j] = l[j]
        /\ p[Len(l) + 1] = x
    OBVIOUS
  <2> HIDE DEF p
  <2>3. /\ \A j \in DOMAIN l : j \in DOMAIN p
        /\ \A j \in DOMAIN p : j \in DOMAIN l \/ j = Len(l) + 1
        /\ Len(l) + 1 \in DOMAIN p
    BY <2>2
  <2>4. \A j \in DOMAIN p : In(l, p[j]) \/ p[j] = x
    BY <2>2, <2>3 DEF In
  <2>5. ASSUME \A i, j \in DOMAIN l : l[i] = l[j] => i = j, NEW i \in DOMAIN p,
               NEW j \in DOMAIN p, p[i] = p[j]
        PROVE  i = j
    BY <1>2, <2>2, <2>3, <2>5 DEF In
  <2>6. p \in Seq(T) /\ In(p, x) /\ Len(l) <= Len(p)
    BY <2>2, <2>3 DEF In
  <2>7. \A j \in DOMAIN l : j \in DOMAIN p /\ p[j] = l[j]
    BY <2>2, <2>3
  <2> QED
    BY <1>2, <2>1, <2>4, <2>5, <2>6, <2>7
<1> QED
  BY <1>1, <1>2

\* The loop that pushes has a result after each literal.
LEMMA PushesExists ==
  ASSUME NEW T, NEW list \in Seq(T), NEW q \in Seq(T)
  PROVE  \E g \in [0 .. Len(q) -> Seq(T)] : Pushes(g, list, q, Len(q))
<1> DEFINE F == [p \in Seq(T) \X T |-> Push(p[1], p[2])]
<1>1. F \in [Seq(T) \X T -> Seq(T)]
  <2>1. \A l \in Seq(T), x \in T : Push(l, x) \in Seq(T)
    BY PushSeq
  <2> QED
    BY <2>1
<1>2. \A l \in Seq(T), x \in T : F[<<l, x>>] = Push(l, x)
  OBVIOUS
<1> HIDE DEF F
<1>3. PICK g \in [0 .. Len(q) -> Seq(T)] : Runs(g, list, q, F, Len(q))
  BY <1>1, StepsExist
<1>4. ASSUME NEW i \in 1 .. Len(q) PROVE g[i] = Push(g[i - 1], q[i])
  <2>1. g[i - 1] \in Seq(T) /\ q[i] \in T
    OBVIOUS
  <2> QED
    BY <1>2, <1>3, <2>1 DEF Runs
<1> QED
  BY <1>3, <1>4 DEF Pushes, Runs

LEMMA PushNewDef ==
  ASSUME NEW T, NEW list \in Seq(T), NEW q \in Seq(T)
  PROVE  \E f \in [0 .. Len(q) -> Seq(T)] :
            Pushes(f, list, q, Len(q)) /\ PushNew(list, q) = f[Len(q)]
<1> DEFINE n == Len(q)
           Eq(f) == f = [i \in 0 .. n |->
                      IF i = 0 THEN list
                      ELSE IF ~Common(q[i]) \/ In(f[i - 1], q[i]) THEN f[i - 1]
                      ELSE Append(f[i - 1], q[i])]
<1>1. n \in Nat
  OBVIOUS
<1>2. PICK g \in [0 .. n -> Seq(T)] : Pushes(g, list, q, n)
  BY PushesExists
<1>3. ASSUME NEW f, Eq(f) PROVE Pushes(f, list, q, n)
  <2>1. f[0] = list
    BY <1>1, <1>3
  <2>2. ASSUME NEW i \in 1 .. n PROVE f[i] = Push(f[i - 1], q[i])
    <3>1. i \in 0 .. n /\ i # 0
      OBVIOUS
    <3>2. f[i] = IF ~Common(q[i]) \/ In(f[i - 1], q[i]) THEN f[i - 1]
                 ELSE Append(f[i - 1], q[i])
      BY <1>3, <3>1
    <3> QED
      BY <3>2 DEF Push
  <2> QED
    BY <2>1, <2>2 DEF Pushes
<1>4. Eq(g)
  <2>1. ASSUME NEW i \in 0 .. n
        PROVE  g[i] = IF i = 0 THEN list
                      ELSE IF ~Common(q[i]) \/ In(g[i - 1], q[i]) THEN g[i - 1]
                      ELSE Append(g[i - 1], q[i])
    <3>1. CASE i = 0
      BY <1>2, <3>1 DEF Pushes
    <3>2. CASE i # 0
      <4>1. i \in 1 .. n
        BY <3>2
      <4>2. g[i] = Push(g[i - 1], q[i])
        BY <1>2, <4>1 DEF Pushes
      <4> QED
        BY <3>2, <4>2 DEF Push
    <3> QED
      BY <3>1, <3>2
  <2> QED
    BY <2>1
<1> DEFINE c == CHOOSE f : Eq(f)
<1>5. Eq(c)
  <2> HIDE DEF Eq
  <2> QED
    BY <1>4
<1>6. PushNew(list, q) = c[n]
  BY DEF PushNew
<1> HIDE DEF c
<1>7. Pushes(c, list, q, n)
  BY <1>3, <1>5
<1>8. c \in [0 .. n -> Seq(T)]
  <2>1. c = [i \in 0 .. n |-> c[i]]
    BY <1>5
  <2> DEFINE S == {i \in 0 .. n : c[i] \in Seq(T)}
  <2>2. 0 \in S
    BY <1>1, <1>7 DEF Pushes
  <2>3. ASSUME NEW i \in 0 .. n - 1, i \in S PROVE i + 1 \in S
    <3>1. i + 1 \in 1 .. n /\ i + 1 \in 0 .. n /\ i + 1 - 1 = i /\ q[i + 1] \in T
      BY <1>1
    <3>2. c[i + 1] = Push(c[i], q[i + 1])
      BY <1>7, <3>1 DEF Pushes
    <3>3. c[i + 1] \in Seq(T)
      <4>1. \A l \in Seq(T), x \in T : Push(l, x) \in Seq(T)
        BY PushSeq
      <4>2. c[i] \in Seq(T)
        BY <2>3
      <4> QED
        BY <3>1, <3>2, <4>1, <4>2
    <3> QED
      BY <3>1, <3>3
  <2>4. 0 .. n \subseteq S
    <3> HIDE DEF S
    <3> QED
      BY <1>1, <2>2, <2>3, Reaches
  <2> QED
    BY <2>1, <2>4
<1> QED
  BY <1>6, <1>7, <1>8

\* All of the list stays in its place, what is common in the first i of q is there,
\* and nothing else; and what was there once is there once.
Pushed(r, list, q, i) ==
  /\ Len(list) <= Len(r)
  /\ \A j \in DOMAIN list : j \in DOMAIN r /\ r[j] = list[j]
  /\ \A j \in 1 .. i : Common(q[j]) => In(r, q[j])
  /\ \A j \in DOMAIN r : In(list, r[j]) \/ (In(q, r[j]) /\ Common(r[j]))
  /\ (\A k, j \in DOMAIN list : list[k] = list[j] => k = j) =>
       \A k, j \in DOMAIN r : r[k] = r[j] => k = j

LEMMA PushNewKeeps ==
  ASSUME NEW T, NEW list \in Seq(T), NEW q \in Seq(T)
  PROVE  PushNew(list, q) \in Seq(T) /\ Pushed(PushNew(list, q), list, q, Len(q))
<1> DEFINE n == Len(q)
<1>1. PICK f \in [0 .. n -> Seq(T)] : Pushes(f, list, q, n) /\ PushNew(list, q) = f[n]
  BY PushNewDef
<1>2. n \in Nat /\ DOMAIN q = 1 .. n
  OBVIOUS
<1> DEFINE S == {i \in 0 .. n : Pushed(f[i], list, q, i)}
<1>3. 0 \in S
  <2>1. f[0] = list
    BY <1>1 DEF Pushes
  <2>2. \A j \in DOMAIN list : In(list, list[j])
    BY DEF In
  <2>3. Pushed(list, list, q, 0)
    BY <2>2 DEF Pushed
  <2> QED
    BY <1>2, <2>1, <2>3
<1>4. ASSUME NEW i \in 0 .. n - 1, i \in S PROVE i + 1 \in S
  <2> DEFINE l == f[i]
             x == q[i + 1]
             r == Push(l, x)
  <2>1. i + 1 \in 1 .. n /\ i + 1 \in 0 .. n /\ i \in 0 .. n /\ i + 1 - 1 = i /\ x \in T
        /\ i + 1 \in DOMAIN q
    BY <1>2
  <2>0. \A k \in 1 .. n : f[k] = Push(f[k - 1], q[k])
    BY <1>1 DEF Pushes
  <2>2. f[i + 1] = r /\ l \in Seq(T)
    <3>1. f[i + 1] = Push(f[i + 1 - 1], q[i + 1])
      BY <2>0, <2>1
    <3> QED
      BY <1>1, <2>1, <3>1
  <2>3. /\ r \in Seq(T) /\ Len(l) <= Len(r)
        /\ Common(x) => In(r, x)
        /\ \A j \in DOMAIN l : j \in DOMAIN r /\ r[j] = l[j]
        /\ \A j \in DOMAIN r : In(l, r[j]) \/ (r[j] = x /\ Common(x))
        /\ (\A k, j \in DOMAIN l : l[k] = l[j] => k = j) =>
             \A k, j \in DOMAIN r : r[k] = r[j] => k = j
    <3>1. l \in Seq(T) /\ x \in T
      BY <2>1, <2>2
    <3> HIDE DEF l, x
    <3> QED
      BY <3>1, PushTypes, ZenonT(30)
  <2>4. Pushed(l, list, q, i)
    BY <1>4
  <2> HIDE DEF r, l, x
  <2>5. Len(list) <= Len(r)
    <3>1. Len(list) <= Len(l)
      BY <2>4 DEF Pushed
    <3> QED
      BY <2>2, <2>3, <3>1
  <2>6. \A j \in DOMAIN list : j \in DOMAIN r /\ r[j] = list[j]
    <3>1. \A j \in DOMAIN list : j \in DOMAIN l /\ l[j] = list[j]
      BY <2>4 DEF Pushed
    <3> QED
      BY <2>3, <3>1
  <2>7. ASSUME NEW j \in 1 .. i + 1, Common(q[j]) PROVE In(r, q[j])
    <3>1. CASE j = i + 1
      BY <2>3, <2>7, <3>1 DEF x
    <3>2. CASE j # i + 1
      <4>1. j \in 1 .. i
        BY <3>2
      <4>2. In(l, q[j])
        BY <2>4, <2>7, <4>1 DEF Pushed
      <4> QED
        BY <2>3, <4>2 DEF In
    <3> QED
      BY <3>1, <3>2
  <2>8. \A j \in DOMAIN r : In(list, r[j]) \/ (In(q, r[j]) /\ Common(r[j]))
    <3>1. In(q, x)
      BY <2>1 DEF In, x
    <3>2. \A y : In(l, y) => In(list, y) \/ (In(q, y) /\ Common(y))
      BY <2>4 DEF Pushed, In
    <3> QED
      BY <2>3, <3>1, <3>2
  <2>10. (\A k, j \in DOMAIN list : list[k] = list[j] => k = j) =>
            \A k, j \in DOMAIN r : r[k] = r[j] => k = j
    <3>1. (\A k, j \in DOMAIN list : list[k] = list[j] => k = j) =>
            \A k, j \in DOMAIN l : l[k] = l[j] => k = j
      BY <2>4 DEF Pushed
    <3> QED
      BY <2>3, <3>1
  <2>9. Pushed(r, list, q, i + 1)
    BY <2>5, <2>6, <2>7, <2>8, <2>10 DEF Pushed
  <2> QED
    BY <2>1, <2>2, <2>9
<1>5. Pushed(f[n], list, q, n)
  <2>1. n \in 0 .. n
    BY <1>2
  <2>2. n \in S
    <3> HIDE DEF S
    <3> QED
      BY <1>2, <1>3, <1>4, <2>1, Reaches
  <2> QED
    BY <2>2
<1>6. f[n] \in Seq(T)
  BY <1>1, <1>2
<1> QED
  BY <1>1, <1>5, <1>6

-----------------------------------------------------------------------------
(* Units assigned one by one, up to a conflict *)

Bases == [trail : Seq(Lits), conflict : BOOLEAN]

Turn(st, x) == IF st.conflict THEN st ELSE AssignUnit(st, x)

Turns(g, st, q, m) ==
  g[0] = st /\ \A i \in 1 .. m : g[i] = Turn(g[i - 1], q[i])

\* The trail grows by x at most; there is a conflict when it holds the negation of x.
Grows(r, st, x) ==
  /\ Len(st.trail) <= Len(r.trail)
  /\ \A j \in DOMAIN st.trail : j \in DOMAIN r.trail /\ r.trail[j] = st.trail[j]
  /\ \A j \in DOMAIN r.trail : In(st.trail, r.trail[j]) \/ r.trail[j] = x
  /\ r.conflict = FALSE => st.conflict = FALSE /\ In(r.trail, x)
  /\ r.conflict = TRUE => st.conflict = TRUE \/ In(st.trail, Not(x))

LEMMA AssignTypes ==
  ASSUME NEW st \in Bases, NEW x \in Lits
  PROVE  AssignUnit(st, x) \in Bases /\ Grows(AssignUnit(st, x), st, x)
<1> DEFINE l == st.trail
           r == AssignUnit(st, x)
<1>1. l \in Seq(Lits) /\ st.conflict \in BOOLEAN
  BY DEF Bases
<1>2. \A j \in DOMAIN l : In(l, l[j])
  BY DEF In
<1>3. CASE In(l, x)
  <2>1. r = st
    BY <1>3 DEF AssignUnit
  <2> QED
    BY <1>1, <1>2, <1>3, <2>1 DEF Grows
<1>4. CASE ~In(l, x) /\ In(l, Not(x))
  <2>1. r = [st EXCEPT !.conflict = TRUE]
    BY <1>4 DEF AssignUnit
  <2>2. r \in Bases /\ r.trail = l /\ r.conflict = TRUE
    BY <2>1 DEF Bases
  <2> HIDE DEF r
  <2>3. Grows(r, st, x)
    BY <1>1, <1>2, <1>4, <2>2 DEF Grows
  <2> QED
    BY <2>2, <2>3 DEF r
<1>5. CASE ~In(l, x) /\ ~In(l, Not(x))
  <2> DEFINE p == Append(l, x)
  <2>1. r = [st EXCEPT !.trail = p]
    BY <1>5 DEF AssignUnit
  <2>2. /\ p \in Seq(Lits) /\ Len(p) = Len(l) + 1 /\ Len(l) \in Nat
        /\ DOMAIN l = 1 .. Len(l) /\ DOMAIN p = 1 .. Len(l) + 1
        /\ \A j \in DOMAIN l : p[j] = l[j]
        /\ p[Len(l) + 1] = x
    BY <1>1
  <2> HIDE DEF p
  <2>3. r \in Bases /\ r.trail = p /\ r.conflict = st.conflict
    BY <2>1, <2>2 DEF Bases
  <2>4. /\ \A j \in DOMAIN l : j \in DOMAIN p
        /\ \A j \in DOMAIN p : j \in DOMAIN l \/ j = Len(l) + 1
        /\ Len(l) + 1 \in DOMAIN p /\ Len(l) <= Len(p)
    BY <2>2
  <2>5. In(p, x) /\ \A j \in DOMAIN p : In(l, p[j]) \/ p[j] = x
    BY <2>2, <2>4 DEF In
  <2> HIDE DEF r
  <2>6. Grows(r, st, x)
    BY <2>2, <2>3, <2>4, <2>5 DEF Grows
  <2> QED
    BY <2>3, <2>6 DEF r
<1> QED
  BY <1>3, <1>4, <1>5

LEMMA TurnTypes ==
  ASSUME NEW st \in Bases, NEW x \in Lits
  PROVE  Turn(st, x) \in Bases
BY AssignTypes DEF Turn

\* The loop that delivers has a result after each literal.
LEMMA TurnsExists ==
  ASSUME NEW st \in Bases, NEW q \in Seq(Lits)
  PROVE  \E g \in [0 .. Len(q) -> Bases] : Turns(g, st, q, Len(q))
<1> DEFINE F == [p \in Bases \X Lits |-> Turn(p[1], p[2])]
<1>1. F \in [Bases \X Lits -> Bases]
  <2>1. \A b \in Bases, x \in Lits : Turn(b, x) \in Bases
    BY TurnTypes
  <2> QED
    BY <2>1
<1>2. \A b \in Bases, x \in Lits : F[<<b, x>>] = Turn(b, x)
  OBVIOUS
<1> HIDE DEF F
<1>3. PICK g \in [0 .. Len(q) -> Bases] : Runs(g, st, q, F, Len(q))
  BY <1>1, StepsExist
<1>4. ASSUME NEW i \in 1 .. Len(q) PROVE g[i] = Turn(g[i - 1], q[i])
  <2>1. g[i - 1] \in Bases /\ q[i] \in Lits
    OBVIOUS
  <2> QED
    BY <1>2, <1>3, <2>1 DEF Runs
<1> QED
  BY <1>3, <1>4 DEF Turns, Runs

LEMMA DeliverDef ==
  ASSUME NEW st \in Bases, NEW q \in Seq(Lits)
  PROVE  \E f \in [0 .. Len(q) -> Bases] :
            Turns(f, st, q, Len(q)) /\ Deliver(st, q) = f[Len(q)]
<1> DEFINE n == Len(q)
           Eq(f) == f = [i \in 0 .. n |->
                      IF i = 0 THEN st
                      ELSE IF f[i - 1].conflict THEN f[i - 1]
                      ELSE AssignUnit(f[i - 1], q[i])]
<1>1. n \in Nat
  OBVIOUS
<1>2. PICK g \in [0 .. n -> Bases] : Turns(g, st, q, n)
  BY TurnsExists
<1>3. ASSUME NEW f, Eq(f) PROVE Turns(f, st, q, n)
  <2>1. f[0] = st
    BY <1>1, <1>3
  <2>2. ASSUME NEW i \in 1 .. n PROVE f[i] = Turn(f[i - 1], q[i])
    <3>1. i \in 0 .. n /\ i # 0
      OBVIOUS
    <3>2. f[i] = IF f[i - 1].conflict THEN f[i - 1] ELSE AssignUnit(f[i - 1], q[i])
      BY <1>3, <3>1
    <3> QED
      BY <3>2 DEF Turn
  <2> QED
    BY <2>1, <2>2 DEF Turns
<1>4. Eq(g)
  <2>1. ASSUME NEW i \in 0 .. n
        PROVE  g[i] = IF i = 0 THEN st
                      ELSE IF g[i - 1].conflict THEN g[i - 1]
                      ELSE AssignUnit(g[i - 1], q[i])
    <3>1. CASE i = 0
      BY <1>2, <3>1 DEF Turns
    <3>2. CASE i # 0
      <4>1. i \in 1 .. n
        BY <3>2
      <4>2. g[i] = Turn(g[i - 1], q[i])
        BY <1>2, <4>1 DEF Turns
      <4> QED
        BY <3>2, <4>2 DEF Turn
    <3> QED
      BY <3>1, <3>2
  <2> QED
    BY <2>1
<1> DEFINE c == CHOOSE f : Eq(f)
<1>5. Eq(c)
  <2> HIDE DEF Eq
  <2> QED
    BY <1>4
<1>6. Deliver(st, q) = c[n]
  BY DEF Deliver
<1> HIDE DEF c
<1>7. Turns(c, st, q, n)
  BY <1>3, <1>5
<1>8. c \in [0 .. n -> Bases]
  <2>1. c = [i \in 0 .. n |-> c[i]]
    BY <1>5
  <2> DEFINE S == {i \in 0 .. n : c[i] \in Bases}
  <2>2. 0 \in S
    BY <1>1, <1>7 DEF Turns
  <2>3. ASSUME NEW i \in 0 .. n - 1, i \in S PROVE i + 1 \in S
    <3>1. i + 1 \in 1 .. n /\ i + 1 \in 0 .. n /\ i + 1 - 1 = i /\ q[i + 1] \in Lits
      BY <1>1
    <3>2. c[i + 1] = Turn(c[i], q[i + 1])
      BY <1>7, <3>1 DEF Turns
    <3>3. c[i + 1] \in Bases
      <4>1. \A b \in Bases, x \in Lits : Turn(b, x) \in Bases
        BY TurnTypes
      <4>2. c[i] \in Bases
        BY <2>3
      <4> QED
        BY <3>1, <3>2, <4>1, <4>2
    <3> QED
      BY <3>1, <3>3
  <2>4. 0 .. n \subseteq S
    <3> HIDE DEF S
    <3> QED
      BY <1>1, <2>2, <2>3, Reaches
  <2> QED
    BY <2>1, <2>4
<1> QED
  BY <1>6, <1>7, <1>8

\* After the first i of q: without a conflict all of them are on the trail; a
\* conflict comes from one of q whose negation is there.
Follows(r, st, q, i) ==
  /\ Len(st.trail) <= Len(r.trail)
  /\ \A j \in DOMAIN st.trail : j \in DOMAIN r.trail /\ r.trail[j] = st.trail[j]
  /\ \A j \in DOMAIN r.trail : In(st.trail, r.trail[j]) \/ In(q, r.trail[j])
  /\ r.conflict = FALSE => st.conflict = FALSE /\ \A j \in 1 .. i : In(r.trail, q[j])
  /\ r.conflict = TRUE => st.conflict = TRUE \/ \E j \in DOMAIN q : In(r.trail, Not(q[j]))

LEMMA DeliverKeeps ==
  ASSUME NEW st \in Bases, NEW q \in Seq(Lits)
  PROVE  Deliver(st, q) \in Bases /\ Follows(Deliver(st, q), st, q, Len(q))
<1> DEFINE n == Len(q)
<1>1. PICK f \in [0 .. n -> Bases] : Turns(f, st, q, n) /\ Deliver(st, q) = f[n]
  BY DeliverDef
<1>2. n \in Nat /\ DOMAIN q = 1 .. n
  OBVIOUS
<1> DEFINE S == {i \in 0 .. n : Follows(f[i], st, q, i)}
<1>3. 0 \in S
  <2>1. f[0] = st
    BY <1>1 DEF Turns
  <2>2. \A j \in DOMAIN st.trail : In(st.trail, st.trail[j])
    BY DEF In
  <2>3. st.trail \in Seq(Lits) /\ Len(st.trail) \in Nat
    BY DEF Bases
  <2>4. Follows(st, st, q, 0)
    BY <2>2, <2>3 DEF Follows
  <2> QED
    BY <1>2, <2>1, <2>4
<1>4. ASSUME NEW i \in 0 .. n - 1, i \in S PROVE i + 1 \in S
  <2> DEFINE b == f[i]
             x == q[i + 1]
             r == f[i + 1]
  <2>1. i + 1 \in 1 .. n /\ i + 1 \in 0 .. n /\ i \in 0 .. n /\ i + 1 - 1 = i /\ x \in Lits
        /\ i + 1 \in DOMAIN q
    BY <1>2
  <2>2. r = Turn(b, x) /\ b \in Bases /\ r \in Bases
    BY <1>1, <2>1 DEF Turns
  <2>3. Follows(b, st, q, i)
    BY <1>4
  <2>4. In(q, x)
    BY <2>1 DEF In
  <2> HIDE DEF b, r
  <2>5. CASE b.conflict = TRUE
    <3>1. r = b
      BY <2>2, <2>5 DEF Turn
    <3>2. Follows(r, st, q, i + 1)
      BY <2>3, <2>5, <3>1 DEF Follows
    <3> QED
      BY <2>1, <3>2 DEF r
  <2>6. CASE b.conflict = FALSE
    <3>1. r = AssignUnit(b, x)
      BY <2>2, <2>6 DEF Turn
    <3>2. Grows(r, b, x)
      <4> HIDE DEF x
      <4> QED
        BY <2>1, <2>2, <3>1, AssignTypes
    <3>3. /\ b.trail \in Seq(Lits) /\ r.trail \in Seq(Lits) /\ st.trail \in Seq(Lits)
          /\ Len(b.trail) \in Nat /\ Len(r.trail) \in Nat /\ Len(st.trail) \in Nat
      BY <2>2 DEF Bases
    <3>4. Len(st.trail) <= Len(r.trail)
      <4>1. Len(st.trail) <= Len(b.trail) /\ Len(b.trail) <= Len(r.trail)
        BY <2>3, <3>2 DEF Follows, Grows
      <4> QED
        BY <3>3, <4>1
    <3>5. \A y : In(b.trail, y) => In(r.trail, y)
      BY <3>2 DEF Grows, In
    <3>6. \A j \in DOMAIN st.trail : j \in DOMAIN r.trail /\ r.trail[j] = st.trail[j]
      BY <2>3, <3>2 DEF Follows, Grows
    <3>7. \A y : In(b.trail, y) => In(st.trail, y) \/ In(q, y)
      BY <2>3 DEF Follows, In
    <3>8. \A j \in DOMAIN r.trail : In(st.trail, r.trail[j]) \/ In(q, r.trail[j])
      BY <2>4, <3>2, <3>7 DEF Grows
    <3>9. r.conflict = FALSE => st.conflict = FALSE /\ \A j \in 1 .. i + 1 : In(r.trail, q[j])
      <4> SUFFICES ASSUME r.conflict = FALSE
                   PROVE  st.conflict = FALSE /\ \A j \in 1 .. i + 1 : In(r.trail, q[j])
        OBVIOUS
      <4>1. In(r.trail, x)
        BY <3>2 DEF Grows
      <4>2. st.conflict = FALSE /\ \A j \in 1 .. i : In(b.trail, q[j])
        BY <2>3, <2>6 DEF Follows
      <4>3. \A j \in 1 .. i + 1 : j \in 1 .. i \/ j = i + 1
        OBVIOUS
      <4> QED
        BY <3>5, <4>1, <4>2, <4>3
    <3>10. r.conflict = TRUE => st.conflict = TRUE \/ \E j \in DOMAIN q : In(r.trail, Not(q[j]))
      <4> SUFFICES ASSUME r.conflict = TRUE PROVE In(r.trail, Not(x))
        BY <2>1
      <4>1. In(b.trail, Not(x))
        BY <2>6, <3>2 DEF Grows
      <4> QED
        BY <3>5, <4>1
    <3>11. Follows(r, st, q, i + 1)
      BY <3>4, <3>6, <3>8, <3>9, <3>10 DEF Follows
    <3> QED
      BY <2>1, <3>11 DEF r
  <2> QED
    BY <2>2, <2>5, <2>6 DEF Bases
<1>5. Follows(f[n], st, q, n)
  <2>1. n \in 0 .. n
    BY <1>2
  <2>2. n \in S
    <3> HIDE DEF S
    <3> QED
      BY <1>2, <1>3, <1>4, <2>1, Reaches
  <2> QED
    BY <2>2
<1>6. f[n] \in Bases
  BY <1>1, <1>2
<1> QED
  BY <1>1, <1>5, <1>6

-----------------------------------------------------------------------------
(* The exchange of units *)

UnitTypes ==
  /\ m_units \in Seq(Lits) /\ m_trail \in [Solvers -> Seq(Lits)]
  /\ inconsistent \in [Solvers -> BOOLEAN] /\ derived \subseteq Solvers \X Lits
  /\ m_par_limit_in \in [Solvers -> Nat] /\ m_par_limit_out \in [Solvers -> Nat]

\* r is q from behind m on, where a limit divides it into old and new.
Later(r, q, m) ==
  /\ \A i \in 1 .. Len(q) : i > m => i - m \in DOMAIN r /\ r[i - m] = q[i]
  /\ \A i \in DOMAIN r : i + m \in DOMAIN q /\ r[i] = q[i + m]

LEMMA Rest ==
  ASSUME NEW T, NEW q \in Seq(T), NEW m \in Nat, m <= Len(q)
  PROVE  /\ SubSeq(q, m + 1, Len(q)) \in Seq(T)
         /\ Later(SubSeq(q, m + 1, Len(q)), q, m)
<1> DEFINE r == SubSeq(q, m + 1, Len(q))
<1>1. r \in Seq(T) /\ DOMAIN r = 1 .. Len(q) - m /\ Len(q) \in Nat /\ DOMAIN q = 1 .. Len(q)
  OBVIOUS
<1>2. \A i \in 1 .. Len(q) - m : r[i] = q[i + m]
  OBVIOUS
<1> HIDE DEF r
<1>3. \A i \in 1 .. Len(q) : i > m => i - m \in 1 .. Len(q) - m /\ i - m + m = i
  BY <1>1
<1>4. \A i \in 1 .. Len(q) - m : i + m \in 1 .. Len(q)
  BY <1>1
<1>5. Later(r, q, m)
  BY <1>1, <1>2, <1>3, <1>4 DEF Later
<1> QED
  BY <1>1, <1>5 DEF r

LEMMA UnitsStay ==
  ASSUME UnitTypes, UnitsInv, UNCHANGED units
  PROVE  UnitTypes' /\ UnitsInv'
<1>1. /\ m_units' = m_units /\ m_trail' = m_trail /\ inconsistent' = inconsistent
      /\ derived' = derived /\ m_par_limit_in' = m_par_limit_in
      /\ m_par_limit_out' = m_par_limit_out
  BY DEF units
<1>2. UnitTypes'
  BY <1>1 DEF UnitTypes
<1>3. LimitsInv' /\ ListInv'
  BY <1>1 DEF UnitsInv, LimitsInv, ListInv
<1>4. UnitsDelivered'
  BY <1>1 DEF UnitsInv, UnitsDelivered
<1>5. UnitsGenuine'
  BY <1>1 DEF UnitsInv, UnitsGenuine, Known
<1> QED
  BY <1>2, <1>3, <1>4, <1>5 DEF UnitsInv

LEMMA UnitsExchange ==
  ASSUME UnitTypes, UnitsInv, NEW s \in Solvers, exchange(s)
  PROVE  UnitTypes' /\ UnitsInv'
<1> DEFINE out == SubSeq(m_trail[s], m_par_limit_out[s] + 1, Len(m_trail[s]))
           in  == SubSeq(m_units, m_par_limit_in[s] + 1, Len(m_units))
           all == PushNew(m_units, out)
           st  == Deliver(Base(s), in)
           tr  == st.trail
<1>1. /\ m_units' = all
      /\ m_par_limit_in' = [m_par_limit_in EXCEPT ![s] = Len(all)]
      /\ m_par_limit_out' = [m_par_limit_out EXCEPT ![s] = Len(m_trail[s])]
      /\ m_trail' = [m_trail EXCEPT ![s] = tr]
      /\ inconsistent' = [inconsistent EXCEPT ![s] = st.conflict]
      /\ derived' = derived
  BY DEF exchange, Published, Delivered
<1>2. /\ m_units \in Seq(Lits) /\ m_trail[s] \in Seq(Lits)
      /\ m_par_limit_in[s] \in Nat /\ m_par_limit_out[s] \in Nat
      /\ m_par_limit_in[s] <= Len(m_units) /\ m_par_limit_out[s] <= Len(m_trail[s])
  BY DEF UnitTypes, UnitsInv, LimitsInv
<1>3. /\ in \in Seq(Lits)
      /\ \A i \in 1 .. Len(m_units) : i > m_par_limit_in[s] =>
           i - m_par_limit_in[s] \in DOMAIN in /\ in[i - m_par_limit_in[s]] = m_units[i]
      /\ \A i \in DOMAIN in : In(m_units, in[i])
  <2>1. in \in Seq(Lits) /\ Later(in, m_units, m_par_limit_in[s])
    BY <1>2, Rest
  <2> HIDE DEF in
  <2> QED
    BY <2>1 DEF Later, In
<1>4. /\ out \in Seq(Lits)
      /\ \A i \in DOMAIN out : In(m_trail[s], out[i])
      /\ \A i \in 1 .. Len(m_trail[s]) : i > m_par_limit_out[s] => In(out, m_trail[s][i])
  <2>1. out \in Seq(Lits) /\ Later(out, m_trail[s], m_par_limit_out[s])
    BY <1>2, Rest
  <2> HIDE DEF out
  <2> QED
    BY <2>1 DEF Later, In
<1> HIDE DEF in, out
<1>5. /\ all \in Seq(Lits) /\ Len(m_units) <= Len(all)
      /\ \A j \in DOMAIN m_units : j \in DOMAIN all /\ all[j] = m_units[j]
      /\ \A j \in DOMAIN out : Common(out[j]) => In(all, out[j])
      /\ \A j \in DOMAIN all : In(m_units, all[j]) \/ (In(out, all[j]) /\ Common(all[j]))
      /\ (\A i, j \in DOMAIN m_units : m_units[i] = m_units[j] => i = j) =>
           \A i, j \in DOMAIN all : all[i] = all[j] => i = j
  <2>1. all \in Seq(Lits) /\ Pushed(all, m_units, out, Len(out))
    BY <1>2, <1>4, PushNewKeeps
  <2>2. DOMAIN out = 1 .. Len(out)
    BY <1>4
  <2> HIDE DEF all
  <2> QED
    BY <2>1, <2>2 DEF Pushed
<1>6. /\ tr \in Seq(Lits) /\ st.conflict \in BOOLEAN /\ Len(m_trail[s]) <= Len(tr)
      /\ \A j \in DOMAIN m_trail[s] : j \in DOMAIN tr /\ tr[j] = m_trail[s][j]
      /\ \A j \in DOMAIN tr : In(m_trail[s], tr[j]) \/ In(in, tr[j])
      /\ st.conflict = FALSE =>
           inconsistent[s] = FALSE /\ \A j \in DOMAIN in : In(tr, in[j])
      /\ st.conflict = TRUE =>
           inconsistent[s] = TRUE \/ \E j \in DOMAIN in : In(tr, Not(in[j]))
  <2> DEFINE b == Base(s)
  <2>1. b \in Bases /\ b.trail = m_trail[s] /\ b.conflict = inconsistent[s]
    BY DEF UnitTypes, Bases, Base
  <2> HIDE DEF b
  <2>2. st \in Bases /\ Follows(st, b, in, Len(in))
    BY <1>3, <2>1, DeliverKeeps DEF b
  <2>3. DOMAIN in = 1 .. Len(in)
    BY <1>3
  <2> HIDE DEF st
  <2>4. tr \in Seq(Lits) /\ st.conflict \in BOOLEAN
    BY <2>2 DEF Bases
  <2> QED
    BY <2>1, <2>2, <2>3, <2>4 DEF Follows
<1> HIDE DEF all, tr, st
<1>7. /\ Len(all) \in Nat /\ Len(m_units) \in Nat /\ Len(tr) \in Nat
      /\ Len(m_trail[s]) \in Nat /\ DOMAIN m_trail[s] = 1 .. Len(m_trail[s])
      /\ DOMAIN all = 1 .. Len(all) /\ DOMAIN m_units = 1 .. Len(m_units)
  BY <1>2, <1>5, <1>6
<1>8. UnitTypes'
  BY <1>1, <1>5, <1>6, <1>7 DEF UnitTypes
<1>9. LimitsInv'
  <2>1. ASSUME NEW r \in Solvers
        PROVE  m_par_limit_in'[r] <= Len(m_units') /\ m_par_limit_out'[r] <= Len(m_trail'[r])
    <3>1. CASE r = s
      <4>1. m_par_limit_in'[r] = Len(all) /\ m_par_limit_out'[r] = Len(m_trail[s]) /\ m_trail'[r] = tr
        BY <1>1, <3>1 DEF UnitTypes
      <4> QED
        BY <1>1, <1>6, <1>7, <4>1
    <3>2. CASE r # s
      <4>1. /\ m_par_limit_in'[r] = m_par_limit_in[r] /\ m_par_limit_out'[r] = m_par_limit_out[r]
            /\ m_trail'[r] = m_trail[r]
        BY <1>1, <3>2 DEF UnitTypes
      <4>2. /\ m_par_limit_in[r] <= Len(m_units) /\ m_par_limit_out[r] <= Len(m_trail[r])
            /\ m_par_limit_in[r] \in Nat
        BY DEF UnitsInv, LimitsInv, UnitTypes
      <4> QED
        BY <1>1, <1>5, <1>7, <4>1, <4>2
    <3> QED
      BY <3>1, <3>2
  <2> QED
    BY <2>1 DEF LimitsInv
<1>10. \A i, j \in DOMAIN m_units' : m_units'[i] = m_units'[j] => i = j
  BY <1>1, <1>5 DEF UnitsInv, UnitsDelivered
<1>11. (\A x : In(m_trail[s], x) => In(tr, x)) /\ \A x : In(m_units, x) => In(all, x)
  BY <1>5, <1>6 DEF In
<1>12. ASSUME st.conflict = FALSE, NEW i \in DOMAIN m_units PROVE In(tr, m_units[i])
  <2>1. CASE i <= m_par_limit_in[s]
    <3>1. i \in 1 .. m_par_limit_in[s]
      BY <1>2, <1>7, <2>1
    <3>2. In(m_trail[s], m_units[i])
      BY <1>6, <1>12, <3>1 DEF UnitsInv, UnitsDelivered
    <3> QED
      BY <1>11, <3>2
  <2>2. CASE i > m_par_limit_in[s]
    <3>1. PICK j \in DOMAIN in : in[j] = m_units[i]
      BY <1>3, <1>7, <2>2
    <3> QED
      BY <1>6, <1>12, <3>1
  <2> QED
    BY <1>2, <1>7, <2>1, <2>2
<1>13. ASSUME st.conflict = FALSE, NEW i \in DOMAIN all PROVE In(tr, all[i])
  <2>1. CASE In(m_units, all[i])
    BY <1>12, <1>13, <2>1 DEF In
  <2>2. CASE In(out, all[i])
    <3>1. In(m_trail[s], all[i])
      BY <1>4, <2>2 DEF In
    <3> QED
      BY <1>11, <3>1
  <2> QED
    BY <1>5, <2>1, <2>2
<1>14. ASSUME NEW r \in Solvers, ~inconsistent'[r], NEW i \in 1 .. m_par_limit_in'[r]
       PROVE  In(m_trail'[r], m_units'[i])
  <2>1. CASE r = s
    <3>1. m_par_limit_in'[r] = Len(all) /\ m_trail'[r] = tr
      BY <1>1, <2>1 DEF UnitTypes
    <3>2. st.conflict = FALSE
      BY <1>1, <1>6, <1>14, <2>1 DEF UnitTypes
    <3> QED
      BY <1>1, <1>7, <1>13, <3>1, <3>2
  <2>2. CASE r # s
    <3>1. m_par_limit_in'[r] = m_par_limit_in[r] /\ m_trail'[r] = m_trail[r]
      BY <1>1, <2>2 DEF UnitTypes
    <3>2. m_par_limit_in[r] <= Len(m_units) /\ m_par_limit_in[r] \in Nat
      BY DEF UnitsInv, LimitsInv, UnitTypes
    <3>3. i \in DOMAIN m_units /\ i \in 1 .. m_par_limit_in[r]
      BY <1>7, <3>1, <3>2
    <3>5. ~inconsistent[r]
      BY <1>1, <1>14, <2>2 DEF UnitTypes
    <3>4. In(m_trail[r], m_units[i])
      BY <3>3, <3>5 DEF UnitsInv, UnitsDelivered
    <3> QED
      BY <1>1, <1>5, <3>1, <3>3, <3>4
  <2> QED
    BY <2>1, <2>2
<1>15. ASSUME NEW r \in Solvers, NEW i \in 1 .. m_par_limit_out'[r], Common(m_trail'[r][i])
       PROVE  In(m_units', m_trail'[r][i])
  <2>1. CASE r = s
    <3>1. m_par_limit_out'[r] = Len(m_trail[s]) /\ m_trail'[r] = tr
      BY <1>1, <2>1 DEF UnitTypes
    <3>2. i \in DOMAIN m_trail[s] /\ m_trail'[r][i] = m_trail[s][i]
      BY <1>6, <1>7, <3>1
    <3>3. CASE i <= m_par_limit_out[s]
      <4>1. i \in 1 .. m_par_limit_out[s]
        BY <1>2, <1>7, <3>2, <3>3
      <4>2. In(m_units, m_trail[s][i])
        BY <1>15, <3>2, <4>1 DEF UnitsInv, UnitsDelivered
      <4> QED
        BY <1>1, <1>11, <3>2, <4>2
    <3>4. CASE i > m_par_limit_out[s]
      <4>1. PICK j \in DOMAIN out : out[j] = m_trail[s][i]
        BY <1>4, <1>7, <3>2, <3>4 DEF In
      <4> QED
        BY <1>1, <1>5, <1>15, <3>2, <4>1
    <3> QED
      BY <1>2, <1>7, <3>2, <3>3, <3>4
  <2>2. CASE r # s
    <3>1. m_par_limit_out'[r] = m_par_limit_out[r] /\ m_trail'[r] = m_trail[r]
      BY <1>1, <2>2 DEF UnitTypes
    <3>2. In(m_units, m_trail[r][i])
      BY <1>15, <3>1 DEF UnitsInv, UnitsDelivered
    <3> QED
      BY <1>1, <1>11, <3>1, <3>2
  <2> QED
    BY <2>1, <2>2
<1>16. UnitsDelivered'
  BY <1>10, <1>14, <1>15 DEF UnitsDelivered
<1>17. \A i \in DOMAIN m_trail[s] : m_trail[s][i] \in Known(s)
  BY DEF UnitsInv, UnitsGenuine
<1>18. ListInv'
  <2>1. ASSUME NEW i \in DOMAIN all
        PROVE  Common(all[i]) /\ \E r \in Solvers : <<r, all[i]>> \in derived
    <3>1. CASE In(m_units, all[i])
      BY <3>1 DEF UnitsInv, ListInv, In
    <3>2. CASE In(out, all[i]) /\ Common(all[i])
      <4>1. all[i] \in Known(s)
        BY <1>4, <1>17, <3>2 DEF In
      <4> QED
        BY <3>2, <4>1 DEF Known
    <3> QED
      BY <1>5, <3>1, <3>2
  <2> QED
    BY <1>1, <2>1 DEF ListInv
<1>19. \A j \in DOMAIN in : in[j] \in Known(s)
  <2> TAKE j \in DOMAIN in
  <2>1. in[j] \in Lits
    BY <1>3
  <2>2. Common(in[j]) /\ \E r \in Solvers : <<r, in[j]>> \in derived
    BY <1>3 DEF In, UnitsInv, ListInv
  <2> QED
    BY <2>1, <2>2 DEF Known
<1>20. \A x : In(tr, x) => x \in Known(s)
  BY <1>6, <1>17, <1>19 DEF In
<1>21. UnitsGenuine'
  <2>1. ASSUME NEW r \in Solvers
        PROVE  /\ \A i \in DOMAIN m_trail'[r] : m_trail'[r][i] \in Known(r)
               /\ inconsistent'[r] => \E l \in Known(r) : Not(l) \in Known(r)
    <3>1. CASE r = s
      <4>1. m_trail'[r] = tr /\ inconsistent'[r] = st.conflict
        BY <1>1, <3>1 DEF UnitTypes
      <4>2. \A i \in DOMAIN m_trail'[r] : m_trail'[r][i] \in Known(r)
        BY <1>20, <3>1, <4>1 DEF In
      <4>3. ASSUME st.conflict = TRUE PROVE \E l \in Known(s) : Not(l) \in Known(s)
        <5>1. CASE inconsistent[s] = TRUE
          BY <5>1 DEF UnitsInv, UnitsGenuine
        <5>2. CASE \E j \in DOMAIN in : In(tr, Not(in[j]))
          BY <1>19, <1>20, <5>2
        <5> QED
          BY <1>6, <4>3, <5>1, <5>2
      <4> QED
        BY <1>6, <3>1, <4>1, <4>2, <4>3
    <3>2. CASE r # s
      <4>1. m_trail'[r] = m_trail[r] /\ inconsistent'[r] = inconsistent[r]
        BY <1>1, <3>2 DEF UnitTypes
      <4> QED
        BY <4>1 DEF UnitsInv, UnitsGenuine
    <3> QED
      BY <3>1, <3>2
  <2>2. \A r : Known(r)' = Known(r)
    BY <1>1 DEF Known
  <2> QED
    BY <2>1, <2>2 DEF UnitsGenuine
<1> QED
  BY <1>8, <1>9, <1>16, <1>18, <1>21 DEF UnitsInv

LEMMA UnitsLearn ==
  ASSUME UnitTypes, UnitsInv, NEW s \in Solvers, NEW l \in Lits, LearnUnit(s, l)
  PROVE  UnitTypes' /\ UnitsInv'
<1> DEFINE st == AssignUnit(Base(s), l)
           tr == st.trail
<1>1. /\ m_trail' = [m_trail EXCEPT ![s] = tr]
      /\ inconsistent' = [inconsistent EXCEPT ![s] = st.conflict]
      /\ derived' = derived \cup {<<s, l>>}
      /\ UNCHANGED <<m_units, m_par_limit_in, m_par_limit_out>>
  BY DEF LearnUnit
<1>2. /\ tr \in Seq(Lits) /\ st.conflict \in BOOLEAN /\ Len(m_trail[s]) <= Len(tr)
      /\ \A j \in DOMAIN m_trail[s] : j \in DOMAIN tr /\ tr[j] = m_trail[s][j]
      /\ \A j \in DOMAIN tr : In(m_trail[s], tr[j]) \/ tr[j] = l
      /\ st.conflict = FALSE => inconsistent[s] = FALSE
      /\ st.conflict = TRUE => inconsistent[s] = TRUE \/ In(m_trail[s], Not(l))
  <2> DEFINE b == Base(s)
  <2>1. b \in Bases /\ b.trail = m_trail[s] /\ b.conflict = inconsistent[s]
    BY DEF UnitTypes, Bases, Base
  <2> HIDE DEF b
  <2>2. st \in Bases /\ Grows(st, b, l)
    BY <2>1, AssignTypes DEF b
  <2> HIDE DEF st
  <2>3. tr \in Seq(Lits) /\ st.conflict \in BOOLEAN
    BY <2>2 DEF Bases
  <2> QED
    BY <2>1, <2>2, <2>3 DEF Grows
<1> HIDE DEF tr, st
<1>3. UnitTypes'
  BY <1>1, <1>2 DEF UnitTypes
<1>4. ASSUME NEW r \in Solvers
      PROVE  /\ Len(m_trail[r]) <= Len(m_trail'[r]) /\ Len(m_trail[r]) \in Nat
             /\ Len(m_trail'[r]) \in Nat /\ DOMAIN m_trail[r] = 1 .. Len(m_trail[r])
             /\ \A j \in DOMAIN m_trail[r] : j \in DOMAIN m_trail'[r] /\ m_trail'[r][j] = m_trail[r][j]
  <2>0. m_trail[r] \in Seq(Lits) /\ m_trail'[r] \in Seq(Lits)
    BY <1>3 DEF UnitTypes
  <2>1. CASE r = s
    <3>1. m_trail'[r] = tr
      BY <1>1, <2>1 DEF UnitTypes
    <3> QED
      BY <1>2, <2>0, <2>1, <3>1
  <2>2. CASE r # s
    <3>1. m_trail'[r] = m_trail[r]
      BY <1>1, <2>2 DEF UnitTypes
    <3> QED
      BY <2>0, <3>1
  <2> QED
    BY <2>1, <2>2
<1>5. ASSUME NEW r \in Solvers
      PROVE  m_par_limit_in'[r] <= Len(m_units') /\ m_par_limit_out'[r] <= Len(m_trail'[r])
  <2>1. m_par_limit_in[r] <= Len(m_units) /\ m_par_limit_out[r] <= Len(m_trail[r])
        /\ m_par_limit_out[r] \in Nat
    BY DEF UnitsInv, LimitsInv, UnitTypes
  <2> QED
    BY <1>1, <1>4, <2>1
<1>6. ASSUME NEW r \in Solvers, ~inconsistent'[r], NEW i \in 1 .. m_par_limit_in'[r]
      PROVE  In(m_trail'[r], m_units'[i])
  <2>1. ~inconsistent[r]
    BY <1>1, <1>2, <1>6 DEF UnitTypes
  <2>2. In(m_trail[r], m_units[i])
    BY <1>1, <1>6, <2>1 DEF UnitsInv, UnitsDelivered
  <2> QED
    BY <1>1, <1>4, <2>2 DEF In
<1>7. ASSUME NEW r \in Solvers, NEW i \in 1 .. m_par_limit_out'[r], Common(m_trail'[r][i])
      PROVE  In(m_units', m_trail'[r][i])
  <2>1. m_par_limit_out[r] <= Len(m_trail[r]) /\ m_par_limit_out[r] \in Nat
        /\ m_par_limit_out'[r] = m_par_limit_out[r]
    BY <1>1 DEF UnitsInv, LimitsInv, UnitTypes
  <2>2. i \in 1 .. m_par_limit_out[r] /\ i \in DOMAIN m_trail[r]
    BY <1>4, <2>1
  <2>3. m_trail'[r][i] = m_trail[r][i]
    BY <1>4, <2>2
  <2>4. In(m_units, m_trail[r][i])
    BY <1>7, <2>2, <2>3 DEF UnitsInv, UnitsDelivered
  <2> QED
    BY <1>1, <2>3, <2>4
<1>8. UnitsDelivered'
  <2>1. \A i, j \in DOMAIN m_units' : m_units'[i] = m_units'[j] => i = j
    BY <1>1 DEF UnitsInv, UnitsDelivered
  <2> QED
    BY <1>6, <1>7, <2>1 DEF UnitsDelivered
<1>9. ListInv'
  BY <1>1 DEF UnitsInv, ListInv
<1>10. /\ l \in Known(s)'
       /\ \A r : \A x \in Known(r) : x \in Known(r)'
  BY <1>1 DEF Known
<1>11. ASSUME NEW r \in Solvers
       PROVE  /\ \A i \in DOMAIN m_trail'[r] : m_trail'[r][i] \in Known(r)'
              /\ inconsistent'[r] => \E x \in Known(r)' : Not(x) \in Known(r)'
  <2>1. /\ \A i \in DOMAIN m_trail[r] : m_trail[r][i] \in Known(r)
        /\ inconsistent[r] => \E x \in Known(r) : Not(x) \in Known(r)
    BY DEF UnitsInv, UnitsGenuine
  <2>2. CASE r = s
    <3>1. m_trail'[r] = tr /\ inconsistent'[r] = st.conflict
      BY <1>1, <2>2 DEF UnitTypes
    <3>2. \A x : In(m_trail[s], x) => x \in Known(s)'
      BY <1>10, <2>1, <2>2 DEF In
    <3>3. \A i \in DOMAIN tr : tr[i] \in Known(s)'
      BY <1>2, <1>10, <3>2
    <3>4. ASSUME st.conflict = TRUE PROVE \E x \in Known(s)' : Not(x) \in Known(s)'
      <4>1. CASE inconsistent[s] = TRUE
        BY <1>10, <2>1, <2>2, <4>1
      <4>2. CASE In(m_trail[s], Not(l))
        BY <1>10, <3>2, <4>2
      <4> QED
        BY <1>2, <3>4, <4>1, <4>2
    <3> QED
      BY <1>2, <2>2, <3>1, <3>3, <3>4
  <2>3. CASE r # s
    <3>1. m_trail'[r] = m_trail[r] /\ inconsistent'[r] = inconsistent[r]
      BY <1>1, <2>3 DEF UnitTypes
    <3> QED
      BY <1>10, <2>1, <3>1
  <2> QED
    BY <2>2, <2>3
<1>12. UnitsGenuine'
  BY <1>11 DEF UnitsGenuine
<1>13. LimitsInv'
  BY <1>5 DEF LimitsInv
<1> QED
  BY <1>3, <1>8, <1>9, <1>12, <1>13 DEF UnitsInv

-----------------------------------------------------------------------------
(* The steps *)

PoolTypes ==
  /\ m_vectors \in [Words -> Nat]
  /\ m_tail \in 0 .. Size - 1
  /\ m_heads \in [Solvers -> 0 .. Size - 1]
  /\ log \in Seq([owner : Solvers, len : Lengths])
  /\ last \in [Solvers -> 0 .. Len(log)]

SyncTypes ==
  /\ at \in [Solvers -> {"search", "drain", "units", "lemma", "done"}] /\ m_mux \in Solvers \cup {NoOne}
  /\ blocked \subseteq Solvers

FlagTypes ==
  m_at_end \in [Solvers -> BOOLEAN] /\ m_par_syncing_clauses \in [Solvers -> BOOLEAN]

LEMMA TypeParts ==
  /\ TypeOK <=> PoolTypes /\ SyncTypes /\ FlagTypes /\ UnitTypes
  /\ TypeOK' <=> PoolTypes' /\ SyncTypes' /\ FlagTypes' /\ UnitTypes'
<1>1. TypeOK <=> PoolTypes /\ SyncTypes /\ FlagTypes /\ UnitTypes
  BY Zenon DEF TypeOK, PoolTypes, SyncTypes, FlagTypes, UnitTypes
<1>2. TypeOK' <=> PoolTypes' /\ SyncTypes' /\ FlagTypes' /\ UnitTypes'
  BY Zenon DEF TypeOK, PoolTypes, SyncTypes, FlagTypes, UnitTypes
<1> QED
  BY <1>1, <1>2

LEMMA SInvInit == Init => SInv
<1> SUFFICES ASSUME Init PROVE SInv
  OBVIOUS
<1> USE DEF Init
<1>1. Size \in Nat \ {0} /\ 0 \in 0 .. Size - 1
  BY WordsParts
<1>2. PoolTypes /\ SyncTypes /\ UnitTypes
  <2>1. PoolTypes
    BY <1>1 DEF PoolTypes
  <2>2. SyncTypes
    BY DEF SyncTypes
  <2>3. UnitTypes
    BY DEF UnitTypes
  <2> QED
    BY <2>1, <2>2, <2>3
<1>3. FlagTypes
  BY DEF FlagTypes
<1>4. RingInv
  <2>1. Entries({}) /\ Readers({})
    BY DEF Entries, Readers, Pending
  <2> QED
    BY <2>1 DEF RingInv
<1>5. MutexInv
  BY DEF MutexInv
<1>6. UnitsInv
  BY DEF UnitsInv, LimitsInv, ListInv, UnitsDelivered, UnitsGenuine
<1> QED
  BY <1>2, <1>3, <1>4, <1>5, <1>6, TypeParts DEF SInv

\* Every operation of every solver keeps the invariant, and last never goes back.
LEMMA SInvNext ==
  ASSUME SInv, Next
  PROVE  SInv' /\ \A r \in Solvers : last'[r] >= last[r]
<1>1. /\ TypeOK /\ PoolTypes /\ SyncTypes /\ FlagTypes /\ UnitTypes
      /\ RingInv /\ MutexInv /\ UnitsInv
  BY TypeParts DEF SInv
<1>2. ASSUME UNCHANGED pool
      PROVE  PoolTypes' /\ RingInv' /\ \A r \in Solvers : last'[r] >= last[r]
  <2>1. PoolTypes'
    BY <1>1, <1>2 DEF PoolTypes, pool
  <2>2. \A r \in Solvers : last[r] \in Nat
    BY <1>1 DEF PoolTypes
  <2> QED
    BY <1>1, <1>2, <2>1, <2>2, RingStays DEF pool
<1>3. ASSUME UNCHANGED units
      PROVE  UnitTypes' /\ UnitsInv'
  BY <1>1, <1>3, UnitsStay
<1>0. CASE Terminated
  <2>1. UNCHANGED pool /\ UNCHANGED units /\ UNCHANGED sync
    BY <1>0 DEF Terminated, vars
  <2>2. SyncTypes' /\ MutexInv'
    BY <1>1, <2>1 DEF SyncTypes, MutexInv, sync
  <2>3. FlagTypes'
    BY <1>1, <2>1 DEF FlagTypes, pool, sync
  <2> QED
    BY <1>2, <1>3, <2>1, <2>2, <2>3, TypeParts DEF SInv
<1> SUFFICES ASSUME ~Terminated
             PROVE  SInv' /\ \A r \in Solvers : last'[r] >= last[r]
  BY <1>0
<1>4. PICK s \in Solvers :
        \/ \E n \in Lengths : ShareClause(s, n)
        \/ get_clauses(s) \/ get_vector(s) \/ Drained(s) \/ exchange(s) \/ End(s)
        \/ \E l \in Lits : LearnUnit(s, l)
  BY DEF Next
<1>5. ASSUME NEW n \in Lengths, ShareClause(s, n)
      PROVE  SInv' /\ \A r \in Solvers : last'[r] >= last[r]
  <2>1. /\ AddVector(s, n) /\ UNCHANGED units
        /\ UNCHANGED <<m_mux, m_par_syncing_clauses, blocked>>
        /\ at[s] \in {"search", "lemma"} /\ at' = [at EXCEPT ![s] = Onward(s)]
    BY <1>5 DEF ShareClause
  <2>2. RingInv' /\ m_heads' \in [Solvers -> 0 .. Size - 1]
    BY <1>1, <2>1, RingAdd
  <2>3. PoolTypes' /\ \A r \in Solvers : last'[r] >= last[r]
    <3>1. /\ m_vectors' \in [Words -> Nat] /\ m_tail' \in 0 .. Size - 1
          /\ log' \in Seq([owner : Solvers, len : Lengths])
          /\ Len(log) \in Nat /\ Len(log') = Len(log) + 1
      BY <1>1, <2>1, AddVectorParts
    <3>2. last' = last
      BY <2>1 DEF AddVector
    <3> QED
      BY <1>1, <2>2, <3>1, <3>2, SMTT(30) DEF PoolTypes
  <2>4. SyncTypes' /\ MutexInv'
    BY <1>1, <2>1 DEF SyncTypes, MutexInv, Onward
  <2>5. FlagTypes'
    BY <1>1, <2>1 DEF FlagTypes, AddVector
  <2> QED
    BY <1>3, <2>1, <2>2, <2>3, <2>4, <2>5, TypeParts DEF SInv
<1>6. CASE get_clauses(s)
  <2>1. UNCHANGED pool /\ UNCHANGED units
    BY <1>6 DEF get_clauses
  <2>2. SyncTypes'
    BY <1>1, <1>6 DEF SyncTypes, get_clauses
  <2>3. FlagTypes'
    BY <1>1, <1>6 DEF FlagTypes, get_clauses, pool
  <2>4. MutexInv'
    BY <1>1, <1>6 DEF SyncTypes, FlagTypes, MutexInv, get_clauses
  <2> QED
    BY <1>2, <1>3, <2>1, <2>2, <2>3, <2>4, TypeParts DEF SInv
<1>7. CASE get_vector(s)
  <2>1. /\ UNCHANGED units /\ UNCHANGED <<m_vectors, m_tail, log, at, m_mux, m_par_syncing_clauses>>
        /\ at[s] = "drain"
    BY <1>7 DEF get_vector
  <2>2. /\ RingInv' /\ m_heads' \in [Solvers -> 0 .. Size - 1]
        /\ last' \in [Solvers -> 0 .. Len(log)]
        /\ \A r \in Solvers : last'[r] >= last[r]
    BY <1>1, <1>7, RingGet
  <2>3. PoolTypes'
    BY <1>1, <2>1, <2>2 DEF PoolTypes
  <2>4. blocked' = {}
    <3>1. m_par_syncing_clauses[s] /\ blocked = {}
      BY <1>1, <2>1 DEF MutexInv
    <3> QED
      BY <1>7, <3>1 DEF get_vector, Import
  <2>5. SyncTypes' /\ MutexInv'
    BY <1>1, <2>1, <2>4 DEF SyncTypes, MutexInv
  <2>6. FlagTypes'
    BY <1>1, <1>7, <2>1 DEF FlagTypes, get_vector
  <2> QED
    BY <1>3, <2>1, <2>2, <2>3, <2>5, <2>6, TypeParts DEF SInv
<1>8. CASE Drained(s)
  <2>1. UNCHANGED pool /\ UNCHANGED units
    BY <1>8 DEF Drained
  <2>2. SyncTypes'
    BY <1>1, <1>8 DEF SyncTypes, Drained
  <2>3. FlagTypes'
    BY <1>1, <1>8 DEF FlagTypes, Drained, pool
  <2>4. MutexInv'
    BY <1>1, <1>8 DEF SyncTypes, FlagTypes, MutexInv, Drained
  <2> QED
    BY <1>2, <1>3, <2>1, <2>2, <2>3, <2>4, TypeParts DEF SInv
<1>9. CASE exchange(s)
  <2>1. UNCHANGED pool /\ UNCHANGED <<m_mux, m_par_syncing_clauses, blocked>>
        /\ at' = [at EXCEPT ![s] = IF Delivered(s).conflict THEN "lemma" ELSE "search"]
    BY <1>9 DEF exchange
  <2>2. UnitTypes' /\ UnitsInv'
    BY <1>1, <1>9, UnitsExchange
  <2>3. SyncTypes' /\ MutexInv'
    BY <1>1, <2>1 DEF SyncTypes, MutexInv
  <2>4. FlagTypes'
    BY <1>1, <2>1 DEF FlagTypes, pool
  <2> QED
    BY <1>2, <2>1, <2>2, <2>3, <2>4, TypeParts DEF SInv
<1>10. ASSUME NEW l \in Lits, LearnUnit(s, l)
       PROVE  SInv' /\ \A r \in Solvers : last'[r] >= last[r]
  <2>1. /\ UNCHANGED pool /\ UNCHANGED <<m_mux, m_par_syncing_clauses, blocked>>
        /\ at[s] \in {"search", "drain", "lemma"} /\ at' = [at EXCEPT ![s] = Onward(s)]
    BY <1>10 DEF LearnUnit
  <2>2. UnitTypes' /\ UnitsInv'
    BY <1>1, <1>10, UnitsLearn
  <2>3. SyncTypes' /\ MutexInv'
    BY <1>1, <2>1 DEF SyncTypes, MutexInv, Onward
  <2>4. FlagTypes'
    BY <1>1, <2>1 DEF FlagTypes, pool
  <2> QED
    BY <1>2, <2>1, <2>2, <2>3, <2>4, TypeParts DEF SInv
<1>11. CASE End(s)
  <2>1. /\ UNCHANGED pool /\ UNCHANGED units
        /\ UNCHANGED <<m_mux, m_par_syncing_clauses, blocked>>
        /\ at' = [at EXCEPT ![s] = "done"]
    BY <1>11 DEF End
  <2>2. SyncTypes' /\ MutexInv'
    BY <1>1, <2>1 DEF SyncTypes, MutexInv
  <2>3. FlagTypes'
    BY <1>1, <2>1 DEF FlagTypes, pool
  <2> QED
    BY <1>2, <1>3, <2>1, <2>2, <2>3, TypeParts DEF SInv
<1> QED
  BY <1>4, <1>5, <1>6, <1>7, <1>8, <1>9, <1>10, <1>11

LEMMA SInvStep == SInv /\ [Next]_vars => SInv'
<1> SUFFICES ASSUME SInv, [Next]_vars PROVE SInv'
  OBVIOUS
<1>1. CASE UNCHANGED vars
  <2>1. /\ TypeOK' /\ MutexInv'
    BY <1>1 DEF SInv, vars, pool, units, sync, TypeOK, MutexInv
  <2>3. UnitsInv'
    BY <1>1, UnitsStay, TypeParts DEF SInv, vars
  <2>2. RingInv'
    BY <1>1, RingStays DEF SInv, vars
  <2> QED
    BY <2>1, <2>2, <2>3 DEF SInv
<1>2. CASE Next
  BY <1>2, SInvNext
<1> QED
  BY <1>1, <1>2

-----------------------------------------------------------------------------
(* The theorems *)

\* The invariant holds in every reachable state.
THEOREM SInvariance == Spec => []SInv
BY SInvInit, SInvStep, PTL DEF Spec

\* However far a reader of the pool lags behind, and whatever the lengths of the
\* clauses and the size of the pool, its head is at a complete entry it has not
\* passed.
THEOREM HeadsGenuine == Spec => []HeadGenuine
<1>1. SInv => HeadGenuine
  <2> SUFFICES ASSUME SInv PROVE HeadGenuine
    OBVIOUS
  <2>1. TypeOK
    BY DEF SInv
  <2>2. PICK E \in SUBSET (0 .. Size - 1) : Entries(E) /\ Readers(E)
    BY DEF SInv, RingInv
  <2>3. ASSUME NEW s \in Solvers, Pending(s)
        PROVE  \E k \in last[s] + 1 .. Len(log) : EntryIs(m_heads[s], k)
    <3> DEFINE k == Key(m_heads[s])
    <3>1. k \in 1 .. Len(log) /\ EntryIs(m_heads[s], k) /\ last[s] < k
      BY <2>2, <2>3 DEF Readers, Entries
    <3>2. last[s] \in 0 .. Len(log) /\ Len(log) \in Nat
      BY <2>1 DEF TypeOK
    <3> HIDE DEF k
    <3>3. k \in last[s] + 1 .. Len(log)
      BY <3>1, <3>2
    <3> QED
      BY <3>1, <3>3
  <2> QED
    BY <2>1, <2>3 DEF HeadGenuine
<1> QED
  BY <1>1, SInvariance, PTL

\* A reader that has nothing pending has passed the newest clause.
THEOREM NewestIsReached == Spec => []NewestReached
<1>1. SInv => NewestReached
  BY DEF SInv, RingInv, Readers, NewestReached
<1> QED
  BY <1>1, SInvariance, PTL

\* Clauses reach a solver in the order in which they were shared.
THEOREM ReadInOrder == Spec => InOrder
<1>1. SInv /\ [Next]_vars => [\A s \in Solvers : last'[s] >= last[s]]_vars
  BY SInvNext
<1> QED
  BY <1>1, SInvariance, PTL DEF Spec, InOrder

\* No solver waits for the mutex it holds.
THEOREM NeverSelfDeadlocked == Spec => []NoSelfDeadlock
<1>1. SInv => NoSelfDeadlock
  BY DEF SInv, MutexInv, NoSelfDeadlock
<1> QED
  BY <1>1, SInvariance, PTL

\* A solver without a conflict has taken every unit below its limit, what it has
\* published is in the list, and nothing is there twice.
THEOREM UnitsAreDelivered == Spec => []UnitsDelivered
<1>1. SInv => UnitsDelivered
  BY DEF SInv, UnitsInv
<1> QED
  BY <1>1, SInvariance, PTL

\* Trails and conflicts come from units their solver derived, or anybody about
\* the common variables.
THEOREM UnitsAreGenuine == Spec => []UnitsGenuine
<1>1. SInv => UnitsGenuine
  BY DEF SInv, UnitsInv
<1> QED
  BY <1>1, SInvariance, PTL


-----------------------------------------------------------------------------
(* How a check is stopped: the inductive invariant *)

PCs == {"idle", "handler", "registered", "timed", "first", "init", "join",
        "unlink", "pop", "stop", "unregister", "destroy"}

InHandler == {"test", "set", "inc"}

\* The types, with where the check and the two callers of the handler can be.
Typed ==
  /\ CTypeOK /\ stmt \in PCs
  /\ caller["timer"] \in {"off", "on"} \cup InHandler
  /\ caller["user"] \in {"off", "limit"} \cup InHandler

\* The handler exists during a check and is registered in the middle of it; the
\* mutex of the context keeps it registered while a user thread is inside, and
\* the timer runs within the scope of its object.
HandlerInv ==
  /\ mux_held <=> caller["user"] # "off"
  /\ alive <=> stmt # "idle"
  /\ m_interruptable <=> stmt \notin {"idle", "handler", "destroy"}
  /\ caller["user"] \in InHandler => m_interruptable
  /\ caller["timer"] # "off" =>
       stmt \in {"timed", "first", "init", "join", "unlink", "pop", "stop"}

\* Auxiliary solvers are linked one by one, all of them while threads run.
ChildrenInv ==
  /\ stmt = "init" => \E k \in 0 .. NumAux : m_children = 1 .. k
  /\ stmt \in {"join", "unlink"} => m_children = Aux
  /\ stmt \notin {"init", "join", "unlink"} => m_children = {}

\* Threads run in the join only, and only the first to finish cancels others.
WorkersInv ==
  /\ stmt # "join" => \A i \in Searchers : worker[i] = "off"
  /\ \A i \in Searchers : worker[i] \in {"first", "cancel"} => finished_id = i

\* Before a thread has finished, a limit that is reached has a cause; so has a
\* thread that ended without finishing.
CauseInv ==
  /\ stmt \in {"handler", "registered", "timed"} => result = "none"
  /\ stmt \in {"first", "init"} /\ ~inc(0) => cause # {}
  /\ stmt = "init" => \A i \in m_children : m_cancel[i] > 0 => cause # {}
  /\ stmt = "join" /\ finished_id = None =>
       \A i \in Searchers : ~inc(i) \/ worker[i] = "ended" => cause # {}

CInv ==
  /\ Typed /\ HandlerInv /\ ChildrenInv /\ WorkersInv /\ CauseInv
  /\ CancelReachesAll /\ UnknownForAReason

-----------------------------------------------------------------------------
(* Initially *)

\* Before the first check.
LEMMA CInvInit == CInit => CInv
<1> SUFFICES ASSUME CInit PROVE CInv
  OBVIOUS
<1> USE CheckParAssumption DEF CInit, PCs, InHandler, Searchers, Aux, Callers, None
<1>1. FlagsOK
  BY DEF FlagsOK
<1>2. Typed
  BY <1>1 DEF Typed, CTypeOK
<1>3. HandlerInv /\ ChildrenInv /\ WorkersInv
  BY DEF HandlerInv, ChildrenInv, WorkersInv
<1>4. CauseInv /\ CancelReachesAll /\ UnknownForAReason
  BY DEF CauseInv, CancelReachesAll, UnknownForAReason
<1> QED BY <1>2, <1>3, <1>4 DEF CInv

-----------------------------------------------------------------------------
(* Each step *)

USE CheckParAssumption DEF CInv, Typed, CTypeOK, HandlerInv, ChildrenInv, WorkersInv,
   CauseInv, CancelReachesAll, UnknownForAReason, PCs, InHandler, Searchers, Aux, Callers, None, inc,
   limits, handler, workers, counts

\* One more auxiliary solver is linked (init_solvers, push_child).
LEMMA LinkStep ==
  ASSUME CInv, init_solvers PROVE CInv'
<1> USE DEF init_solvers
<1>1. PICK k \in 0 .. NumAux : m_children = 1 .. k
  OBVIOUS
<1>2. Cardinality(m_children) = k
  BY <1>1, FS_Interval
<1>3. k < NumAux
  BY <1>1
<1>4. m_cancel' = [m_cancel EXCEPT ![k + 1] = 0] /\ m_children' = m_children \cup {k + 1}
  BY <1>2
<1>5. k + 1 \in Aux /\ m_children' = 1 .. k + 1
  BY <1>1, <1>3, <1>4
<1>6. FlagsOK'
  BY DEF FlagsOK
<1>7. Typed'
  <2>1. m_cancel' \in [Searchers -> Nat] /\ m_children' \subseteq Aux
    BY <1>3, <1>4, <1>5
  <2> QED BY <1>6, <2>1
<1>8. HandlerInv' /\ WorkersInv'
  OBVIOUS
<1>9. ChildrenInv'
  <2>1. k + 1 \in 0 .. NumAux
    BY <1>3
  <2> QED BY <1>5, <2>1
<1>10. CauseInv'
  <2>1. \A j \in m_children' : m_cancel'[j] > 0 => cause' # {}
    BY <1>4, <1>5
  <2>2. ~inc(0)' => ~inc(0)
    BY <1>4, <1>5
  <2> QED BY <2>1, <2>2
<1>11. CancelReachesAll' /\ UnknownForAReason'
  OBVIOUS
<1> QED BY <1>7, <1>8, <1>9, <1>10, <1>11

\* A thread comes to the end of worker_thread; an unknown result has a cause.
LEMMA FinishStep ==
  ASSUME CInv, NEW i \in Searchers, NEW r \in {"answer", "undef"}, Finish(i, r),
         cause \subseteq cause', r = "undef" /\ finished_id = None => cause' # {}
  PROVE  CInv'
<1> USE DEF Finish
<1>1. FlagsOK'
  BY DEF FlagsOK
<1>2. Typed'
  BY <1>1
<1>3. HandlerInv' /\ ChildrenInv'
  OBVIOUS
<1>4. WorkersInv'
  OBVIOUS
<1>5. CauseInv'
  OBVIOUS
<1>6. CancelReachesAll'
  OBVIOUS
<1>7. UnknownForAReason'
  OBVIOUS
<1> QED BY <1>2, <1>3, <1>4, <1>5, <1>6, <1>7

\* A thread ends by an exception, which has a cause unless the result is there.
LEMMA ThrowStep ==
  ASSUME CInv, NEW i \in Searchers, NEW why, Throw(i, why),
         finished_id = None => cause' # {}
  PROVE  CInv'
<1> USE DEF Throw
<1>1. FlagsOK'
  BY DEF FlagsOK
<1>2. Typed'
  BY <1>1
<1>3. HandlerInv' /\ ChildrenInv'
  OBVIOUS
<1>4. WorkersInv'
  OBVIOUS
<1>5. CauseInv'
  OBVIOUS
<1>6. CancelReachesAll' /\ UnknownForAReason'
  OBVIOUS
<1> QED BY <1>2, <1>3, <1>4, <1>5, <1>6

\* Every step of the check, of the callers of its handler and of its threads.
LEMMA CInvStep == CInv /\ [CNext]_cvars => CInv'
<1> SUFFICES ASSUME CInv, [CNext]_cvars PROVE CInv'
  OBVIOUS
<1> USE DEF set_cancel, cancel, Go, At, After
<1>1. CASE cancel_eh
  <2>1. FlagsOK'
    BY <1>1 DEF FlagsOK, cancel_eh
  <2>2. Typed'
    BY <1>1, <2>1 DEF cancel_eh
  <2>3. HandlerInv' /\ ChildrenInv' /\ WorkersInv'
    BY <1>1 DEF cancel_eh
  <2>4. CauseInv' /\ CancelReachesAll' /\ UnknownForAReason'
    BY <1>1 DEF cancel_eh
  <2> QED BY <2>2, <2>3, <2>4
<1>2. CASE set_interruptable
  <2>1. FlagsOK'
    BY <1>2 DEF FlagsOK, set_interruptable
  <2>2. Typed'
    BY <1>2, <2>1 DEF set_interruptable
  <2>3. HandlerInv' /\ ChildrenInv' /\ WorkersInv'
    BY <1>2 DEF set_interruptable
  <2>4. CauseInv' /\ CancelReachesAll' /\ UnknownForAReason'
    BY <1>2 DEF set_interruptable
  <2> QED BY <2>2, <2>3, <2>4
<1>3. CASE scoped_timer
  <2>1. FlagsOK'
    BY <1>3 DEF FlagsOK, scoped_timer
  <2>2. Typed'
    BY <1>3, <2>1 DEF scoped_timer
  <2>3. HandlerInv' /\ ChildrenInv' /\ WorkersInv'
    BY <1>3 DEF scoped_timer
  <2>4. CauseInv' /\ CancelReachesAll' /\ UnknownForAReason'
    BY <1>3 DEF scoped_timer
  <2> QED BY <2>2, <2>3, <2>4
<1>4. CASE push
  <2>1. FlagsOK'
    BY <1>4 DEF FlagsOK, push
  <2>2. Typed'
    BY <1>4, <2>1 DEF push
  <2>3. HandlerInv' /\ ChildrenInv' /\ WorkersInv'
    BY <1>4 DEF push
  <2>4. CauseInv' /\ CancelReachesAll' /\ UnknownForAReason'
    BY <1>4 DEF push
  <2> QED BY <2>2, <2>3, <2>4
<1>5. CASE FirstTest
  <2>1. FlagsOK'
    BY <1>5 DEF FlagsOK, FirstTest
  <2>2. Typed'
    BY <1>5, <2>1 DEF FirstTest
  <2>3. HandlerInv' /\ ChildrenInv' /\ WorkersInv'
    <3>1. 0 \in 0 .. NumAux /\ {} = 1 .. 0
      OBVIOUS
    <3>2. ChildrenInv'
      BY <1>5, <3>1 DEF FirstTest
    <3> QED BY <1>5, <3>2 DEF FirstTest
  <2>4. CauseInv' /\ CancelReachesAll' /\ UnknownForAReason'
    BY <1>5 DEF FirstTest
  <2> QED BY <2>2, <2>3, <2>4
<1>6. CASE init_solvers
  BY <1>6, LinkStep
<1>7. CASE SecondTest
  <2>1. FlagsOK'
    BY <1>7 DEF FlagsOK, SecondTest
  <2>2. Typed'
    BY <1>7, <2>1 DEF SecondTest
  <2>3. HandlerInv' /\ ChildrenInv' /\ WorkersInv'
    BY <1>7 DEF SecondTest
  <2>4. CauseInv' /\ CancelReachesAll' /\ UnknownForAReason'
    <3>1. \A i \in Searchers : m_cancel[i] > 0 => cause # {}
      BY <1>7 DEF SecondTest
    <3> QED BY <1>7, <3>1 DEF SecondTest
  <2> QED BY <2>2, <2>3, <2>4
<1>8. CASE JoinAll
  <2>1. FlagsOK'
    BY <1>8 DEF FlagsOK, JoinAll
  <2>2. Typed'
    BY <1>8, <2>1 DEF JoinAll
  <2>3. HandlerInv' /\ ChildrenInv' /\ WorkersInv'
    BY <1>8 DEF JoinAll
  <2>4. CauseInv' /\ CancelReachesAll' /\ UnknownForAReason'
    BY <1>8 DEF JoinAll
  <2> QED BY <2>2, <2>3, <2>4
<1>9. CASE unlink
  <2>1. FlagsOK'
    BY <1>9 DEF FlagsOK, unlink
  <2>2. Typed'
    BY <1>9, <2>1 DEF unlink
  <2>3. HandlerInv' /\ ChildrenInv' /\ WorkersInv'
    BY <1>9 DEF unlink
  <2>4. CauseInv' /\ CancelReachesAll' /\ UnknownForAReason'
    BY <1>9 DEF unlink
  <2> QED BY <2>2, <2>3, <2>4
<1>10. CASE pop
  <2>1. FlagsOK'
    BY <1>10 DEF FlagsOK, pop
  <2>2. Typed'
    BY <1>10, <2>1 DEF pop
  <2>3. HandlerInv' /\ ChildrenInv' /\ WorkersInv'
    BY <1>10 DEF pop
  <2>4. CauseInv' /\ CancelReachesAll' /\ UnknownForAReason'
    BY <1>10 DEF pop
  <2> QED BY <2>2, <2>3, <2>4
<1>11. CASE JoinTimer
  <2>1. FlagsOK'
    BY <1>11 DEF FlagsOK, JoinTimer
  <2>2. Typed'
    BY <1>11, <2>1 DEF JoinTimer
  <2>3. HandlerInv' /\ ChildrenInv' /\ WorkersInv'
    BY <1>11 DEF JoinTimer
  <2>4. CauseInv' /\ CancelReachesAll' /\ UnknownForAReason'
    BY <1>11 DEF JoinTimer
  <2> QED BY <2>2, <2>3, <2>4
<1>12. CASE unset_interruptable
  <2>1. FlagsOK'
    BY <1>12 DEF FlagsOK, unset_interruptable
  <2>2. Typed'
    BY <1>12, <2>1 DEF unset_interruptable
  <2>3. HandlerInv' /\ ChildrenInv' /\ WorkersInv'
    BY <1>12 DEF unset_interruptable
  <2>4. CauseInv' /\ CancelReachesAll' /\ UnknownForAReason'
    BY <1>12 DEF unset_interruptable
  <2> QED BY <2>2, <2>3, <2>4
<1>13. CASE dec_cancel
  <2>1. FlagsOK'
    BY <1>13 DEF FlagsOK, dec_cancel
  <2>2. Typed'
    BY <1>13, <2>1 DEF dec_cancel
  <2>3. HandlerInv' /\ ChildrenInv' /\ WorkersInv'
    BY <1>13 DEF dec_cancel
  <2>4. CauseInv' /\ CancelReachesAll' /\ UnknownForAReason'
    BY <1>13 DEF dec_cancel
  <2> QED BY <2>2, <2>3, <2>4
<1>14. CASE Expire
  <2>1. FlagsOK'
    BY <1>14 DEF FlagsOK, Expire
  <2>2. Typed'
    BY <1>14, <2>1 DEF Expire
  <2>3. HandlerInv' /\ ChildrenInv' /\ WorkersInv'
    BY <1>14 DEF Expire
  <2>4. CauseInv' /\ CancelReachesAll' /\ UnknownForAReason'
    BY <1>14 DEF Expire
  <2> QED BY <2>2, <2>3, <2>4
<1>15. CASE TimerStopped
  <2>1. FlagsOK'
    BY <1>15 DEF FlagsOK, TimerStopped
  <2>2. Typed'
    BY <1>15, <2>1 DEF TimerStopped
  <2>3. HandlerInv' /\ ChildrenInv' /\ WorkersInv'
    BY <1>15 DEF TimerStopped
  <2>4. CauseInv' /\ CancelReachesAll' /\ UnknownForAReason'
    BY <1>15 DEF TimerStopped
  <2> QED BY <2>2, <2>3, <2>4
<1>16. CASE interrupt
  <2>1. FlagsOK'
    BY <1>16 DEF FlagsOK, interrupt
  <2>2. Typed'
    BY <1>16, <2>1 DEF interrupt
  <2>3. HandlerInv' /\ ChildrenInv' /\ WorkersInv'
    BY <1>16 DEF interrupt
  <2>4. CauseInv' /\ CancelReachesAll' /\ UnknownForAReason'
    BY <1>16 DEF interrupt
  <2> QED BY <2>2, <2>3, <2>4
<1>17. CASE CancelLimit
  <2>1. FlagsOK'
    BY <1>17 DEF FlagsOK, CancelLimit
  <2>2. Typed'
    BY <1>17, <2>1 DEF CancelLimit
  <2>3. HandlerInv' /\ ChildrenInv' /\ WorkersInv'
    BY <1>17 DEF CancelLimit
  <2>4. CauseInv' /\ CancelReachesAll' /\ UnknownForAReason'
    BY <1>17 DEF CancelLimit
  <2> QED BY <2>2, <2>3, <2>4
<1>18. ASSUME NEW p \in Callers, TestCanceled(p) PROVE CInv'
  <2>1. FlagsOK'
    BY <1>18 DEF FlagsOK, TestCanceled
  <2>2. Typed'
    BY <1>18, <2>1 DEF TestCanceled
  <2>3. HandlerInv' /\ ChildrenInv' /\ WorkersInv'
    BY <1>18 DEF TestCanceled
  <2>4. CauseInv' /\ CancelReachesAll' /\ UnknownForAReason'
    BY <1>18 DEF TestCanceled
  <2> QED BY <2>2, <2>3, <2>4
<1>19. ASSUME NEW p \in Callers, SetCanceled(p) PROVE CInv'
  <2>1. FlagsOK'
    BY <1>19 DEF FlagsOK, SetCanceled
  <2>2. Typed'
    BY <1>19, <2>1 DEF SetCanceled
  <2>3. HandlerInv' /\ ChildrenInv' /\ WorkersInv'
    BY <1>19 DEF SetCanceled
  <2>4. CauseInv' /\ CancelReachesAll' /\ UnknownForAReason'
    BY <1>19 DEF SetCanceled
  <2> QED BY <2>2, <2>3, <2>4
<1>20. ASSUME NEW p \in Callers, inc_cancel(p) PROVE CInv'
  <2>1. FlagsOK'
    BY <1>20 DEF FlagsOK, inc_cancel
  <2>2. Typed'
    BY <1>20, <2>1 DEF inc_cancel
  <2>3. HandlerInv' /\ ChildrenInv' /\ WorkersInv'
    BY <1>20 DEF inc_cancel
  <2>4. CauseInv' /\ CancelReachesAll' /\ UnknownForAReason'
    BY <1>20 DEF inc_cancel
  <2> QED BY <2>2, <2>3, <2>4
<1>21. ASSUME NEW i \in Searchers, Answers(i) PROVE CInv'
  BY <1>21, FinishStep DEF Answers
<1>22. ASSUME NEW i \in Searchers, GiveUp(i) PROVE CInv'
  BY <1>22, FinishStep DEF GiveUp
<1>23. ASSUME NEW i \in Searchers, Stop(i) PROVE CInv'
  <2>1. finished_id = None => cause # {}
    BY <1>23 DEF Stop, Finish, Throw
  <2>2. CASE Finish(i, "undef") /\ UNCHANGED cause
    BY <2>1, <2>2, FinishStep
  <2>3. CASE Throw(i, {})
    BY <2>1, <2>3, ThrowStep DEF Throw
  <2> QED BY <1>23, <2>2, <2>3 DEF Stop
<1>24. ASSUME NEW i \in Searchers, cancel_solver(i) PROVE CInv'
  <2>1. FlagsOK'
    BY <1>24 DEF FlagsOK, cancel_solver
  <2>2. next_aux \in 1 .. NumAux /\ next_aux' = next_aux + 1 /\ stmt = "join" /\ finished_id = i
    BY <1>24 DEF cancel_solver
  <2>3. /\ m_cancel' \in [Searchers -> Nat]
        /\ \A j \in Searchers : m_cancel[j] > 0 => m_cancel'[j] > 0
        /\ m_cancel'[0] = m_cancel[0]
    <3>1. CASE next_aux = i
      BY <1>24, <3>1 DEF cancel_solver
    <3>2. CASE next_aux # i
      <4>1. m_cancel' = [j \in Searchers |-> IF j = next_aux THEN m_cancel[next_aux] + 1 ELSE m_cancel[j]]
        BY <1>24, <2>2, <3>2 DEF cancel_solver
      <4>2. next_aux \in Searchers /\ m_cancel[next_aux] + 1 \in Nat /\ 0 \in Searchers /\ next_aux # 0
        BY <2>2
      <4>3. \A j \in Searchers : m_cancel'[j] = IF j = next_aux THEN m_cancel[next_aux] + 1 ELSE m_cancel[j]
        BY <4>1
      <4>4. m_cancel' \in [Searchers -> Nat]
        BY <4>1, <4>2
      <4>5. m_cancel'[0] = m_cancel[0]
        BY <4>2, <4>3
      <4>6. \A j \in Searchers : m_cancel[j] > 0 => m_cancel'[j] > 0
        BY <4>2, <4>3
      <4> QED BY <4>4, <4>5, <4>6
    <3> QED BY <3>1, <3>2
  <2>4. Typed'
    BY <1>24, <2>1, <2>2, <2>3 DEF cancel_solver
  <2>5. HandlerInv' /\ ChildrenInv' /\ WorkersInv'
    BY <1>24 DEF cancel_solver
  <2>6. CauseInv' /\ UnknownForAReason'
    BY <1>24, <2>2 DEF cancel_solver
  <2>7. CancelReachesAll'
    <3>1. worker' = worker
      BY <1>24 DEF cancel_solver
    <3>2. ASSUME NEW j \in Aux, m_cancel[0] > 0, worker[j] = "running" PROVE m_cancel[j] > 0
      BY <2>2, <3>2
    <3> QED BY <2>2, <2>3, <3>1, <3>2
  <2> QED BY <2>4, <2>5, <2>6, <2>7
<1>25. ASSUME NEW i \in Searchers, TestMain(i) PROVE CInv'
  <2>1. FlagsOK'
    BY <1>25 DEF FlagsOK, TestMain
  <2>2. Typed'
    BY <1>25, <2>1 DEF TestMain
  <2>3. HandlerInv' /\ ChildrenInv' /\ WorkersInv'
    BY <1>25 DEF TestMain
  <2>4. CauseInv' /\ CancelReachesAll' /\ UnknownForAReason'
    BY <1>25 DEF TestMain
  <2> QED BY <2>2, <2>3, <2>4
<1>26. ASSUME NEW i \in Searchers, CancelMain(i) PROVE CInv'
  <2>1. FlagsOK'
    BY <1>26 DEF FlagsOK, CancelMain
  <2>2. Typed'
    BY <1>26, <2>1 DEF CancelMain
  <2>3. HandlerInv' /\ ChildrenInv' /\ WorkersInv'
    BY <1>26 DEF CancelMain
  <2>4. CauseInv' /\ CancelReachesAll' /\ UnknownForAReason'
    BY <1>26 DEF CancelMain
  <2> QED BY <2>2, <2>3, <2>4
<1>27. ASSUME NEW i \in Searchers, Throw(i, {"threw"}) PROVE CInv'
  BY <1>27, ThrowStep DEF Throw
<1>28. CASE Spend
  <2>1. FlagsOK'
    BY <1>28 DEF FlagsOK, Spend
  <2>2. Typed'
    BY <1>28, <2>1 DEF Spend
  <2>3. HandlerInv' /\ ChildrenInv' /\ WorkersInv'
    BY <1>28 DEF Spend
  <2>4. CauseInv' /\ CancelReachesAll' /\ UnknownForAReason'
    BY <1>28 DEF Spend
  <2> QED BY <2>2, <2>3, <2>4
<1>29. CASE UNCHANGED cvars
  <2>1. FlagsOK'
    BY <1>29 DEF FlagsOK, cvars
  <2>2. Typed'
    BY <1>29, <2>1 DEF cvars
  <2>3. HandlerInv' /\ ChildrenInv' /\ WorkersInv'
    BY <1>29 DEF cvars
  <2>4. CauseInv' /\ CancelReachesAll' /\ UnknownForAReason'
    BY <1>29 DEF cvars
  <2> QED BY <2>2, <2>3, <2>4
<1> QED
  BY <1>1, <1>2, <1>3, <1>4, <1>5, <1>6, <1>7, <1>8, <1>9, <1>10, <1>11, <1>12, <1>13, <1>14, <1>15, <1>16, <1>17, <1>18, <1>19, <1>20, <1>21, <1>22, <1>23, <1>24, <1>25, <1>26, <1>27, <1>28, <1>29 DEF CNext, Check, Invoke, Work

HIDE DEF CInv

-----------------------------------------------------------------------------
(* What it gives *)

\* The invariant holds in every check.
LEMMA CInvariance == CSpec => []CInv
BY CInvInit, CInvStep, PTL DEF CSpec

(***************************************************************************)
(* Whoever is inside the event handler, the timer or a thread that calls   *)
(* Z3_interrupt, finds it alive: ~scoped_timer joins the one, the mutex of *)
(* the context holds back ~set_interruptable for the other.                *)
(***************************************************************************)
THEOREM HandlerStays == CSpec => []HandlerAlive
<1>1. CInv => HandlerAlive
  BY DEF CInv, HandlerAlive
<1> QED BY <1>1, CInvariance, PTL

(***************************************************************************)
(* A cancel of the check has reached every auxiliary solver that searches, *)
(* also one that came while the limits were being linked (check_par).      *)
(***************************************************************************)
THEOREM CancelReaches == CSpec => []CancelReachesAll
<1>1. CInv => CancelReachesAll
  BY DEF CInv
<1> HIDE DEF CancelReachesAll
<1> QED BY <1>1, CInvariance, PTL

(***************************************************************************)
(* A check ends unknown only if this check was asked to stop, ran out of   *)
(* its count, or had a thread that gave up or threw.                       *)
(***************************************************************************)
THEOREM UnknownHasReason == CSpec => []UnknownForAReason
<1>1. CInv => UnknownForAReason
  BY DEF CInv
<1> HIDE DEF UnknownForAReason
<1> QED BY <1>1, CInvariance, PTL

==============================================================================
