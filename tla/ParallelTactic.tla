--------------------------- MODULE ParallelTactic ---------------------------
(***************************************************************************)
(* Cube and conquer with worker threads (Z3, solver/parallel_tactic.cpp).  *)
(*                                                                         *)
(* A goal is a search tree whose leaves are numbered in the order in which *)
(* the lookahead visits them; sat is the set of leaves that have a model.  *)
(* A cube is a set of leaves, a solver_state is the region its asserted    *)
(* cubes leave to it and the cubes it has still to split off.  The solvers *)
(* are external: check_sat may give up, throw, and otherwise tells the     *)
(* truth about the region; cube enumerates the region in order.            *)
(* What remains is the code's own: the task queue with its condition       *)
(* variable and its unlocked shutdown flag, who cancels whom, and how the  *)
(* verdicts of the workers become the answer of the call.                  *)
(***************************************************************************)
EXTENDS Integers, FiniteSets, SequencesExt

CONSTANTS
  Threads,          \* the workers of run_solver
  NumLeaves,        \* leaves of the search tree
  BatchSize,        \* parallel.conquer.batch_size
  MaxSimplify,      \* bound: how often memory pressure sends a task back
  MaxCalls          \* bound: calls of operator() on one parallel_tactic

ASSUME ParallelAssumption ==
  /\ Threads # {} /\ IsFiniteSet(Threads)
  /\ NumLeaves \in Nat \ {0} /\ BatchSize \in Nat \ {0}
  /\ MaxSimplify \in Nat \ {0, 1} /\ MaxCalls \in Nat

Leaves == 1 .. NumLeaves

VARIABLES
  m_tasks,          \* task_queue: states waiting, last in first out
  m_active,         \* task_queue: threads whose state is in m_active
  m_shutdown,       \* task_queue: read and written without the mutex
  held,             \* the solver_state of each thread
  loc,              \* locals of cube_and_conquer in each thread
  pc, ret,          \* where each thread is, and where shutdown() returns to
  m_has_undef, m_exn, m_models, m_branches,   \* the verdicts
  mainCancel,       \* cancel flag of the manager of the goal
  sat,              \* the goal: the leaves that have a model
  main, answer, calls,                        \* the thread that calls operator()
  interrupted       \* the user cancelled during the current call

queue   == <<m_tasks, m_active, m_shutdown>>
verdict == <<m_has_undef, m_exn, m_models, m_branches>>
client  == <<sat, main, answer, calls, interrupted>>
pvars   == <<queue, held, loc, pc, ret, verdict, mainCancel, client>>

NoTask == [main |-> FALSE, asserted |-> FALSE, region |-> {}, cubes |-> <<>>,
           cancel |-> FALSE]
NoLocals == [todo |-> {}, cubes |-> <<>>, num |-> 0]

-----------------------------------------------------------------------------
PInit ==
  /\ m_tasks = <<>> /\ m_active = {} /\ m_shutdown = FALSE
  /\ held = [t \in Threads |-> NoTask] /\ loc = [t \in Threads |-> NoLocals]
  /\ pc = [t \in Threads |-> "exit"] /\ ret = [t \in Threads |-> "loop"]
  /\ m_has_undef = FALSE /\ m_exn = FALSE /\ m_models = FALSE /\ m_branches = 0
  /\ mainCancel = FALSE
  /\ sat = {} /\ main = "ready" /\ answer = "none" /\ calls = 0
  /\ interrupted = FALSE

-----------------------------------------------------------------------------
(* The condition variable.  A notification reaches only threads that sleep. *)

Goto(t, l) == pc' = [pc EXCEPT ![t] = l]

Asleep == {t \in Threads : pc[t] \in {"asleep", "asleep_late"}}

\* m_cond.notify_all() by t, which goes on at l.
NotifyAllGoto(t, l) ==
  pc' = [u \in Threads |-> IF u = t THEN l
                           ELSE IF u \in Asleep THEN "loop" ELSE pc[u]]

\* add_task: the number of waiters is positive whenever a thread sleeps.
AddTask(t, st, l) ==
  /\ m_tasks' = Append(m_tasks, st)
  /\ IF Asleep = {} THEN Goto(t, l)
     ELSE \E u \in Asleep : pc' = [pc EXCEPT ![t] = l, ![u] = "loop"]

\* The call of shutdown() in t, which is to return to l.
CallShutdown(t, l) ==
  IF m_shutdown THEN Goto(t, l) /\ UNCHANGED ret
  ELSE Goto(t, "sd_set") /\ ret' = [ret EXCEPT ![t] = l]

Shutdown(t) ==
  \/ /\ pc[t] = "sd_set"
     /\ m_shutdown' = TRUE
     /\ Goto(t, "sd_notify")
     /\ UNCHANGED <<m_tasks, m_active, held, loc, ret, verdict, mainCancel, client>>
  \/ /\ pc[t] = "sd_notify"
     /\ NotifyAllGoto(t, "sd_cancel")
     /\ UNCHANGED <<queue, held, loc, ret, verdict, mainCancel, client>>
  \/ /\ pc[t] = "sd_cancel"
     /\ held' = [u \in Threads |-> [held[u] EXCEPT !.cancel = @ \/ u \in m_active]]
     /\ mainCancel' = (mainCancel \/ \E u \in m_active : held[u].main)
     /\ Goto(t, ret[t]) /\ ret' = [ret EXCEPT ![t] = "loop"]
     /\ UNCHANGED <<queue, loc, verdict, client>>

-----------------------------------------------------------------------------
(* get_task *)

LoopTest(t) ==
  /\ pc[t] = "loop"
  /\ Goto(t, IF m_shutdown THEN "exit" ELSE "try")
  /\ UNCHANGED <<queue, held, loc, ret, verdict, mainCancel, client>>

TryGetTask(t) ==
  /\ pc[t] = "try"
  /\ IF m_tasks = <<>>
     THEN Goto(t, "wait") /\ UNCHANGED <<m_tasks, m_active, held>>
     ELSE /\ held' = [held EXCEPT ![t] = Last(m_tasks)]
          /\ m_tasks' = Front(m_tasks)
          /\ m_active' = m_active \cup {t}
          /\ Goto(t, "split")
  /\ UNCHANGED <<m_shutdown, loc, ret, verdict, mainCancel, client>>

\* m_cond.wait(lock): the flag is not looked at again under the lock; the label
\* records what it was.
Wait(t) ==
  /\ pc[t] = "wait"
  /\ Goto(t, IF m_shutdown THEN "asleep_late" ELSE "asleep")
  /\ UNCHANGED <<queue, held, loc, ret, verdict, mainCancel, client>>

\* A condition variable may wake up by itself; it need not.
SpuriousWakeup(t) ==
  /\ t \in Asleep
  /\ Goto(t, "loop")
  /\ UNCHANGED <<queue, held, loc, ret, verdict, mainCancel, client>>

\* Slips of task_done: states that are worked on are overlooked; nobody is told.
TaskDone_overlooks(t) ==
  /\ pc[t] = "finish"
  /\ m_active' = m_active \ {t}
  /\ IF m_tasks = <<>> THEN m_shutdown' = TRUE /\ NotifyAllGoto(t, "after")
     ELSE UNCHANGED m_shutdown /\ Goto(t, "after")
  /\ UNCHANGED <<m_tasks, held, loc, ret, verdict, mainCancel, client>>

TaskDone_silent(t) ==
  /\ pc[t] = "finish"
  /\ m_active' = m_active \ {t}
  /\ m_shutdown' = (m_shutdown \/ (m_tasks = <<>> /\ m_active' = {}))
  /\ Goto(t, "after")
  /\ UNCHANGED <<m_tasks, held, loc, ret, verdict, mainCancel, client>>

TaskDone(t) ==
  /\ pc[t] = "finish"
  /\ m_active' = m_active \ {t}
  /\ IF m_tasks = <<>> /\ m_active' = {}
     THEN m_shutdown' = TRUE /\ NotifyAllGoto(t, "after")
     ELSE UNCHANGED m_shutdown /\ Goto(t, "after")
  /\ UNCHANGED <<m_tasks, held, loc, ret, verdict, mainCancel, client>>

-----------------------------------------------------------------------------
(* cube_and_conquer *)

Canceled(t) == IF held[t].main THEN mainCancel ELSE held[t].cancel

\* clone: the rest of the cubes in a state with a manager of its own.
Clone(st, cs) == [st EXCEPT !.main = FALSE, !.cubes = cs, !.cancel = FALSE]

\* cube_again: take the last cube, hand the other cubes to whoever is free.
Split(t) ==
  LET st   == held[t]
      mine == IF st.cubes = <<>> THEN st.region ELSE st.region \cap Last(st.cubes)
  IN  /\ pc[t] = "split"
      /\ held' = [held EXCEPT ![t].region = mine, ![t].cubes = <<>>,
                              ![t].asserted = @ \/ st.cubes # <<>>]
      /\ loc' = [loc EXCEPT ![t].num = 0]
      /\ IF Len(st.cubes) > 1
         THEN AddTask(t, Clone(st, Front(st.cubes)), "simplify")
         ELSE UNCHANGED m_tasks /\ Goto(t, "simplify")
      /\ UNCHANGED <<m_active, m_shutdown, ret, verdict, mainCancel, client>>

\* cube_and_conquer returns: its locals, and what is left of the state, are dead.
Leave(t) ==
  /\ loc' = [loc EXCEPT ![t] = NoLocals]
  /\ held' = [held EXCEPT ![t] = [NoTask EXCEPT !.main = held[t].main,
                                                !.cancel = held[t].cancel]]

ReportSat(t) ==
  /\ m_models' = TRUE
  /\ m_branches' = m_branches - 1
  /\ CallShutdown(t, "finish")
  /\ Leave(t)
  /\ UNCHANGED <<m_has_undef, m_exn>>

ReportUnsat(t) ==
  /\ m_branches' = m_branches - 1
  /\ Goto(t, "finish")
  /\ Leave(t)
  /\ UNCHANGED <<ret, m_has_undef, m_exn, m_models>>

\* Slip: the verdict is only logged.
ReportUndef_slip(t) ==
  /\ m_branches' = m_branches - 1
  /\ Goto(t, "finish")
  /\ Leave(t)
  /\ UNCHANGED <<ret, m_has_undef, m_exn, m_models>>

ReportUndef(t) ==
  /\ m_has_undef' = TRUE
  /\ m_branches' = m_branches - 1
  /\ Goto(t, "finish")
  /\ Leave(t)
  /\ UNCHANGED <<ret, m_exn, m_models>>

\* canceled(s) holds: the answer is no longer known, and the branch stays open.
GiveUpCanceled(t) ==
  /\ Canceled(t)
  /\ m_has_undef' = TRUE
  /\ Goto(t, "finish")
  /\ Leave(t)
  /\ UNCHANGED <<ret, m_exn, m_models, m_branches>>

\* simplify_again, up to the verdict of the two calls of check_sat.
Simplify(t) ==
  /\ pc[t] = "simplify"
  /\ \/ GiveUpCanceled(t)
     \/ ~Canceled(t) /\ held[t].region \cap sat # {} /\ ReportSat(t)
     \/ ~Canceled(t) /\ held[t].region \cap sat = {} /\ ReportUnsat(t)
     \/ /\ ~Canceled(t)
        /\ loc' = [loc EXCEPT ![t].num = @ + 1]
        /\ \E l \in {"simplified", "throw"} : Goto(t, l)
        /\ UNCHANGED <<held, ret, verdict>>
  /\ UNCHANGED <<queue, mainCancel, client>>

\* After l_undef: canceled, giveup, memory pressure, or on to the cubes.
Simplified(t) ==
  /\ pc[t] = "simplified"
  /\ \/ GiveUpCanceled(t)
     \/ ~Canceled(t) /\ ReportUndef(t)
     \/ /\ ~Canceled(t) /\ loc[t].num < MaxSimplify
        /\ Goto(t, "simplify")
        /\ UNCHANGED <<held, loc, ret, verdict>>
     \/ /\ ~Canceled(t)
        /\ loc' = [loc EXCEPT ![t].todo = held[t].region]
        /\ Goto(t, "cube")
        /\ UNCHANGED <<held, ret, verdict>>
  /\ UNCHANGED <<queue, mainCancel, client>>

\* What the lookahead can return next, a cut of the leaves ahead, less the ones
\* it refuted itself; the whole region only before a first cube is asserted.
NextCubes(t) ==
  {c \in {{x \in loc[t].todo : a <= x /\ x <= b} : a, b \in Leaves} :
     /\ c # {} /\ (c # held[t].region \/ ~held[t].asserted)
     /\ \A x \in loc[t].todo \cap sat : \E y \in c : y <= x}

\* The leaves behind the cube c.
Behind(c, todo) == {x \in todo : \A y \in c : x > y}

\* cube returns nothing, or the cube true.
NoCube(t) ==
  /\ IF loc[t].num > 1 THEN ReportUndef(t)
     ELSE /\ Goto(t, "simplify")
          /\ loc' = [loc EXCEPT ![t].todo = {}, ![t].cubes = <<>>]
          /\ UNCHANGED <<held, ret, verdict>>
  /\ UNCHANGED m_tasks

\* cube returns false: there is no further cube.
LastCube(t) ==
  /\ loc[t].todo \cap sat = {}
  /\ Goto(t, "tail")
  /\ UNCHANGED <<m_tasks, held, loc, ret, verdict>>

ConquerSat(t) ==
  /\ \E c \in NextCubes(t) : c \cap sat # {}
  /\ ReportSat(t)
  /\ UNCHANGED m_tasks

\* conquer refutes the cube; backtrack cuts off what its core also refutes.
ConquerUnsat(t) ==
  /\ \E c \in NextCubes(t), d \in {{x \in loc[t].todo : x <= b} : b \in Leaves} :
       /\ c \subseteq d /\ d \cap sat = {}
       /\ loc' = [loc EXCEPT ![t].todo = @ \ d]
  /\ UNCHANGED <<m_tasks, held, pc, ret, verdict>>

\* Slips: the cube that fills the batch is left out; the task that spawns the
\* cubes is taken for one of them.
KeepCube_short(t, c) ==
  LET cs == Append(loc[t].cubes, c)
  IN  /\ IF Len(cs) < BatchSize
         THEN /\ loc' = [loc EXCEPT ![t].todo = Behind(c, @), ![t].cubes = cs]
              /\ UNCHANGED <<m_tasks, m_branches, pc>>
         ELSE /\ loc' = [loc EXCEPT ![t].todo = Behind(c, @), ![t].cubes = <<>>]
              /\ m_branches' = m_branches + Len(cs)
              /\ AddTask(t, Clone(held[t], loc[t].cubes), "cube")
      /\ UNCHANGED <<held, ret, m_has_undef, m_exn, m_models>>

KeepCube_count(t, c) ==
  LET cs == Append(loc[t].cubes, c)
  IN  /\ IF Len(cs) < BatchSize
         THEN /\ loc' = [loc EXCEPT ![t].todo = Behind(c, @), ![t].cubes = cs]
              /\ UNCHANGED <<m_tasks, m_branches, pc>>
         ELSE /\ loc' = [loc EXCEPT ![t].todo = Behind(c, @), ![t].cubes = <<>>]
              /\ m_branches' = m_branches + Len(cs) - 1
              /\ AddTask(t, Clone(held[t], cs), "cube")
      /\ UNCHANGED <<held, ret, m_has_undef, m_exn, m_models>>

\* conquer is not there yet or gives up: the cube is kept, a full batch spawned.
KeepCube(t, c) ==
  LET cs == Append(loc[t].cubes, c)
  IN  /\ IF Len(cs) < BatchSize
         THEN /\ loc' = [loc EXCEPT ![t].todo = Behind(c, @), ![t].cubes = cs]
              /\ UNCHANGED <<m_tasks, m_branches, pc>>
         ELSE /\ loc' = [loc EXCEPT ![t].todo = Behind(c, @), ![t].cubes = <<>>]
              /\ m_branches' = m_branches + Len(cs)
              /\ AddTask(t, Clone(held[t], cs), "cube")
      /\ UNCHANGED <<held, ret, m_has_undef, m_exn, m_models>>

\* One turn of the loop that asks for a cube and tries to conquer it.
CubeLoop(t) ==
  /\ pc[t] = "cube"
  /\ \/ /\ Canceled(t)
        /\ m_has_undef' = TRUE
        /\ Goto(t, "tail")
        /\ UNCHANGED <<m_tasks, held, loc, ret, m_exn, m_models, m_branches>>
     \/ /\ ~Canceled(t)
        /\ \/ NoCube(t) \/ LastCube(t) \/ ConquerSat(t) \/ ConquerUnsat(t)
           \/ \E c \in NextCubes(t) : KeepCube(t, c)
           \/ Goto(t, "throw") /\ UNCHANGED <<m_tasks, held, loc, ret, verdict>>
  /\ UNCHANGED <<m_active, m_shutdown, mainCancel, client>>

\* After the loop: nothing found, everything handed over, or go on.
AfterCubes(t) ==
  LET cs == loc[t].cubes
  IN  /\ pc[t] = "tail"
      /\ m_branches' = m_branches + Len(cs) - 1
      /\ IF cs = <<>> THEN Goto(t, "finish") /\ Leave(t)
         ELSE /\ held' = [held EXCEPT ![t].cubes = cs]
              /\ loc' = [loc EXCEPT ![t] = NoLocals]
              /\ Goto(t, "split")
      /\ UNCHANGED <<queue, ret, m_has_undef, m_exn, m_models, mainCancel, client>>

-----------------------------------------------------------------------------
(* run_solver *)

\* A worker that notices the cancellation of its state stops the others.
AfterTask(t) ==
  /\ pc[t] = "after"
  /\ IF Canceled(t) THEN CallShutdown(t, "loop") ELSE Goto(t, "loop") /\ UNCHANGED ret
  /\ held' = [held EXCEPT ![t] = NoTask]
  /\ UNCHANGED <<queue, loc, verdict, mainCancel, client>>

\* catch (z3_exception): its state stays in m_active.
Catch(t) ==
  \/ /\ pc[t] = "throw"
     /\ IF m_shutdown THEN Goto(t, "exit") /\ UNCHANGED ret ELSE CallShutdown(t, "exn")
     /\ Leave(t)
     /\ UNCHANGED <<queue, verdict, mainCancel, client>>
  \/ /\ pc[t] = "exn"
     /\ m_exn' = TRUE
     /\ Goto(t, "exit")
     /\ UNCHANGED <<queue, held, loc, ret, m_has_undef, m_models, m_branches,
                    mainCancel, client>>

-----------------------------------------------------------------------------
(* operator() and solve *)

\* cleanup resets the queue and the models, and none of the other verdicts.
Cleanup == m_shutdown' = FALSE /\ m_active' = {} /\ m_models' = FALSE

Call ==
  /\ main = "ready" /\ calls < MaxCalls
  /\ Cleanup
  /\ sat' \in SUBSET Leaves
  /\ m_tasks' = <<[NoTask EXCEPT !.main = TRUE, !.region = Leaves]>>
  /\ m_branches' = m_branches + 1
  /\ held' = [t \in Threads |-> NoTask] /\ loc' = [t \in Threads |-> NoLocals]
  /\ pc' = [t \in Threads |-> "loop"]
  /\ main' = "join" /\ calls' = calls + 1 /\ answer' = "none" /\ interrupted' = FALSE
  /\ UNCHANGED <<ret, m_has_undef, m_exn, mainCancel>>

\* The user cancels: only the manager of the goal hears of it.
Interrupt ==
  /\ main = "join" /\ ~interrupted
  /\ mainCancel' = TRUE /\ interrupted' = TRUE
  /\ UNCHANGED <<queue, held, loc, pc, ret, verdict, sat, main, answer, calls>>

Answer == IF m_exn THEN "throw" ELSE IF m_models THEN "l_true"
          ELSE IF m_has_undef THEN "l_undef" ELSE "l_false"

Join ==
  /\ main = "join" /\ \A t \in Threads : pc[t] = "exit"
  /\ mainCancel' = FALSE
  /\ answer' = Answer
  /\ main' = "ready"
  /\ UNCHANGED <<queue, held, loc, pc, ret, verdict, sat, calls, interrupted>>

Step(t) ==
  \/ LoopTest(t) \/ TryGetTask(t) \/ Wait(t) \/ TaskDone(t) \/ Shutdown(t)
  \/ Split(t) \/ Simplify(t) \/ Simplified(t) \/ CubeLoop(t) \/ AfterCubes(t)
  \/ AfterTask(t) \/ Catch(t)

PNext ==
  \/ Call \/ Interrupt \/ Join
  \/ \E t \in Threads : Step(t) \/ SpuriousWakeup(t)

PSpec == PInit /\ [][PNext]_pvars

\* The scheduler runs every thread that can run; nothing wakes a sleeper.
FairSpec == PSpec /\ WF_pvars(Join) /\ \A t \in Threads : WF_pvars(Step(t))

-----------------------------------------------------------------------------
Labels == {"loop", "try", "wait", "asleep", "asleep_late", "split", "simplify",
           "simplified", "cube", "tail", "finish", "after", "sd_set", "sd_notify",
           "sd_cancel", "throw", "exn", "exit"}

States == [main : BOOLEAN, asserted : BOOLEAN, region : SUBSET Leaves,
           cubes : Seq(SUBSET Leaves), cancel : BOOLEAN]

(***************************************************************************)
(* The state of the queue, of the workers and of the verdicts.             *)
(***************************************************************************)
PTypeOK ==
  /\ m_tasks \in Seq(States) /\ m_active \subseteq Threads
  /\ m_shutdown \in BOOLEAN
  /\ held \in [Threads -> States]
  /\ loc \in [Threads -> [todo : SUBSET Leaves, cubes : Seq(SUBSET Leaves),
                          num : 0 .. MaxSimplify]]
  /\ pc \in [Threads -> Labels] /\ ret \in [Threads -> {"loop", "finish", "exn"}]
  /\ m_has_undef \in BOOLEAN /\ m_exn \in BOOLEAN /\ m_models \in BOOLEAN
  /\ m_branches \in Int /\ mainCancel \in BOOLEAN
  /\ sat \subseteq Leaves /\ main \in {"ready", "join"}
  /\ answer \in {"none", "throw", "l_true", "l_false", "l_undef"}
  /\ calls \in 0 .. MaxCalls /\ interrupted \in BOOLEAN

\* The leaves a state that no worker has, or a worker's own, still stands for.
OpenTask(st) ==
  st.region \cap (IF st.cubes = <<>> THEN Leaves ELSE UNION ToSet(st.cubes))

Open(t) ==
  CASE pc[t] = "split" -> OpenTask(held[t])
    [] pc[t] \in {"simplify", "simplified"} -> held[t].region
    [] pc[t] = "cube" -> loc[t].todo \cup UNION ToSet(loc[t].cubes)
    [] pc[t] = "tail" -> UNION ToSet(loc[t].cubes)
    [] OTHER -> {}

OpenLeaves == UNION ({OpenTask(st) : st \in ToSet(m_tasks)} \cup {Open(t) : t \in Threads})

\* A worker on its way from an exception to the record of it.
Raising(t) == pc[t] \in {"throw", "exn"}
              \/ (pc[t] \in {"sd_set", "sd_notify", "sd_cancel"} /\ ret[t] = "exn")

(***************************************************************************)
(* As long as no verdict says otherwise every leaf that has a model is in  *)
(* a cube that somebody has still to look at, also after a shutdown and    *)
(* whatever the order in which cubes are spawned, cloned and refuted.      *)
(***************************************************************************)
NothingLost ==
  /\ PTypeOK
  /\ (/\ main = "join" /\ ~interrupted
      /\ ~m_has_undef /\ ~m_models /\ ~m_exn /\ \A t \in Threads : ~Raising(t))
     => sat \subseteq OpenLeaves

(***************************************************************************)
(* The answer of a call is right unless the user interrupted it: sat only  *)
(* of a goal that has a model, unsat only of one that has none, whoever    *)
(* gave up, threw or was stopped (report_sat, report_unsat, solve).        *)
(***************************************************************************)
AnswerRight ==
  /\ answer = "l_true" => sat # {}
  /\ answer = "l_false" /\ ~interrupted => sat = {}

(***************************************************************************)
(* "the assertions are unsatisfiable (i.e., the result is Z3_L_FALSE)"     *)
(* (z3_api.h, Z3_solver_check): also of a call that was interrupted.       *)
(***************************************************************************)
FalseMeansUnsat == answer = "l_false" => sat = {}

\* The branches a state counts for.
Weight(st) == IF st.cubes = <<>> THEN 1 ELSE Len(st.cubes)

\* The branches the state of a worker counts for.
Load(t) == IF pc[t] = "split" THEN Weight(held[t])
           ELSE IF pc[t] \in {"simplify", "simplified", "cube", "tail"} THEN 1 ELSE 0

\* One pair for each of the w[x] branches of each x.
Branches(w) == UNION {{x} \X (1 .. w[x]) : x \in DOMAIN w}

QueueLoads  == [i \in DOMAIN m_tasks |-> Weight(m_tasks[i])]
WorkerLoads == [t \in Threads |-> Load(t)]

OpenBranches == Cardinality(Branches(QueueLoads)) + Cardinality(Branches(WorkerLoads))

(***************************************************************************)
(* m_branches is unsigned and decremented by every verdict: it covers the  *)
(* branches that are still open, so that no decrement wraps it around.     *)
(***************************************************************************)
BranchesCovered == main = "join" => m_branches >= OpenBranches

(***************************************************************************)
(* A worker is stopped only for a reason: when a state is cancelled that   *)
(* the user did not cancel, a model or an exception is, or is about to     *)
(* be, on record, or the work had come to its end in this call.            *)
(***************************************************************************)
CancelledForAReason ==
  (/\ main = "join" /\ ~interrupted /\ m_active # {} /\ ~m_models /\ ~m_exn
   /\ \A t \in Threads : ~Raising(t))
  => ~m_shutdown /\ \A t \in m_active : ~Canceled(t)

(***************************************************************************)
(* A call returns: the workers run out of work, and each one that sleeps   *)
(* is woken, unless it went to sleep after the shutdown was announced.  A  *)
(* worker that has found the queue empty and has not yet called wait       *)
(* misses the notification, and then solve hangs in its join.              *)
(***************************************************************************)
ReturnsUnlessMissed ==
  <>[](main = "ready") \/ <>[](\E t \in Threads : pc[t] = "asleep_late")

=============================================================================
