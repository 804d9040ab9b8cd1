------------------------------ MODULE CheckPar ------------------------------
(***************************************************************************)
(* How a check of Z3 is stopped.  _solver_check (api_solver.cpp) builds an *)
(* event handler, registers it with the context, starts a timer, opens a   *)
(* resource limit and calls the solver; with several threads the SAT       *)
(* solver then runs check_par: auxiliary solvers with limits that are      *)
(* children of the limit of the check, and the first thread to finish      *)
(* cancels the rest.  Meanwhile the timer may expire and another thread    *)
(* may call Z3_interrupt, at any moment.                                   *)
(*                                                                         *)
(* Limit 0 is the limit of the check, limit i that of auxiliary solver i.  *)
(* Thread 0 searches with the solver of the check itself.  What the search *)
(* does is left out: a thread answers, gives up or throws when it likes,   *)
(* and has to stop once its limit says so.                                 *)
(***************************************************************************)
EXTENDS Integers, FiniteSets

CONSTANTS
  NumAux,         \* num_extra_solvers
  MaxChecks,      \* bound: checks
  MaxInterrupts   \* bound: calls of Z3_interrupt

ASSUME CheckParAssumption == NumAux \in Nat /\ MaxChecks \in Nat /\ MaxInterrupts \in Nat

Aux       == 1 .. NumAux
Searchers == 0 .. NumAux
None      == -1
Callers   == {"timer", "user"}

VARIABLES
  stmt,                       \* the thread that checks
  m_cancel, m_children,       \* cancels of each limit; children of limit 0
  spent,                      \* the count of limit 0 has passed its bound
  m_canceled, alive,          \* the event handler, and whether it exists
  m_interruptable, mux_held,  \* the context; its mutex is held
  caller,                     \* where the timer and the user thread are
  worker, next_aux,           \* the threads; next solver the winner cancels
  finished_id, result, canceled,
  cause,                      \* history: why this check may end unknown
  checks, interrupts

limits  == <<m_cancel, m_children, spent>>
handler == <<m_canceled, alive, m_interruptable, mux_held>>
workers == <<worker, next_aux, finished_id, result, canceled>>
counts  == <<checks, interrupts>>
cvars   == <<stmt, limits, handler, caller, workers, cause, counts>>

CInit ==
  /\ stmt = "idle"
  /\ m_cancel = [i \in Searchers |-> 0] /\ m_children = {} /\ spent = FALSE
  /\ m_canceled = FALSE /\ alive = FALSE
  /\ m_interruptable = FALSE /\ mux_held = FALSE
  /\ caller = [p \in Callers |-> "off"]
  /\ worker = [i \in Searchers |-> "off"] /\ next_aux = 0
  /\ finished_id = None /\ result = "none" /\ canceled = FALSE
  /\ cause = {} /\ checks = 0 /\ interrupts = 0

-----------------------------------------------------------------------------
(* reslimit *)

inc(i) == m_cancel[i] = 0 /\ ~(i = 0 /\ spent)

\* set_cancel: a limit hands its value down to its children.
set_cancel(i, f) ==
  m_cancel' = [j \in Searchers |-> IF j = i \/ (i = 0 /\ j \in m_children)
                                 THEN f ELSE m_cancel[j]]

cancel(i) == set_cancel(i, m_cancel[i] + 1)

-----------------------------------------------------------------------------
(* The thread that calls Z3_solver_check *)

Go(from, to) == stmt = from /\ stmt' = to

cancel_eh ==
  /\ Go("idle", "handler") /\ checks < MaxChecks
  /\ alive' = TRUE /\ m_canceled' = FALSE
  /\ checks' = checks + 1 /\ result' = "none"
  /\ UNCHANGED <<limits, m_interruptable, mux_held, caller, worker, next_aux, finished_id,
                 canceled, cause, interrupts>>

set_interruptable ==
  /\ Go("handler", "registered") /\ ~mux_held
  /\ m_interruptable' = TRUE
  /\ UNCHANGED <<limits, m_canceled, alive, mux_held, caller, workers, cause, counts>>

\* A timer runs unless the time is 0 or the largest there is.
scoped_timer ==
  /\ Go("registered", "timed")
  /\ \E t \in {"off", "on"} : caller' = [caller EXCEPT !["timer"] = t]
  /\ UNCHANGED <<limits, handler, workers, cause, counts>>

\* Mutant: the cancels of the check before are kept.
push_keeps ==
  /\ Go("timed", "first")
  /\ spent' = FALSE /\ cause' = {}
  /\ UNCHANGED <<m_cancel, m_children, handler, caller, workers, counts>>

\* reslimit::push forgets cancels that came before.
push ==
  /\ Go("timed", "first")
  /\ m_cancel' = [m_cancel EXCEPT ![0] = 0]
  /\ spent' = FALSE /\ cause' = {}
  /\ UNCHANGED <<m_children, handler, caller, workers, counts>>

\* check_par begins: the limit is tested before any solver is made.
FirstTest ==
  /\ stmt = "first"
  /\ \/ inc(0) /\ stmt' = "init" /\ UNCHANGED result
     \/ ~inc(0) /\ stmt' = "pop" /\ result' = "undef"
  /\ UNCHANGED <<limits, handler, caller, worker, next_aux, finished_id, canceled, cause, counts>>

\* init_solvers: one auxiliary solver more, with a limit of its own.
init_solvers ==
  /\ stmt = "init" /\ m_children # Aux
  /\ LET i == Cardinality(m_children) + 1
     IN  /\ m_cancel' = [m_cancel EXCEPT ![i] = 0]
         /\ m_children' = m_children \cup {i}
  /\ UNCHANGED <<stmt, spent, handler, caller, workers, cause, counts>>

\* Mutant: the limit is not tested again.
SecondTest_dropped ==
  /\ stmt = "init" /\ m_children = Aux
  /\ finished_id' = None /\ canceled' = FALSE /\ stmt' = "join"
  /\ worker' = [i \in Searchers |-> "running"] /\ next_aux' = 1
  /\ UNCHANGED <<limits, handler, caller, result, cause, counts>>

\* The limit is tested again before the threads are started.
SecondTest ==
  /\ stmt = "init" /\ m_children = Aux
  /\ finished_id' = None /\ canceled' = FALSE
  /\ \/ /\ inc(0) /\ stmt' = "join"
        /\ worker' = [i \in Searchers |-> "running"] /\ next_aux' = 1
        /\ UNCHANGED result
     \/ ~inc(0) /\ stmt' = "unlink" /\ result' = "undef" /\ UNCHANGED <<worker, next_aux>>
  /\ UNCHANGED <<limits, handler, caller, cause, counts>>

\* All threads are joined; the cancel of the winner is taken back.
JoinAll ==
  /\ Go("join", "unlink") /\ \A i \in Searchers : worker[i] = "ended"
  /\ worker' = [i \in Searchers |-> "off"] /\ next_aux' = 0
  /\ IF canceled THEN UNCHANGED m_cancel ELSE set_cancel(0, 0)
  /\ result' = IF finished_id = None THEN "undef" ELSE result
  /\ finished_id' = None /\ canceled' = FALSE
  /\ UNCHANGED <<m_children, spent, handler, caller, cause, counts>>

\* The destructor of parallel: the children leave the limit.
unlink ==
  /\ Go("unlink", "pop")
  /\ m_children' = {}
  /\ m_cancel' = [i \in Searchers |-> IF i = 0 THEN m_cancel[0] ELSE 0]
  /\ UNCHANGED <<spent, handler, caller, workers, cause, counts>>

pop ==
  /\ Go("pop", "stop")
  /\ m_cancel' = [m_cancel EXCEPT ![0] = 0] /\ spent' = FALSE
  /\ UNCHANGED <<m_children, handler, caller, workers, cause, counts>>

\* Mutant: the thread of the timer is not waited for.
JoinTimer_detached ==
  /\ Go("stop", "unregister")
  /\ UNCHANGED <<limits, handler, caller, workers, cause, counts>>

\* The destructor of the timer waits for its thread.
JoinTimer ==
  /\ Go("stop", "unregister") /\ caller["timer"] = "off"
  /\ UNCHANGED <<limits, handler, caller, workers, cause, counts>>

unset_interruptable ==
  /\ Go("unregister", "destroy") /\ ~mux_held
  /\ m_interruptable' = FALSE
  /\ UNCHANGED <<limits, m_canceled, alive, mux_held, caller, workers, cause, counts>>

\* The destructor of the handler takes one cancel back.
dec_cancel ==
  /\ Go("destroy", "idle")
  /\ IF m_canceled /\ m_cancel[0] > 0 THEN set_cancel(0, m_cancel[0] - 1)
                                      ELSE UNCHANGED m_cancel
  /\ alive' = FALSE /\ m_canceled' = FALSE
  /\ UNCHANGED <<m_children, spent, m_interruptable, mux_held, caller, workers, cause, counts>>

-----------------------------------------------------------------------------
(* The timer, and a thread that calls Z3_interrupt *)

At(p, from, to) == caller[p] = from /\ caller' = [caller EXCEPT ![p] = to]

\* The time is over, and the handler is called; or the timer is stopped.
Expire ==
  /\ At("timer", "on", "test")
  /\ UNCHANGED <<stmt, limits, handler, workers, cause, counts>>

TimerStopped ==
  /\ stmt = "stop" /\ At("timer", "on", "off")
  /\ UNCHANGED <<stmt, limits, handler, workers, cause, counts>>

interrupt ==
  /\ interrupts < MaxInterrupts /\ ~mux_held
  /\ At("user", "off", IF m_interruptable THEN "test" ELSE "limit")
  /\ mux_held' = TRUE /\ interrupts' = interrupts + 1
  /\ UNCHANGED <<stmt, limits, m_canceled, alive, m_interruptable, workers, cause, checks>>

\* operator() of the handler: test, set, cancel.  Nothing protects the test.
After(p) == IF p = "timer" THEN "off" ELSE "limit"

TestCanceled(p) ==
  /\ At(p, "test", IF m_canceled THEN After(p) ELSE "set")
  /\ UNCHANGED <<stmt, limits, handler, workers, cause, counts>>

SetCanceled(p) ==
  /\ At(p, "set", "inc") /\ m_canceled' = TRUE
  /\ UNCHANGED <<stmt, limits, alive, m_interruptable, mux_held, workers, cause, counts>>

inc_cancel(p) ==
  /\ At(p, "inc", After(p)) /\ cancel(0)
  /\ cause' = cause \cup {"asked"}
  /\ UNCHANGED <<stmt, m_children, spent, handler, workers, counts>>

\* Z3_interrupt then cancels the limit itself and lets go of the mutex.
CancelLimit ==
  /\ At("user", "limit", "off") /\ cancel(0) /\ mux_held' = FALSE
  /\ cause' = cause \cup {"asked"}
  /\ UNCHANGED <<stmt, m_children, spent, m_canceled, alive, m_interruptable, workers, counts>>

-----------------------------------------------------------------------------
(* The threads of check_par *)

\* The end of worker_thread: the first one to come here has the result.
Finish(i, r) ==
  /\ worker[i] = "running"
  /\ IF finished_id = None
     THEN /\ finished_id' = i /\ result' = r
          /\ worker' = [worker EXCEPT ![i] = "first"]
     ELSE /\ UNCHANGED <<finished_id, result>>
          /\ worker' = [worker EXCEPT ![i] = "ended"]
  /\ UNCHANGED <<stmt, limits, handler, caller, next_aux, canceled, counts>>

Answers(i) == Finish(i, "answer") /\ UNCHANGED cause

\* A bound of the search other than the limit: restarts, conflicts, memory.
GiveUp(i) == Finish(i, "undef") /\ cause' = cause \cup {"gave up"}

\* An exception ends the thread and tells nobody.
Throw(i, why) ==
  /\ worker[i] = "running"
  /\ worker' = [worker EXCEPT ![i] = "ended"]
  /\ cause' = cause \cup why
  /\ UNCHANGED <<stmt, limits, handler, caller, next_aux, finished_id, result, canceled, counts>>

\* The limit is seen by should_cancel, which returns, or checkpoint, which throws.
Stop(i) == ~inc(i) /\ ((Finish(i, "undef") /\ UNCHANGED cause) \/ Throw(i, {}))

Spend ==
  /\ worker[0] = "running" /\ ~spent
  /\ spent' = TRUE /\ cause' = cause \cup {"spent"}
  /\ UNCHANGED <<stmt, m_cancel, m_children, handler, caller, workers, counts>>

\* The first thread cancels the auxiliary solvers one by one.
cancel_solver(i) ==
  /\ worker[i] = "first" /\ next_aux \in Aux
  /\ IF next_aux = i THEN UNCHANGED m_cancel ELSE cancel(next_aux)
  /\ next_aux' = next_aux + 1
  /\ UNCHANGED <<stmt, m_children, spent, handler, caller, worker, finished_id, result,
                 canceled, cause, counts>>

\* Mutant: thread 0 is left searching.
TestMain_spares(i) ==
  /\ worker[i] = "first" /\ next_aux > NumAux
  /\ canceled' = (i # 0 /\ ~inc(0))
  /\ worker' = [worker EXCEPT ![i] = "ended"]
  /\ UNCHANGED <<stmt, limits, handler, caller, next_aux, finished_id, result, cause, counts>>

\* Then thread 0, unless the limit of the check is reached already.
TestMain(i) ==
  /\ worker[i] = "first" /\ next_aux > NumAux
  /\ canceled' = (i # 0 /\ ~inc(0))
  /\ worker' = [worker EXCEPT ![i] = IF i = 0 \/ ~inc(0) THEN "ended" ELSE "cancel"]
  /\ UNCHANGED <<stmt, limits, handler, caller, next_aux, finished_id, result, cause, counts>>

CancelMain(i) ==
  /\ worker[i] = "cancel" /\ cancel(0)
  /\ worker' = [worker EXCEPT ![i] = "ended"]
  /\ UNCHANGED <<stmt, m_children, spent, handler, caller, next_aux, finished_id, result,
                 canceled, cause, counts>>

-----------------------------------------------------------------------------
Check ==
  \/ set_interruptable \/ scoped_timer \/ push \/ FirstTest \/ init_solvers
  \/ SecondTest \/ JoinAll \/ unlink \/ pop \/ JoinTimer \/ unset_interruptable
  \/ dec_cancel

Invoke(p) == TestCanceled(p) \/ SetCanceled(p) \/ inc_cancel(p)

Work(i) == Stop(i) \/ cancel_solver(i) \/ TestMain(i) \/ CancelMain(i)

CNext ==
  \/ cancel_eh \/ Check
  \/ Expire \/ TimerStopped \/ interrupt \/ CancelLimit
  \/ \E p \in Callers : Invoke(p)
  \/ \E i \in Searchers : Answers(i) \/ GiveUp(i) \/ Throw(i, {"threw"}) \/ Work(i)
  \/ Spend

\* A thread that can go on does, and a search whose limit is reached ends; no
\* search is bound to find an answer, and no timer is bound to expire.
Fairness ==
  /\ WF_cvars(Check) /\ WF_cvars(TimerStopped) /\ WF_cvars(CancelLimit)
  /\ \A p \in Callers : WF_cvars(Invoke(p))
  /\ \A i \in Searchers : WF_cvars(Work(i))

CSpec == CInit /\ [][CNext]_cvars /\ Fairness

-----------------------------------------------------------------------------
\* Types.
FlagsOK ==
  /\ spent \in BOOLEAN /\ canceled \in BOOLEAN
  /\ m_canceled \in BOOLEAN /\ alive \in BOOLEAN
  /\ m_interruptable \in BOOLEAN /\ mux_held \in BOOLEAN

CTypeOK ==
  /\ m_cancel \in [Searchers -> Nat] /\ m_children \subseteq Aux
  /\ FlagsOK
  /\ caller \in [Callers -> {"off", "on", "test", "set", "inc", "limit"}]
  /\ worker \in [Searchers -> {"off", "running", "first", "cancel", "ended"}]
  /\ finished_id \in Searchers \cup {None} /\ next_aux \in 0 .. NumAux + 1
  /\ result \in {"none", "answer", "undef"}
  /\ (finished_id # None => stmt = "join")

\* While threads search, a cancel of the limit of the check has reached every
\* auxiliary solver: also one that came while the solvers were being made and
\* their limits were not all children yet (the second test of the limit).
CancelReachesAll ==
  stmt = "join" /\ m_cancel[0] > 0 =>
    \A i \in Aux : worker[i] = "running" => m_cancel[i] > 0

\* The handler lives on the stack of the check: whoever is inside it, timer or
\* interrupting thread, finds it there (the destructor of the timer joins, the
\* destructor of set_interruptable takes the mutex of the context).
HandlerAlive ==
  /\ CTypeOK
  /\ \A p \in Callers : caller[p] \in {"test", "set", "inc"} => alive

\* A check is unknown only if it was interrupted or timed out after its limit
\* was opened, its count ran out, or a thread gave up or threw: never because
\* of a late interrupt of the check before, or of the cancels among its threads.
UnknownForAReason ==
  result = "undef" => cause # {}

\* Once a thread has finished, or the limit is cancelled while the threads
\* search, the check returns: nobody is left searching, no join waits for ever.
Returns ==
  (stmt = "join" /\ (finished_id # None \/ m_cancel[0] > 0)) ~> (stmt = "idle")
=============================================================================
