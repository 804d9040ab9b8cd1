# Problem 183, its instrumentation, and the solver beside it: a TLA+ project

The repository is the work on one reactive system, "problem 183", in a course on
software testing and reverse engineering. The system is given twice, as an
obfuscated Java program and as a differently obfuscated C program. The rest of
the own code is instrumented copies of the Java program: one that tracks taint,
one that records branches and computes branch distances, one that fuzzes itself.
A vendored copy of Z3 (some 99 % of the files) completes the repository.

This project models the two programs, the machine they both implement, and the
instrumented programs of `Assignment1/Code/T2Final`, `T3Final` and `Ass1Redo`;
and of Z3 the parts where threads meet and the search they speed up: the
parallel tactic, the SAT search, the sharing of clauses between SAT solvers, and
the way a check is cancelled, timed out and brought to an end. TLC checks
all of it. TLAPS proves, for inputs, runs, threads and calls of any number: that
the Java program, the C program and the instrumented program are one machine and
do not overflow; what a reset program shares with a new one; the bookkeeping and
the reproducibility of the fuzzing campaign; who owes whom an answer in the
protocol; and the safety of the three concurrent parts of Z3 (section 5).

## 1. Inventory

File names below are relative to `src/`.

| Component | State | Operations | What is hard about it |
|---|---|---|---|
| Java program `m183_LTL_CTL.java` | `cf`, three ints, one letter | `main` reads a line; `calculateOutput` is a cascade of range and letter tests that calls `calculateOutputm1..m8` | a block moves the fields into the range a later block of the *same call* tests for; remainders of negative products decide the next state; a square comes near 2^31 |
| C program `sources/m183_LTL_CTL.c` and its alphabet table | `cf`, three ints | `main` with `scanf`, `calculate_output`, `calculate_outputm1..m8` | as above with other formulas and undefined overflow; the result of `scanf` is ignored, so the code may be indeterminate |
| The protocol: `sources/m183.traces` and the names of inputs and outputs | the machine's state | calls by a client, calls to `usr2` and `usr4`, their returns, notifications | nothing stores who waits for whom; long legal sequences; a client that must one day be answered |
| Instrumented program of `T3Final` (class `I`, `MyInt`, `MyBool`, `MyString`) | the five fields as objects with a taint flag; static temporaries `I.var1..8`, `I.bool1..9` | three-address code for every expression; `reset` | the temporaries are static and outlive a run; one overload taints the wrong operand |
| Fuzzing campaign of `T3Final` (`main`, `Run`, `Fuzzer`, `getTop100DepthTraces`) | `runLst`, `count`, the static set `branches` and aliases of it | start a run, process an input, finish the run, rank the runs | an alias of a set that goes on growing; a set handed over only after an accepted input |
| Branches and distances of `T2Final` (`Branch`, `Condition`, `Calc`) | the branches recorded so far; references to `I.bool1..9` | record a test, `CalculateDistance` | conditions refer to temporaries that later tests overwrite; a `switch` whose cases fall through |
| Taint instrumentation `T1Final` (two variants and a copy in the root) | as T3 without branches | as T3 | earlier versions of the same rules |
| Reworked instrumentation `Ass1Redo` (and a copy in the root) | the five fields, a `depth` per input, a tree of `BranchSet` objects, taint sets | `calculateOutput`, `reset`, `trainingReset`, distances of class `Calculate` | a brace out of place changes the machine; a constructor that ignores its argument |
| `Assignment2/Intermediate` | as T3 | as T3 | none of its own |
| Z3, parallel tactic `solver/parallel_tactic.cpp` | the task queue (`m_tasks`, `m_active`, `m_shutdown`), a `solver_state` per worker, the verdicts (`m_has_undef`, `m_models`, `m_exn_code`, `m_branches`) | `add_task`, `get_task`, `task_done`, `shutdown`, `cube_and_conquer`, `report_*`, `run_solver`, `solve`, `cleanup` | a condition variable and a flag that is set without its mutex; cubes handed to a queue that another worker may be shutting down; exceptions and cancellation at every step |
| Z3, SAT search `sat/sat_solver.cpp` | clauses and lemmas, trail, justifications, scopes, queue head, conflict, assumptions, user scopes | propagation, conflict analysis, backtracking, lemmas, decisions, restarts, `do_gc`, `user_push`, `user_pop`, `check` | literals of low levels above literals of high ones after chronological backtracking; lemmas deleted while something may refer to them; a check that begins where a cancelled one stopped |
| Z3, sharing between SAT solvers `sat/sat_parallel.*` | a ring buffer of clauses with a head per reader; a list of units; one mutex | `share_clause`, `get_clauses`, `exchange` | writers overwrite what slow readers have not read; an import may share again under the mutex it holds |
| Z3, cancellation: `util/rlimit.*`, `cancel_eh.h`, `scoped_timer.cpp`, `api/api_context.cpp`, `api_solver.cpp`, `check_par` | a tree of limits with cancel counters, the event handler, the timer, the threads of `check_par` | interrupt, time out, open and close a limit, start, cancel and join threads | a handler on the stack that two other threads may call; cancels that come before a limit is opened or while its children are made; the first thread to finish must stop all others |
| Z3, the rest; `JavaExample.java`, `testing.java` | - | - | third-party, an example, a commented-out copy |

How they interact. The own code has no threads and no messages: the
programs react to lines of standard input; the instrumented programs call
themselves, with static variables as the shared state (the temporaries of class
`I`, the set `branches`). What goes wrong there goes wrong over *sequences*: of
inputs within a run, of runs within a campaign, of tests between the moment a
result is stored and the moment it is read. Nothing of it calls Z3 at this commit.

In Z3 an API call (`Z3_solver_check`) builds a handler and a timer and runs the
solver. The SAT solver either searches alone or starts `check_par`: several
searches on copies, which share clauses and units through `parallel` and are
stopped through the tree of limits. The parallel tactic works above the solvers:
workers take states from a queue, split them into cubes and conquer the cubes.
Here it is *interleavings* that are hard.

What makes each part correct:

* the programs: the fields never leave the eight regions the cascade knows; no
  arithmetic overflows; exactly one block answers an input, and an input that
  no block answers changes nothing; both programs are the same machine;
* the protocol: returns match calls, and every client is served;
* the instrumented program: it computes what the original computes, a reset
  program behaves as a new one, and taint is not lost;
* the campaign: what is stored with a run belongs to that run alone and does not
  change afterwards;
* branches and distances: the record tells what happened, the distances can be
  computed, and they are computed from the recorded results;
* the reworked program: as far as it answers, it answers and computes as the
  original, and what it no longer does is known exactly;
* the parallel tactic: no part of the goal is dropped without a verdict that
  says so, the answer follows from the goal, and a call returns;
* the SAT search: lemmas follow from the clauses, reasons stay reasons,
  propagation misses nothing, answers and cores are right, a check ends;
* sharing: a reader reads whole clauses, in order, up to the newest, and no
  solver waits for a mutex it holds;
* cancellation: a cancel reaches every thread, the handler exists while somebody
  is inside it, a check is unknown only for a reason of its own, and returns.

`PROJECT.json` lists the hazards line by line with the properties that cover
each of them.

## 2. Modules

```
Table183 ----- Mealy183 ----- Exchange183
   |              ^  ^
   |   implements |  | implements
   |          M183Java  M183C
   |              ^
   |   computes   |
   +------- Instrumented183 ---- Reuse183
   |          |    \------------ BranchDistance183
   |   ThreeAddress183
   |          |
   +------- Redo183   (answers as Mealy183, computes as M183Java)
   +------- Fuzzer183

ParallelTactic      SatSolver ---- MCSatSolver      SatParallel      CheckPar
```

The theorems are in modules of their own:

| Module | About |
|---|---|
| M183JavaProofs | M183Java, and the three-address code of ThreeAddress183 |
| M183CProofs | M183C |
| Table183Proofs | Exchange183 and Fuzzer183 |
| Instrumented183Proofs | Reuse183 and BranchDistance183 |
| Redo183Proofs | Redo183 |
| SatSolverProofs | SatSolver: the search, its trail, reasons and watches |
| SatAnswersProofs | SatSolver: lemmas and answers |
| Z3ThreadsProofs | ParallelTactic, SatParallel and CheckPar |

Instrumented183Proofs and Redo183Proofs use the lemmas of M183JavaProofs through an
instance of that module. Models that share a module of proofs have different names
for `Spec` and its parts: `FSpec` in Fuzzer183, `PSpec` in ParallelTactic, `CSpec` in CheckPar.

**Table183** is the transition table of the machine: eight states, thirteen
transitions. The programs name no states, so a state is named after the Java
method that serves it. The 3607 traces of `sources/m183.traces` agree with the
table (they use seven of its thirteen transitions).

**Mealy183** is the abstract specification: read an input, take a transition or
refuse the input, stop. `phase` tells whether an input is being worked on.

**M183Java** has one action per `if` statement of `calculateOutput` and per turn
of `main`. `Enter` is an outer range test, `Call` an inner test with its method;
both read `cf` and the fields as the previous step left them. The methods keep
their names. `Rem` and `Quot` are Java's `%` and `/`, which round towards zero.
The test in `main` that ought to refuse unknown lines is a conjunction of five
equalities and lets every line pass; the end of input crashes the program with a
`NullPointerException`. Integers are unbounded in the model, and `NoOverflow`
proves that this makes no difference.

**M183C** does the same for the C program. `ScanNothing` is a `scanf` that
converts nothing: the local variable is then any value, and `stdin` remains
stuck. `NameOf` is the alphabet table. The region of a state is
different from the Java one; `InRegion` gives both.

**Exchange183** extends Mealy183 with the history variable `owed`: the calls in
progress, read off the inputs and outputs. Nothing of it is in the programs.

**Instrumented183** models `CalculateOutput`, the eight methods, `reset` and the
operations of class `I` in T3Final. A field is a record of `val` and `flow`.
A `Block` is a run of three-address code: it starts with a value and a flag in
`I.var1` and hands both on from temporary to temporary. Only the flags of the
temporaries are state: their values are always written before they are read.
`Forced` and `Missed` are the overloads with a fourth argument, `Missed` being
the one that sets the flag of a constant instead. CalculateOutput is one
action; the cascade is taken apart in M183Java.

**ThreeAddress183** has the values of the integer operations of class `I`, which
are the same in all instrumented programs.

**Reuse183** runs two copies of Instrumented183 in lockstep: one is reset
between runs, as the fuzzer does, the other is replaced by a new process.

**Fuzzer183** is the campaign. The machine under test is Table183 (justified by
Instrumented183). Set objects live in `heap`, so that aliases are aliases:
`branches` and `run.branches` are indices into it. `Branch` has no `equals`,
every object counts, and a set is represented by its size.

**BranchDistance183** adds to Instrumented183 the `Branch` and `Condition`
objects of T2Final. The machine and class `I` in that file agree with T3Final
line for line. `Ref(k)` is a reference to `I.boolk`, `Obj(v)` a reference to an
object that is replaced and never modified. Each `Condition` also remembers in
`was` the outcome at the time, which the program does not. `Compare` is the
`switch` of `CalculateDistance` with its fall-through, `CounterAt` its counter.

**Redo183** is the program of `Ass1Redo`, again with one action per `if` of
`calculateOutput`: the block of the fourth range and the final `if(cf) throw`
are inside the block of the third range, and the model follows the braces.
`depth` is what `myIf` counts. `MyBool2` and `MyBool3` are the constructors with
two and three arguments; the second leaves the value `false`. `reset` stands for
`trainingReset` too.

**ParallelTactic** has one action per step a worker can take without another one
coming between: the critical sections of the queue, the three statements of
`shutdown` (`m_shutdown` is written without the mutex, then the sleepers are
notified, then the active states are cancelled), the decision to sleep and the
sleep itself, and the turns of `cube_and_conquer`. A goal is the set `sat` of
leaves of a search tree that have a model; a cube is a set of leaves. The solvers
that simplify, cube and conquer are external: they tell the truth, give up or
throw. `Interrupt` is a cancel from outside at any moment, `SpuriousWakeup` what
a condition variable may do. `asleep_late` is the sleep of a worker that went to
sleep after the shutdown was announced.

**SatSolver** is the search. Clauses live at offsets, the first two literals of a
long one are its watches, and the code's swaps of literals are the model's.
`Dequeue`, `VisitShort` and `VisitLong` are the loop of `propagate_core`, one
watch at a time, so that `Cancel` (`checkpoint`, `should_cancel`) can come
between. `mk_clause_core`, `assign`, `FirstUIP`, `Redundant`, `unassign_vars`
with its replay, `can_delete` and `unsat_core` follow the functions of these
names. What heuristics decide is a choice: the variable and the phase of a
decision, the blocked literal, backjump or backtrack, when to restart and how
far, which half of the lemmas to delete. `input` is a history of what was
asserted. **MCSatSolver** has three formulas for it.

**SatParallel** is the ring of clauses word by word: owner, length, literals, the
literals of the k-th clause being the number k, so that a torn or misread entry
shows. Publishing is one action, since `share_clause` holds the mutex throughout;
`get_clauses` holds it over several steps, in which the importing solver may share
a clause itself. A unit is the index of a literal (`2v`, or `2v + 1` for the
negation). `exchange` is `exchange_par` with the call under the lock: what is new on
the base level trail goes out, if all solvers know the variable (1519); what is new
in `m_units` comes in and is assigned, until one is false at level 0 (1526). Then
the solver has a conflict, and its limit is past units it never looked at. It may
still share the lemma of the backjump it is in (`at[s]` is `"lemma"`), and ends
(`End`). `LearnUnit` is a unit it derives or imports as a clause. `log`, `last` and
`derived` are histories.

**CheckPar** is the life of a check: the statements of `_solver_check` and its
destructors in their order, the two tests of the limit in `check_par`, the
threads, the timer and a thread that calls `Z3_interrupt`. What the searches do is
left out: a thread answers, gives up or throws when it likes and has to stop when
its limit says so. The handler's test, assignment and `inc_cancel` are three
steps, as nothing protects them. `cause` is a history.

The definitions called `X_something` just above a definition `X` are faulty
versions of it, each as a plausible slip would make it; for every property a run
checks there is one that violates it.

## 3. Runs

Runs that pass:

| Run | States | Bound | What it shows |
|---|---|---|---|
| `java` | exhaustive | none | `IInv`: the Java program rests in eight regions only, its operands stay in the stated ranges, and the cascade passes over no block before the input has met it. Seen from its caller it is the Mealy machine (`ImplementsMealy`). |
| `c` | exhaustive | none | The same for the C program (`IInv`, `ImplementsMealy`), on indeterminate codes too; and every code read is answered or refused by one line, or ends the program (`Responsive`). With `java` this is the equivalence of the two programs up to the alphabet. |
| `exchange` | exhaustive | none | Who waits for whom is a function of the state (`OwedByState`); returns match calls (`CallsMatchReturns`); an accepted client call is answered (`ClientServed`). |
| `reuse` | 685,197, exhaustive | none | The instrumented program is the machine, restarted by `reset` (`ImplementsMealy`), and its three-address code computes what the original methods compute (`ComputesOriginal`). A reset program answers and computes as a new one (`SameBehaviour`) and marks at least what a new one marks (`TaintNeverLost`). |
| `campaign` | 115,441 | two runs of one to three inputs | Runs are reproducible from their inputs (`RunsReproducible`), sets of branches are complete and not shared (`FInv`), collected runs do not change (`RunsFrozen`). |
| `distance` | 96,706 | arrays of six inputs | What is recorded tells the answer (`RecordTellsAnswer`), every branch `main` made for the trace that is asked about gets a distance, though its temporaries hold the results of later inputs, and the fall-through of the `switch` reads no missing operand on the way (`MainReported`), and `I.bool5..9` are written by `main`'s test alone (`MainResultsSurvive`). |
| `redo` | 41,471, exhaustive | none | Seven states of the reworked program answer as the machine does, m6 and m7 report what they refuse, the others refuse in silence, and m8 does nothing until a reset (`ImplementsWhatIsLeft`). Where it answers, it computes what the original computes (`ComputesOriginal`). |
| `tasks` | 910,853 | two workers, goals of two leaves, one call | Unless the call is interrupted, every leaf with a model is in a cube somebody has still to look at, or a verdict is on record (`NothingLost`), and the answer is right (`AnswerRight`). The unsigned counter of branches never wraps (`BranchesCovered`). A state is cancelled only when a model or an exception is, or is about to be, on record, or the work is over (`CancelledForAReason`). The call returns, unless a worker went to sleep after the shutdown was announced (`ReturnsUnlessMissed`). |
| `pool` | 1.90 million | two solvers, a ring of nine words, four clauses and units; two common variables, one local | A reader's head is at a complete clause it has not passed (`HeadGenuine`); one with nothing pending has passed the newest (`NewestReached`); clauses come in order (`InOrder`); an import that shares does not wait for its own mutex (`NoSelfDeadlock`); a solver without a conflict has every unit below its limit, what it published is in the list, and nothing twice (`UnitsDelivered`); trails and conflicts come from units somebody derived, and not from another's local variables (`UnitsGenuine`). |
| `cdcl` | 236,359 | three formulas of five variables; a user scope, a restart, a deletion | Lemmas, and literals of level 0, follow from the clauses that are asserted (`LemmasImplied`); reasons are valid and below what they imply (`ReasonsIntact`); propagation misses nothing (`NoMissedPropagation`); models and cores are right, also after a cancelled check and a popped scope (`AnswerRight`); a check ends (`CheckEnds`). |
| `cancel` | 259,641 | two auxiliary solvers, two checks, two interrupts | A cancel reaches every thread that searches (`CancelReachesAll`), the handler exists while somebody is inside it (`HandlerAlive`), a check is unknown only for a reason of its own (`UnknownForAReason`), and returns once a thread has finished or the limit is cancelled (`Returns`). |

"Exhaustive" runs have no bound on the number of inputs or runs: the fields of
these programs take finitely many values, and TLC visits all of them.

The bounds of the others. In the code an array has 10 to 59 inputs and a campaign
1000 runs.
* `campaign`: two runs are enough for one run to disturb another, and the
  properties relate at most two runs; three inputs are enough for a run to be
  refused everything, to have its set handed over before the set is complete,
  and to leave the first state. `Bookkeeping`, `RunsReproduced` and `CollectedRunsFrozen` are
  proved for any length and any number of runs.
* `distance`: six inputs are the shortest array that is served by every one of
  the eight methods' states (m1 is the farthest, five inputs from the start), so
  every kind of test is recorded. `CalculateDistance` looks at each branch by
  itself; longer arrays repeat the kinds of branches in other field values.
* `tasks`: two workers are enough for one to sleep, be shut down or throw while
  the other works; two leaves with batches of two for a state to be split, to
  hand over cubes and to keep some. Memory pressure sends a task back once. A
  second call on the same object finds `m_has_undef` and `m_exn_code` as the first
  left them, since `cleanup` does not reset them: it may answer unknown, or throw,
  for no reason of its own. It cannot answer wrongly: `AnswersRight` is proved for
  any number of calls.
* `pool`: clauses of two, three and seven literals in nine words wrap around at
  different places, are larger than what is left at the end, and overtake a reader
  by one entry, by several and by the whole ring. The readers do not see each other,
  so one slow reader and one writer (which reads too) show what more would. Clauses
  and units share the bound of four (`MaxEvents`). `0` and `1` contradict each other
  and can be found by different solvers, `2` is common too, `4` is local.
* `cdcl`: the formulas were searched for so that every action and every case of
  the watches happens: lemmas of one to four literals, chronological backtracking
  with a replay, deletable lemmas, an unsatisfiable core with and without the
  assumption. With a second restart, deletion or scope TLC does not finish in the time it has.
* `cancel`: two auxiliary solvers are the least with one that has its limit linked
  and one that has not; the second check meets what the first left behind; of two
  interrupts one can come between checks and one inside.

Deadlock is checked where the program never stops by itself (`reuse`, `distance`,
`redo`) and where a stop would be a deadlock among threads (`pool`, where all solvers
having ended is a step of its own). The Java and C programs and the machine may stop, a
campaign ends, and the users of a tactic and of a solver may make no further call; there
it is not.

A run that finds a disagreement:

| Run | Said | What the code does |
|---|---|---|
| `cancelled_unsat` | `z3_api.h` 6490: the assertions "are unsatisfiable (i.e., the result is `Z3_L_FALSE`)" | A worker whose cubes are all with the queue leaves `cube_and_conquer` without a verdict. If the goal's manager is cancelled just then, `run_solver` shuts the queue down with the cubes still in it (637). No worker meets the cancellation while it has a state, `m_has_undef` stays false, and `solve` returns `l_false` for a goal that has a model. |

What else the models show, without a run of its own:

* `shutdown` does not take the mutex when it sets `m_shutdown` and notifies. A
  worker that has found the queue empty, and has not yet called `wait`, misses
  the notification and sleeps for good, and `solve` hangs in its join. That is
  the exception in `ReturnsUnlessMissed`, and the only one.
* A timer that expires after it is started and before the limit is opened is
  erased by `reslimit::push`, which clears the cancels; the handler does
  not fire twice, so this check has no timeout. `Returns` is therefore about
  cancels that come while threads search.
* `reset_cancel` at the end of `check_par` also takes back an interrupt that came
  after a thread had finished; the check has its result by then.
* With a literal and its negation among the assumptions the core can be too small.
  If the clauses imply `a` at level 0 and `a` and `-a` are assumed,
  `resolve_conflict_for_unsat_core` collects `{a, -a}` and, as these are two, drops
  what is of level 0 (2968): both are, for a level belongs to a variable. The core
  is empty, and the clauses have a model; `z3_api.h` 6504 promises "the subset of the
  assumptions used in the unsatisfiability proof". `CoreRefuted` fails on MCSatSolver
  with one clause `{1, 2}`, the extra clause `{1}` and the assumptions `<<1, -1>>`.
* `user_pop` leaves the literal of the popped scope assigned at level 0. It is
  not implied by what is left, which is harmless as nothing else mentions the
  variable any more (`Retired` in `LemmasImplied`).
* T3Final's `reset` says "Resetting everything" (669) and keeps the flags
  of `I.var1..8`: after `ai1_ce1`, `usr4_ni1_ne1` the next run taints
  `a2108127495` at `ai1_ce1`, which a new process does not. By `TaintNeverLost`
  the error is on one side only.
* A run with no accepted input has `branches = null` (`FInv` says exactly
  which), and `getTop100DepthTraces`, which `main` does not call, would throw on it.
* In T2Final "If result equals stored branch result" (106) compares with a
  reference to a static temporary, which by then holds the outcome of a later
  test. With results kept as they were, integer conditions of a branch made for
  the same input would always match; much of what the distances show is the
  aliasing. `MainResultsSurvive` says which results are exempt.
* `sources/m183.traces` line 2 answers `ai1_ce1`, `usr4_ni1_ne1`,
  `usr4_ai1_VoidReply`; the reworked program answers the first two, and nothing in
  m8 (`ImplementsWhatIsLeft`).

## 4. Fairness

* `M183C!FairSpec` assumes weak fairness of the program's own steps: it has one
  thread that waits for nothing but `scanf`, so a statement that can be executed is
  executed. Reading an input is *not* fair: nobody has to send one.
* `Exchange183!XFairSpec` assumes in addition that a user that was called returns some
  day, unless the input ends. This is strong fairness, since other inputs may
  come between any number of times. It is an assumption about the environment,
  and `ClientServed` is a statement under it.
* `ParallelTactic!FairSpec`: each worker that can take a step does, and so does
  the thread that joins them (weak fairness per thread; the mutex is held within
  a step only). Nothing is assumed to wake a sleeper: spurious wakeups are
  possible and not fair.
* `SatSolver!Spec`: the thread inside a check keeps running (`WF_vars(Search)`).
  Every choice is left to the heuristics. Their user need not call.
* `CheckPar!Fairness`: threads that can go on do, and a search whose limit is reached
  stops, as `should_cancel` and `checkpoint` are on every cycle of it. No search is
  bound to find an answer and no timer to expire.

## 5. Proofs

Every theorem is about `Spec` (or the module's name for it) for all values of the
constants; each property named is one that a run also checks. The
inductive invariants were checked by TLC on the runs' instances before they were
proved.

**M183JavaProofs** (no assumptions; the module has no constants).

* `Invariance`: `Spec => []IInv`, where
  `IInv == TypeOK /\ NeverStranded /\ OperandRange /\ CascadeMeetsRegion`.
  No part is inductive alone. That a method leaves the fields in a
  region needs the region it starts in (`CascadeMeetsRegion` says the cascade
  reaches a method only with the fields in its range) and bounds on the operands
  (`OperandRange`); the bounds need the region. One lemma per method
  (`Method1 .. Method8`) computes its effect from `RemRange` and `ShiftedRem`,
  which say where a truncated remainder can lie; `Calls` lifts them to the
  cascade.
* `Refinement`: `Spec => ImplementsMealy`. The mapping is `locOf`, the region the
  fields are in, and `phaseOf`, which ends the call as soon as something is
  printed; the rest of the cascade is then stuttering. `RegionUnique` makes
  `locOf` well defined.
* `NoOverflow`: every product and square the methods compute fits into 32 bits,
  so the model's unbounded integers are Java's.

**M183CProofs** (no assumptions). The same three theorems for the C program, whose
regions and formulas are different: `Invariance` (`IInv`), `Refinement`
(`ImplementsMealy`) and `NoOverflow`, which in C also says that no step is
undefined. `CascadeMeetsRegion` has to allow for a code that `scanf` left
indeterminate: such a code, too, meets the block of its region or is refused.
With `M183JavaProofs!Refinement` the two programs implement one specification.

**Instrumented183Proofs**, about Reuse183 (no assumptions). The invariant is `RInv == Sound /\ Lock`.
`Sound` is about the reused program alone: regions and operand ranges as in the
original, and no reply while an input is processed. `Lock` ties the two copies
together: the same replies, `cf`, letter and integer values; and a flag raised in
the fresh copy is raised in the reused one, for fields *and* temporaries, since a
block reads the flags of the temporaries it is about to write.

* `CodeComputesOriginal` (`ComputesOriginal`). `Chain` runs instruction sequences of
  any length; `ChainCarries` (in M183JavaProofs) proves that the recursive function
  exists, by a least counterexample, and `Chain2 .. Chain7` unfold it for the lengths
  that occur.
  `Value1 .. Value8` evaluate the eleven expressions, and `Originally1 ..
  Originally8` conclude that each method is the original's.
* `InstrumentedRefines` (`ImplementsMealy`). As the methods are the original's, the
  lemmas `Method1 .. Method8` of M183JavaProofs apply: `J` is an instance of that
  module, and the arithmetic is not proved twice. `reset` is `Restarted`.
* `ResetRestores` (`SameBehaviour`) and `TaintOnlyAdded` (`TaintNeverLost`), from
  `Lockstep1 .. Lockstep8`. The tests select one method (`OneServes`), so both
  copies take the same branch. `TaintNeverLost` is not inductive without the
  equality of the values, and `SameBehaviour` not without `Sound`.

About BranchDistance183 (from its bound on the length of an array). `RecordingInvariance`
is the inductive invariant `DInv`: the results are Booleans, every recorded condition
has a type `CalculateDistance` knows, the branch `main` made last is the last of its
kind in the record, the temporaries 5 to 9 hold its results, of which 6 to 8 are false,
and behind it there is one hit of a range, with one hit of an input or none. Evaluating
and recording are folds; `FoldLeft` is a choice among recursive functions, so that it
exists, and how it takes one more element, is proved first. It yields

* `RecordTells` (`RecordTellsAnswer`): whether the latest input was answered can be
  read off the record;
* `MainHasDistance` (`MainReported`): the fall-through of the `switch` reads no
  operand that is not there, and the branches of `main` for the trace have a distance.
  Their eighth condition, `I.myAnd(I.bool8, I.bool6, I.bool7)`, never counts: the `&&` of
  two false temporaries is computed with `==`, is true, and not the false that is stored
  (`EighthFails`), whatever the input and whatever was recorded since;
* `MainSurvives` (`MainResultsSurvive`): no method writes the temporaries of `main`.

**Redo183Proofs** (no assumptions). `RedoInvariance` is the inductive invariant `RedoInv`:
types, the regions and ranges of the original (`J!NeverStranded`, `J!OperandRange`, by
the lemmas of M183JavaProofs) and `Placed`: the cascade never comes to m8's block nor to the
exception, and while an input is processed what is printed and counted is what the
blocks passed so far account for. It yields `DepthTells` (`DepthTellsOutcome`, which no
run checks: the depth printed for an input is 3 if something was printed, 2 if it was
refused in silence, 0 in m8), `RedoComputesOriginal` (`ComputesOriginal`) and `RedoRefines` (`ImplementsWhatIsLeft`).

**Table183Proofs**, about Fuzzer183 (from `LengthAssumption`: arrays are not empty, and
`CampaignAssumption`).

* `Bookkeeping`: `FSpec => []FInv`, where `FInv` consists of `FTypeOK`,
  `CurrentSound`, `OlderSets`, `SetsComplete` and `InProgress`. `SetsComplete`
  speaks of collected runs only; `CurrentSound` carries the same fact for the
  run in progress (it has a set iff fewer inputs were refused than processed, and
  that set is the current one) and `OlderSets` says that collected runs refer to
  sets older than the one being filled. `InProgress` says that the state, the
  refusals and the branches so far are those of a replay of the inputs so far.
* `RunsReproduced` (`RunsReproducible`): when a run is collected, `InProgress` becomes
  the statement about it. `Replayed` is a recursive function on positions; that it
  exists and depends on the inputs before a position only is proved by induction.
* `CollectedRunsFrozen` (`RunsFrozen`): the only set that is filled is newer than
  every set of a collected run.

About Exchange183 (no assumptions). `OwedInvariance`: `OwedByState` is inductive by
itself with the types. `CallsMatch` (`CallsMatchReturns`) follows: what is owed is
known from the state, so each transition can be compared with it.

**SatSolverProofs** (from `SatSolverAssumption`: clauses and assumptions are about the
variables of the formula, no given clause is always true, the bounds are natural numbers).
`SearchInvariance` is the inductive invariant `SearchInv /\ PropInv`, for every formula:

* `TrailInv`: one literal per variable; what lies below the k-th scope is of a level
  below k (the converse is false after chronological backtracking, which is what makes
  this search delicate);
* `ReasonInv`: the reason of a literal consists of false literals below it on the trail,
  none of a higher level and one of its own, and a reason that is a clause has its
  consequent in front. `unassign_vars` keeps what is of a low level wherever it sits:
  with a literal it keeps its reason, whose levels are no higher;
* `DecideInv`: a decision is the lowest literal of its level, so the walk of the conflict
  analysis ends before it (`Marked`, `FirstUIPIs`);
* `QueueInv`, `ConflictInv`, `LemmaInv`, `PhaseInv`, `UserInv`: the clauses still to be
  visited watch the literal that is propagated; a conflict is about the trail; the lemma
  that waits is a unit or has one unassigned literal, in front;
* `PropInv`: every clause is *settled* at every level n: it has a true literal of level n
  or less, or two watches that nothing propagated below the next scope falsifies. That
  it is settled at the levels below is what a backjump needs, and is why `VisitLong` and
  `mk_nary_lemma` choose the second watch by its level (`TopIs`, `AssertsSettled`).

It yields `ReasonsStayIntact` (`ReasonsIntact`) and `PropagationComplete`
(`NoMissedPropagation`). `Nth` enumerates a set of numbers; `Enumerated` proves that it
does, from cardinalities, and both the replay of the trail and `Sorted` rest on it. The
walk of `FirstUIP` is a recursive function, which `WalkExists` shows to exist.

**SatAnswersProofs** goes on from there, with the same assumptions. `SoundInv` says what
the input implies. A clause is *sure* if the input implies it and none of its variables is
that of a popped scope:

* every stored clause, and the lemma that waits, is sure; so is every literal with a
  reason, together with the literals of its reason; a literal of level 0 follows, unless
  its variable is that of a popped scope (`TrailSound`);
* a conflict at level 0 refutes the input; one above refutes the literals it was found
  on, or is between an assumption and what is assigned already (`ConflictSound`);
* resolution with sure reasons, minimization and the cut at the first UIP keep lemmas
  sure (`CutSound`). `user_pop` removes the input clauses with the literal of the scope,
  and no other clause needed them: where the literal does not occur, make it true, and
  they hold. `InputInv` and `GoalsInv` say where scope literals occur.

It yields `LemmasFollow` (`LemmasImplied`): what the solver has learned, and what it has
assigned for good, follows from the input, whatever was pushed, popped, cancelled
or forgotten in between. `AnswerInv` is what answers need on top of that:

* `CoverInv`: no input clause is lost. It is in the store, shortened at most by literals
  false at level 0, or is true at level 0, or the input is refuted;
* `MetInv`: while the search runs the assumptions are true at level 1 or below, unless
  one was false when its turn came; `GivenInv`: what level 1 holds without a reason is an
  assumption, so the walk that collects a core ends in assumptions.

It yields `ModelsAreRight`, that "sat" comes with a model of the clauses, the open scopes
and the assumptions, without any hypothesis, and `AnswersAreRight` (`AnswerRight`, which
adds that a core is refuted) under `Consistent`: no list of assumptions holds a
literal and its negation. That hypothesis is not there for the provers: without it the
core may be too small, as the end of section 3 shows. MCSatSolver's lists satisfy it
(`ChosenInv` carries it to the assumptions of the check in progress).

**Z3ThreadsProofs**, about ParallelTactic (from `ParallelAssumption`: a finite nonempty
set of threads, at least one leaf, batches of at least one cube, at least two attempts to
simplify). `PInvariance` is the inductive invariant `PInv`:

* `NothingLost` and `QueueInv`: a state in the queue was not cancelled, and one that
  is worked on is in `m_active`, where `shutdown` finds it;
* `CubesInv`: cubes are parts of the region they were cut from, and none are left
  when the cube loop is left: otherwise a leaf could vanish with a local variable;
* `CallInv`: between calls no worker is left, and one that has left a call knew of
  a shutdown; `ShutdownInv`: while there is work, a shutdown and whatever it leads to
  are due to a model, an exception or the user; `ModelInv`: a model is one of this goal.

It yields `LeavesKept` (`NothingLost`), `AnswersRight` (`AnswerRight`) and
`ReasonToCancel` (`CancelledForAReason`). `BranchesNeverWrap` (`BranchesCovered`, and
that `m_branches` is never negative) has an invariant of its own, `BranchInv`, on top of
`PInv`. Open branches are counted as the pairs of a task or worker and a number up to its
load; a sum would need induction, a cardinality does not. `BranchesChanged` and
`BranchesAdded` say how the count follows one load, `StepCounted` that `m_branches`
keeps up with it in every step. Between calls the count may be too high (a worker that
was cancelled or threw does not decrement it), and never too low.

About SatParallel (from `SatParallelAssumption`: at least one solver, a ring of at least
one word, finitely many lengths of clauses, each at least two). The invariant `SInv` says
that *there is a set* of words at which entries begin (`Entries`): each entry is
complete and ends before the tail if it begins before it, the one after it is younger,
and the youngest ends at the tail; every head with something pending is in that set (`Readers`). Writing an entry drops the
begins it overwrites and moves the readers that stood there (`RingInv`). `MutexInv` is
for the mutex. `UnitsInv` is for the units: the limits are within the lists, what is in
the common list is common and derived by somebody, and the two properties of units.
Publishing and delivering are recursive functions; that they exist, and what they keep
after i literals (`Pushed`, `Follows`), is proved by the least counterexample. `SInv`
yields `HeadsGenuine` (`HeadGenuine`), `NewestIsReached` (`NewestReached`), `ReadInOrder`
(`InOrder`), `NeverSelfDeadlocked` (`NoSelfDeadlock`), `UnitsAreDelivered`
(`UnitsDelivered`) and `UnitsAreGenuine` (`UnitsGenuine`), for any number of solvers and
literals, any size and any lengths of clauses.

About CheckPar (from `CheckParAssumption`: the bounds are natural numbers). `CInv`
says when the mutex is held, when the handler exists and is registered, when the timer
runs (`HandlerInv`); which children a limit has at each statement (`ChildrenInv`); that
threads run inside the join and only the first to finish cancels others (`WorkersInv`);
and that before anybody has finished a reached limit has a cause (`CauseInv`). It
yields `HandlerStays` (`HandlerAlive`), `CancelReaches` (`CancelReachesAll`) and
`UnknownHasReason` (`UnknownForAReason`). The bounds on checks and interrupts are
constants like any other, so the results are for any number of them.

Model-checked and not proved: liveness (`Responsive`, `ClientServed`,
`ReturnsUnlessMissed`, `CheckEnds`, `Returns`), which needs fairness and ENABLED. Every
invariant, action property and refinement that a passing run checks is also stated by a
theorem (`AnswerRight` of SatSolver for consistent assumptions).

## 6. Not modelled

* `flowTrack`, the names that taint is traced back to: it only feeds a report,
  and no decision reads it.
* `getSuggestedTrace` (T3Final): unfinished, ends in `return null`, is called by
  nobody; `getTop100DepthTraces`, called by nobody either. `Calc` in T3Final is a
  copy of the one in T2Final and commented out in `main`.
* `T1Final`, the root copy, `Assignment2`: earlier and later copies of what is modelled.
* `Ass1Redo`: the tree of `BranchSet` objects and the taint sets (see the plan);
  `Branch.operate`, which nobody calls; class `Calculate`, whose `indexOf`
  compares a `String` with a `MyString` (line 16) and so gives 4 for every string
  and 0 for every distance.
* Printing.
* ParallelTactic: the solvers themselves, parameters, statistics, the translation
  of models and cores between managers, and what an earlier call's core means to a second call.
* SatSolver: `do_cleanup`, simplification and inprocessing, `reinit_clauses` (only
  input clauses made above the base level go on its stack, and the model, like
  `inc_sat_solver`, asserts clauses at the base level),
  dynamic subsumption, core minimization, rephasing and reordering (choices
  anyway), extensions, DRAT, burst and bounded search.
* SatParallel: the exchange with local search; `enable_add`, a filter by size and
  glue, is a choice; what an imported clause does to the search; in particular
  which variables it may speak of. Units are taken if the variable is below
  `m_par_num_vars`, clauses also if it is equal to it (`<=` in line 192), which is one
  past the common ones; a unit that follows from such a clause is derived, in the
  model, by the solver that imports the clause.
* CheckPar: Ctrl-C, whose handler runs on any thread; local search and unit walk
  threads; the count of a limit, which is a flag; the second limit of the context;
  `m_limits` of `parallel`, which are destroyed before they are unlinked.
* The rest of Z3: the SMT core and its theories, arithmetic, strings,
  polynomials, Horn clauses, rewriters, parsers, language bindings. They
  are sequential algorithms on unbounded terms, half a million lines of a vendored
  program that nothing in the repository changes; the four parts above are
  the ones whose states are finite and whose interleavings no test controls.

## 7. Plan

Done, in this order: the machine and the Java program, with proofs; the C
program; the protocol; the instrumented program and its reuse; the campaign,
with proofs; branches and distances; the reworked program; the parallel tactic;
the SAT search; sharing; cancellation; then the proofs for the protocol,
cancellation, the parallel tactic, sharing, the C program, reproducibility, the
reused program, branches and distances, the reworked program and the SAT search (first
its reasons and propagation, then its lemmas and answers).

Left to model: the tree of `BranchSet` objects and the taint sets of `Ass1Redo`; the
taint rules of `T1Final` beside those of T3Final; the exchange of `parallel` with local
search.
