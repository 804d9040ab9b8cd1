---------------------------- MODULE SatParallel -----------------------------
(***************************************************************************)
(* What the threads of the parallel SAT solver share (Z3, sat_parallel):   *)
(* a ring buffer of learned clauses, read by every solver at its own pace, *)
(* and a list of unit literals.  One mutex guards both.                    *)
(*                                                                         *)
(* The ring buffer is modelled word by word: an entry is its owner, its    *)
(* length and its literals.  The literals of the k-th clause that is ever  *)
(* shared are all written as the number k, so that an entry that is torn,  *)
(* misparsed or read twice shows.  The writer never waits for a reader: a  *)
(* reader that is too slow loses clauses, and must not lose its footing.   *)
(*                                                                         *)
(* A unit literal is on the base level trail of the solver that derived it *)
(* and goes from there into the common list and onto the other trails.  A  *)
(* solver that is told a unit it holds to be false has a conflict at level *)
(* 0: it stops taking units, though its limit is past them, and ends.      *)
(***************************************************************************)
EXTENDS Integers, Sequences, FiniteSets

CONSTANTS
  NumSolvers,     \* solvers that share clauses; the owner of a clause is 0 ..
  Size,           \* m_size of the pool, in words
  Lengths,        \* lengths of the clauses that are shared
  Lits,           \* literals that can become units: 2v is variable v, 2v + 1 its negation
  NumParVars,     \* m_par_num_vars: the variables all solvers have in common
  MaxEvents       \* bound: clauses shared and units derived in one behaviour

ASSUME SatParallelAssumption ==
  /\ NumSolvers \in Nat \ {0} /\ Size \in Nat \ {0} /\ MaxEvents \in Nat
  /\ Lits \subseteq Nat /\ NumParVars \in Nat
  /\ Lengths \subseteq Nat \ {0, 1} /\ Lengths # {} /\ IsFiniteSet(Lengths)

Solvers == 0 .. NumSolvers - 1
Words   == 0 .. Size + (CHOOSE n \in Lengths : \A k \in Lengths : k <= n) + 1
NoOne   == -1

VARIABLES
  m_vectors, m_tail, m_heads, m_at_end,       \* vector_pool
  at,                                         \* where each solver is in exchange_par
  m_mux,                                      \* the solver that holds the mutex
  m_par_syncing_clauses,                      \* of each solver
  blocked,                                    \* solvers that wait for their own lock
  m_units, m_par_limit_in, m_par_limit_out,   \* exchange of units
  m_trail,                                    \* base level trail of each solver
  inconsistent,                               \* solvers with a conflict at the base level
  derived,                                    \* history: who derived which unit itself
  log,                                        \* history: owner and length of all clauses
  last                                        \* history: last clause each solver passed

pool  == <<m_vectors, m_tail, m_heads, m_at_end, log, last>>
units == <<m_units, m_par_limit_in, m_par_limit_out, m_trail, inconsistent, derived>>
sync  == <<at, m_mux, m_par_syncing_clauses, blocked>>
vars  == <<pool, units, sync>>

-----------------------------------------------------------------------------
Init ==
  /\ m_vectors = [w \in Words |-> 0]
  /\ m_tail = 0
  /\ m_heads = [s \in Solvers |-> 0] /\ m_at_end = [s \in Solvers |-> TRUE]
  /\ at = [s \in Solvers |-> "search"] /\ m_mux = NoOne
  /\ m_par_syncing_clauses = [s \in Solvers |-> FALSE] /\ blocked = {}
  /\ m_units = <<>>
  /\ m_par_limit_in = [s \in Solvers |-> 0] /\ m_par_limit_out = [s \in Solvers |-> 0]
  /\ m_trail = [s \in Solvers |-> <<>>]
  /\ inconsistent = [s \in Solvers |-> FALSE] /\ derived = {}
  /\ log = <<>> /\ last = [s \in Solvers |-> 0]

-----------------------------------------------------------------------------
(* vector_pool *)

get_owner(i)  == m_vectors[i]
get_length(i) == m_vectors[i + 1]

next(i) == LET n == i + 2 + get_length(i) IN IF n >= Size THEN 0 ELSE n

\* Mutant: heads that are about to be overwritten stay where they are.
MoveHead_slip(cap) == [h \in 0 .. Size - 1 |-> h]

\* Mutant: a head moves on by one entry only.
MoveHead_once(cap) ==
  [h \in 0 .. Size - 1 |-> IF m_tail < h /\ h < m_tail + cap THEN next(h) ELSE h]

\* Heads inside the words about to be overwritten move on, entry by entry.
MoveHead(cap) ==
  LET moved[h \in 0 .. Size - 1] ==
        IF m_tail < h /\ h < m_tail + cap THEN moved[next(h)] ELSE h
  IN  moved

\* begin_add_vector, add_vector_elem for each literal, end_add_vector.
AddVector(s, n) ==
  LET k   == Len(log) + 1
      end == m_tail + n + 2
  IN  /\ m_heads' = [r \in Solvers |-> MoveHead(n + 2)[m_heads[r]]]
      /\ m_at_end' = [r \in Solvers |-> FALSE]
      /\ m_vectors' = [w \in Words |->
                         IF w = m_tail THEN s
                         ELSE IF w = m_tail + 1 THEN n
                         ELSE IF m_tail + 1 < w /\ w < end THEN k ELSE m_vectors[w]]
      /\ m_tail' = IF end >= Size THEN 0 ELSE end
      /\ log' = Append(log, [owner |-> s, len |-> n])
      /\ UNCHANGED last

Room == Len(log) + Cardinality(derived) < MaxEvents

\* The lemma of the backjump that found the conflict is the last a solver adds.
Onward(s) == IF at[s] = "lemma" THEN "done" ELSE at[s]

\* A solver shares a clause it has learned, unless it is importing clauses.
ShareClause(s, n) ==
  /\ (at[s] = "search" /\ ~inconsistent[s]) \/ at[s] = "lemma"
  /\ m_mux = NoOne /\ ~m_par_syncing_clauses[s]
  /\ Room
  /\ AddVector(s, n)
  /\ at' = [at EXCEPT ![s] = Onward(s)]
  /\ UNCHANGED <<units, m_mux, m_par_syncing_clauses, blocked>>

\* Mutant: a reader stops where its head meets the tail.
Pending_slip(s) == m_heads[s] # m_tail

Pending(s) == m_heads[s] # m_tail \/ ~m_at_end[s]

\* Mutant: the guard against importing and sharing at once is missing.
get_clauses_slip(s) ==
  /\ at[s] = "search" /\ m_mux = NoOne /\ ~m_par_syncing_clauses[s]
  /\ at' = [at EXCEPT ![s] = "drain"] /\ m_mux' = s
  /\ UNCHANGED <<pool, units, blocked, m_par_syncing_clauses>>

\* A solver imports before it looks for a conflict: the cleanup of a pop may just
\* have left one.
get_clauses(s) ==
  /\ at[s] = "search" /\ m_mux = NoOne /\ ~m_par_syncing_clauses[s]
  /\ at' = [at EXCEPT ![s] = "drain"] /\ m_mux' = s
  /\ m_par_syncing_clauses' = [m_par_syncing_clauses EXCEPT ![s] = TRUE]
  /\ UNCHANGED <<pool, units, blocked>>

\* mk_clause_core on what was read: a binary clause is offered to share_clause.
Import(s, n) ==
  blocked' = IF n = 2 /\ ~m_par_syncing_clauses[s] THEN blocked \cup {s} ELSE blocked

\* One turn of the loop of get_vector, under the mutex.
get_vector(s) ==
  LET h == m_heads[s]
  IN  /\ at[s] = "drain" /\ s \notin blocked
      /\ Pending(s)
      /\ m_heads' = [m_heads EXCEPT ![s] = next(h)]
      /\ m_at_end' = [m_at_end EXCEPT ![s] = (next(h) = m_tail)]
      /\ last' = [last EXCEPT ![s] = m_vectors[h + 2]]
      /\ IF get_owner(h) = s THEN UNCHANGED blocked ELSE Import(s, get_length(h))
      /\ UNCHANGED <<m_vectors, m_tail, log, at, m_mux, m_par_syncing_clauses, units>>

\* The pool is drained: the lock and the flag are released.
Drained(s) ==
  /\ at[s] = "drain" /\ s \notin blocked /\ ~Pending(s)
  /\ at' = [at EXCEPT ![s] = "units"]
  /\ m_mux' = NoOne
  /\ m_par_syncing_clauses' = [m_par_syncing_clauses EXCEPT ![s] = FALSE]
  /\ UNCHANGED <<pool, units, blocked>>

-----------------------------------------------------------------------------
(* Units *)

Not(l)    == IF l % 2 = 0 THEN l + 1 ELSE l - 1
Common(l) == l \div 2 < NumParVars

In(list, l) == \E i \in DOMAIN list : list[i] = l

\* The base level of a solver: its trail, and whether it has a conflict.
Base(s) == [trail |-> m_trail[s], conflict |-> inconsistent[s]]

\* Mutant: a unit that is false is passed over.
AssignUnit_false(st, l) ==
  IF In(st.trail, l) \/ In(st.trail, Not(l)) THEN st
  ELSE [st EXCEPT !.trail = Append(@, l)]

AssignUnit(st, l) ==
  IF In(st.trail, l) THEN st
  ELSE IF In(st.trail, Not(l)) THEN [st EXCEPT !.conflict = TRUE]
  ELSE [st EXCEPT !.trail = Append(@, l)]

\* The units of q are assigned one by one, up to a conflict.
Deliver(st, q) ==
  LET after[i \in 0 .. Len(q)] ==
        IF i = 0 THEN st
        ELSE IF after[i - 1].conflict THEN after[i - 1]
        ELSE AssignUnit(after[i - 1], q[i])
  IN  after[Len(q)]

\* Mutant: literals that only their solver knows are published as well.
PushNew_local(list, q) ==
  LET pushed[i \in 0 .. Len(q)] ==
        IF i = 0 THEN list
        ELSE IF In(pushed[i - 1], q[i]) THEN pushed[i - 1]
        ELSE Append(pushed[i - 1], q[i])
  IN  pushed[Len(q)]

\* The common literals of q are pushed one by one, unless they are in the list already.
PushNew(list, q) ==
  LET pushed[i \in 0 .. Len(q)] ==
        IF i = 0 THEN list
        ELSE IF ~Common(q[i]) \/ In(pushed[i - 1], q[i]) THEN pushed[i - 1]
        ELSE Append(pushed[i - 1], q[i])
  IN  pushed[Len(q)]

\* m_units after s has published what is new on its trail.
Published(s) ==
  PushNew(m_units, SubSeq(m_trail[s], m_par_limit_out[s] + 1, Len(m_trail[s])))

\* The base level of s after it has taken what is new in m_units.
Delivered(s) ==
  Deliver(Base(s), SubSeq(m_units, m_par_limit_in[s] + 1, Len(m_units)))

\* Units go out and come in under the lock; then the solver takes the new ones.
exchange(s) ==
  /\ at[s] = "units" /\ m_mux = NoOne
  /\ m_units' = Published(s)
  /\ m_par_limit_in' = [m_par_limit_in EXCEPT ![s] = Len(Published(s))]
  /\ m_par_limit_out' = [m_par_limit_out EXCEPT ![s] = Len(m_trail[s])]
  /\ m_trail' = [m_trail EXCEPT ![s] = Delivered(s).trail]
  /\ inconsistent' = [inconsistent EXCEPT ![s] = Delivered(s).conflict]
  /\ at' = [at EXCEPT ![s] = IF Delivered(s).conflict THEN "lemma" ELSE "search"]
  /\ UNCHANGED <<pool, m_mux, m_par_syncing_clauses, blocked, derived>>

\* The solver derives a unit, in its search or from a clause it imports.
LearnUnit(s, l) ==
  /\ at[s] \in {"search", "drain", "lemma"} /\ s \notin blocked
  /\ Room /\ ~In(m_trail[s], l)
  /\ m_trail' = [m_trail EXCEPT ![s] = AssignUnit(Base(s), l).trail]
  /\ inconsistent' = [inconsistent EXCEPT ![s] = AssignUnit(Base(s), l).conflict]
  /\ derived' = derived \cup {<<s, l>>}
  /\ at' = [at EXCEPT ![s] = Onward(s)]
  /\ UNCHANGED <<pool, m_mux, m_par_syncing_clauses, blocked,
                 m_units, m_par_limit_in, m_par_limit_out>>

\* A conflict at level 0: the goal is unsatisfiable.
End(s) ==
  /\ at[s] \in {"search", "lemma"} /\ inconsistent[s]
  /\ at' = [at EXCEPT ![s] = "done"]
  /\ UNCHANGED <<pool, units, m_mux, m_par_syncing_clauses, blocked>>

\* All solvers have ended.
Terminated == (\A s \in Solvers : at[s] = "done") /\ UNCHANGED vars

Next ==
  \/ \E s \in Solvers :
       \/ \E n \in Lengths : ShareClause(s, n)
       \/ get_clauses(s) \/ get_vector(s) \/ Drained(s) \/ exchange(s) \/ End(s)
       \/ \E l \in Lits : LearnUnit(s, l)
  \/ Terminated

Spec == Init /\ [][Next]_vars

-----------------------------------------------------------------------------
(***************************************************************************)
(* The state of the pool, of the mutex and of the exchange of units.       *)
(***************************************************************************)
TypeOK ==
  /\ m_vectors \in [Words -> Nat]
  /\ m_tail \in 0 .. Size - 1
  /\ m_heads \in [Solvers -> 0 .. Size - 1] /\ m_at_end \in [Solvers -> BOOLEAN]
  /\ at \in [Solvers -> {"search", "drain", "units", "lemma", "done"}] /\ m_mux \in Solvers \cup {NoOne}
  /\ m_par_syncing_clauses \in [Solvers -> BOOLEAN] /\ blocked \subseteq Solvers
  /\ m_units \in Seq(Lits) /\ m_trail \in [Solvers -> Seq(Lits)]
  /\ inconsistent \in [Solvers -> BOOLEAN] /\ derived \subseteq Solvers \X Lits
  /\ m_par_limit_in \in [Solvers -> Nat] /\ m_par_limit_out \in [Solvers -> Nat]
  /\ log \in Seq([owner : Solvers, len : Lengths])
  /\ last \in [Solvers -> 0 .. Len(log)]

\* The words from h on are the k-th clause, complete.
EntryIs(h, k) ==
  /\ m_vectors[h] = log[k].owner
  /\ m_vectors[h + 1] = log[k].len
  /\ \A w \in h + 2 .. h + 1 + log[k].len : m_vectors[w] = k

(***************************************************************************)
(* However far a reader lags behind, at a wrap around, with entries of     *)
(* different lengths and after it was pushed on by a writer, its head is   *)
(* at an entry that is complete, and that it has not passed before.        *)
(***************************************************************************)
HeadGenuine ==
  /\ TypeOK
  /\ \A s \in Solvers : Pending(s) =>
       \E k \in last[s] + 1 .. Len(log) : EntryIs(m_heads[s], k)

(***************************************************************************)
(* A reader that has nothing pending has passed the newest clause: only    *)
(* old clauses are lost, to newer ones that took their place.              *)
(***************************************************************************)
NewestReached ==
  \A s \in Solvers : ~Pending(s) => last[s] = Len(log)

(***************************************************************************)
(* Clauses reach a solver in the order in which they were shared.          *)
(***************************************************************************)
InOrder == [][\A s \in Solvers : last'[s] >= last[s]]_vars

(***************************************************************************)
(* A solver does not wait for a mutex that it holds: an import that calls  *)
(* share_clause again is turned away by m_par_syncing_clauses.             *)
(***************************************************************************)
NoSelfDeadlock == blocked = {}

(***************************************************************************)
(* However the exchanges overlap: a solver that has no conflict has taken  *)
(* every unit below its limit, the limit is never past a unit that it was  *)
(* told and passed over; what it has published and others know the variable*)
(* of is in the list, and nothing is there twice.                          *)
(***************************************************************************)
UnitsDelivered ==
  /\ \A s \in Solvers : ~inconsistent[s] =>
       \A i \in 1 .. m_par_limit_in[s] : In(m_trail[s], m_units[i])
  /\ \A s \in Solvers : \A i \in 1 .. m_par_limit_out[s] :
       Common(m_trail[s][i]) => In(m_units, m_trail[s][i])
  /\ \A i, j \in DOMAIN m_units : m_units[i] = m_units[j] => i = j

\* The units s may rely on: its own, and those of anybody about common variables.
Known(s) == {l \in Lits : \E r \in Solvers : <<r, l>> \in derived /\ (r = s \/ Common(l))}

(***************************************************************************)
(* A solver takes no unit about a variable that another made for itself,   *)
(* and ends with a conflict only if two units that it may rely on          *)
(* contradict each other: an answer unsat is not made by the exchange.     *)
(***************************************************************************)
UnitsGenuine ==
  \A s \in Solvers :
    /\ \A i \in DOMAIN m_trail[s] : m_trail[s][i] \in Known(s)
    /\ inconsistent[s] => \E l \in Known(s) : Not(l) \in Known(s)

=============================================================================
