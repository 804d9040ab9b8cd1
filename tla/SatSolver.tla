------------------------------ MODULE SatSolver ------------------------------
(***************************************************************************)
(* The search of Z3's SAT solver (sat_solver.cpp): two watched literals,   *)
(* first-UIP conflict analysis with lemma minimization, backjumping and    *)
(* chronological backtracking (literals of a low level may sit high on the *)
(* trail), restarts, deletion of lemmas, assumptions with unsat cores,     *)
(* user scopes, and cancellation between two steps of the propagation.     *)
(*                                                                         *)
(* A literal is a non-zero integer, its negation is its opposite.  What    *)
(* heuristics decide (the variable and the phase of a decision, backjump   *)
(* or backtrack, when to restart, which lemma to delete) is a choice.  The *)
(* watch lists are not kept: a clause of two or three literals is watched  *)
(* by all of them, a longer one by its first two, and a watch list is      *)
(* visited in any order.                                                   *)
(***************************************************************************)
EXTENDS Integers, Sequences, FiniteSets, FiniteSetsExt, Functions

CONSTANTS
  NumVars,      \* variables of the formula
  Formulas,     \* formulas: their clauses, of two literals or more and none that
                \* is always true, and a bound on the checks made of them
  Extra,        \* clauses that can be asserted later
  Assumptions,  \* sequences of literals a check can be given
  Phases,       \* signs a decision can have
  MaxPushes,    \* bound: user scopes opened; each one has a variable of its own
  MaxRestarts, MaxGc   \* bounds: restarts and deletions in a check

Vars    == 1 .. NumVars + MaxPushes
Lits    == Vars \cup {-v : v \in Vars}
Problem == (1 .. NumVars) \cup {-v : v \in 1 .. NumVars}   \* literals of the user

ASSUME SatSolverAssumption ==
  /\ NumVars \in Nat \ {0} /\ Phases \subseteq {-1, 1} /\ Phases # {}
  /\ {MaxPushes, MaxRestarts, MaxGc} \subseteq Nat
  /\ \A f \in Formulas : /\ f.clauses \in Seq(SUBSET Problem) /\ f.checks \in Nat
                         /\ \A i \in DOMAIN f.clauses :
                              /\ Cardinality(f.clauses[i]) > 1
                              /\ \A l \in f.clauses[i] : -l \notin f.clauses[i]
  /\ Extra \subseteq SUBSET Problem
  /\ \A a \in Assumptions : a \in Seq(Problem)

VARIABLES
  input,                     \* history: the clauses asserted and not popped
  clauses, learned,          \* clause at each used offset; offsets of lemmas
  m_trail, m_justification, m_scopes, m_qhead,
  todo,                      \* clauses of the watch list still to be visited
  m_conflict,
  m_force_conflict_analysis,
  nvars, m_user_scope_literals,
  m_assumptions, toassume,   \* assumptions asserted, and still to be asserted
  m_lemma, m_core,
  pc, result,
  checks, restarts, gcs      \* checks left; restarts and deletions made

store  == <<input, clauses, learned>>
search == <<m_trail, m_justification, m_scopes, m_qhead, todo, m_conflict>>
user   == <<nvars, m_user_scope_literals, checks>>
goal   == <<m_assumptions, toassume>>
bounds == <<restarts, gcs>>
vars   == <<store, search, user, goal, bounds, m_force_conflict_analysis,
            m_lemma, m_core, pc, result>>

-----------------------------------------------------------------------------
var(l) == IF l > 0 THEN l ELSE -l
VarsOf(c) == {var(l) : l \in c}

\* The i-th of a set of numbers; literals are sorted by their index.
Nth(S, i) == CHOOSE n \in S : Cardinality({k \in S : k <= n}) = i
index(l)  == 2 * var(l) + IF l > 0 THEN 0 ELSE 1
Sorted(c) == [i \in 1 .. Cardinality(c) |->
                CHOOSE l \in c : index(l) = Nth({index(k) : k \in c}, i)]

Assigned == DOMAIN m_justification
True(l)  == \E i \in DOMAIN m_trail : m_trail[i] = l
False(l) == True(-l)
Undef(l) == var(l) \notin Assigned
lvl(l)   == m_justification[var(l)].lvl
Highest(S) == Max({lvl(l) : l \in S} \cup {0})

scope_lvl   == Len(m_scopes)
at_base_lvl == scope_lvl = 0
ScopeLits   == Range(m_user_scope_literals)
tracking_assumptions == m_assumptions # <<>> \/ m_user_scope_literals # <<>>
search_lvl  == IF tracking_assumptions THEN 1 ELSE 0

\* A justification: its level, and a clause or the false literals themselves.
Just(n, c, S) == [lvl |-> n, cls |-> c, lits |-> S]
None(n)       == Just(n, 0, {})
NoConflict    == [not_l |-> 0, js |-> None(-1)]
inconsistent  == m_conflict # NoConflict

\* The false literals a justification refers to, without the consequent.
Reason(js, l) == IF js.cls # 0 THEN Range(clauses[js.cls]) \ {l} ELSE js.lits
Antecedents(l) == {-k : k \in Reason(m_justification[var(l)], l)}

Init ==
  \E formula \in Formulas :
      /\ input = Range(formula.clauses)
      /\ clauses = [i \in DOMAIN formula.clauses |-> Sorted(formula.clauses[i])]
      /\ checks = formula.checks
      /\ learned = {}
      /\ m_trail = <<>> /\ m_justification = <<>> /\ m_scopes = <<>>
      /\ m_qhead = 0 /\ todo = {} /\ m_conflict = NoConflict
      /\ m_force_conflict_analysis = FALSE
      /\ nvars = NumVars /\ m_user_scope_literals = <<>>
      /\ m_assumptions = <<>> /\ toassume = <<>>
      /\ m_lemma = <<>> /\ m_core = {}
      /\ pc = "idle" /\ result = "none"
      /\ restarts = 0 /\ gcs = 0

-----------------------------------------------------------------------------
(* Basic operations *)

set_conflict(not_l, js) ==
  /\ m_conflict' = IF inconsistent THEN m_conflict ELSE [not_l |-> not_l, js |-> js]
  /\ UNCHANGED <<m_trail, m_justification>>

assign_core(l, js) ==
  /\ m_trail' = Append(m_trail, l)
  /\ m_justification' = [v \in Assigned \cup {var(l)} |->
       IF v = var(l) THEN IF js.lvl = 0 THEN None(0) ELSE js ELSE m_justification[v]]
  /\ UNCHANGED m_conflict

assign(l, js) ==
  \/ Undef(l) /\ assign_core(l, js)
  \/ False(l) /\ set_conflict(-l, js)
  \/ True(l)  /\ UNCHANGED <<m_trail, m_justification, m_conflict>>

\* What is of a level that stays is put back on the trail.
unassign_vars(old_sz, new_lvl) ==
  LET kept  == {i \in DOMAIN m_trail : i <= old_sz \/ lvl(m_trail[i]) <= new_lvl}
      trail == [i \in 1 .. Cardinality(kept) |-> m_trail[Nth(kept, i)]]
  IN  /\ m_trail' = trail
      /\ m_justification' = [v \in VarsOf(Range(trail)) |-> m_justification[v]]

PopScopes(new_lvl) ==
  /\ unassign_vars(m_scopes[new_lvl + 1], new_lvl)
  /\ m_scopes' = SubSeq(m_scopes, 1, new_lvl)
  /\ todo' = {} /\ m_conflict' = NoConflict

\* Mutant: what is put back is not propagated again.
pop_behind(new_lvl) ==
  IF new_lvl = scope_lvl THEN UNCHANGED search
  ELSE PopScopes(new_lvl) /\ m_qhead' = Len(m_trail')

\* The literals put back are propagated again, in the watch lists of today.
pop(new_lvl) ==
  IF new_lvl = scope_lvl THEN UNCHANGED search
  ELSE PopScopes(new_lvl) /\ m_qhead' = m_scopes[new_lvl + 1]

\* The offset of a new clause.
FreeId == CHOOSE i \in 1 .. Cardinality(DOMAIN clauses) + 1 : i \notin DOMAIN clauses
Attach(c) == clauses' = [i \in DOMAIN clauses \cup {FreeId} |->
                           IF i = FreeId THEN c ELSE clauses[i]]
Detach(S) == clauses' = [i \in DOMAIN clauses \ S |-> clauses[i]]

IsBinary(l, k) == \E i \in DOMAIN clauses :
                    Len(clauses[i]) = 2 /\ Range(clauses[i]) = {l, k}

propagate_bin_clause(l1, l2) ==
  \/ /\ False(l1) /\ False(l2)
     /\ set_conflict(0, Just(Highest({l1, l2}), 0, {l1, l2}))
  \/ ~False(l1) /\ False(l2) /\ assign(l1, Just(lvl(l2), 0, {l2}))
  \/ False(l1) /\ ~False(l2) /\ assign(l2, Just(lvl(l1), 0, {l1}))
  \/ ~False(l1) /\ ~False(l2) /\ UNCHANGED <<m_trail, m_justification, m_conflict>>

mk_bin_lemma(l1, l2) ==
  IF IsBinary(l1, -l2) /\ Undef(l1)
  THEN assign(l1, None(0)) /\ UNCHANGED <<clauses, learned>>
  ELSE IF IsBinary(l2, -l1) /\ Undef(l2)
  THEN assign(l2, None(0)) /\ UNCHANGED <<clauses, learned>>
  ELSE /\ propagate_bin_clause(l1, l2)
       /\ IF IsBinary(l1, l2) \/ (at_base_lvl /\ (False(l1) \/ False(l2)))
          THEN UNCHANGED <<clauses, learned>>
          ELSE Attach(<<l1, l2>>) /\ learned' = learned \cup {FreeId}

Swap(c, i, j) == [c EXCEPT ![i] = c[j], ![j] = c[i]]
MaxIndex(c, I) == CHOOSE i \in I : \A j \in I : lvl(c[i]) > lvl(c[j])
                                                 \/ (lvl(c[i]) = lvl(c[j]) /\ i <= j)

Keep3 == UNCHANGED <<m_trail, m_justification, m_conflict>>

mk_ter_lemma(c) ==
  LET open == {i \in 1 .. 3 : ~False(c[i])}
      i    == IF open = {} THEN 1 ELSE Min(open)
      S    == Range(c) \ {c[i]}
  IN  /\ Attach(c) /\ learned' = learned \cup {FreeId}
      /\ IF at_base_lvl \/ Cardinality(open) > 1 THEN Keep3
         ELSE assign(c[i], Just(Highest(S), 0, S))

\* Mutant: a long lemma is not kept.
mk_nary_lemma_skips(c) == Keep3 /\ UNCHANGED <<clauses, learned>>

\* The second watch is a literal of the highest level among the others.
mk_nary_lemma(c) ==
  LET d     == IF at_base_lvl THEN c ELSE Swap(c, 2, MaxIndex(c, 2 .. Len(c)))
      js(l) == Just(Highest(Range(d) \ {l}), FreeId, {})
  IN  /\ Attach(d) /\ learned' = learned \cup {FreeId}
      /\ IF at_base_lvl THEN Keep3
         ELSE IF False(d[1]) THEN assign(d[2], js(d[2]))
         ELSE IF False(d[2]) THEN assign(d[1], js(d[1]))
         ELSE Keep3

\* mk_clause_core for a lemma.
mk_clause_core(c) ==
  /\ \/ Len(c) = 1 /\ assign(c[1], None(0)) /\ UNCHANGED <<clauses, learned>>
     \/ Len(c) = 2 /\ mk_bin_lemma(c[1], c[2])
     \/ Len(c) = 3 /\ mk_ter_lemma(c)
     \/ Len(c) > 3 /\ mk_nary_lemma(c)
  /\ UNCHANGED <<input, m_scopes, m_qhead, todo>>

-----------------------------------------------------------------------------
(* Propagation *)

Propagating == pc \in {"base", "first", "search", "rebase", "reprop", "popped"}
Fixpoint    == ~inconsistent /\ todo = {} /\ m_qhead = Len(m_trail)

watches(l) == {i \in DOMAIN clauses :
                 \E j \in 1 .. IF Len(clauses[i]) > 3 THEN 2 ELSE Len(clauses[i]) :
                   clauses[i][j] = -l}

Rest == <<input, learned, m_scopes, user, goal, bounds, m_force_conflict_analysis,
          m_lemma, m_core, pc, result>>

Dequeue ==
  /\ Propagating /\ ~inconsistent /\ todo = {} /\ m_qhead < Len(m_trail)
  /\ m_qhead' = m_qhead + 1
  /\ todo' = {i \in watches(m_trail[m_qhead + 1]) :
                Len(clauses[i]) > 3 \/ ~\E l \in Range(clauses[i]) : True(l)}
  /\ UNCHANGED <<clauses, m_trail, m_justification, m_conflict, Rest>>

\* A watch of a clause of two or three literals.
VisitShort(id) ==
  LET l      == m_trail[m_qhead]
      others == Range(clauses[id]) \ {-l}
      open   == {k \in others : ~False(k)}
      k      == CHOOSE k \in others : open \subseteq {k}
      S      == Range(clauses[id]) \ {k}
      js     == Just(Highest(S), 0, S)
  IN  /\ id \in todo /\ Len(clauses[id]) <= 3
      /\ \/ /\ (\E q \in others : True(q)) \/ Cardinality(open) > 1
            /\ todo' = todo \ {id} /\ Keep3
         \/ /\ Cardinality(open) = 1 /\ Undef(k)
            /\ todo' = todo \ {id} /\ assign_core(k, js)
         \/ open = {} /\ todo' = {} /\ set_conflict(-k, js)
      /\ UNCHANGED <<clauses, m_qhead, Rest>>

\* A watch of a longer clause.
VisitLong(id) ==
  LET l     == m_trail[m_qhead]
      d     == IF clauses[id][1] = -l THEN Swap(clauses[id], 1, 2) ELSE clauses[id]
      tail  == 3 .. Len(d)
      free  == {i \in tail : ~False(d[i])}
      top   == IF lvl(l) = scope_lvl \/ Highest({d[i] : i \in tail}) <= lvl(l)
               THEN 2 ELSE MaxIndex(d, tail)
      level == Highest(Range(d) \ {d[1]})
      Put(c) == clauses' = [clauses EXCEPT ![id] = c]
  IN  /\ id \in todo /\ Len(clauses[id]) > 3
      /\ \/ /\ \E q \in Range(d) : True(q)             \* the blocked literal
            /\ todo' = todo \ {id} /\ Keep3 /\ UNCHANGED clauses
         \/ True(d[1]) /\ todo' = todo \ {id} /\ Keep3 /\ Put(d)
         \/ /\ ~True(d[1]) /\ free # {}
            /\ todo' = todo \ {id} /\ Keep3 /\ Put(Swap(d, 2, Min(free)))
         \/ /\ False(d[1]) /\ free = {}
            /\ todo' = {} /\ Put(d)
            /\ set_conflict(0, Just(Highest(Range(d)), id, {}))
         \/ /\ Undef(d[1]) /\ free = {}
            /\ todo' = todo \ {id} /\ Put(Swap(d, 2, top))
            /\ assign_core(d[1], Just(level, id, {}))
      /\ UNCHANGED <<m_qhead, Rest>>

-----------------------------------------------------------------------------
(* check: base level, assumptions, search *)

pop_to_base_level == pop(0) /\ m_assumptions' = <<>>

Finish(r, core) ==
  /\ pc' = "idle" /\ result' = r /\ m_core' = core
  /\ m_lemma' = <<>> /\ toassume' = <<>>

check(lits) ==
  /\ pc = "idle" /\ checks > 0
  /\ checks' = checks - 1
  /\ pop_to_base_level
  /\ toassume' = [i \in DOMAIN m_user_scope_literals |-> -m_user_scope_literals[i]] \o lits
  /\ m_force_conflict_analysis' = FALSE
  /\ m_core' = {} /\ result' = "none" /\ pc' = "base"
  /\ restarts' = 0 /\ gcs' = 0
  /\ UNCHANGED <<store, nvars, m_user_scope_literals, m_lemma>>

push == m_scopes' = Append(m_scopes, Len(m_trail))

\* The base level is propagated: open the level of the assumptions.
init_assumptions ==
  /\ pc = "base" /\ Fixpoint
  /\ IF toassume = <<>> THEN pc' = "search" /\ UNCHANGED m_scopes
     ELSE pc' = "assume" /\ push
  /\ UNCHANGED <<store, m_trail, m_justification, m_qhead, todo, m_conflict, user, goal,
                 bounds, m_force_conflict_analysis, m_lemma, m_core, result>>

\* The same after a backjump to the base level; a lemma waits to be added.
reinit_assumptions ==
  /\ pc = "rebase" /\ Fixpoint
  /\ push /\ pc' = "reassume"
  /\ toassume' = [i \in DOMAIN m_user_scope_literals |-> -m_user_scope_literals[i]]
                   \o m_assumptions
  /\ UNCHANGED <<store, m_trail, m_justification, m_qhead, todo, m_conflict, user,
                 m_assumptions, bounds, m_force_conflict_analysis, m_lemma, m_core, result>>

\* assign_scoped for the next assumption.
Assume ==
  /\ pc \in {"assume", "reassume"} /\ toassume # <<>> /\ ~inconsistent
  /\ assign(Head(toassume), None(scope_lvl))
  /\ toassume' = Tail(toassume)
  /\ m_assumptions' = IF pc = "reassume" \/ -Head(toassume) \in ScopeLits
                      THEN m_assumptions ELSE Append(m_assumptions, Head(toassume))
  /\ UNCHANGED <<store, m_scopes, m_qhead, todo, user, bounds,
                 m_force_conflict_analysis, m_lemma, m_core, pc, result>>

Assumed ==
  /\ pc \in {"assume", "reassume"} /\ (toassume = <<>> \/ inconsistent)
  /\ pc' = IF pc = "assume" THEN "first" ELSE "reprop"
  /\ toassume' = <<>>
  /\ UNCHANGED <<store, search, user, m_assumptions, bounds,
                 m_force_conflict_analysis, m_lemma, m_core, result>>

\* Propagation has ended: in a conflict or not.
Propagated ==
  /\ \/ pc = "first" /\ Fixpoint /\ pc' = "search"
     \/ pc = "popped" /\ (inconsistent \/ Fixpoint) /\ pc' = "idle"
     \/ /\ pc \in {"rebase", "reprop"} /\ pc' = "learn"
        /\ inconsistent \/ (pc = "reprop" /\ Fixpoint)
  /\ UNCHANGED <<store, search, user, goal, bounds, m_force_conflict_analysis,
                 m_lemma, m_core, result>>

BaseConflict ==
  /\ pc = "base" /\ inconsistent
  /\ Finish("unsat", {})
  /\ UNCHANGED <<store, search, user, m_assumptions, bounds, m_force_conflict_analysis>>

decide ==
  /\ pc = "search" /\ Fixpoint
  /\ \E v \in 1 .. nvars, sign \in Phases :
       Undef(v) /\ assign_core(sign * v, None(scope_lvl + 1))
  /\ push
  /\ UNCHANGED <<store, m_qhead, todo, user, goal, bounds, m_force_conflict_analysis,
                 m_lemma, m_core, pc, result>>

final_check ==
  /\ pc = "search" /\ Fixpoint /\ Assigned = 1 .. nvars
  /\ Finish("sat", {})
  /\ UNCHANGED <<store, search, user, m_assumptions, bounds, m_force_conflict_analysis>>

do_restart ==
  /\ pc = "search" /\ Fixpoint /\ restarts < MaxRestarts
  /\ scope_lvl >= 2 + search_lvl
  /\ \E n \in search_lvl .. scope_lvl - 1 : pop(n)
  /\ restarts' = restarts + 1
  /\ UNCHANGED <<store, user, goal, gcs, m_force_conflict_analysis,
                 m_lemma, m_core, pc, result>>

can_delete3(c) ==
  \A i \in 1 .. 3 :
    LET S == Range(c) \ {c[i]}
    IN  ~(/\ True(c[i]) /\ \A l \in S : False(l)
          /\ m_justification[var(c[i])].cls = 0 /\ m_justification[var(c[i])].lits = S)

\* Mutant: the reason of a literal is deleted.
can_delete_any(id) == Len(clauses[id]) = 3 => can_delete3(clauses[id])

can_delete(id) ==
  LET c == clauses[id]
  IN  IF Len(c) = 3 THEN can_delete3(c)
      ELSE ~(True(c[1]) /\ m_justification[var(c[1])].cls = id)

do_gc ==
  /\ pc = "search" /\ Fixpoint /\ gcs < MaxGc
  /\ \E id \in learned :
       /\ Len(clauses[id]) > 2 /\ can_delete(id)
       /\ Detach({id}) /\ learned' = learned \ {id}
  /\ gcs' = gcs + 1
  /\ UNCHANGED <<input, search, user, goal, restarts, m_force_conflict_analysis,
                 m_lemma, m_core, pc, result>>

\* The limit is reached: in the loop of check, or between two literals.
Cancel ==
  /\ Propagating /\ pc # "popped" /\ todo = {}
  /\ pc = "search" \/ m_qhead < Len(m_trail)
  /\ Finish("undef", {})
  /\ UNCHANGED <<store, search, user, m_assumptions, bounds, m_force_conflict_analysis>>

-----------------------------------------------------------------------------
(* Conflicts *)

\* The true literals that together falsify the conflict.
ConflictLits ==
  LET n == m_conflict.not_l
  IN  {-k : k \in Reason(m_conflict.js, -n)} \cup (IF n = 0 THEN {} ELSE {n})

m_conflict_lvl == Max({Highest(ConflictLits), IF Reason(m_conflict.js, 0) = {}
                                              THEN m_conflict.js.lvl ELSE 0})

unique_max ==
  \/ Reason(m_conflict.js, 0) = {}
  \/ Cardinality({l \in Reason(m_conflict.js, 0) : lvl(l) = m_conflict_lvl})
       + (IF m_conflict.not_l # 0 /\ lvl(m_conflict.not_l) = m_conflict_lvl THEN 1 ELSE 0) = 1

Above(S) == {l \in S : lvl(l) > 0}

\* Walk down the trail and resolve the marked literals of the conflict level
\* with their reasons, until one is left: the literals that are marked then.
Top(M) == {l \in M : lvl(l) = m_conflict_lvl}
Resolve(M, l) == IF Cardinality(Top(M)) = 1 \/ l \notin Top(M) THEN M
                 ELSE (M \ {l}) \cup Above(Antecedents(l))
FirstUIP ==
  LET n == Len(m_trail)
      marked[i \in 0 .. n] == IF i = 0 THEN Above(ConflictLits)
                              ELSE Resolve(marked[i - 1], m_trail[n + 1 - i])
  IN  marked[n]

\* Mutant: a decision, which has no antecedents, passes for implied.
Redundant_decisions(M) ==
  LET levels == {lvl(l) : l \in M}
      Implied(I) == \A l \in I : \A k \in Antecedents(l) :
                      lvl(k) = 0 \/ k \in M \/ (lvl(k) \in levels /\ k \in I)
  IN  {l \in M : \E I \in SUBSET Range(m_trail) : l \in I /\ Implied(I)}

\* minimize_lemma: the marked literals that others imply.  The search from a
\* literal marks I; it gives up at a decision and at levels not in the lemma.
Redundant(M) ==
  LET levels == {lvl(l) : l \in M}
      Implied(I) == \A l \in I :
        /\ m_justification[var(l)] # None(lvl(l))
        /\ \A k \in Antecedents(l) :
             lvl(k) = 0 \/ k \in M \/ (lvl(k) \in levels /\ k \in I)
  IN  {l \in M : \E I \in SUBSET Range(m_trail) : l \in I /\ Implied(I)}

Lemma ==
  LET M   == FirstUIP
      uip == CHOOSE l \in M : lvl(l) = m_conflict_lvl
  IN  <<-uip>> \o Sorted({-l : l \in (M \ {uip}) \ Redundant(M \ {uip})})

\* Mutant: reasons of the conflict are not followed back to the assumptions.
unsat_core_direct ==
  IF m_conflict_lvl = 0 THEN {} ELSE ConflictLits \cap Range(m_assumptions)

\* The assumptions the conflict follows from, by the reasons of the literals
\* of its level; level-0 assumptions are left out of a core of two or more.
unsat_core ==
  LET n     == m_conflict.not_l
      start == IF at_base_lvl THEN Len(m_trail) ELSE m_scopes[1]
      Closed(M) == /\ ConflictLits \subseteq M
                   /\ \A i \in start + 1 .. Len(m_trail) :
                        m_trail[i] \in M /\ lvl(m_trail[i]) = m_conflict_lvl
                          => Antecedents(m_trail[i]) \subseteq M
      marked == {l \in Range(m_trail) : \A M \in SUBSET Range(m_trail) :
                                           Closed(M) => l \in M}
      core == (marked \cup (IF n = 0 THEN {} ELSE {-n})) \cap Range(m_assumptions)
  IN  IF m_conflict_lvl = 0 THEN {}
      ELSE IF Cardinality(core) > 1 THEN Above(core) ELSE core

\* The conflict depends on nothing, or on the assumptions only.
ConflictIsFinal ==
  /\ pc \in {"first", "search"} /\ inconsistent
  /\ m_conflict_lvl = 0 \/ (m_conflict_lvl <= 1 /\ tracking_assumptions)
  /\ Finish("unsat", IF tracking_assumptions THEN unsat_core ELSE {})
  /\ UNCHANGED <<store, search, user, m_assumptions, bounds, m_force_conflict_analysis>>

Resolvable ==
  /\ pc = "search" /\ inconsistent
  /\ m_conflict_lvl > IF tracking_assumptions THEN 1 ELSE 0

\* One literal is of the conflict level: propagation will assign it.
Backtrack ==
  /\ Resolvable /\ unique_max /\ ~m_force_conflict_analysis
  /\ pop(m_conflict_lvl - 1)
  /\ m_force_conflict_analysis' = TRUE
  /\ UNCHANGED <<store, user, goal, bounds, m_lemma, m_core, pc, result>>

\* Learn a lemma; backjump as far as it allows, or go back one level.
learn_lemma_and_backjump ==
  LET lemma == Lemma
      jump  == Highest({lemma[i] : i \in 2 .. Len(lemma)})
      back  == lvl(lemma[1]) - 1
  IN  /\ Resolvable /\ ~(unique_max /\ ~m_force_conflict_analysis)
      /\ m_force_conflict_analysis' = FALSE
      /\ m_lemma' = lemma
      /\ \E n \in {jump, back} :
           /\ n < scope_lvl /\ pop(n)
           /\ pc' = IF n = 0 /\ tracking_assumptions THEN "rebase" ELSE "learn"
      /\ UNCHANGED <<store, user, goal, bounds, m_core, result>>

Learn ==
  /\ pc = "learn"
  /\ mk_clause_core(m_lemma)
  /\ m_lemma' = <<>> /\ pc' = "search"
  /\ UNCHANGED <<user, goal, bounds, m_force_conflict_analysis, m_core, result>>

-----------------------------------------------------------------------------
(* Between checks *)

\* Clauses are added at the base level.
BackToBase ==
  /\ pc = "idle" /\ ~at_base_lvl
  /\ pop_to_base_level /\ result' = "none"
  /\ UNCHANGED <<store, user, toassume, bounds, m_force_conflict_analysis,
                 m_lemma, m_core, pc>>

\* mk_clause: the base level simplifies the clause; user scopes guard it.
mk_clause(c) ==
  LET all  == c \cup ScopeLits
      open == {l \in all : Undef(l)}
  IN  /\ pc = "idle" /\ at_base_lvl /\ all \notin input
      /\ input' = input \cup {all}
      /\ \/ (\E l \in all : True(l) \/ -l \in all) /\ Keep3 /\ UNCHANGED clauses
         \/ /\ ~\E l \in all : True(l) \/ -l \in all
            /\ \/ open = {} /\ set_conflict(0, None(0)) /\ UNCHANGED clauses
               \/ /\ Cardinality(open) = 1 /\ UNCHANGED clauses
                  /\ \E l \in open : assign_core(l, None(0))
               \/ Cardinality(open) > 1 /\ Attach(Sorted(open)) /\ Keep3
      /\ result' = "none"
      /\ UNCHANGED <<learned, m_scopes, m_qhead, todo, user, goal, bounds,
                     m_force_conflict_analysis, m_lemma, m_core, pc>>

user_push ==
  /\ pc = "idle" /\ nvars < NumVars + MaxPushes
  /\ pop_to_base_level
  /\ nvars' = nvars + 1
  /\ m_user_scope_literals' = Append(m_user_scope_literals, nvars + 1)
  /\ result' = "none"
  /\ UNCHANGED <<store, checks, toassume, bounds, m_force_conflict_analysis,
                 m_lemma, m_core, pc>>

\* Clauses with the literal of the scope go; the base level is propagated anew.
user_pop ==
  LET n    == Len(m_user_scope_literals)
      lit  == m_user_scope_literals[n]
      gone == {i \in DOMAIN clauses : lit \in VarsOf(Range(clauses[i]))}
  IN  /\ pc = "idle" /\ n > 0
      /\ IF at_base_lvl THEN Keep3 /\ UNCHANGED <<m_scopes, todo>> ELSE PopScopes(0)
      /\ m_qhead' = 0 /\ m_assumptions' = <<>>
      /\ m_user_scope_literals' = SubSeq(m_user_scope_literals, 1, n - 1)
      /\ input' = {c \in input : lit \notin VarsOf(c)}
      /\ Detach(gone) /\ learned' = learned \ gone
      /\ pc' = "popped" /\ result' = "none"
      /\ UNCHANGED <<nvars, checks, toassume, bounds, m_force_conflict_analysis,
                     m_lemma, m_core>>

\* What the solver does inside a check, or to finish a user_pop.
Search ==
  \/ Dequeue \/ \E id \in todo : VisitShort(id) \/ VisitLong(id)
  \/ init_assumptions \/ reinit_assumptions \/ Assume \/ Assumed \/ Propagated
  \/ BaseConflict \/ decide \/ final_check \/ do_restart \/ do_gc \/ Cancel
  \/ ConflictIsFinal \/ Backtrack \/ learn_lemma_and_backjump \/ Learn

\* What its user asks for.
User ==
  \/ \E lits \in Assumptions : check(lits)
  \/ \E c \in Extra : mk_clause(c)
  \/ BackToBase \/ user_push \/ user_pop

Next == Search \/ User

\* The thread inside a check keeps running; nothing makes its user call.
Spec == Init /\ [][Next]_vars /\ WF_vars(Search)

-----------------------------------------------------------------------------
\* Types; a variable is assigned exactly when its literal is on the trail.
TypeOK ==
  /\ \A id \in DOMAIN clauses : Len(clauses[id]) >= 2 /\ Range(clauses[id]) \subseteq Lits
  /\ learned \subseteq DOMAIN clauses /\ DOMAIN clauses \subseteq Nat \ {0}
  /\ Range(m_trail) \subseteq Lits /\ Assigned = VarsOf(Range(m_trail))
  /\ m_qhead \in 0 .. Len(m_trail) /\ todo \subseteq DOMAIN clauses
  /\ \A v \in Assigned : m_justification[v].lvl \in 0 .. scope_lvl
  /\ m_core \subseteq Lits /\ result \in {"none", "sat", "unsat", "undef"}

\* The models of a set of clauses, and the variables of popped scopes.
Models(S) == {A \in SUBSET (1 .. nvars) :
                \A c \in S : \E l \in c : IF l > 0 THEN l \in A ELSE -l \notin A}

Retired == (NumVars + 1 .. nvars) \ ScopeLits

\* Every lemma in the store, every literal of level 0 and the lemma about to be
\* added follow from the clauses asserted and not popped: with conflicts met on
\* a trail whose levels are out of order, after lemmas were minimized, clauses
\* deleted and user scopes popped (resolve_conflict, minimize_lemma, user_pop).
LemmasImplied ==
  LET M == Models(input)
      Implied(c) == \A A \in M : \E l \in c : IF l > 0 THEN l \in A ELSE -l \notin A
  IN  /\ \A id \in learned : Implied(Range(clauses[id]))
      /\ \A i \in DOMAIN m_trail :
           lvl(m_trail[i]) = 0 /\ var(m_trail[i]) \notin Retired => Implied({m_trail[i]})
      /\ m_lemma # <<>> => Implied(Range(m_lemma))

\* The reason of a literal is still there, still has the literal as one of its
\* watches, is of the level recorded for the literal, and is about literals
\* that are false and below it on the trail: conflict analysis relies on it
\* after backtracking, replay of the trail, moves of watches and do_gc.
ReasonsIntact ==
  /\ TypeOK
  /\ \A i \in DOMAIN m_trail :
       LET l  == m_trail[i]
           js == m_justification[var(l)]
       IN  js # None(js.lvl) =>
             /\ js.cls # 0 => js.cls \in DOMAIN clauses /\ l \in {clauses[js.cls][1], clauses[js.cls][2]}
             /\ js.lvl = Highest(Reason(js, l))
             /\ \A k \in Reason(js, l) : \E j \in 1 .. i - 1 : m_trail[j] = -k

\* When propagation has nothing left to do, every clause is true or has two
\* unassigned literals, though a watch may be false and replayed literals meet
\* clauses learned since they were first assigned (propagate, unassign_vars).
NoMissedPropagation ==
  Fixpoint => \A id \in DOMAIN clauses :
    LET c == Range(clauses[id])
    IN  (\E l \in c : True(l)) \/ Cardinality({l \in c : Undef(l)}) > 1

Units(S) == {{l} : l \in S}
Scopes   == {{-l} : l \in ScopeLits}

\* The core consists of assumptions that the clauses and open scopes refute.
CoreRefuted ==
  result = "unsat" => /\ m_core \subseteq Range(m_assumptions)
                      /\ Models(input \cup Scopes \cup Units(m_core)) = {}

\* "sat" comes with a model of the clauses, the open scopes and the assumptions,
\* "unsat" with a core of assumptions that the clauses and scopes refute: also
\* in a check that follows one cancelled in mid-propagation, or a user_pop.
AnswerRight ==
  /\ result = "sat" => {v \in 1 .. nvars : True(v)} \in
                         Models(input \cup Scopes \cup Units(Range(m_assumptions)))
  /\ CoreRefuted

\* A check that is not disturbed ends: backtracking without a lemma, backjumps
\* that keep later literals, restarts and deletions do not make it run in circles.
CheckEnds == (pc # "idle") ~> (pc = "idle")
=============================================================================
