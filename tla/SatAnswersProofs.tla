-------------------------- MODULE SatAnswersProofs --------------------------
(***************************************************************************)
(* What the SAT solver learns follows from the clauses, and its answers    *)
(* are right, for every formula, every list of assumptions and every       *)
(* bound: on top of what SatSolverProofs says of reasons and levels.       *)
(***************************************************************************)
EXTENDS SatSolverProofs

-----------------------------------------------------------------------------
(***************************************************************************)
(* What follows from a set of clauses.                                     *)
(***************************************************************************)
Holds(A, l)   == IF l > 0 THEN l \in A ELSE -l \notin A
Sat(A, S)     == \A c \in S : \E l \in c : Holds(A, l)
Entails(S, c) == \A A \in SUBSET Vars : Sat(A, S) => \E l \in c : Holds(A, l)

\* The same, and all its literals are of variables in V.
Follows(S, V, c) == Entails(S, c) /\ \A l \in c : l \in Lits /\ var(l) \in V

\* The opposites of literals.
Neg(S) == {-l : l \in S}

\* An assignment makes a literal true or its negation.
LEMMA HoldsNeg ==
  ASSUME NEW A, NEW l \in Lits
  PROVE  Holds(A, -l) <=> ~Holds(A, l)
  <1>1. l \in Int \ {0} /\ -(-l) = l
    BY LitsAre
  <1> QED BY <1>1 DEF Holds

\* Negating twice.
LEMMA NegIs ==
  ASSUME NEW S, S \subseteq Lits
  PROVE  /\ Neg(S) \subseteq Lits /\ \A l : l \in Neg(S) <=> l \in Lits /\ -l \in S
         /\ \A l \in S : -l \in Neg(S) /\ var(-l) = var(l)
  <1>1. \A l \in Lits : -l \in Lits /\ -(-l) = l /\ var(-l) = var(l)
    BY LitsAre
  <1> QED BY <1>1 DEF Neg

\* A clause of the set follows from it.
LEMMA EntailsMember ==
  ASSUME NEW S, NEW c \in S
  PROVE  Entails(S, c)
  BY DEF Entails, Sat

\* A larger clause follows, also from more clauses.
LEMMA EntailsWeaker ==
  ASSUME NEW S, NEW T, S \subseteq T, NEW c, NEW d, c \subseteq d, Entails(S, c)
  PROVE  Entails(T, d)
  BY DEF Entails, Sat

\* Literals whose negations follow can be left out of a clause.
LEMMA EntailsDrop ==
  ASSUME NEW S, NEW c, NEW d, Entails(S, c), \A l \in c : l \in d \/ (l \in Lits /\ Entails(S, {-l}))
  PROVE  Entails(S, d)
  <1> SUFFICES ASSUME NEW A \in SUBSET Vars, Sat(A, S)
               PROVE  \E l \in d : Holds(A, l)
    BY DEF Entails
  <1>1. PICK l \in c : Holds(A, l)
    BY DEF Entails
  <1>2. CASE l \in Lits /\ Entails(S, {-l})
    <2>1. Holds(A, -l)
      BY <1>2 DEF Entails
    <2> QED BY <1>1, <1>2, <2>1, HoldsNeg
  <1> QED BY <1>1, <1>2

\* A literal of the clause is resolved with a clause that has its negation.
LEMMA EntailsResolve ==
  ASSUME NEW S, NEW c, NEW d, NEW e, NEW l \in Lits, Entails(S, c), Entails(S, d),
         \A k \in c : k = -l \/ k \in e, \A k \in d : k = l \/ k \in e
  PROVE  Entails(S, e)
  <1> SUFFICES ASSUME NEW A \in SUBSET Vars, Sat(A, S)
               PROVE  \E k \in e : Holds(A, k)
    BY DEF Entails
  <1>1. PICK x \in c : Holds(A, x)
    BY DEF Entails
  <1>2. PICK y \in d : Holds(A, y)
    BY DEF Entails
  <1>3. ~ (Holds(A, l) /\ Holds(A, -l))
    BY HoldsNeg
  <1> QED BY <1>1, <1>2, <1>3

\* Clauses in which a variable occurs positively only can be dropped, where the
\* variable does not occur.
LEMMA EntailsWithout ==
  ASSUME NEW S, NEW v \in Vars, \A d \in S : d \subseteq Lits /\ -v \notin d,
         NEW c, c \subseteq Lits, v \notin VarsOf(c), Entails(S, c)
  PROVE  Entails({d \in S : v \notin VarsOf(d)}, c)
  <1> DEFINE T == {d \in S : v \notin VarsOf(d)}
  <1> SUFFICES ASSUME NEW A \in SUBSET Vars, Sat(A, T)
               PROVE  \E l \in c : Holds(A, l)
    BY DEF Entails
  <1> DEFINE B == A \cup {v}
  <1>1. \A l \in Lits : var(l) # v => (Holds(B, l) <=> Holds(A, l))
    <2> SUFFICES ASSUME NEW l \in Lits, var(l) # v PROVE Holds(B, l) <=> Holds(A, l)
      OBVIOUS
    <2>1. l \in Int \ {0} /\ v # l /\ v # -l
      <3>1. l \in Int \ {0}
        BY LitsAre
      <3>2. CASE l > 0
        BY <3>1, <3>2 DEF var, Vars
      <3>3. CASE ~(l > 0)
        <4>1. v \in Int /\ v > 0
          BY SatSolverAssumption DEF Vars
        <4> QED BY <3>1, <3>3, <4>1 DEF var
      <3> QED BY <3>2, <3>3
    <2> QED BY <2>1 DEF Holds
  <1>2. Holds(B, v)
    <2>1. v > 0
      BY SatSolverAssumption DEF Vars
    <2> QED BY <2>1 DEF Holds
  <1>3. Sat(B, S)
    <2> SUFFICES ASSUME NEW d \in S PROVE \E l \in d : Holds(B, l)
      BY DEF Sat
    <2>1. CASE d \in T
      <3>1. PICK l \in d : Holds(A, l)
        BY <2>1 DEF Sat
      <3>2. l \in Lits /\ var(l) # v
        BY <2>1 DEF VarsOf
      <3> QED BY <1>1, <3>1, <3>2
    <2>2. CASE d \notin T
      <3>1. PICK l \in d : var(l) = v
        BY <2>2 DEF VarsOf
      <3>2. l \in Lits /\ l # -v
        OBVIOUS
      <3>3. l = v
        <4>1. v \in Lits /\ var(v) = v
          <5>1. v \in Lits
            BY DEF Lits
          <5>2. v > 0
            BY SatSolverAssumption DEF Vars
          <5> QED BY <5>1, <5>2 DEF var
        <4> QED BY <3>1, <3>2, <4>1, LitsAre
      <3> QED BY <1>2, <3>1, <3>3
    <2> QED BY <2>1, <2>2
  <1>4. B \in SUBSET Vars
    OBVIOUS
  <1>5. PICK l \in c : Holds(B, l)
    BY <1>3, <1>4 DEF Entails
  <1>6. l \in Lits /\ var(l) # v
    BY DEF VarsOf
  <1> QED BY <1>1, <1>5, <1>6

-----------------------------------------------------------------------------
(***************************************************************************)
(* Literals of level 0 follow, and so does every literal with its reason.  *)
(***************************************************************************)
TrailSound(S, V, tr, ju) ==
  \A i \in 1 .. Len(tr) :
    /\ LvlIn(ju, tr[i]) = 0 /\ var(tr[i]) \in V => Entails(S, {tr[i]})
    /\ ju[var(tr[i])].lits # {} => Follows(S, V, {tr[i]} \cup ju[var(tr[i])].lits)

\* The negation of a literal that is false at level 0 follows.
LEMMA LowFalse ==
  ASSUME NEW S, NEW V, NEW tr, NEW ju, TrailOK(tr, ju), TrailSound(S, V, tr, ju),
         NEW k \in Lits, -k \in Range(tr), LvlIn(ju, k) = 0, var(k) \in V
  PROVE  Entails(S, {-k})
  <1>0. Range(tr) = {tr[i] : i \in 1 .. Len(tr)}
    BY TrailFacts
  <1>1. PICK i \in 1 .. Len(tr) : tr[i] = -k
    BY <1>0
  <1>2. var(-k) = var(k) /\ LvlIn(ju, -k) = 0
    <2>1. var(-k) = var(k)
      BY LitsAre
    <2> QED BY <2>1 DEF LvlIn
  <1>3. LvlIn(ju, tr[i]) = 0 /\ var(tr[i]) \in V
    BY <1>1, <1>2
  <1>4. Entails(S, {tr[i]})
    BY <1>3 DEF TrailSound
  <1> QED BY <1>1, <1>4

\* Without the literals that are false at level 0 a clause follows still.
LEMMA DropLow ==
  ASSUME NEW S, NEW V, NEW tr, NEW ju, TrailOK(tr, ju), TrailSound(S, V, tr, ju),
         NEW c, Follows(S, V, c), NEW d, d \subseteq c,
         \A k \in c \ d : -k \in Range(tr) /\ LvlIn(ju, k) = 0
  PROVE  Follows(S, V, d)
  <1>1. \A k \in c : k \in d \/ (k \in Lits /\ Entails(S, {-k}))
    BY LowFalse DEF Follows
  <1>2. Entails(S, d)
    BY <1>1, EntailsDrop DEF Follows
  <1> QED BY <1>2 DEF Follows

\* A trail that grows by a literal that follows with its reason.
LEMMA GrowSound ==
  ASSUME NEW S, NEW V, NEW tr, NEW ju, TrailOK(tr, ju), TrailSound(S, V, tr, ju),
         NEW l \in Lits, var(l) \notin DOMAIN ju, NEW js \in Justs,
         js.lits # {} => Follows(S, V, {l} \cup js.lits),
         js.lvl = 0 /\ var(l) \in V => Entails(S, {l})
  PROVE  TrailSound(S, V, Append(tr, l), Extended(ju, l, js))
  <1> DEFINE tr2 == Append(tr, l)
             ju2 == Extended(ju, l, js)
             n   == Len(tr)
  <1>1. Extends(tr, ju, l, js, tr2, ju2)
    BY ExtendedIs
  <1> HIDE DEF tr2, ju2, n
  <1>2. /\ n \in Nat /\ Len(tr2) = n + 1 /\ tr2[n + 1] = l /\ \A i \in 1 .. n : tr2[i] = tr[i]
        /\ ju2[var(l)] = Norm(js) /\ LvlIn(ju2, l) = js.lvl
        /\ \A i \in 1 .. n : ju2[var(tr[i])] = ju[var(tr[i])] /\ LvlIn(ju2, tr[i]) = LvlIn(ju, tr[i])
    BY <1>1 DEF Extends, n
  <1>3. SUFFICES ASSUME NEW i \in 1 .. n + 1
        PROVE  /\ LvlIn(ju2, tr2[i]) = 0 /\ var(tr2[i]) \in V => Entails(S, {tr2[i]})
               /\ ju2[var(tr2[i])].lits # {} => Follows(S, V, {tr2[i]} \cup ju2[var(tr2[i])].lits)
    BY <1>2 DEF TrailSound, tr2, ju2
  <1>4. CASE i \in 1 .. n
    BY <1>2, <1>4 DEF TrailSound, n
  <1>5. CASE i = n + 1
    <2>1. Norm(js).lits # {} => Norm(js).lits = js.lits
      BY DEF Norm, None, Just
    <2>2. tr2[i] = l
      BY <1>2, <1>5
    <2> QED BY <1>2, <2>1, <2>2
  <1> QED BY <1>2, <1>4, <1>5

\* What is kept of a trail.
LEMMA CutSound ==
  ASSUME NEW S, NEW V, NEW tr, NEW ju, TrailOK(tr, ju), TrailSound(S, V, tr, ju),
         NEW n \in Nat, NEW b \in Nat, NEW tr2, NEW ju2, NEW g, SubTrail(tr, ju, tr2, ju2, n, b, g)
  PROVE  TrailSound(S, V, tr2, ju2)
  <1>1. \A i \in 1 .. Len(tr2) : /\ g[i] \in 1 .. Len(tr) /\ tr2[i] = tr[g[i]]
                                 /\ ju2[var(tr2[i])] = ju[var(tr2[i])]
                                 /\ LvlIn(ju2, tr2[i]) = LvlIn(ju, tr2[i])
    BY DEF SubTrail
  <1>2. ASSUME NEW i \in 1 .. Len(tr2)
        PROVE  /\ LvlIn(ju2, tr2[i]) = 0 /\ var(tr2[i]) \in V => Entails(S, {tr2[i]})
               /\ ju2[var(tr2[i])].lits # {} => Follows(S, V, {tr2[i]} \cup ju2[var(tr2[i])].lits)
    <2>1. PICK k \in 1 .. Len(tr) : /\ tr2[i] = tr[k] /\ ju2[var(tr2[i])] = ju[var(tr[k])]
                                    /\ LvlIn(ju2, tr2[i]) = LvlIn(ju, tr[k])
      BY <1>1
    <2>2. /\ LvlIn(ju, tr[k]) = 0 /\ var(tr[k]) \in V => Entails(S, {tr[k]})
          /\ ju[var(tr[k])].lits # {} => Follows(S, V, {tr[k]} \cup ju[var(tr[k])].lits)
      BY DEF TrailSound
    <2> QED BY <2>1, <2>2
  <1> QED BY <1>2 DEF TrailSound

\* With other clauses from which the same follows.
LEMMA KeepSound ==
  ASSUME NEW S, NEW V, NEW T, NEW W, NEW tr, NEW ju, TrailSound(S, V, tr, ju),
         \A c : Entails(S, c) => Entails(T, c), \A c : Follows(S, V, c) => Follows(T, W, c),
         \A i \in 1 .. Len(tr) : var(tr[i]) \in W => var(tr[i]) \in V
  PROVE  TrailSound(T, W, tr, ju)
  BY DEF TrailSound

-----------------------------------------------------------------------------
(* Of the variables of the user's literals and of open scopes. *)
LiveVars == (1 .. NumVars) \cup ScopeLits
Sure(c)  == Follows(input, LiveVars, c)

\* The literals a check has to make true.
Goals == Range(m_assumptions) \cup Neg(ScopeLits)

\* A conflict at the base level refutes the clauses.  Another follows from the
\* clauses, or is that of an assumption which is false at its level or below.
Refuted == Neg(ConflictLits)
Clash == /\ m_conflict.js = None(1)
         /\ m_conflict.not_l \in Lits /\ True(m_conflict.not_l) /\ lvl(m_conflict.not_l) <= 1
         /\ -m_conflict.not_l \in Goals
ConflictSound ==
  inconsistent => IF scope_lvl = 0 THEN Entails(input, {})
                                   ELSE pc = "idle" \/ Sure(Refuted) \/ Clash

InputInv == /\ \A c \in input : c \subseteq Problem \cup ScopeLits
            /\ Injective(m_user_scope_literals)
GoalsInv == /\ Range(m_assumptions) \subseteq Problem
            /\ Range(toassume) \subseteq Problem \cup Neg(ScopeLits)
            /\ pc \in {"idle", "popped"} => toassume = <<>>
            /\ pc = "reassume" => Range(toassume) \subseteq Goals
SoundInv ==
  /\ InputInv /\ GoalsInv
  /\ \A id \in DOMAIN clauses : Sure(Range(clauses[id]))
  /\ TrailSound(input, LiveVars, m_trail, m_justification)
  /\ \A i \in 1 .. Len(m_trail) : var(m_trail[i]) \in 1 .. nvars
  /\ ConflictSound
  /\ Pending => Sure(Range(m_lemma))

\* A literal with the literals of its reason.
LEMMA SureReason ==
  ASSUME StoreInv, TrailInv, ReasonInv, SoundInv, NEW i \in 1 .. Len(m_trail),
         m_justification[var(m_trail[i])] # None(lvl(m_trail[i]))
  PROVE  Sure({m_trail[i]} \cup Reason(m_justification[var(m_trail[i])], m_trail[i]))
  <1> DEFINE l  == m_trail[i]
             js == m_justification[var(l)]
  <1>1. ReasonAt(clauses, m_trail, m_justification, i)
    BY DEF ReasonInv, ReasonsOK
  <1>2. js.lvl = lvl(l) /\ js # None(js.lvl)
    BY DEF lvl
  <1>3. /\ js.cls # 0 => js.cls \in DOMAIN clauses /\ Len(clauses[js.cls]) > 3 /\ clauses[js.cls][1] = l
        /\ \E k \in ReasonIn(clauses, js, l) : LvlIn(m_justification, k) = js.lvl
    BY <1>1, <1>2 DEF ReasonAt
  <1>4. CASE js.cls # 0
    <2>1. l \in Range(clauses[js.cls])
      <3>1. GoodClause(clauses[js.cls])
        BY <1>3, <1>4 DEF StoreInv, ClausesOK
      <3> QED BY <1>3, <1>4, <3>1, ClauseFacts
    <2>2. {l} \cup Reason(js, l) = Range(clauses[js.cls])
      BY <1>4, <2>1 DEF Reason
    <2> QED BY <1>3, <1>4, <2>2 DEF SoundInv
  <1>5. CASE js.cls = 0
    <2>1. js.lits # {} /\ Reason(js, l) = js.lits
      BY <1>3, <1>5 DEF ReasonIn, Reason
    <2>2. Follows(input, LiveVars, {l} \cup js.lits)
      BY <2>1 DEF SoundInv, TrailSound
    <2> QED BY <2>1, <2>2 DEF Sure
  <1> QED BY <1>4, <1>5

-----------------------------------------------------------------------------
(***************************************************************************)
(* Conflict analysis: the lemma follows from the clauses.                  *)
(***************************************************************************)
\* The conflict that is resolved follows from the clauses.
LEMMA SureRefuted ==
  ASSUME SearchInv, SoundInv, Resolvable
  PROVE  /\ Sure(Refuted) /\ ConflictAt(clauses, m_trail, m_conflict, search_lvl)
         /\ m_conflict_lvl > search_lvl /\ m_conflict_lvl \in Nat
  <1>1. TrailInv /\ pc = "search" /\ inconsistent
    BY DEF SearchInv, Resolvable
  <1>2. m_conflict_lvl > search_lvl
    BY DEF Resolvable, search_lvl
  <1>3. ConflictAt(clauses, m_trail, m_conflict, search_lvl)
    BY <1>1 DEF SearchInv, ConflictInv
  <1>4. m_conflict_lvl \in Nat /\ m_conflict_lvl <= scope_lvl /\ search_lvl \in {0, 1}
        /\ (tracking_assumptions <=> search_lvl = 1)
    BY <1>1, <1>2, <1>3, ConflictFacts, SearchLvl
  <1>5. scope_lvl # 0 /\ scope_lvl \in Nat
    BY <1>1, <1>2, <1>4, LevelsAre DEF TrailInv
  <1>6. Sure(Refuted) \/ Clash
    <2>1. "search" # "idle"
      OBVIOUS
    <2> QED BY <1>1, <1>5, <2>1 DEF SoundInv, ConflictSound
  <1>7. ASSUME Clash PROVE FALSE
    <2> DEFINE n == m_conflict.not_l
    <2>1. /\ m_conflict.js = None(1) /\ n \in Lits /\ True(n) /\ lvl(n) <= 1 /\ -n \in Goals
      BY <1>7 DEF Clash
    <2>2. tracking_assumptions
      <3>1. CASE -n \in Range(m_assumptions)
        <4>1. m_assumptions # <<>>
          BY <3>1 DEF Range
        <4> QED BY <4>1 DEF tracking_assumptions
      <3>2. CASE -n \in Neg(ScopeLits)
        <4>1. m_user_scope_literals # <<>>
          BY <3>2 DEF Neg, ScopeLits, Range
        <4> QED BY <4>1 DEF tracking_assumptions
      <3> QED BY <2>1, <3>1, <3>2 DEF Goals
    <2>3. Reason(m_conflict.js, -n) = {} /\ Reason(m_conflict.js, 0) = {} /\ m_conflict.js.lvl = 1
      BY <2>1 DEF Reason, None, Just
    <2>4. ConflictLits = {n}
      <3>1. n # 0
        BY <2>1, LitsAre
      <3> QED BY <2>3, <3>1 DEF ConflictLits
    <2>5. Highest({n}) \in 0 .. scope_lvl /\ Highest({n}) <= 1
      <3>1. var(n) \in Assigned
        BY <1>1, <2>1, ValuesAre DEF TrailInv
      <3>2. /\ Highest({n}) \in 0 .. scope_lvl
            /\ \E l \in {n} : lvl(l) = Highest({n})
        BY <1>1, <2>1, <3>1, HighestIs DEF TrailInv
      <3> QED BY <2>1, <3>2
    <2> DEFINE S == {Highest({n}), 1}
    <2>6. m_conflict_lvl = Max(S)
      BY <2>3, <2>4 DEF m_conflict_lvl
    <2>7. S \subseteq 0 .. scope_lvl /\ S # {}
      BY <1>5, <2>5
    <2> HIDE DEF S
    <2>8. Max(S) \in S
      BY <1>5, <2>7, MaxIs
    <2>9. Max(S) <= 1
      BY <2>5, <2>8 DEF S
    <2> QED BY <1>2, <1>4, <2>2, <2>6, <2>9
  <1> QED BY <1>2, <1>3, <1>4, <1>6, <1>7

\* What a clause of the state loses when its literals of level 0 are dropped.
LEMMA SureDrop ==
  ASSUME TrailInv, SoundInv, NEW c, Sure(c), NEW d, d \subseteq c,
         \A k \in c \ d : -k \in Range(m_trail) /\ lvl(k) = 0
  PROVE  Sure(d)
  <1>1. TrailOK(m_trail, m_justification) /\ TrailSound(input, LiveVars, m_trail, m_justification)
    BY DEF TrailInv, SoundInv
  <1>2. Follows(input, LiveVars, c)
    BY DEF Sure
  <1>3. \A k \in c \ d : -k \in Range(m_trail) /\ LvlIn(m_justification, k) = 0
    BY LvlIs
  <1>4. Follows(input, LiveVars, d)
    BY <1>1, <1>2, <1>3, DropLow
  <1> QED BY <1>4 DEF Sure

\* At the beginning of the walk the negated marked literals are a clause that follows.
LEMMA SureStart ==
  ASSUME TrailInv, SoundInv, ConflictLits \subseteq Range(m_trail), Sure(Refuted)
  PROVE  Sure(Neg(Above(ConflictLits)))
  <1>1. Range(m_trail) \subseteq Lits
    BY TrailFacts DEF TrailInv
  <1>2. \A k \in Lits : -(-k) = k /\ lvl(-k) = lvl(k)
    BY LitsAre, LevelsAre DEF TrailInv
  <1>3. Neg(Above(ConflictLits)) \subseteq Refuted
    BY DEF Neg, Above, Refuted
  <1>4. \A k \in Refuted \ Neg(Above(ConflictLits)) : -k \in Range(m_trail) /\ lvl(k) = 0
    <2> SUFFICES ASSUME NEW k \in Refuted, k \notin Neg(Above(ConflictLits))
                 PROVE  -k \in Range(m_trail) /\ lvl(k) = 0
      OBVIOUS
    <2>1. PICK l \in ConflictLits : k = -l
      BY DEF Refuted, Neg
    <2>2. l \in Lits /\ l \in Range(m_trail) /\ -k = l /\ lvl(k) = lvl(l)
      BY <1>1, <1>2, <2>1
    <2>3. ~ (lvl(l) > 0)
      BY <2>1 DEF Neg, Above
    <2>4. lvl(l) \in Nat
      <3>1. var(l) \in Assigned
        BY <2>2, ValuesAre DEF TrailInv
      <3>2. lvl(l) \in 0 .. scope_lvl /\ scope_lvl \in Nat
        BY <2>2, <3>1, LevelsAre DEF TrailInv
      <3> QED BY <3>2
    <2> QED BY <2>2, <2>3, <2>4
  <1> QED BY <1>3, <1>4, SureDrop

\* A marked literal of the conflict level that is resolved has a reason.
LEMMA HasReason ==
  ASSUME TrailInv, DecideInv, m_conflict_lvl > search_lvl, m_conflict_lvl \in Nat, NEW M,
         NEW i \in 0 .. Len(m_trail) - 1, Marked(M, i),
         Cardinality(Top(M)) # 1, At(i + 1) \in Top(M)
  PROVE  m_justification[var(At(i + 1))] # None(lvl(At(i + 1)))
  <1> DEFINE n == Len(m_trail)
             j == n - i
             l == m_trail[j]
  <1>1. n \in Nat /\ j \in 1 .. n /\ At(i + 1) = l /\ n - i = j
    <2>1. n \in Nat
      BY TrailFacts DEF TrailInv
    <2>2. n + 1 - (i + 1) = j /\ j \in 1 .. n
      BY <2>1
    <2> QED BY <2>1, <2>2 DEF At
  <1> HIDE DEF j, n
  <1>2. lvl(l) = m_conflict_lvl /\ l \in Top(M)
    BY <1>1 DEF Top
  <1>3. PICK k \in Top(M) : k # l
    <2>1. IsFiniteSet(Top(M))
      <3>1. Top(M) \subseteq Lits
        BY TrailFacts DEF TrailInv, Marked, Top
      <3> QED BY <3>1, LitsFinite
    <2>2. Cardinality(Top(M)) = 1 <=> \E x : Top(M) = {x}
      BY <2>1, One
    <2>3. Top(M) # {l}
      BY <2>2
    <2> QED BY <1>2, <2>3
  <1>4. PICK p \in 1 .. j : m_trail[p] = k
    BY <1>1, <1>3 DEF Marked, n
  <1>5. p \in 1 .. j - 1 /\ LvlIn(m_justification, m_trail[p]) = m_conflict_lvl
    <2>1. p # j
      BY <1>3, <1>4
    <2>2. lvl(k) = m_conflict_lvl
      BY DEF Top
    <2> QED BY <1>1, <1>4, <2>1, <2>2, LvlIs
  <1>6. ASSUME m_justification[var(l)] = None(lvl(l)) PROVE FALSE
    <2> DEFINE js == m_justification[var(m_trail[j])]
    <2>1. js.lvl = lvl(l)
      BY DEF lvl
    <2>2. js = None(js.lvl) /\ js.lvl > search_lvl
      BY <1>2, <1>6, <2>1
    <2>3. DecidedAt(m_trail, m_justification, search_lvl, j)
      BY <1>1 DEF DecideInv, DecidedOK, n
    <2>4. \A q \in 1 .. j - 1 : LvlIn(m_justification, m_trail[q]) # js.lvl
      BY <2>2, <2>3 DEF DecidedAt
    <2> QED BY <1>2, <1>5, <2>1, <2>4
  <1> QED BY <1>1, <1>6

\* A resolution step of the walk gives a clause that follows.
LEMMA SureStep ==
  ASSUME SearchInv, SoundInv, m_conflict_lvl > search_lvl, m_conflict_lvl \in Nat, NEW M,
         NEW i \in 0 .. Len(m_trail) - 1, Marked(M, i), Sure(Neg(M))
  PROVE  Sure(Neg(Resolve(M, At(i + 1))))
  <1> DEFINE l == At(i + 1)
             js == m_justification[var(l)]
             R == Reason(js, l)
             e == Neg(M \ {l}) \cup R
             d == Neg((M \ {l}) \cup Above(Antecedents(l)))
  <1>0. TrailInv /\ ReasonInv /\ DecideInv /\ StoreInv
    BY DEF SearchInv
  <1>1. CASE Cardinality(Top(M)) = 1 \/ l \notin Top(M)
    BY <1>1 DEF Resolve
  <1>2. CASE ~ (Cardinality(Top(M)) = 1 \/ l \notin Top(M))
    <2>1. Resolve(M, l) = (M \ {l}) \cup Above(Antecedents(l))
      BY <1>2 DEF Resolve
    <2>2. PICK j \in 1 .. Len(m_trail) : l = m_trail[j]
      <3>1. Len(m_trail) \in Nat
        BY <1>0, TrailFacts DEF TrailInv
      <3>2. Len(m_trail) + 1 - (i + 1) \in 1 .. Len(m_trail)
        BY <3>1
      <3> QED BY <3>2 DEF At
    <2>3. l \in Lits /\ M \subseteq Range(m_trail) /\ M \subseteq Lits
      <3>1. Range(m_trail) \subseteq Lits /\ \A p \in 1 .. Len(m_trail) : m_trail[p] \in Lits
        BY <1>0, TrailFacts DEF TrailInv
      <3>2. M \subseteq Range(m_trail)
        BY DEF Marked
      <3> QED BY <2>2, <3>1, <3>2
    <2>4. js # None(lvl(l))
      <3>1. Cardinality(Top(M)) # 1 /\ At(i + 1) \in Top(M)
        BY <1>2
      <3>2. m_justification[var(At(i + 1))] # None(lvl(At(i + 1)))
        BY <1>0, <3>1, HasReason
      <3> QED BY <3>2
    <2>5. Sure({l} \cup R)
      <3>1. js = m_justification[var(m_trail[j])] /\ lvl(l) = lvl(m_trail[j])
        BY <2>2
      <3>2. m_justification[var(m_trail[j])] # None(lvl(m_trail[j]))
        BY <2>4, <3>1
      <3>3. Sure({m_trail[j]} \cup Reason(m_justification[var(m_trail[j])], m_trail[j]))
        BY <1>0, <3>2, SureReason
      <3> QED BY <2>2, <3>3
    <2>6. \A k \in Antecedents(l) : k \in Range(m_trail)
      BY <1>0, <2>2, AntecedentsAre
    <2>7. Antecedents(l) = Neg(R)
      BY DEF Antecedents, Neg
    <2> HIDE DEF l, js, R
    <2>8. R \subseteq Lits
      BY <2>5 DEF Sure, Follows
    <2>9. \A k \in Neg(M) : k = -l \/ k \in e
      BY DEF Neg
    <2>10. \A k \in {l} \cup R : k = l \/ k \in e
      OBVIOUS
    <2>11. Sure(e)
      <3> HIDE DEF e
      <3>1. Entails(input, Neg(M)) /\ Entails(input, {l} \cup R)
        BY <2>5 DEF Sure, Follows
      <3>2. Entails(input, e)
        BY <2>3, <2>9, <2>10, <3>1, EntailsResolve
      <3>3. e \subseteq Neg(M) \cup R
        BY DEF e, Neg
      <3> QED BY <2>5, <3>2, <3>3 DEF Sure, Follows
    <2>12. d \subseteq e /\ \A k \in e \ d : k \in R /\ -k \in Antecedents(l) /\ -k \notin Above(Antecedents(l))
      <3>1. \A k \in R : -k \in Antecedents(l) /\ -(-k) = k
        <4>1. \A k \in R : -k \in Neg(R)
          BY DEF Neg
        <4>2. \A k \in R : -(-k) = k
          BY <2>8, LitsAre
        <4> QED BY <2>7, <4>1, <4>2
      <3>2. \A k \in Antecedents(l) : -k \in R
        BY <2>7, <2>8, NegIs
      <3>3. d \subseteq e
        BY <3>2 DEF Neg, Above
      <3>4. ASSUME NEW k \in e, k \notin d PROVE k \in R /\ -k \in Antecedents(l) /\ -k \notin Above(Antecedents(l))
        <4>1. k \in R
          BY <3>4 DEF Neg
        <4>2. -k \notin Above(Antecedents(l))
          BY <3>1, <3>4, <4>1 DEF Neg
        <4> QED BY <3>1, <4>1, <4>2
      <3> QED BY <3>3, <3>4
    <2>13. \A k \in e \ d : -k \in Range(m_trail) /\ lvl(k) = 0
      <3> SUFFICES ASSUME NEW k \in e \ d PROVE -k \in Range(m_trail) /\ lvl(k) = 0
        OBVIOUS
      <3>1. k \in Lits /\ -k \in Lits /\ -k \in Range(m_trail) /\ lvl(-k) = lvl(k)
        BY <1>0, <2>6, <2>8, <2>12, LitsAre, LevelsAre DEF TrailInv
      <3>2. lvl(-k) \in Nat
        <4>1. var(-k) \in Assigned
          BY <1>0, <3>1, ValuesAre DEF TrailInv
        <4>2. lvl(-k) \in 0 .. scope_lvl /\ scope_lvl \in Nat
          BY <1>0, <3>1, <4>1, LevelsAre DEF TrailInv
        <4> QED BY <4>2
      <3>3. ~ (lvl(-k) > 0)
        BY <2>12 DEF Above
      <3> QED BY <3>1, <3>2, <3>3
    <2> HIDE DEF e, d
    <2>14. Sure(d)
      BY <1>0, <2>11, <2>12, <2>13, SureDrop
    <2> QED BY <2>1, <2>14 DEF d, l
  <1> QED BY <1>1, <1>2

\* What is marked at the end of the walk.
LEMMA SureFirstUIP ==
  ASSUME SearchInv, SoundInv, Resolvable
  PROVE  Sure(Neg(FirstUIP))
  <1>1. /\ Sure(Refuted) /\ ConflictAt(clauses, m_trail, m_conflict, search_lvl)
        /\ m_conflict_lvl > search_lvl /\ m_conflict_lvl \in Nat
    BY SureRefuted
  <1>2. TrailInv /\ ReasonInv
    BY DEF SearchInv
  <1>3. Len(m_trail) \in Nat
    BY <1>2, TrailFacts DEF TrailInv
  <1>4. PICK f : Walk(f, Len(m_trail)) /\ FirstUIP = f[Len(m_trail)]
    BY <1>3, FirstUIPWalks
  <1> DEFINE S == {k \in 0 .. Len(m_trail) : Marked(f[k], k) /\ Sure(Neg(f[k]))}
  <1>5. 0 \in S
    <2>1. f[0] = Above(ConflictLits) /\ 0 \in 0 .. Len(m_trail)
      BY <1>3, <1>4 DEF Walk
    <2>2. Marked(Above(ConflictLits), 0)
      BY <1>1, <1>2, MarkedStart
    <2>3. ConflictLits \subseteq Range(m_trail)
      BY <1>1, <1>2, ConflictFacts
    <2>4. Sure(Neg(Above(ConflictLits)))
      BY <1>1, <1>2, <2>3, SureStart
    <2> QED BY <2>1, <2>2, <2>4
  <1>6. ASSUME NEW m \in 0 .. Len(m_trail) - 1, m \in S PROVE m + 1 \in S
    <2>1. m + 1 \in 1 .. Len(m_trail) /\ m + 1 \in 0 .. Len(m_trail) /\ (m + 1) - 1 = m
      BY <1>3
    <2>2. f[m + 1] = Resolve(f[m], At(m + 1))
      BY <1>4, <2>1 DEF Walk
    <2>3. Marked(f[m], m) /\ Sure(Neg(f[m]))
      BY <1>6
    <2>4. Marked(Resolve(f[m], At(m + 1)), m + 1)
      BY <1>1, <1>2, <2>3, MarkedStep
    <2>5. Sure(Neg(Resolve(f[m], At(m + 1))))
      BY <1>1, <2>3, SureStep
    <2> QED BY <2>1, <2>2, <2>4, <2>5
  <1> HIDE DEF S
  <1>7. Len(m_trail) \in S
    BY <1>3, <1>5, <1>6, Climbs
  <1> QED BY <1>4, <1>7 DEF S

\* A set of literals that the literals of M, and those of level 0, imply.
ImpliedBy(M, I) ==
  \A l \in I : /\ m_justification[var(l)] # None(lvl(l))
               /\ \A k \in Antecedents(l) : lvl(k) = 0 \/ k \in M \/ k \in I

\* What minimisation leaves out is implied by what it keeps.
LEMMA RedundantIs ==
  ASSUME NEW M, NEW l \in Redundant(M)
  PROVE  l \in M /\ \E I \in SUBSET Range(m_trail) : l \in I /\ ImpliedBy(M, I)
  BY DEF Redundant, ImpliedBy

\* What makes the marked literals true that are not redundant makes all of them true.
LEMMA AllHold ==
  ASSUME StoreInv, TrailInv, ReasonInv, SoundInv, NEW M, M \subseteq Range(m_trail),
         NEW A \in SUBSET Vars, Sat(A, input), \A l \in M \ Redundant(M) : Holds(A, l)
  PROVE  \A l \in M : Holds(A, l)
  <1> DEFINE n == Len(m_trail)
             Implied(l) == \E I \in SUBSET Range(m_trail) : l \in I /\ ImpliedBy(M, I)
             Bad == {i \in 1 .. n : ~Holds(A, m_trail[i]) /\ (m_trail[i] \in M \/ Implied(m_trail[i]))}
  <1>1. n \in Nat /\ Range(m_trail) = {m_trail[i] : i \in 1 .. n} /\ Range(m_trail) \subseteq Lits
    BY TrailFacts DEF TrailInv
  <1>2. ASSUME Bad # {} PROVE FALSE
    <2>1. Bad \subseteq Nat
      BY <1>1
    <2>2. PICK i \in Bad : \A j \in Bad : i <= j
      BY <1>2, <2>1, LeastOf
    <2> DEFINE l == m_trail[i]
    <2>3. i \in 1 .. n /\ ~Holds(A, l) /\ l \in Lits
      BY <1>1
    <2>4. Implied(l)
      <3>1. CASE l \in M
        <4>1. l \in Redundant(M)
          BY <2>3, <3>1
        <4> QED BY <4>1, RedundantIs
      <3> QED BY <3>1
    <2>5. PICK I \in SUBSET Range(m_trail) : l \in I /\ ImpliedBy(M, I)
      BY <2>4
    <2>6. m_justification[var(l)] # None(lvl(l))
      BY <2>5 DEF ImpliedBy
    <2> DEFINE R == Reason(m_justification[var(l)], l)
    <2>7. Sure({l} \cup R)
      BY <2>3, <2>6, SureReason
    <2>8. Antecedents(l) = {-k : k \in R}
      BY DEF Antecedents
    <2>9. \A k \in Antecedents(l) :
            k \in Range(m_trail) /\ \E j \in 1 .. i - 1 : m_trail[j] = k
      BY <2>3, AntecedentsAre
    <2> HIDE DEF R, l
    <2>10. PICK k \in {l} \cup R : Holds(A, k)
      BY <2>7 DEF Sure, Follows, Entails
    <2>11. k \in R /\ k \in Lits /\ var(k) \in LiveVars
      BY <2>3, <2>7, <2>10 DEF Sure, Follows
    <2>12. -k \in Antecedents(l) /\ -k \in Lits /\ ~Holds(A, -k) /\ var(-k) = var(k)
      BY <2>8, <2>10, <2>11, HoldsNeg, LitsAre
    <2>13. PICK j \in 1 .. i - 1 : m_trail[j] = -k
      BY <2>9, <2>12
    <2>14. j \in 1 .. n /\ j \in Int /\ i \in Int /\ ~ (i <= j)
      BY <1>1, <2>3
    <2>15. lvl(-k) = 0 \/ -k \in M \/ -k \in I
      BY <2>5, <2>12 DEF ImpliedBy, l
    <2>16. CASE lvl(-k) = 0
      <3>1. LvlIn(m_justification, m_trail[j]) = 0 /\ var(m_trail[j]) \in LiveVars
        BY <2>11, <2>12, <2>13, <2>16, LvlIs
      <3>2. Entails(input, {m_trail[j]})
        BY <2>14, <3>1 DEF SoundInv, TrailSound
      <3> QED BY <2>12, <2>13, <3>2 DEF Entails
    <2>17. CASE -k \in M \/ -k \in I
      <3>1. -k \in M \/ Implied(-k)
        BY <2>5, <2>17
      <3>2. j \in Bad
        BY <2>12, <2>13, <2>14, <3>1
      <3> QED BY <2>2, <2>14, <3>2
    <2> QED BY <2>15, <2>16, <2>17
  <1> SUFFICES ASSUME NEW l \in M, ~Holds(A, l) PROVE FALSE
    OBVIOUS
  <1>3. PICK i \in 1 .. n : m_trail[i] = l
    BY <1>1
  <1>4. i \in Bad
    BY <1>3
  <1> QED BY <1>2, <1>4

\* The lemma follows from the clauses.
LEMMA SureLemma ==
  ASSUME SearchInv, SoundInv, Resolvable
  PROVE  Sure(Range(Lemma))
  <1>1. /\ ConflictAt(clauses, m_trail, m_conflict, search_lvl) /\ m_conflict_lvl > search_lvl
    BY SureRefuted
  <1>2. TrailInv /\ ReasonInv /\ StoreInv
    BY DEF SearchInv
  <1>3. Range(Lemma) = Neg({UIP} \cup Others) /\ UIP \in FirstUIP
    BY <1>1, <1>2, LemmaIs DEF Neg
  <1>4. Sure(Neg(FirstUIP))
    BY SureFirstUIP
  <1>5. FirstUIP \subseteq Range(m_trail) /\ Range(m_trail) \subseteq Lits
    BY <1>1, <1>2, FirstUIPIs, TrailFacts DEF TrailInv
  <1> DEFINE M == FirstUIP \ {UIP}
  <1>6. Others = M \ Redundant(M) /\ M \subseteq Range(m_trail)
    BY <1>5 DEF Others
  <1>7. Neg({UIP} \cup Others) \subseteq Neg(FirstUIP)
    BY <1>3, <1>6 DEF Neg
  <1>8. Entails(input, Neg({UIP} \cup Others))
    <2> SUFFICES ASSUME NEW A \in SUBSET Vars, Sat(A, input), ~ \E k \in Neg({UIP} \cup Others) : Holds(A, k)
                 PROVE  FALSE
      BY DEF Entails
    <2>1. \A l \in {UIP} \cup Others : Holds(A, l)
      <3> SUFFICES ASSUME NEW l \in {UIP} \cup Others PROVE Holds(A, l)
        OBVIOUS
      <3>1. l \in Lits /\ -l \in Neg({UIP} \cup Others)
        BY <1>3, <1>5, <1>6 DEF Neg
      <3>2. ~Holds(A, -l)
        BY <3>1
      <3> QED BY <3>1, <3>2, HoldsNeg
    <2> HIDE DEF M
    <2>2. \A l \in M \ Redundant(M) : Holds(A, l)
      BY <1>6, <2>1
    <2>3. \A l \in M : Holds(A, l)
      BY <1>2, <1>6, <2>2, AllHold
    <2>4. \A l \in FirstUIP : Holds(A, l)
      BY <2>1, <2>3 DEF M
    <2>5. PICK k \in Neg(FirstUIP) : Holds(A, k)
      BY <1>4 DEF Sure, Follows, Entails
    <2>6. PICK l \in FirstUIP : k = -l
      BY DEF Neg
    <2> QED BY <1>5, <2>4, <2>5, <2>6, HoldsNeg
  <1> QED BY <1>3, <1>4, <1>7, <1>8 DEF Sure, Follows

-----------------------------------------------------------------------------
(***************************************************************************)
(* Steps of the propagation.                                               *)
(***************************************************************************)
\* Live variables are variables of the solver.
LEMMA LiveAre ==
  ASSUME UserInv
  PROVE  /\ LiveVars \subseteq 1 .. nvars /\ nvars \in Nat
         /\ ScopeLits \subseteq NumVars + 1 .. nvars
         /\ \A l \in Problem : var(l) \in LiveVars
         /\ \A l \in Neg(ScopeLits) : var(l) \in LiveVars
         /\ \A l \in ScopeLits : var(l) \in LiveVars
  <1>1. NumVars \in Nat /\ MaxPushes \in Nat /\ nvars \in Nat /\ NumVars <= nvars
    BY SatSolverAssumption DEF UserInv
  <1>2. ScopeLits \subseteq NumVars + 1 .. nvars /\ ScopeLits \subseteq Vars
    BY NegScopesAre
  <1>3. \A l \in Problem : var(l) \in 1 .. NumVars
    BY <1>1 DEF Problem, var
  <1>4. \A v \in ScopeLits : var(v) = v /\ var(-v) = v
    BY <1>1, <1>2 DEF var
  <1> QED BY <1>1, <1>2, <1>3, <1>4 DEF LiveVars, Neg

\* What follows is the same while clauses and scopes are.
LEMMA SureSame ==
  ASSUME input' = input, m_user_scope_literals' = m_user_scope_literals
  PROVE  /\ LiveVars' = LiveVars /\ ScopeLits' = ScopeLits
         /\ \A c : Sure(c)' <=> Sure(c)
  <1>1. ScopeLits' = ScopeLits
    BY DEF ScopeLits
  <1>2. LiveVars' = LiveVars
    BY <1>1 DEF LiveVars
  <1> QED BY <1>1, <1>2 DEF Sure

\* A literal whose other literals are false follows, if they are of level 0.
LEMMA UnitSound ==
  ASSUME TrailInv, SoundInv, UserInv, NEW c, Sure(c), NEW l \in c, \A k \in c \ {l} : False(k)
  PROVE  /\ Highest(c \ {l}) = 0 => Entails(input, {l})
         /\ l \in Lits /\ var(l) \in LiveVars /\ var(l) \in 1 .. nvars
         /\ c \ {l} \subseteq Lits
  <1>1. c \subseteq Lits /\ l \in Lits /\ var(l) \in LiveVars
    BY DEF Sure, Follows
  <1>2. ASSUME Highest(c \ {l}) = 0 PROVE Entails(input, {l})
    <2>1. \A k \in c \ {l} : k \in Lits /\ var(k) \in Assigned /\ -k \in Range(m_trail)
      BY <1>1, ValuesAre DEF TrailInv
    <2>2. \A k \in c \ {l} : lvl(k) <= 0
      BY <1>1, <1>2, <2>1, HighestIs DEF TrailInv
    <2>3. \A k \in c \ {l} : lvl(k) \in 0 .. scope_lvl /\ scope_lvl \in Nat
      BY <2>1, LevelsAre DEF TrailInv
    <2>4. \A k \in c \ {l} : lvl(k) = 0
      BY <2>2, <2>3
    <2>5. \A k \in c \ {l} : -k \in Range(m_trail) /\ lvl(k) = 0
      BY <2>1, <2>4
    <2>6. Sure({l})
      BY <2>5, SureDrop
    <2> QED BY <2>6 DEF Sure, Follows
  <1> QED BY <1>1, <1>2, LiveAre

\* A false clause refutes the clauses at the base level.
LEMMA FalseSound ==
  ASSUME TrailInv, SoundInv, NEW c, Sure(c), \A k \in c : False(k), scope_lvl = 0
  PROVE  Entails(input, {})
  <1>1. \A k \in c : k \in Lits /\ var(k) \in Assigned /\ -k \in Range(m_trail)
    BY ValuesAre DEF TrailInv, Sure, Follows
  <1>2. \A k \in c : lvl(k) \in 0 .. scope_lvl
    BY <1>1, LevelsAre DEF TrailInv
  <1>3. \A k \in c \ {} : -k \in Range(m_trail) /\ lvl(k) = 0
    BY <1>1, <1>2
  <1>4. Sure({})
    BY <1>3, SureDrop
  <1> QED BY <1>4 DEF Sure, Follows

\* The trail grows by a literal that follows with its reason.
LEMMA GrowTrailSound ==
  ASSUME TrailInv, SoundInv, NEW l \in Lits, Undef(l), NEW js \in Justs, assign_core(l, js),
         js.lits # {} => Sure({l} \cup js.lits),
         js.lvl = 0 /\ var(l) \in LiveVars => Entails(input, {l}), var(l) \in 1 .. nvars
  PROVE  /\ TrailSound(input, LiveVars, m_trail', m_justification')
         /\ \A i \in 1 .. Len(m_trail') : var(m_trail'[i]) \in 1 .. nvars
  <1>1. /\ m_trail' = Append(m_trail, l)
        /\ m_justification' = Extended(m_justification, l, js)
        /\ Extends(m_trail, m_justification, l, js, m_trail', m_justification')
        /\ var(l) \notin DOMAIN m_justification
    <2>1. m_trail' = Append(m_trail, l) /\ m_justification' = Extended(m_justification, l, js)
      BY DEF assign_core, Assigned, Extended, Norm
    <2>2. var(l) \notin DOMAIN m_justification /\ TrailOK(m_trail, m_justification)
      BY ValuesAre DEF TrailInv
    <2> QED BY <2>1, <2>2, ExtendedIs
  <1>2. TrailSound(input, LiveVars, Append(m_trail, l), Extended(m_justification, l, js))
    <2>1. TrailOK(m_trail, m_justification) /\ TrailSound(input, LiveVars, m_trail, m_justification)
      BY DEF TrailInv, SoundInv
    <2>2. js.lits # {} => Follows(input, LiveVars, {l} \cup js.lits)
      BY DEF Sure
    <2> QED BY <1>1, <2>1, <2>2, GrowSound
  <1>3. ASSUME NEW i \in 1 .. Len(m_trail') PROVE var(m_trail'[i]) \in 1 .. nvars
    <2>1. /\ Len(m_trail) \in Nat /\ Len(m_trail') = Len(m_trail) + 1 /\ m_trail'[Len(m_trail) + 1] = l
          /\ \A j \in 1 .. Len(m_trail) : m_trail'[j] = m_trail[j]
      BY <1>1 DEF Extends
    <2>2. CASE i \in 1 .. Len(m_trail)
      BY <2>1, <2>2 DEF SoundInv
    <2>3. CASE i = Len(m_trail) + 1
      BY <2>1, <2>3
    <2> QED BY <2>1, <2>2, <2>3
  <1> QED BY <1>1, <1>2, <1>3

\* A step that keeps clauses and literals of the user.
LEMMA SameUser ==
  ASSUME SoundInv, UNCHANGED <<input, m_user_scope_literals, nvars, m_assumptions>>
  PROVE  /\ InputInv' /\ LiveVars' = LiveVars /\ ScopeLits' = ScopeLits /\ Goals' = Goals
         /\ \A c : Sure(c)' <=> Sure(c)
  <1>1. LiveVars' = LiveVars /\ ScopeLits' = ScopeLits /\ \A c : Sure(c)' <=> Sure(c)
    BY SureSame
  <1>2. Goals' = Goals
    BY <1>1 DEF Goals
  <1>3. InputInv'
    BY <1>1 DEF SoundInv, InputInv
  <1> QED BY <1>1, <1>2, <1>3

\* ... and the order of the clauses at most.
LEMMA StepSound ==
  ASSUME SoundInv, UNCHANGED <<input, m_user_scope_literals, nvars>>,
         DOMAIN clauses' \subseteq DOMAIN clauses,
         \A id \in DOMAIN clauses' : Range(clauses'[id]) = Range(clauses[id]),
         TrailSound(input, LiveVars, m_trail', m_justification'),
         \A i \in 1 .. Len(m_trail') : var(m_trail'[i]) \in 1 .. nvars,
         GoalsInv', ConflictSound', Pending' => Sure(Range(m_lemma'))
  PROVE  SoundInv'
  <1>1. InputInv' /\ LiveVars' = LiveVars /\ \A c : Sure(c)' <=> Sure(c)
    <2>1. LiveVars' = LiveVars /\ ScopeLits' = ScopeLits /\ \A c : Sure(c)' <=> Sure(c)
      BY SureSame
    <2>2. InputInv'
      BY <2>1 DEF SoundInv, InputInv
    <2> QED BY <2>1, <2>2
  <1>2. (\A id \in DOMAIN clauses : Sure(Range(clauses[id])))'
    <2>1. \A id \in DOMAIN clauses' : Sure(Range(clauses[id]))
      BY DEF SoundInv
    <2> QED BY <1>1, <2>1 DEF Sure
  <1>3. Pending' => Sure(Range(m_lemma))'
    BY <1>1 DEF Sure
  <1>4. TrailSound(input, LiveVars, m_trail, m_justification)'
    BY <1>1 DEF TrailSound
  <1> QED BY <1>1, <1>2, <1>3, <1>4 DEF SoundInv

\* The phase changes, between its states.
LEMMA QuietSound ==
  ASSUME SoundInv, UNCHANGED <<store, search, user, m_assumptions>>, pc # "idle",
         GoalsInv', Pending' => Pending /\ m_lemma' = m_lemma
  PROVE  SoundInv'
  <1>1. UNCHANGED <<input, clauses, m_trail, m_justification, m_scopes, m_conflict, nvars,
                    m_user_scope_literals, m_assumptions>>
    BY DEF store, search, user
  <1>2. Goals' = Goals
    BY <1>1, SameUser
  <1>3. ConflictSound'
    <2>1. (inconsistent' <=> inconsistent) /\ scope_lvl' = scope_lvl /\ ConflictLits' = ConflictLits
      BY <1>1 DEF inconsistent, scope_lvl, ConflictLits, Reason
    <2>2. Refuted' = Refuted
      BY <2>1 DEF Refuted
    <2>3. Clash' <=> Clash
      BY <1>1, <1>2 DEF Clash, True, lvl
    <2>4. Sure(Refuted)' <=> Sure(Refuted)
      <3>1. LiveVars' = LiveVars
        BY <1>1, SureSame
      <3> QED BY <1>1, <2>2, <3>1 DEF Sure
    <2>5. inconsistent => IF scope_lvl = 0 THEN Entails(input, {}) ELSE Sure(Refuted) \/ Clash
      BY DEF SoundInv, ConflictSound
    <2> QED BY <1>1, <2>1, <2>3, <2>4, <2>5 DEF ConflictSound
  <1>4. /\ DOMAIN clauses' \subseteq DOMAIN clauses
        /\ \A id \in DOMAIN clauses' : Range(clauses'[id]) = Range(clauses[id])
        /\ TrailSound(input, LiveVars, m_trail', m_justification')
        /\ \A i \in 1 .. Len(m_trail') : var(m_trail'[i]) \in 1 .. nvars
    BY <1>1 DEF SoundInv
  <1>5. Pending' => Sure(Range(m_lemma'))
    BY DEF SoundInv
  <1> QED BY <1>1, <1>3, <1>4, <1>5, StepSound

\* A conflict with a clause that follows.
LEMMA RefuteSound ==
  ASSUME TrailInv, SoundInv, NEW c, Sure(c), \A k \in c : False(k),
         UNCHANGED <<input, m_user_scope_literals>>, scope_lvl' = scope_lvl, Refuted' = c
  PROVE  ConflictSound'
  <1>1. scope_lvl = 0 => Entails(input, {})
    BY FalseSound
  <1>2. LiveVars' = LiveVars
    BY SureSame
  <1>3. Sure(Refuted)'
    BY <1>2 DEF Sure
  <1> QED BY <1>1, <1>3 DEF ConflictSound

\* What a new conflict refutes.
LEMMA RefutedIs ==
  ASSUME NEW n, NEW js, ~inconsistent, set_conflict(n, js), NEW R, R \subseteq Lits,
         ReasonIn(clauses', js, -n) = R, n = 0 \/ -n \in Lits
  PROVE  Refuted' = R \cup (IF n = 0 THEN {} ELSE {-n})
  <1>1. m_conflict' = [not_l |-> n, js |-> js]
    BY DEF set_conflict
  <1>2. m_conflict'.not_l = n /\ m_conflict'.js = js
    BY <1>1
  <1>3. Reason(js, -n)' = R
    BY DEF Reason, ReasonIn
  <1>4. ConflictLits' = {-k : k \in R} \cup (IF n = 0 THEN {} ELSE {n})
    BY <1>2, <1>3 DEF ConflictLits, Reason
  <1>5. \A k \in Lits : -(-k) = k
    BY LitsAre
  <1>6. Neg({-k : k \in R}) = R
    BY <1>5 DEF Neg
  <1>7. Neg({-k : k \in R} \cup (IF n = 0 THEN {} ELSE {n})) = R \cup (IF n = 0 THEN {} ELSE {-n})
    BY <1>6 DEF Neg
  <1> QED BY <1>4, <1>7 DEF Refuted

\* What a visit has to keep.
LEMMA VisitSound ==
  ASSUME SearchInv, SoundInv, UNCHANGED Rest,
         DOMAIN clauses' = DOMAIN clauses,
         \A id \in DOMAIN clauses : Range(clauses'[id]) = Range(clauses[id]),
         TrailSound(input, LiveVars, m_trail', m_justification'),
         \A i \in 1 .. Len(m_trail') : var(m_trail'[i]) \in 1 .. nvars,
         inconsistent' => ConflictSound'
  PROVE  SoundInv'
  <1>1. /\ UNCHANGED <<input, m_user_scope_literals, nvars, m_assumptions, toassume, pc, m_lemma>>
        /\ (Pending' <=> Pending)
    BY RestIs
  <1>2. ConflictSound'
    BY DEF ConflictSound
  <1>3. Goals' = Goals /\ ScopeLits' = ScopeLits
    BY <1>1, SameUser
  <1>4. GoalsInv'
    BY <1>1, <1>3 DEF SoundInv, GoalsInv
  <1>5. Pending' => Sure(Range(m_lemma'))
    BY <1>1 DEF SoundInv
  <1> QED BY <1>1, <1>2, <1>4, <1>5, StepSound

\* The trail and the conflict stay.
LEMMA KeepVisitSound ==
  ASSUME SearchInv, SoundInv, UNCHANGED Rest, Keep3, ~inconsistent,
         DOMAIN clauses' = DOMAIN clauses,
         \A id \in DOMAIN clauses : Range(clauses'[id]) = Range(clauses[id])
  PROVE  SoundInv'
  <1>1. m_trail' = m_trail /\ m_justification' = m_justification /\ ~inconsistent'
    BY DEF Keep3, inconsistent
  <1>2. /\ TrailSound(input, LiveVars, m_trail', m_justification')
        /\ \A i \in 1 .. Len(m_trail') : var(m_trail'[i]) \in 1 .. nvars
    BY <1>1 DEF SoundInv
  <1> QED BY <1>1, <1>2, VisitSound

\* The literal of a clause that is left is assigned, with its reason.
LEMMA UnitVisitSound ==
  ASSUME SearchInv, SoundInv, UNCHANGED Rest, ~inconsistent,
         DOMAIN clauses' = DOMAIN clauses,
         \A id \in DOMAIN clauses : Range(clauses'[id]) = Range(clauses[id]),
         NEW c, Sure(c), NEW l \in c, \A k \in c \ {l} : False(k), c \ {l} # {}, Undef(l),
         NEW n \in Nat, NEW S \in {{}, c \ {l}}, assign_core(l, Just(Highest(c \ {l}), n, S))
  PROVE  SoundInv'
  <1> DEFINE js == Just(Highest(c \ {l}), n, S)
  <1>1. TrailInv /\ UserInv
    BY DEF SearchInv
  <1>2. /\ Highest(c \ {l}) = 0 => Entails(input, {l})
        /\ l \in Lits /\ var(l) \in LiveVars /\ var(l) \in 1 .. nvars
        /\ c \ {l} \subseteq Lits
    BY <1>1, UnitSound
  <1>3. js \in Justs /\ js.lvl <= Len(m_scopes) /\ js.lvl = Highest(c \ {l}) /\ js.lits = S
    <2>1. Highest(c \ {l}) \in Nat /\ Highest(c \ {l}) <= Len(m_scopes)
      BY <1>1, <1>2, FalseReason
    <2>2. S \in SUBSET Lits
      BY <1>2
    <2> QED BY <2>1, <2>2, JustsAre
  <1>4. js.lits # {} => Sure({l} \cup js.lits)
    <2>1. {l} \cup (c \ {l}) = c
      OBVIOUS
    <2>2. js.lits # {} => js.lits = c \ {l}
      BY <1>3
    <2> QED BY <2>1, <2>2
  <1>5. assign_core(l, js)
    OBVIOUS
  <1> HIDE DEF js
  <1>6. /\ TrailSound(input, LiveVars, m_trail', m_justification')
        /\ \A i \in 1 .. Len(m_trail') : var(m_trail'[i]) \in 1 .. nvars
    BY <1>1, <1>2, <1>3, <1>4, <1>5, GrowTrailSound
  <1>7. ~inconsistent'
    BY <1>5 DEF assign_core, inconsistent
  <1> QED BY <1>6, <1>7, VisitSound

\* Every literal of a clause is false.
LEMMA FalseVisitSound ==
  ASSUME SearchInv, SoundInv, UNCHANGED Rest,
         DOMAIN clauses' = DOMAIN clauses,
         \A id \in DOMAIN clauses : Range(clauses'[id]) = Range(clauses[id]),
         NEW c, Sure(c), \A k \in c : False(k), UNCHANGED <<m_trail, m_justification>>, Refuted' = c
  PROVE  SoundInv'
  <1>1. TrailInv
    BY DEF SearchInv
  <1>2. input' = input /\ m_user_scope_literals' = m_user_scope_literals /\ scope_lvl' = scope_lvl
    BY RestIs
  <1>3. ConflictSound'
    BY <1>1, <1>2, RefuteSound
  <1>4. /\ TrailSound(input, LiveVars, m_trail', m_justification')
        /\ \A i \in 1 .. Len(m_trail') : var(m_trail'[i]) \in 1 .. nvars
    BY DEF SoundInv
  <1> QED BY <1>3, <1>4, VisitSound

\* The next literal is taken from the queue.
LEMMA DequeueSound ==
  ASSUME SearchInv, SoundInv, Dequeue
  PROVE  SoundInv'
  <1>1. /\ UNCHANGED <<clauses, m_trail, m_justification, m_conflict>> /\ UNCHANGED Rest /\ ~inconsistent
    BY DEF Dequeue
  <1> QED BY <1>1, KeepVisitSound DEF Keep3

\* The cases of a visit of a short clause.
LEMMA VisitShortIs ==
  ASSUME SearchInv, NEW id \in todo, VisitShort(id)
  PROVE  /\ UNCHANGED Rest /\ clauses' = clauses
         /\ \E k \in Range(clauses[id]) :
              LET S == Range(clauses[id]) \ {k} IN
              \/ Keep3
              \/ Undef(k) /\ S # {} /\ (\A x \in S : False(x)) /\ assign_core(k, Just(Highest(S), 0, S))
              \/ /\ \A x \in Range(clauses[id]) : False(x)
                 /\ set_conflict(-k, Just(Highest(S), 0, S))
  <1> DEFINE l      == m_trail[m_qhead]
             c      == clauses[id]
             others == Range(c) \ {-l}
             open   == {k \in others : ~False(k)}
             k      == CHOOSE k \in others : open \subseteq {k}
             S      == Range(c) \ {k}
             js     == Just(Highest(S), 0, S)
  <1>1. /\ id \in DOMAIN clauses /\ GoodClause(c) /\ m_qhead \in 1 .. Len(m_trail) /\ l \in Lits
        /\ ~inconsistent /\ TrailInv /\ False(-l)
        /\ \E j \in 1 .. IF Len(clauses[id]) > 3 THEN 2 ELSE Len(clauses[id]) : clauses[id][j] = -l
    BY Visited
  <1>2. /\ Len(c) <= 3 /\ UNCHANGED Rest /\ clauses' = clauses
        /\ \/ Keep3
           \/ Cardinality(open) = 1 /\ Undef(k) /\ assign_core(k, js)
           \/ open = {} /\ set_conflict(-k, js)
    BY DEF VisitShort
  <1> HIDE DEF l
  <1>3. /\ Len(c) \in Nat /\ Range(c) \subseteq Lits /\ IsFiniteSet(Range(c)) /\ Len(c) >= 2
        /\ Range(c) = {c[i] : i \in 1 .. Len(c)} /\ c[1] # c[2]
    BY <1>1, ClauseFacts
  <1>4. -l \in Range(c)
    BY <1>1, <1>3 DEF c
  <1>5. others # {} /\ others \subseteq Lits /\ IsFiniteSet(open)
    <2>1. c[1] \in Range(c) /\ c[2] \in Range(c)
      BY <1>3
    <2>2. c[1] \in others \/ c[2] \in others
      BY <1>3, <2>1
    <2>3. open \subseteq Range(c)
      OBVIOUS
    <2> HIDE DEF c, open
    <2> QED BY <1>3, <2>2, <2>3, FS_Subset
  <1>6. (open = {} \/ Cardinality(open) = 1) => k \in others /\ open \subseteq {k}
    <2>1. Cardinality(open) = 1 => \E x : open = {x}
      BY <1>5, One
    <2>2. ASSUME open = {} \/ Cardinality(open) = 1 PROVE \E x \in others : open \subseteq {x}
      <3>1. CASE open = {}
        BY <1>5, <3>1
      <3>2. CASE open # {}
        <4>1. PICK x : open = {x}
          BY <2>1, <2>2, <3>2
        <4>2. x \in others
          BY <4>1
        <4> QED BY <4>1, <4>2
      <3> QED BY <3>1, <3>2
    <2> HIDE DEF others, open
    <2> QED BY <2>2
  <1> HIDE DEF k
  <1>7. ASSUME open = {} \/ Cardinality(open) = 1
        PROVE  k \in Range(c) /\ S # {} /\ \A x \in S : False(x)
    <2>1. k \in others /\ open \subseteq {k}
      BY <1>6, <1>7
    <2>2. -l \in S
      BY <1>4, <2>1
    <2>3. ASSUME NEW x \in S PROVE False(x)
      <3>1. CASE x = -l
        BY <1>1, <3>1
      <3>2. CASE x # -l
        BY <2>1, <3>2
      <3> QED BY <3>1, <3>2
    <2> QED BY <1>3, <2>1, <2>2, <2>3
  <1>8. ASSUME open = {} PROVE \A x \in Range(c) : False(x)
    <2>1. False(k)
      BY <1>6, <1>8
    <2> QED BY <1>7, <1>8, <2>1
  <1>9. CASE Keep3
    <2>1. \E x : x \in Range(c)
      BY <1>4
    <2> QED BY <1>2, <1>9, <2>1
  <1>10. CASE Cardinality(open) = 1 /\ Undef(k) /\ assign_core(k, js)
    <2>1. k \in Range(c) /\ S # {} /\ \A x \in S : False(x)
      BY <1>7, <1>10
    <2> HIDE DEF open
    <2> QED BY <1>2, <1>10, <2>1
  <1>11. CASE open = {} /\ set_conflict(-k, js)
    <2>1. k \in Range(c) /\ \A x \in Range(c) : False(x)
      BY <1>7, <1>8, <1>11
    <2> HIDE DEF open
    <2> QED BY <1>2, <1>11, <2>1
  <1> QED BY <1>2, <1>9, <1>10, <1>11

\* A visit changes nothing but the order of the clause, finds it false, or assigns
\* the literal that is left.
VisitDoes(id) ==
  LET c == Range(clauses[id])
  IN  /\ UNCHANGED Rest /\ DOMAIN clauses' = DOMAIN clauses
      /\ \A i \in DOMAIN clauses : Range(clauses'[i]) = Range(clauses[i])
      /\ \/ Keep3
         \/ (\A k \in c : False(k)) /\ UNCHANGED <<m_trail, m_justification>> /\ Refuted' = c
         \/ \E l \in c, n \in Nat : \E S \in {{}, c \ {l}} :
              /\ Undef(l) /\ c \ {l} # {} /\ (\A k \in c \ {l} : False(k)) /\ (n # 0 \/ S # {})
              /\ assign_core(l, Just(Highest(c \ {l}), n, S))

\* A clause of two or three literals is visited.
LEMMA VisitShortDoes ==
  ASSUME SearchInv, NEW id \in todo, VisitShort(id)
  PROVE  VisitDoes(id)
  <1> DEFINE c == Range(clauses[id])
  <1>1. UNCHANGED Rest /\ clauses' = clauses
    BY VisitShortIs
  <1>2. PICK k \in c :
          \/ Keep3
          \/ Undef(k) /\ c \ {k} # {} /\ (\A x \in c \ {k} : False(x))
             /\ assign_core(k, Just(Highest(c \ {k}), 0, c \ {k}))
          \/ (\A x \in c : False(x)) /\ set_conflict(-k, Just(Highest(c \ {k}), 0, c \ {k}))
    BY VisitShortIs
  <1>3. ~inconsistent /\ c \subseteq Lits
    BY Visited, ClauseFacts
  <1>4. /\ DOMAIN clauses' = DOMAIN clauses
        /\ \A i \in DOMAIN clauses : Range(clauses'[i]) = Range(clauses[i])
    BY <1>1
  <1>9. \/ Keep3
        \/ (\A x \in c : False(x)) /\ UNCHANGED <<m_trail, m_justification>> /\ Refuted' = c
        \/ \E l \in c, n \in Nat : \E S \in {{}, c \ {l}} :
             /\ Undef(l) /\ c \ {l} # {} /\ (\A x \in c \ {l} : False(x)) /\ (n # 0 \/ S # {})
             /\ assign_core(l, Just(Highest(c \ {l}), n, S))
        => VisitDoes(id)
    BY <1>1, <1>4 DEF VisitDoes
  <1> HIDE DEF c
  <1>5. CASE Keep3
    BY <1>5, <1>9
  <1>6. CASE Undef(k) /\ c \ {k} # {} /\ (\A x \in c \ {k} : False(x))
             /\ assign_core(k, Just(Highest(c \ {k}), 0, c \ {k}))
    <2>1. 0 \in Nat /\ c \ {k} \in {{}, c \ {k}}
      OBVIOUS
    <2> QED BY <1>6, <1>9, <2>1
  <1>7. CASE (\A x \in c : False(x)) /\ set_conflict(-k, Just(Highest(c \ {k}), 0, c \ {k}))
    <2> DEFINE js == Just(Highest(c \ {k}), 0, c \ {k})
               n  == -k
    <2>1. -n = k /\ n # 0 /\ k \in Lits
      BY <1>3, LitsAre
    <2>2. ReasonIn(clauses', js, -n) = c \ {k}
      BY DEF ReasonIn, Just
    <2>3. set_conflict(n, js)
      BY <1>7
    <2>4. c \ {k} \subseteq Lits
      BY <1>3
    <2> HIDE DEF n, js
    <2>5. Refuted' = (c \ {k}) \cup {k}
      BY <1>3, <2>1, <2>2, <2>3, <2>4, RefutedIs
    <2>6. Refuted' = c
      BY <1>2, <2>5
    <2>7. UNCHANGED <<m_trail, m_justification>>
      BY <2>3 DEF set_conflict
    <2> QED BY <1>7, <1>9, <2>6, <2>7
  <1> QED BY <1>2, <1>5, <1>6, <1>7

\* A clause that is put in another order has the same literals.
LEMMA PutRange ==
  ASSUME ClausesOK(clauses), NEW id \in DOMAIN clauses, NEW e, GoodClause(e), Range(e) = Range(clauses[id]),
         clauses' = [clauses EXCEPT ![id] = e]
  PROVE  /\ DOMAIN clauses' = DOMAIN clauses /\ clauses'[id] = e
         /\ \A i \in DOMAIN clauses : Range(clauses'[i]) = Range(clauses[i])
  <1>1. /\ DOMAIN clauses' = DOMAIN clauses /\ clauses'[id] = e
        /\ \A i \in DOMAIN clauses : i # id => clauses'[i] = clauses[i]
    BY PutIs
  <1> QED BY <1>1

\* A longer clause is visited.
LEMMA VisitLongDoes ==
  ASSUME SearchInv, NEW id \in todo, VisitLong(id)
  PROVE  VisitDoes(id)
  <1> DEFINE c    == Range(clauses[id])
             d    == Front(id)
             free == Free(id)
             t    == TopOf(id)
  <1>1. /\ Len(clauses[id]) > 3 /\ UNCHANGED Rest
        /\ \/ Keep3 /\ UNCHANGED clauses
           \/ Keep3 /\ clauses' = [clauses EXCEPT ![id] = d]
           \/ Keep3 /\ free # {} /\ clauses' = [clauses EXCEPT ![id] = Swap(d, 2, Min(free))]
           \/ /\ False(d[1]) /\ free = {} /\ clauses' = [clauses EXCEPT ![id] = d]
              /\ set_conflict(0, Just(Highest(Range(d)), id, {}))
           \/ /\ Undef(d[1]) /\ free = {} /\ clauses' = [clauses EXCEPT ![id] = Swap(d, 2, t)]
              /\ assign_core(d[1], Just(Highest(Range(d) \ {d[1]}), id, {}))
    BY VisitLongIs DEF VisitLongCases, TopOf
  <1>2. id \in DOMAIN clauses /\ ~inconsistent /\ id \in Nat \ {0}
    BY Visited
  <1>3. ClausesOK(clauses)
    BY DEF SearchInv, StoreInv
  <1>4. c \subseteq Lits
    BY <1>2, ClauseFacts, Visited
  <1>5. GoodClause(d) /\ Range(d) = c /\ Len(d) = Len(clauses[id])
    BY <1>1, FrontIs
  <1>6. /\ Len(d) \in Nat /\ Len(d) > 3 /\ Range(d) = {d[i] : i \in 1 .. Len(d)}
        /\ \A i, j \in 1 .. Len(d) : d[i] = d[j] => i = j
        /\ 1 \in 1 .. Len(d) /\ 2 \in 1 .. Len(d)
    BY <1>1, <1>5, ClauseFacts
  <1>7. \A j \in 1 .. Len(d) : GoodClause(Swap(d, 2, j)) /\ Range(Swap(d, 2, j)) = c
    <2>1. ASSUME NEW e, GoodClause(e), NEW i \in 1 .. Len(e), NEW j \in 1 .. Len(e)
          PROVE  GoodClause(Swap(e, i, j)) /\ Range(Swap(e, i, j)) = Range(e)
      BY <2>1, SwapIs
    <2> HIDE DEF d, c
    <2>2. GoodClause(d) /\ 2 \in 1 .. Len(d) /\ Range(d) = c
      BY <1>5, <1>6
    <2> QED BY <2>1, <2>2
  <1>8. free = {} => \A i \in 2 .. Len(d) : False(d[i])
    BY <1>1, TopIs
  <1>9. free = {} => t \in 2 .. Len(d)
    BY <1>1, TopIs
  <1>10. free # {} => Min(free) \in 3 .. Len(d)
    <2>1. free \subseteq 3 .. Len(d)
      BY DEF Free
    <2>2. 3 .. Len(d) \subseteq Nat
      BY <1>6
    <2> HIDE DEF free, d
    <2>3. free \subseteq Nat
      BY <2>1, <2>2
    <2>4. free # {} => Min(free) \in free
      BY <2>3, MinIs
    <2> QED BY <2>1, <2>4
  <1>16. ASSUME DOMAIN clauses' = DOMAIN clauses,
                \A i \in DOMAIN clauses : Range(clauses'[i]) = Range(clauses[i]),
                \/ Keep3
                \/ (\A k \in c : False(k)) /\ UNCHANGED <<m_trail, m_justification>> /\ Refuted' = c
                \/ \E l \in c, n \in Nat : \E S \in {{}, c \ {l}} :
                     /\ Undef(l) /\ c \ {l} # {} /\ (\A k \in c \ {l} : False(k)) /\ (n # 0 \/ S # {})
                     /\ assign_core(l, Just(Highest(c \ {l}), n, S))
         PROVE  VisitDoes(id)
    BY <1>1, <1>16 DEF VisitDoes
  <1> HIDE DEF c, d, free, t
  <1>11. CASE Keep3 /\ UNCHANGED clauses
    BY <1>11, <1>16
  <1>12. CASE Keep3 /\ clauses' = [clauses EXCEPT ![id] = d]
    <2>1. DOMAIN clauses' = DOMAIN clauses /\ \A i \in DOMAIN clauses : Range(clauses'[i]) = Range(clauses[i])
      BY <1>2, <1>3, <1>5, <1>12, PutRange DEF c
    <2> QED BY <1>12, <1>16, <2>1
  <1>13. CASE Keep3 /\ free # {} /\ clauses' = [clauses EXCEPT ![id] = Swap(d, 2, Min(free))]
    <2>1. Min(free) \in 1 .. Len(d)
      BY <1>6, <1>10, <1>13
    <2>2. GoodClause(Swap(d, 2, Min(free))) /\ Range(Swap(d, 2, Min(free))) = Range(clauses[id])
      BY <1>7, <2>1 DEF c
    <2> DEFINE e == Swap(d, 2, Min(free))
    <2>3. clauses' = [clauses EXCEPT ![id] = e]
      BY <1>13
    <2> HIDE DEF e
    <2>4. DOMAIN clauses' = DOMAIN clauses /\ \A i \in DOMAIN clauses : Range(clauses'[i]) = Range(clauses[i])
      BY <1>2, <1>3, <2>2, <2>3, PutRange DEF e
    <2> QED BY <1>13, <1>16, <2>4
  <1>14. CASE /\ False(d[1]) /\ free = {} /\ clauses' = [clauses EXCEPT ![id] = d]
              /\ set_conflict(0, Just(Highest(Range(d)), id, {}))
    <2>1. /\ DOMAIN clauses' = DOMAIN clauses /\ clauses'[id] = d
          /\ \A i \in DOMAIN clauses : Range(clauses'[i]) = Range(clauses[i])
      BY <1>2, <1>3, <1>5, <1>14, PutRange DEF c
    <2>2. \A k \in c : False(k)
      <3> SUFFICES ASSUME NEW k \in c PROVE False(k)
        OBVIOUS
      <3>1. PICK i \in 1 .. Len(d) : k = d[i]
        BY <1>5, <1>6
      <3>2. i = 1 \/ i \in 2 .. Len(d)
        BY <1>6
      <3> QED BY <1>8, <1>14, <3>1, <3>2
    <2> DEFINE js == Just(Highest(Range(d)), id, {})
               n  == 0
    <2>3. ReasonIn(clauses', js, -n) = c
      <3>0. -n = 0
        <4>1. \A x, y \in Int : x + y = 0 => -x = y
          OBVIOUS
        <4>2. n \in Int /\ 0 \in Int /\ n + 0 = 0
          OBVIOUS
        <4> HIDE DEF n
        <4> QED BY <4>1, <4>2
      <3>1. js.cls = id
        BY DEF Just
      <3>2. 0 \notin c
        BY <1>4, LitsAre
      <3> HIDE DEF js, n
      <3>3. ReasonIn(clauses', js, -n) = Range(clauses'[id]) \ {0}
        BY <1>2, <3>0, <3>1 DEF ReasonIn
      <3>4. Range(clauses'[id]) = c
        BY <1>5, <2>1
      <3> QED BY <3>2, <3>3, <3>4
    <2>4. set_conflict(n, js)
      BY <1>14
    <2>5. n = 0
      OBVIOUS
    <2> HIDE DEF js, n
    <2>6. Refuted' = c \cup {}
      BY <1>2, <1>4, <2>3, <2>4, <2>5, RefutedIs
    <2>7. Refuted' = c
      BY <2>6
    <2>8. UNCHANGED <<m_trail, m_justification>>
      BY <2>4 DEF set_conflict
    <2> QED BY <1>16, <2>1, <2>2, <2>7, <2>8
  <1>15. CASE /\ Undef(d[1]) /\ free = {} /\ clauses' = [clauses EXCEPT ![id] = Swap(d, 2, t)]
              /\ assign_core(d[1], Just(Highest(Range(d) \ {d[1]}), id, {}))
    <2>1. t \in 1 .. Len(d)
      BY <1>6, <1>9, <1>15
    <2>2. GoodClause(Swap(d, 2, t)) /\ Range(Swap(d, 2, t)) = Range(clauses[id])
      BY <1>7, <2>1 DEF c
    <2> DEFINE e == Swap(d, 2, t)
               l == d[1]
    <2>3. clauses' = [clauses EXCEPT ![id] = e]
      BY <1>15
    <2> HIDE DEF e
    <2>4. DOMAIN clauses' = DOMAIN clauses /\ \A i \in DOMAIN clauses : Range(clauses'[i]) = Range(clauses[i])
      BY <1>2, <1>3, <2>2, <2>3, PutRange DEF e
    <2>5. l \in c /\ d[2] \in c \ {l}
      <3>1. d[1] # d[2]
        BY <1>6
      <3> QED BY <1>5, <1>6, <3>1
    <2>6. \A k \in c \ {l} : False(k)
      <3> SUFFICES ASSUME NEW k \in c \ {l} PROVE False(k)
        OBVIOUS
      <3>1. PICK i \in 1 .. Len(d) : k = d[i]
        BY <1>5, <1>6
      <3>2. i \in 2 .. Len(d)
        BY <1>6, <3>1
      <3> QED BY <1>8, <1>15, <3>1, <3>2
    <2>7. assign_core(l, Just(Highest(c \ {l}), id, {})) /\ Undef(l)
      BY <1>5, <1>15
    <2>8. id \in Nat /\ id # 0 /\ {} \in {{}, c \ {l}} /\ c \ {l} # {}
      BY <1>2, <2>5
    <2> HIDE DEF l
    <2> QED BY <1>16, <2>4, <2>5, <2>6, <2>7, <2>8
  <1> QED BY <1>1, <1>11, <1>12, <1>13, <1>14, <1>15

\* A clause is visited.
LEMMA VisitIsSound ==
  ASSUME SearchInv, SoundInv, NEW id \in todo, VisitDoes(id)
  PROVE  SoundInv'
  <1> DEFINE c == Range(clauses[id])
  <1>1. /\ UNCHANGED Rest /\ DOMAIN clauses' = DOMAIN clauses
        /\ \A i \in DOMAIN clauses : Range(clauses'[i]) = Range(clauses[i])
    BY DEF VisitDoes
  <1>2. \/ Keep3
        \/ (\A k \in c : False(k)) /\ UNCHANGED <<m_trail, m_justification>> /\ Refuted' = c
        \/ \E l \in c, n \in Nat : \E S \in {{}, c \ {l}} :
             /\ Undef(l) /\ c \ {l} # {} /\ (\A k \in c \ {l} : False(k)) /\ (n # 0 \/ S # {})
             /\ assign_core(l, Just(Highest(c \ {l}), n, S))
    BY DEF VisitDoes
  <1>3. Sure(c) /\ ~inconsistent
    <2>1. id \in DOMAIN clauses /\ ~inconsistent
      BY Visited
    <2> QED BY <2>1 DEF SoundInv
  <1> HIDE DEF c
  <1>4. CASE Keep3
    BY <1>1, <1>3, <1>4, KeepVisitSound
  <1>5. CASE (\A k \in c : False(k)) /\ UNCHANGED <<m_trail, m_justification>> /\ Refuted' = c
    BY <1>1, <1>3, <1>5, FalseVisitSound
  <1>6. ASSUME NEW l \in c, NEW n \in Nat, NEW S \in {{}, c \ {l}},
               Undef(l), c \ {l} # {}, \A k \in c \ {l} : False(k),
               assign_core(l, Just(Highest(c \ {l}), n, S))
        PROVE  SoundInv'
    BY <1>1, <1>3, <1>6, UnitVisitSound
  <1> QED BY <1>2, <1>4, <1>5, <1>6

\* Visits in general.
LEMMA VisitsDo ==
  ASSUME SearchInv, NEW id \in todo, VisitShort(id) \/ VisitLong(id)
  PROVE  VisitDoes(id)
  BY VisitShortDoes, VisitLongDoes

\* What the user asks for, in a phase that keeps it.
LEMMA GoalsSame ==
  ASSUME SoundInv, UNCHANGED <<input, m_user_scope_literals, nvars, m_assumptions>>,
         toassume' = toassume \/ toassume' = <<>>,
         pc' = "reassume" => pc = "reassume" \/ toassume' = <<>>,
         pc' \in {"idle", "popped"} => toassume' = <<>>
  PROVE  GoalsInv'
  <1>1. ScopeLits' = ScopeLits /\ Goals' = Goals
    BY SameUser
  <1>2. Range(<<>>) = {}
    BY DEF Range
  <1> QED BY <1>1, <1>2 DEF SoundInv, GoalsInv

\* Steps that change the phase only.
LEMMA EndsSound ==
  ASSUME SearchInv, SoundInv,
         Assumed \/ Propagated \/ BaseConflict \/ final_check \/ Cancel \/ ConflictIsFinal
  PROVE  SoundInv'
  <1>1. CASE Assumed
    <2>1. /\ UNCHANGED <<store, search, user, m_assumptions>> /\ toassume' = <<>> /\ m_lemma' = m_lemma
          /\ pc # "idle" /\ (Pending' => Pending) /\ pc' \notin {"idle", "popped", "reassume"}
      BY <1>1 DEF Assumed, Pending
    <2>2. UNCHANGED <<input, m_user_scope_literals, nvars, m_assumptions>>
      BY <2>1 DEF store, user
    <2>3. GoalsInv'
      BY <2>1, <2>2, GoalsSame
    <2> QED BY <2>1, <2>3, QuietSound
  <1>2. CASE Propagated
    <2>1. /\ UNCHANGED <<store, search, user, goal>> /\ m_lemma' = m_lemma
          /\ pc # "idle" /\ (Pending' => Pending) /\ pc' # "reassume"
          /\ pc' \in {"idle", "popped"} => pc = "popped"
      BY <1>2 DEF Propagated, Pending
    <2>2. UNCHANGED <<input, m_user_scope_literals, nvars, m_assumptions, toassume>>
          /\ UNCHANGED <<store, search, user, m_assumptions>>
      BY <2>1 DEF store, user, goal
    <2>3. pc = "popped" => toassume = <<>>
      BY DEF SoundInv, GoalsInv
    <2>4. GoalsInv'
      BY <2>1, <2>2, <2>3, GoalsSame
    <2> QED BY <2>1, <2>2, <2>4, QuietSound
  <1>3. CASE BaseConflict \/ final_check \/ Cancel \/ ConflictIsFinal
    <2>1. /\ UNCHANGED <<store, search, user, m_assumptions>> /\ pc # "idle"
          /\ pc' = "idle" /\ toassume' = <<>>
      BY <1>3 DEF BaseConflict, final_check, Cancel, ConflictIsFinal, Finish, Propagating
    <2>2. UNCHANGED <<input, m_user_scope_literals, nvars, m_assumptions>>
      BY <2>1 DEF store, user
    <2>3. GoalsInv'
      BY <2>1, <2>2, GoalsSame
    <2>4. ~Pending'
      BY <2>1 DEF Pending
    <2> QED BY <2>1, <2>3, <2>4, QuietSound
  <1> QED BY <1>1, <1>2, <1>3

-----------------------------------------------------------------------------
(***************************************************************************)
(* Levels are opened and closed.                                           *)
(***************************************************************************)
\* The members of a sequence, of its tail and of two sequences put together.
LEMMA RangesAre ==
  ASSUME NEW S, NEW s \in Seq(S), NEW t \in Seq(S)
  PROVE  /\ Range(s \o t) \subseteq Range(s) \cup Range(t)
         /\ s # <<>> => Head(s) \in Range(s) /\ Range(Tail(s)) \subseteq Range(s) /\ Tail(s) \in Seq(S)
         /\ \A x \in S : Range(Append(s, x)) = Range(s) \cup {x}
         /\ Range(<<>>) = {}
  <1>1. /\ Range(s) = {s[i] : i \in 1 .. Len(s)} /\ Range(t) = {t[i] : i \in 1 .. Len(t)}
        /\ Len(s) \in Nat /\ Len(t) \in Nat
    BY DEF Range
  <1>2. Range(s \o t) \subseteq Range(s) \cup Range(t)
    <2>1. s \o t \in Seq(S) /\ Len(s \o t) = Len(s) + Len(t)
      OBVIOUS
    <2>2. \A i \in 1 .. Len(s) + Len(t) : (s \o t)[i] \in Range(s) \cup Range(t)
      BY <1>1
    <2>3. Range(s \o t) = {(s \o t)[i] : i \in 1 .. Len(s \o t)}
      BY <2>1, RangeFinite
    <2> QED BY <2>1, <2>2, <2>3
  <1>3. s # <<>> => Head(s) \in Range(s) /\ Range(Tail(s)) \subseteq Range(s) /\ Tail(s) \in Seq(S)
    <2> SUFFICES ASSUME s # <<>>
                 PROVE  Head(s) \in Range(s) /\ Range(Tail(s)) \subseteq Range(s) /\ Tail(s) \in Seq(S)
      OBVIOUS
    <2>1. Len(s) > 0 /\ Head(s) = s[1] /\ Tail(s) \in Seq(S) /\ Len(Tail(s)) = Len(s) - 1
          /\ \A i \in 1 .. Len(s) - 1 : Tail(s)[i] = s[i + 1]
      OBVIOUS
    <2>2. 1 \in 1 .. Len(s)
      BY <1>1, <2>1
    <2>3. Range(Tail(s)) = {Tail(s)[i] : i \in 1 .. Len(Tail(s))}
      BY <2>1, RangeFinite
    <2>4. \A i \in 1 .. Len(s) - 1 : i + 1 \in 1 .. Len(s)
      BY <1>1
    <2>5. \A i \in 1 .. Len(s) - 1 : Tail(s)[i] \in Range(s)
      BY <1>1, <2>1, <2>4
    <2> QED BY <1>1, <2>1, <2>2, <2>3, <2>5
  <1>4. ASSUME NEW x \in S PROVE Range(Append(s, x)) = Range(s) \cup {x}
    <2>1. /\ Append(s, x) \in Seq(S) /\ Len(Append(s, x)) = Len(s) + 1
          /\ \A i \in 1 .. Len(s) : Append(s, x)[i] = s[i]
          /\ Append(s, x)[Len(s) + 1] = x
      OBVIOUS
    <2>2. Range(Append(s, x)) = {Append(s, x)[i] : i \in 1 .. Len(Append(s, x))}
      BY <2>1, RangeFinite
    <2>3. \A i \in 1 .. Len(s) + 1 : i \in 1 .. Len(s) \/ i = Len(s) + 1
      BY <1>1
    <2>4. \A i \in 1 .. Len(s) : i \in 1 .. Len(s) + 1
      BY <1>1
    <2>5. Len(s) + 1 \in 1 .. Len(s) + 1
      BY <1>1
    <2> QED BY <1>1, <2>1, <2>2, <2>3, <2>4, <2>5
  <1>5. Range(<<>>) = {}
    BY DEF Range
  <1> QED BY <1>2, <1>3, <1>4, <1>5

\* The negated literals of the user scopes, as a sequence.
LEMMA NegScopesRange ==
  ASSUME UserInv
  PROVE  Range(NegScopes) = Neg(ScopeLits)
  <1>1. NegScopes \in Seq(Lits) /\ m_user_scope_literals \in Seq(NumVars + 1 .. nvars)
    BY NegScopesAre DEF UserInv
  <1>2. DOMAIN NegScopes = DOMAIN m_user_scope_literals
        /\ \A i \in DOMAIN m_user_scope_literals : NegScopes[i] = -m_user_scope_literals[i]
    BY DEF NegScopes
  <1>3. Range(NegScopes) = {NegScopes[i] : i \in DOMAIN m_user_scope_literals}
    BY <1>2 DEF Range
  <1>4. ScopeLits = {m_user_scope_literals[i] : i \in DOMAIN m_user_scope_literals}
    BY DEF ScopeLits, Range
  <1> QED BY <1>2, <1>3, <1>4 DEF Neg

\* The assumptions get a level of their own.
LEMMA OpenSound ==
  ASSUME SearchInv, SoundInv, init_assumptions \/ reinit_assumptions
  PROVE  SoundInv'
  <1>1. /\ ~inconsistent /\ UNCHANGED <<store, m_trail, m_justification, m_conflict, user, m_assumptions, m_lemma>>
        /\ (Pending' => Pending)
        /\ \/ pc' \in {"search", "assume"} /\ toassume' = toassume
           \/ pc' = "reassume" /\ toassume' = NegScopes \o m_assumptions
    <2>1. CASE init_assumptions
      <3>1. pc' \in {"search", "assume"} /\ toassume' = toassume /\ ~inconsistent
            /\ UNCHANGED <<store, m_trail, m_justification, m_conflict, user, m_assumptions, m_lemma>>
        BY <2>1 DEF init_assumptions, Fixpoint, goal
      <3>2. ~Pending'
        <4>1. pc' \in {"search", "assume"}
          BY <3>1
        <4> QED BY <4>1 DEF Pending
      <3> QED BY <3>1, <3>2
    <2>2. CASE reinit_assumptions
      <3>1. pc = "rebase" /\ pc' = "reassume" /\ toassume' = NegScopes \o m_assumptions /\ ~inconsistent
            /\ UNCHANGED <<store, m_trail, m_justification, m_conflict, user, m_assumptions, m_lemma>>
        BY <2>2 DEF reinit_assumptions, Fixpoint, NegScopes
      <3>2. Pending
        BY <3>1 DEF Pending
      <3> QED BY <3>1, <3>2
    <2> QED BY <2>1, <2>2
  <1>2. UNCHANGED <<input, clauses, m_trail, m_justification, m_user_scope_literals, nvars, m_assumptions>>
        /\ ~inconsistent'
    BY <1>1 DEF store, user, inconsistent
  <1>3. GoalsInv'
    <2>1. CASE pc' \in {"search", "assume"} /\ toassume' = toassume
      BY <1>2, <2>1, GoalsSame
    <2>2. CASE pc' = "reassume" /\ toassume' = NegScopes \o m_assumptions
      <3>1. ScopeLits' = ScopeLits /\ Goals' = Goals
        BY <1>2, SameUser
      <3>2. NegScopes \in Seq(Lits) /\ m_assumptions \in Seq(Lits) /\ Range(NegScopes) = Neg(ScopeLits)
        BY NegScopesAre, NegScopesRange DEF SearchInv, UserInv
      <3>3. Range(toassume') \subseteq Range(NegScopes) \cup Range(m_assumptions)
        BY <2>2, <3>2, RangesAre
      <3>4. Range(toassume') \subseteq Goals
        BY <3>2, <3>3 DEF Goals
      <3>5. Range(m_assumptions) \subseteq Problem
        BY DEF SoundInv, GoalsInv
      <3> QED BY <1>2, <2>2, <3>1, <3>2, <3>3, <3>4, <3>5 DEF GoalsInv
    <2> QED BY <1>1, <2>1, <2>2
  <1>4. ConflictSound'
    BY <1>2 DEF ConflictSound
  <1>5. /\ TrailSound(input, LiveVars, m_trail', m_justification')
        /\ \A i \in 1 .. Len(m_trail') : var(m_trail'[i]) \in 1 .. nvars
    BY <1>2 DEF SoundInv
  <1>6. Pending' => Sure(Range(m_lemma'))
    BY <1>1 DEF SoundInv
  <1> QED BY <1>2, <1>3, <1>4, <1>5, <1>6, StepSound

\* What is put on the trail with no reason, above level 0.
LEMMA GrowNone ==
  ASSUME TrailInv, SoundInv, NEW l \in Lits, Undef(l), NEW n \in Nat, n # 0, assign_core(l, None(n)),
         var(l) \in 1 .. nvars
  PROVE  /\ TrailSound(input, LiveVars, m_trail', m_justification')
         /\ \A i \in 1 .. Len(m_trail') : var(m_trail'[i]) \in 1 .. nvars
  <1>1. None(n) \in Justs /\ None(n).lvl = n
    BY JustsAre
  <1>2. None(n).lits = {}
    BY DEF None, Just
  <1> QED BY <1>1, <1>2, GrowTrailSound

\* A decision opens a level.
LEMMA decideSound ==
  ASSUME SearchInv, SoundInv, decide
  PROVE  SoundInv'
  <1>1. PICK v \in 1 .. nvars, sign \in Phases : Undef(v) /\ assign_core(sign * v, None(scope_lvl + 1))
    BY DEF decide
  <1>2. /\ ~inconsistent /\ UNCHANGED <<store, user, goal, m_lemma, pc>> /\ pc = "search"
    BY DEF decide, Fixpoint
  <1>3. TrailInv /\ UserInv
    BY DEF SearchInv
  <1>4. v \in Vars /\ v \in 1 .. nvars
    <2>1. nvars \in NumVars .. NumVars + MaxPushes
      BY <1>3 DEF UserInv
    <2>2. NumVars \in Nat /\ MaxPushes \in Nat
      BY SatSolverAssumption
    <2> QED BY <1>1, <2>1, <2>2 DEF Vars
  <1>5. sign * v \in Lits /\ var(sign * v) = v /\ var(v) = v
    <2>1. sign = 1 \/ sign = -1
      BY SatSolverAssumption
    <2>2. v \in Nat \ {0}
      BY <1>4, LitsAre
    <2>3. sign * v = v \/ sign * v = -v
      BY <2>1, <2>2
    <2> QED BY <1>4, <2>2, <2>3 DEF var, Lits
  <1> DEFINE l == sign * v
  <1>6. l \in Lits /\ Undef(l) /\ var(l) \in 1 .. nvars /\ assign_core(l, None(scope_lvl + 1))
    BY <1>1, <1>4, <1>5 DEF Undef
  <1> HIDE DEF l
  <1>7. scope_lvl + 1 \in Nat /\ scope_lvl + 1 # 0
    BY <1>3, LevelsAre DEF TrailInv
  <1> DEFINE n == scope_lvl + 1
  <1>8. n \in Nat /\ n # 0 /\ assign_core(l, None(n))
    BY <1>6, <1>7
  <1> HIDE DEF n
  <1>9. /\ TrailSound(input, LiveVars, m_trail', m_justification')
        /\ \A i \in 1 .. Len(m_trail') : var(m_trail'[i]) \in 1 .. nvars
    BY <1>3, <1>6, <1>8, GrowNone
  <1>10. UNCHANGED <<input, clauses, m_user_scope_literals, nvars, m_assumptions, toassume>> /\ ~inconsistent'
    BY <1>2, <1>8 DEF store, user, goal, assign_core, inconsistent
  <1>11. GoalsInv'
    BY <1>2, <1>10, GoalsSame
  <1>12. ConflictSound' /\ ~Pending'
    BY <1>2, <1>10 DEF ConflictSound, Pending
  <1> QED BY <1>9, <1>10, <1>11, <1>12, StepSound

\* An assumption is asserted.
LEMMA AssumeSound ==
  ASSUME SearchInv, SoundInv, Assume
  PROVE  SoundInv'
  <1>0. PICK h : h = Head(toassume)
    OBVIOUS
  <1>1. /\ pc \in {"assume", "reassume"} /\ toassume # <<>> /\ ~inconsistent
        /\ assign(h, None(scope_lvl)) /\ toassume' = Tail(toassume) /\ pc' = pc /\ m_lemma' = m_lemma
        /\ UNCHANGED <<store, m_scopes, user>>
        /\ \/ (pc = "reassume" \/ -h \in ScopeLits) /\ m_assumptions' = m_assumptions
           \/ ~ (-h \in ScopeLits) /\ pc # "reassume" /\ m_assumptions' = Append(m_assumptions, h)
    BY <1>0 DEF Assume
  <1>2. TrailInv /\ UserInv /\ scope_lvl = 1
    BY <1>1 DEF SearchInv, PhaseInv
  <1>3. /\ h \in Range(toassume) /\ Range(toassume') \subseteq Range(toassume) /\ h \in Lits
        /\ Range(Append(m_assumptions, h)) = Range(m_assumptions) \cup {h}
    <2>1. toassume \in Seq(Lits) /\ m_assumptions \in Seq(Lits)
      BY <1>2 DEF UserInv
    <2>2. h \in Lits
      BY <1>0, <1>1, <2>1
    <2> QED BY <1>0, <1>1, <2>1, <2>2, RangesAre
  <1>4. UNCHANGED <<input, clauses, m_user_scope_literals, nvars, pc, m_lemma, m_scopes>>
    BY <1>1 DEF store, user
  <1>5. ScopeLits' = ScopeLits /\ LiveVars' = LiveVars
    BY <1>4, SureSame
  <1>6. h \in Problem \cup Neg(ScopeLits)
    BY <1>3 DEF SoundInv, GoalsInv
  <1>7. var(h) \in LiveVars /\ var(h) \in 1 .. nvars /\ -(-h) = h
    BY <1>2, <1>3, <1>6, LiveAre, LitsAre
  <1>8. /\ Range(m_assumptions) \subseteq Range(m_assumptions') /\ Range(m_assumptions') \subseteq Problem
        /\ h \in Goals'
    <2>1. Range(m_assumptions) \subseteq Problem
      BY DEF SoundInv, GoalsInv
    <2>2. CASE pc = "reassume" /\ m_assumptions' = m_assumptions
      <3>1. h \in Goals
        BY <1>3, <2>2 DEF SoundInv, GoalsInv
      <3> QED BY <1>5, <2>1, <2>2, <3>1 DEF Goals
    <2>3. CASE -h \in ScopeLits /\ m_assumptions' = m_assumptions
      <3>1. h \in Neg(ScopeLits)
        BY <1>7, <2>3 DEF Neg
      <3> QED BY <1>5, <2>1, <2>3, <3>1 DEF Goals
    <2>4. CASE ~ (-h \in ScopeLits) /\ m_assumptions' = Append(m_assumptions, h)
      <3>1. h \in Problem
        <4>1. \A l \in Neg(ScopeLits) : -l \in ScopeLits
          <5>1. ScopeLits \subseteq Lits
            BY <1>2, NegScopesAre DEF Lits
          <5> QED BY <5>1, NegIs
        <4> QED BY <1>6, <2>4, <4>1
      <3> QED BY <1>3, <2>1, <2>4, <3>1 DEF Goals
    <2> QED BY <1>1, <2>2, <2>3, <2>4
  <1>9. GoalsInv'
    <2>1. Range(toassume') \subseteq Problem \cup Neg(ScopeLits)
      BY <1>3 DEF SoundInv, GoalsInv
    <2>2. Goals \subseteq Goals'
      BY <1>5, <1>8 DEF Goals
    <2>3. pc' = "reassume" => Range(toassume') \subseteq Goals'
      BY <1>3, <1>4, <2>2 DEF SoundInv, GoalsInv
    <2>4. pc' \notin {"idle", "popped"}
      BY <1>1
    <2> QED BY <1>5, <1>8, <2>1, <2>3, <2>4 DEF GoalsInv
  <1>10. Pending' => Sure(Range(m_lemma'))
    BY <1>4 DEF SoundInv, Pending
  <1>11. /\ DOMAIN clauses' \subseteq DOMAIN clauses
         /\ \A id \in DOMAIN clauses' : Range(clauses'[id]) = Range(clauses[id])
    BY <1>4
  <1> DEFINE js == None(scope_lvl)
  <1>12. CASE Undef(h) /\ assign_core(h, js)
    <2>1. assign_core(h, None(1)) /\ 1 \in Nat /\ 1 # 0
      BY <1>2, <1>12
    <2>2. /\ TrailSound(input, LiveVars, m_trail', m_justification')
          /\ \A i \in 1 .. Len(m_trail') : var(m_trail'[i]) \in 1 .. nvars
      BY <1>2, <1>3, <1>7, <1>12, <2>1, GrowNone
    <2>3. ConflictSound'
      BY <1>1, <1>12 DEF assign_core, inconsistent, ConflictSound
    <2> QED BY <1>4, <1>9, <1>10, <1>11, <2>2, <2>3, StepSound
  <1>13. ASSUME UNCHANGED <<m_trail, m_justification>>
         PROVE  /\ TrailSound(input, LiveVars, m_trail', m_justification')
                /\ \A i \in 1 .. Len(m_trail') : var(m_trail'[i]) \in 1 .. nvars
    BY <1>13 DEF SoundInv
  <1>14. CASE True(h) /\ UNCHANGED <<m_trail, m_justification, m_conflict>>
    <2>1. ConflictSound'
      BY <1>1, <1>14 DEF inconsistent, ConflictSound
    <2> QED BY <1>4, <1>9, <1>10, <1>11, <1>13, <1>14, <2>1, StepSound
  <1>15. CASE False(h) /\ set_conflict(-h, js)
    <2>1. m_trail' = m_trail /\ m_justification' = m_justification /\ m_conflict' = [not_l |-> -h, js |-> js]
      BY <1>1, <1>15 DEF set_conflict
    <2>2. m_conflict'.not_l = -h /\ m_conflict'.js = None(1)
      BY <1>2, <2>1
    <2>3. -h \in Lits /\ True(-h) /\ -(-h) = h
      BY <1>3, <1>15, LitsAre DEF False
    <2>4. lvl(-h) <= 1
      <3>1. var(-h) \in Assigned
        BY <1>2, <2>3, ValuesAre DEF TrailInv
      <3>2. lvl(-h) \in 0 .. scope_lvl
        BY <1>2, <2>3, <3>1, LevelsAre DEF TrailInv
      <3> QED BY <1>2, <3>2
    <2>5. True(-h)' /\ lvl(-h)' <= 1
      BY <2>1, <2>3, <2>4 DEF True, lvl
    <2>6. Clash'
      <3> DEFINE n == -h
      <3>1. /\ m_conflict'.js = None(1) /\ m_conflict'.not_l = n /\ n \in Lits /\ True(n)' /\ lvl(n)' <= 1
            /\ -n \in Goals'
        BY <1>8, <2>2, <2>3, <2>5
      <3> HIDE DEF n
      <3> QED BY <3>1 DEF Clash, True, lvl
    <2>7. scope_lvl' = 1
      BY <1>2, <1>4 DEF scope_lvl
    <2>8. ConflictSound'
      BY <2>6, <2>7 DEF ConflictSound
    <2> QED BY <1>4, <1>9, <1>10, <1>11, <1>13, <2>1, <2>8, StepSound
  <1> QED BY <1>1, <1>12, <1>14, <1>15 DEF assign

\* A lemma is deleted.
LEMMA do_gcSound ==
  ASSUME SearchInv, SoundInv, do_gc
  PROVE  SoundInv'
  <1>1. /\ ~inconsistent /\ UNCHANGED <<input, search, user, goal, m_lemma, pc>> /\ pc = "search"
        /\ \E id \in learned : Detach({id})
    BY DEF do_gc, Fixpoint
  <1>2. /\ UNCHANGED <<input, m_trail, m_justification, m_user_scope_literals, nvars, m_assumptions, toassume>>
        /\ ~inconsistent'
    BY <1>1 DEF search, user, goal, inconsistent
  <1>3. /\ DOMAIN clauses' \subseteq DOMAIN clauses
        /\ \A id \in DOMAIN clauses' : Range(clauses'[id]) = Range(clauses[id])
    BY <1>1 DEF Detach
  <1>4. GoalsInv'
    BY <1>1, <1>2, GoalsSame
  <1>5. ConflictSound' /\ ~Pending'
    BY <1>1, <1>2 DEF ConflictSound, Pending
  <1>6. /\ TrailSound(input, LiveVars, m_trail', m_justification')
        /\ \A i \in 1 .. Len(m_trail') : var(m_trail'[i]) \in 1 .. nvars
    BY <1>2 DEF SoundInv
  <1> QED BY <1>2, <1>3, <1>4, <1>5, <1>6, StepSound

\* What closing levels keeps.
LEMMA CutTrailSound ==
  ASSUME TrailInv, SoundInv, NEW n \in 0 .. scope_lvl - 1, PopScopes(n)
  PROVE  /\ TrailSound(input, LiveVars, m_trail', m_justification')
         /\ \A i \in 1 .. Len(m_trail') : var(m_trail'[i]) \in 1 .. nvars
         /\ ~inconsistent'
  <1>1. /\ n \in Nat /\ m_scopes[n + 1] \in Nat
        /\ \E g : SubTrail(m_trail, m_justification, m_trail', m_justification', n, m_scopes[n + 1], g)
    BY Shrink
  <1> DEFINE b == m_scopes[n + 1]
  <1>2. PICK g : SubTrail(m_trail, m_justification, m_trail', m_justification', n, b, g)
    BY <1>1
  <1> HIDE DEF b
  <1>3. TrailOK(m_trail, m_justification) /\ TrailSound(input, LiveVars, m_trail, m_justification) /\ b \in Nat
    BY <1>1 DEF TrailInv, SoundInv, b
  <1>4. TrailSound(input, LiveVars, m_trail', m_justification')
    BY <1>1, <1>2, <1>3, CutSound
  <1>5. \A i \in 1 .. Len(m_trail') : g[i] \in 1 .. Len(m_trail) /\ m_trail'[i] = m_trail[g[i]]
    BY <1>2 DEF SubTrail
  <1>6. \A i \in 1 .. Len(m_trail') : var(m_trail'[i]) \in 1 .. nvars
    BY <1>5 DEF SoundInv
  <1>7. ~inconsistent'
    BY DEF PopScopes, inconsistent
  <1> QED BY <1>4, <1>6, <1>7

\* Levels of the search are closed, and a lemma may wait.
LEMMA BackSound ==
  ASSUME SearchInv, SoundInv, NEW n \in 0 .. scope_lvl - 1, pop(n), UNCHANGED <<store, user, goal>>,
         pc = "search", pc' \in {"search", "learn", "rebase"}, Pending' => Sure(Range(m_lemma'))
  PROVE  SoundInv'
  <1>1. TrailInv
    BY DEF SearchInv
  <1>2. PopScopes(n)
    <2>1. scope_lvl \in Nat
      BY <1>1, LevelsAre DEF TrailInv
    <2>2. n # scope_lvl
      BY <2>1
    <2> QED BY <2>2 DEF pop
  <1>3. /\ TrailSound(input, LiveVars, m_trail', m_justification')
        /\ \A i \in 1 .. Len(m_trail') : var(m_trail'[i]) \in 1 .. nvars
        /\ ~inconsistent'
    BY <1>1, <1>2, CutTrailSound
  <1>4. UNCHANGED <<input, clauses, m_user_scope_literals, nvars, m_assumptions, toassume>>
    BY DEF store, user, goal
  <1>5. GoalsInv' /\ ConflictSound'
    BY <1>3, <1>4, GoalsSame DEF ConflictSound
  <1>6. /\ DOMAIN clauses' \subseteq DOMAIN clauses
        /\ \A id \in DOMAIN clauses' : Range(clauses'[id]) = Range(clauses[id])
    BY <1>4
  <1> QED BY <1>3, <1>4, <1>5, <1>6, StepSound

\* A restart, and the way back to where one literal is left.
LEMMA ClosedSound ==
  ASSUME SearchInv, SoundInv, do_restart \/ Backtrack
  PROVE  SoundInv'
  <1>1. TrailInv /\ scope_lvl \in Nat /\ search_lvl \in {0, 1}
    BY LevelsAre, SearchLvl DEF SearchInv, TrailInv
  <1>2. CASE do_restart
    <2>1. /\ pc = "search" /\ pc' = "search" /\ UNCHANGED <<store, user, goal>>
          /\ \E n \in search_lvl .. scope_lvl - 1 : pop(n)
      BY <1>2 DEF do_restart
    <2>2. PICK n \in search_lvl .. scope_lvl - 1 : pop(n)
      BY <2>1
    <2>3. n \in 0 .. scope_lvl - 1
      BY <1>1
    <2>4. ~Pending'
      BY <2>1 DEF Pending
    <2> QED BY <2>1, <2>2, <2>3, <2>4, BackSound
  <1>3. CASE Backtrack
    <2>1. /\ Resolvable /\ pc = "search" /\ pc' = "search" /\ UNCHANGED <<store, user, goal>>
          /\ pop(m_conflict_lvl - 1)
      BY <1>3 DEF Backtrack, Resolvable
    <2>2. /\ ConflictAt(clauses, m_trail, m_conflict, search_lvl)
          /\ m_conflict_lvl > search_lvl /\ m_conflict_lvl \in Nat
      BY <2>1, SureRefuted
    <2>3. m_conflict_lvl <= scope_lvl
      BY <1>1, <2>2, ConflictFacts
    <2> DEFINE n == m_conflict_lvl - 1
    <2>4. n \in 0 .. scope_lvl - 1 /\ pop(n)
      BY <1>1, <2>1, <2>2, <2>3
    <2> HIDE DEF n
    <2>5. ~Pending'
      BY <2>1 DEF Pending
    <2> QED BY <2>1, <2>4, <2>5, BackSound
  <1> QED BY <1>2, <1>3

\* Levels are closed for a lemma.
LEMMA BackjumpDoes ==
  ASSUME SearchInv, SoundInv, learn_lemma_and_backjump
  PROVE  \E n \in 0 .. scope_lvl - 1 :
           pop(n) /\ pc' = IF n = 0 /\ tracking_assumptions THEN "rebase" ELSE "learn"
  <1> DEFINE lm   == Lemma
             T    == {lm[i] : i \in 2 .. Len(lm)}
             jump == Highest(T)
             back == lvl(lm[1]) - 1
  <1>1. /\ Resolvable
        /\ \E n \in {jump, back} :
             /\ n < scope_lvl /\ pop(n)
             /\ pc' = IF n = 0 /\ tracking_assumptions THEN "rebase" ELSE "learn"
    BY DEF learn_lemma_and_backjump, Resolvable
  <1>3. TrailInv /\ ReasonInv /\ search_lvl \in {0, 1} /\ scope_lvl \in Nat
    BY SearchLvl, LevelsAre DEF SearchInv, TrailInv
  <1>4. /\ ConflictAt(clauses, m_trail, m_conflict, search_lvl)
        /\ m_conflict_lvl > search_lvl /\ m_conflict_lvl \in Nat
    BY <1>1, SureRefuted
  <1>5. /\ lvl(lm[1]) = m_conflict_lvl
        /\ \A i \in 2 .. Len(lm) : -lm[i] \in Range(m_trail) /\ lm[i] \in Lits
    BY <1>3, <1>4, LemmaIs
  <1> HIDE DEF lm
  <1>6. T \subseteq Lits /\ \A l \in T : var(l) \in Assigned
    <2>1. \A i \in 2 .. Len(lm) : False(lm[i]) /\ lm[i] \in Lits
      BY <1>3, <1>5, ValuesAre DEF TrailInv
    <2>2. \A i \in 2 .. Len(lm) : var(lm[i]) \in Assigned
      BY <1>3, <2>1, ValuesAre DEF TrailInv
    <2> QED BY <2>1, <2>2
  <1> HIDE DEF T
  <1>7. jump \in Nat
    BY <1>3, <1>6, HighestIs DEF TrailInv
  <1>8. back \in Nat
    BY <1>3, <1>4, <1>5
  <1> HIDE DEF jump, back
  <1>9. PICK n \in {jump, back} :
          /\ n < scope_lvl /\ pop(n)
          /\ pc' = IF n = 0 /\ tracking_assumptions THEN "rebase" ELSE "learn"
    BY <1>1
  <1>10. n \in 0 .. scope_lvl - 1
    BY <1>3, <1>7, <1>8, <1>9
  <1> QED BY <1>9, <1>10

\* A lemma is learned.
LEMMA BackjumpSound ==
  ASSUME SearchInv, SoundInv, learn_lemma_and_backjump
  PROVE  SoundInv'
  <1>1. /\ Resolvable /\ m_lemma' = Lemma /\ UNCHANGED <<store, user, goal>> /\ pc = "search"
    BY DEF learn_lemma_and_backjump, Resolvable
  <1>2. Sure(Range(Lemma))
    BY <1>1, SureLemma
  <1>3. PICK n \in 0 .. scope_lvl - 1 :
          pop(n) /\ pc' = IF n = 0 /\ tracking_assumptions THEN "rebase" ELSE "learn"
    BY BackjumpDoes
  <1>4. pc' \in {"search", "learn", "rebase"}
    BY <1>3
  <1>5. Pending' => Sure(Range(m_lemma'))
    BY <1>1, <1>2
  <1> QED BY <1>1, <1>3, <1>4, <1>5, BackSound

\* The members of a list of none.
LEMMA RangeEmpty == Range(<<>>) = {}
  BY DEF Range

\* A list over a set is one over a larger set.
LEMMA SeqWider ==
  ASSUME NEW S, NEW T, T \subseteq S, NEW s \in Seq(T)
  PROVE  s \in Seq(S) /\ \A i \in 1 .. Len(s) : s[i] \in T
  <1>1. Len(s) \in Nat /\ s = [i \in 1 .. Len(s) |-> s[i]] /\ \A i \in 1 .. Len(s) : s[i] \in T
    OBVIOUS
  <1> QED BY <1>1

\* A sequence with one more at its end.
LEMMA RangeAppend ==
  ASSUME NEW S, NEW s \in Seq(S), NEW x \in S
  PROVE  /\ Range(Append(s, x)) = Range(s) \cup {x}
         /\ Len(s) \in Nat /\ Len(Append(s, x)) = Len(s) + 1
         /\ \A i \in 1 .. Len(s) : Append(s, x)[i] = s[i] /\ s[i] \in S
         /\ Append(s, x)[Len(s) + 1] = x
  <1>1. Range(Append(s, x)) = Range(s) \cup {x}
    BY RangesAre
  <1> QED BY <1>1

\* Back to the base level, between two checks.
LEMMA ToBaseSound ==
  ASSUME SearchInv, SoundInv, pc = "idle", pop(0)
  PROVE  /\ TrailSound(input, LiveVars, m_trail', m_justification')
         /\ \A i \in 1 .. Len(m_trail') : var(m_trail'[i]) \in 1 .. nvars
         /\ scope_lvl' = 0
         /\ inconsistent' => Entails(input, {})
  <1>1. TrailInv /\ scope_lvl \in Nat
    BY LevelsAre DEF SearchInv, TrailInv
  <1>2. CASE scope_lvl = 0
    <2>1. UNCHANGED <<m_trail, m_justification, m_scopes, m_conflict>>
      BY <1>2 DEF pop, search
    <2>2. inconsistent => Entails(input, {})
      BY <1>2 DEF SoundInv, ConflictSound
    <2>3. (inconsistent' <=> inconsistent) /\ scope_lvl' = scope_lvl
      BY <2>1 DEF inconsistent, scope_lvl
    <2>4. /\ TrailSound(input, LiveVars, m_trail, m_justification)
          /\ \A i \in 1 .. Len(m_trail) : var(m_trail[i]) \in 1 .. nvars
      BY DEF SoundInv
    <2> QED BY <1>2, <2>1, <2>2, <2>3, <2>4
  <1>3. CASE scope_lvl # 0
    <2>1. 0 \in 0 .. scope_lvl - 1 /\ 0 # scope_lvl
      BY <1>1, <1>3
    <2>2. PopScopes(0)
      BY <2>1 DEF pop
    <2>3. scope_lvl' = 0
      BY <1>1, <2>1, <2>2, Shrink
    <2> QED BY <1>1, <2>1, <2>2, <2>3, CutTrailSound
  <1> QED BY <1>2, <1>3

\* A check begins.
LEMMA checkSound ==
  ASSUME SearchInv, SoundInv, NEW lits \in Assumptions, check(lits)
  PROVE  SoundInv'
  <1>1. /\ pc = "idle" /\ pop(0) /\ m_assumptions' = <<>> /\ toassume' = NegScopes \o lits /\ pc' = "base"
        /\ UNCHANGED <<store, nvars, m_user_scope_literals, m_lemma>>
    BY DEF check, pop_to_base_level, NegScopes
  <1>2. UserInv
    BY DEF SearchInv
  <1>3. UNCHANGED <<input, clauses, m_user_scope_literals, nvars>>
    BY <1>1 DEF store
  <1>4. /\ TrailSound(input, LiveVars, m_trail', m_justification')
        /\ \A i \in 1 .. Len(m_trail') : var(m_trail'[i]) \in 1 .. nvars
        /\ scope_lvl' = 0
        /\ inconsistent' => Entails(input, {})
    BY <1>1, ToBaseSound
  <1>5. ScopeLits' = ScopeLits
    BY <1>3, SureSame
  <1>6. Range(toassume') \subseteq Problem \cup Neg(ScopeLits)
    <2>1. lits \in Seq(Problem) /\ Problem \subseteq Lits
      BY SatSolverAssumption, LitsAre
    <2>2. Range(lits) \subseteq Problem /\ lits \in Seq(Lits)
      BY <2>1 DEF Range
    <2>3. NegScopes \in Seq(Lits)
      BY <1>2, NegScopesAre
    <2>4. Range(NegScopes) = Neg(ScopeLits)
      BY <1>2, NegScopesRange
    <2>5. Range(NegScopes \o lits) \subseteq Range(NegScopes) \cup Range(lits)
      BY <2>2, <2>3, RangesAre
    <2> QED BY <1>1, <2>2, <2>4, <2>5
  <1>7. GoalsInv'
    <2>1. Range(m_assumptions') = {}
      BY <1>1, RangeEmpty
    <2> QED BY <1>1, <1>5, <1>6, <2>1 DEF GoalsInv
  <1>8. ConflictSound' /\ ~Pending'
    BY <1>1, <1>3, <1>4 DEF ConflictSound, Pending
  <1>9. /\ DOMAIN clauses' \subseteq DOMAIN clauses
        /\ \A id \in DOMAIN clauses' : Range(clauses'[id]) = Range(clauses[id])
    BY <1>3
  <1> QED BY <1>3, <1>4, <1>7, <1>8, <1>9, StepSound

\* Back to the base level, for a clause.
LEMMA BackToBaseSound ==
  ASSUME SearchInv, SoundInv, BackToBase
  PROVE  SoundInv'
  <1>1. /\ pc = "idle" /\ pop(0) /\ m_assumptions' = <<>> /\ pc' = "idle"
        /\ UNCHANGED <<store, user, toassume, m_lemma>>
    BY DEF BackToBase, pop_to_base_level
  <1>2. UNCHANGED <<input, clauses, m_user_scope_literals, nvars, toassume>>
    BY <1>1 DEF store, user
  <1>3. /\ TrailSound(input, LiveVars, m_trail', m_justification')
        /\ \A i \in 1 .. Len(m_trail') : var(m_trail'[i]) \in 1 .. nvars
        /\ scope_lvl' = 0
        /\ inconsistent' => Entails(input, {})
    BY <1>1, ToBaseSound
  <1>4. ScopeLits' = ScopeLits
    BY <1>2, SureSame
  <1>5. GoalsInv'
    <2>1. Range(m_assumptions') = {}
      BY <1>1, RangeEmpty
    <2> QED BY <1>1, <1>2, <1>4, <2>1 DEF SoundInv, GoalsInv
  <1>6. ConflictSound' /\ ~Pending'
    BY <1>1, <1>2, <1>3 DEF ConflictSound, Pending
  <1>7. /\ DOMAIN clauses' \subseteq DOMAIN clauses
        /\ \A id \in DOMAIN clauses' : Range(clauses'[id]) = Range(clauses[id])
    BY <1>2
  <1> QED BY <1>2, <1>3, <1>5, <1>6, <1>7, StepSound

\* The literal of a new scope is of a new variable.
LEMMA user_pushSound ==
  ASSUME SearchInv, SoundInv, user_push
  PROVE  SoundInv'
  <1> DEFINE s == m_user_scope_literals
  <1>1. /\ pc = "idle" /\ pop(0) /\ m_assumptions' = <<>> /\ pc' = "idle"
        /\ nvars' = nvars + 1 /\ s' = Append(s, nvars + 1)
        /\ UNCHANGED <<store, toassume, m_lemma>>
    BY DEF user_push, pop_to_base_level
  <1>2. /\ UserInv /\ nvars \in Nat /\ s \in Seq(NumVars + 1 .. nvars) /\ LiveVars \subseteq 1 .. nvars
        /\ ScopeLits \subseteq NumVars + 1 .. nvars /\ ScopeLits = Range(s)
    BY LiveAre DEF SearchInv, UserInv, ScopeLits
  <1>3. UNCHANGED <<input, clauses, toassume>>
    BY <1>1 DEF store
  <1>4. /\ TrailSound(input, LiveVars, m_trail', m_justification')
        /\ \A i \in 1 .. Len(m_trail') : var(m_trail'[i]) \in 1 .. nvars
        /\ scope_lvl' = 0
        /\ inconsistent' => Entails(input, {})
    BY <1>1, ToBaseSound
  <1> DEFINE T == NumVars + 1 .. nvars
             new == nvars + 1
  <1>18. s \in Seq(T) /\ T \subseteq Nat /\ new \in Nat /\ \A v \in T : v # new
    BY <1>2, SatSolverAssumption
  <1>19. s' = Append(s, new)
    BY <1>1
  <1> HIDE DEF T, s, new
  <1>20. s \in Seq(Nat) /\ \A i \in 1 .. Len(s) : s[i] \in T
    BY <1>18, SeqWider
  <1>5. /\ Len(s) \in Nat /\ Len(s') = Len(s) + 1 /\ \A i \in 1 .. Len(s) : s'[i] = s[i] /\ s[i] # new
        /\ s'[Len(s) + 1] = new /\ Range(s') = Range(s) \cup {new}
    BY <1>18, <1>19, <1>20, RangeAppend
  <1>6. ScopeLits' = ScopeLits \cup {nvars + 1} /\ LiveVars' = LiveVars \cup {nvars + 1}
    <2>3. ScopeLits' = ScopeLits \cup {nvars + 1}
      BY <1>2, <1>5 DEF ScopeLits, s, new
    <2> QED BY <2>3 DEF LiveVars
  <1>7. Injective(s')
    <2>1. \A i, j \in 1 .. Len(s) : s[i] = s[j] => i = j
      BY DEF SoundInv, InputInv, Injective, s
    <2>2. \A i \in 1 .. Len(s') : i \in 1 .. Len(s) \/ i = Len(s) + 1
      BY <1>5
    <2> QED BY <1>5, <2>1, <2>2 DEF Injective
  <1>8. \A c : Entails(input, c) => Entails(input, c)
    OBVIOUS
  <1>9. \A c : Follows(input, LiveVars, c) => Follows(input, LiveVars', c)
    BY <1>6 DEF Follows
  <1>10. \A i \in 1 .. Len(m_trail') : var(m_trail'[i]) \in LiveVars' => var(m_trail'[i]) \in LiveVars
    <2>1. \A v \in 1 .. nvars : v # nvars + 1
      BY <1>2
    <2> QED BY <1>4, <1>6, <2>1
  <1>11. TrailSound(input, LiveVars', m_trail', m_justification')
    BY <1>4, <1>8, <1>9, <1>10, KeepSound
  <1>12. InputInv'
    <2>1. \A c \in input' : c \subseteq Problem \cup ScopeLits'
      BY <1>3, <1>6 DEF SoundInv, InputInv
    <2>2. Injective(m_user_scope_literals')
      BY <1>7 DEF s
    <2> QED BY <2>1, <2>2 DEF InputInv
  <1>13. GoalsInv'
    <2>1. Range(m_assumptions') = {} /\ Range(toassume') = {} /\ toassume' = <<>>
      <3>1. toassume = <<>>
        BY <1>1 DEF SoundInv, GoalsInv
      <3>2. Range(<<>>) = {}
        BY RangeEmpty
      <3> QED BY <1>1, <1>3, <3>1, <3>2
    <2> QED BY <1>1, <2>1 DEF GoalsInv
  <1>14. (\A id \in DOMAIN clauses : Sure(Range(clauses[id])))'
    <2> SUFFICES ASSUME NEW id \in DOMAIN clauses
                 PROVE  Follows(input', LiveVars', Range(clauses[id]))
      BY <1>3 DEF Sure
    <2>1. Follows(input, LiveVars, Range(clauses[id]))
      BY DEF SoundInv, Sure
    <2> QED BY <1>3, <1>9, <2>1
  <1>15. ConflictSound' /\ ~Pending'
    BY <1>1, <1>3, <1>4 DEF ConflictSound, Pending
  <1>16. TrailSound(input, LiveVars, m_trail, m_justification)'
    BY <1>3, <1>11
  <1>17. (\A i \in 1 .. Len(m_trail) : var(m_trail[i]) \in 1 .. nvars)'
    <2>1. \A v \in 1 .. nvars : v \in 1 .. nvars + 1
      BY <1>2
    <2> QED BY <1>1, <1>4, <2>1
  <1> QED BY <1>12, <1>13, <1>14, <1>15, <1>16, <1>17 DEF SoundInv

\* A sequence of different values without its last one.
LEMMA RangeFront ==
  ASSUME NEW S, NEW s \in Seq(S), NEW n \in Nat, n = Len(s), n > 0, Injective(s)
  PROVE  /\ Range(SubSeq(s, 1, n - 1)) = Range(s) \ {s[n]} /\ Injective(SubSeq(s, 1, n - 1))
         /\ s[n] \in Range(s) /\ s[n] \in S
  <1> DEFINE t == SubSeq(s, 1, n - 1)
  <1>1. n - 1 \in 0 .. Len(s) /\ n \in 1 .. Len(s)
    OBVIOUS
  <1>2. /\ t \in Seq(S) /\ Len(t) = n - 1 /\ \A i \in 1 .. n - 1 : t[i] = s[i]
    BY <1>1
  <1> HIDE DEF t
  <1>3. Range(s) = {s[i] : i \in 1 .. Len(s)} /\ Range(t) = {t[i] : i \in 1 .. Len(t)}
    BY <1>2, RangeFinite
  <1>4. \A i, j \in 1 .. n : s[i] = s[j] => i = j
    BY DEF Injective
  <1>5. \A i \in 1 .. n : i \in 1 .. n - 1 \/ i = n
    OBVIOUS
  <1>6. \A i \in 1 .. n - 1 : i \in 1 .. n /\ i # n
    OBVIOUS
  <1>7. Range(t) = Range(s) \ {s[n]}
    <2>1. \A i \in 1 .. n - 1 : t[i] \in Range(s) /\ t[i] # s[n]
      BY <1>1, <1>2, <1>3, <1>4, <1>6
    <2>2. \A i \in 1 .. n : s[i] # s[n] => s[i] \in Range(t)
      BY <1>2, <1>3, <1>5
    <2>3. Range(t) \subseteq Range(s) \ {s[n]}
      BY <1>2, <1>3, <2>1
    <2>4. Range(s) \ {s[n]} \subseteq Range(t)
      BY <1>3, <2>2
    <2> QED BY <2>3, <2>4
  <1>8. Injective(t)
    BY <1>2, <1>4, <1>6 DEF Injective
  <1>9. s[n] \in Range(s) /\ s[n] \in S
    BY <1>1, <1>3
  <1> QED BY <1>7, <1>8, <1>9 DEF t

\* The clauses without the literal of the scope that is popped.
LEMMA WithoutScope ==
  ASSUME UserInv, InputInv, NEW v \in ScopeLits, NEW T, T = {d \in input : v \notin VarsOf(d)}
  PROVE  /\ \A c : c \subseteq Lits /\ v \notin VarsOf(c) /\ Entails(input, c) => Entails(T, c)
         /\ \A c \in T : c \subseteq Problem \cup (ScopeLits \ {v})
         /\ v \in Vars
  <1>1. ScopeLits \subseteq NumVars + 1 .. nvars /\ ScopeLits \subseteq Vars /\ NumVars \in Nat /\ nvars \in Nat
    BY NegScopesAre, LiveAre, SatSolverAssumption
  <1>2. Problem \subseteq Lits /\ ScopeLits \subseteq Lits
    BY <1>1, LitsAre DEF Lits
  <1>3. -v \notin Problem /\ -v \notin ScopeLits
    <2>1. v \in Nat /\ v > NumVars
      BY <1>1
    <2> QED BY <1>1, <2>1 DEF Problem
  <1>4. \A d \in input : d \subseteq Lits /\ -v \notin d
    BY <1>2, <1>3 DEF InputInv
  <1>5. v \in Vars
    BY <1>1
  <1>6. \A c : c \subseteq Lits /\ v \notin VarsOf(c) /\ Entails(input, c) => Entails(T, c)
    BY <1>4, <1>5, EntailsWithout
  <1>7. var(v) = v
    <2>1. v > 0
      BY <1>1
    <2> QED BY <2>1 DEF var
  <1>8. \A c \in T : v \notin c
    BY <1>7 DEF VarsOf
  <1>9. \A c \in T : c \subseteq Problem \cup (ScopeLits \ {v})
    BY <1>8 DEF InputInv
  <1> QED BY <1>5, <1>6, <1>9

\* A scope is popped.
LEMMA user_popSound ==
  ASSUME SearchInv, SoundInv, user_pop
  PROVE  SoundInv'
  <1> DEFINE s == m_user_scope_literals
             n == Len(s)
             lit == s[n]
             gone == {i \in DOMAIN clauses : lit \in VarsOf(Range(clauses[i]))}
  <1>1. /\ pc = "idle" /\ n > 0 /\ m_assumptions' = <<>>
        /\ s' = SubSeq(s, 1, n - 1)
        /\ clauses' = Detached(clauses, gone)
        /\ input' = {c \in input : lit \notin VarsOf(c)}
        /\ pc' = "popped"
        /\ UNCHANGED <<nvars, toassume>>
    BY DEF user_pop, Detach, Detached
  <1>2. IF at_base_lvl THEN Keep3 /\ UNCHANGED <<m_scopes, todo>> ELSE PopScopes(0)
    BY DEF user_pop
  <1>3. TrailInv /\ StoreInv /\ UserInv /\ InputInv /\ ClausesOK(clauses) /\ Injective(s)
    BY DEF SearchInv, SoundInv, StoreInv, InputInv
  <1>4. /\ ScopeLits' = ScopeLits \ {lit} /\ Injective(s') /\ lit \in ScopeLits
    <2> DEFINE T == NumVars + 1 .. nvars
    <2>1. s \in Seq(T) /\ ScopeLits = Range(s)
      BY <1>3 DEF UserInv, ScopeLits
    <2> HIDE DEF T, s
    <2>2. n \in Nat /\ n = Len(s)
      BY <2>1
    <2>3. /\ Range(SubSeq(s, 1, n - 1)) = Range(s) \ {s[n]} /\ Injective(SubSeq(s, 1, n - 1))
          /\ s[n] \in Range(s)
      BY <1>1, <1>3, <2>1, <2>2, RangeFront
    <2>4. ScopeLits' = Range(s')
      BY DEF ScopeLits, s
    <2> QED BY <1>1, <2>1, <2>3, <2>4
  <1> HIDE DEF s, n
  <1>5. PICK v : v = lit
    OBVIOUS
  <1> HIDE DEF lit
  <1>6. PICK U : U = {c \in input : v \notin VarsOf(c)}
    OBVIOUS
  <1>7. /\ \A c : c \subseteq Lits /\ v \notin VarsOf(c) /\ Entails(input, c) => Entails(U, c)
        /\ \A c \in U : c \subseteq Problem \cup (ScopeLits \ {v})
        /\ v \in Vars /\ input' = U
    <2>1. v \in ScopeLits
      BY <1>4, <1>5
    <2>2. input' = U
      BY <1>1, <1>5, <1>6
    <2>3. /\ \A c : c \subseteq Lits /\ v \notin VarsOf(c) /\ Entails(input, c) => Entails(U, c)
          /\ \A c \in U : c \subseteq Problem \cup (ScopeLits \ {v})
          /\ v \in Vars
      BY <1>3, <1>6, <2>1, WithoutScope
    <2> QED BY <2>2, <2>3
  <1>8. LiveVars' = LiveVars \ {v}
    <2>1. v \notin 1 .. NumVars
      <3>1. v \in NumVars + 1 .. nvars
        BY <1>3, <1>4, <1>5, LiveAre
      <3>2. NumVars \in Nat /\ nvars \in Nat
        BY <1>3, LiveAre, SatSolverAssumption
      <3> QED BY <3>1, <3>2
    <2> QED BY <1>4, <1>5, <2>1 DEF LiveVars
  <1>9. InputInv'
    <2>1. \A c \in input' : c \subseteq Problem \cup ScopeLits'
      BY <1>4, <1>5, <1>7
    <2>2. Injective(m_user_scope_literals')
      BY <1>4 DEF s
    <2> QED BY <2>1, <2>2 DEF InputInv
  <1>10. GoalsInv'
    <2>1. Range(m_assumptions') = {} /\ Range(toassume') = {} /\ toassume' = <<>>
      <3>1. toassume = <<>>
        BY <1>1 DEF SoundInv, GoalsInv
      <3> QED BY <1>1, <3>1, RangeEmpty
    <2> QED BY <1>1, <2>1 DEF GoalsInv
  <1>11. ASSUME NEW c, Follows(input, LiveVars, c), v \notin VarsOf(c)
         PROVE  Follows(U, LiveVars', c)
    <2>1. c \subseteq Lits /\ \A l \in c : var(l) # v
      BY <1>11 DEF Follows, VarsOf
    <2>2. Entails(U, c)
      BY <1>7, <1>11, <2>1 DEF Follows
    <2> QED BY <1>8, <1>11, <2>1, <2>2 DEF Follows
  <1>12. (\A id \in DOMAIN clauses : Sure(Range(clauses[id])))'
    <2>1. DOMAIN clauses' = DOMAIN clauses \ gone /\ \A i \in DOMAIN clauses \ gone : clauses'[i] = clauses[i]
      BY <1>1, <1>3, DetachedIs
    <2>2. ASSUME NEW i \in DOMAIN clauses \ gone PROVE Follows(U, LiveVars', Range(clauses[i]))
      <3>1. v \notin VarsOf(Range(clauses[i]))
        BY <1>5
      <3>2. Follows(input, LiveVars, Range(clauses[i]))
        BY DEF SoundInv, Sure
      <3> QED BY <1>11, <3>1, <3>2
    <2> QED BY <1>7, <2>1, <2>2 DEF Sure
  <1>13. /\ TrailSound(input, LiveVars, m_trail', m_justification')
         /\ \A i \in 1 .. Len(m_trail') : var(m_trail'[i]) \in 1 .. nvars
         /\ inconsistent' => Entails(input, {})
    <2>1. CASE at_base_lvl
      <3>1. UNCHANGED <<m_trail, m_justification, m_conflict>> /\ scope_lvl = 0
        BY <1>2, <2>1 DEF Keep3, at_base_lvl
      <3>2. inconsistent' <=> inconsistent
        BY <3>1 DEF inconsistent
      <3>3. inconsistent => Entails(input, {})
        BY <3>1 DEF SoundInv, ConflictSound
      <3>4. /\ TrailSound(input, LiveVars, m_trail, m_justification)
            /\ \A i \in 1 .. Len(m_trail) : var(m_trail[i]) \in 1 .. nvars
        BY DEF SoundInv
      <3> QED BY <3>1, <3>2, <3>3, <3>4
    <2>2. CASE ~at_base_lvl
      <3>1. 0 \in 0 .. scope_lvl - 1
        <4>1. scope_lvl \in Nat
          BY <1>3, LevelsAre DEF TrailInv
        <4> QED BY <2>2, <4>1 DEF at_base_lvl
      <3>2. PopScopes(0)
        BY <1>2, <2>2
      <3> QED BY <1>3, <3>1, <3>2, CutTrailSound
    <2> QED BY <2>1, <2>2
  <1>14. TrailSound(U, LiveVars', m_trail', m_justification')
    <2>1. TrailInv' /\ scope_lvl' = 0
      <3>1. SearchInv' /\ pc' = "popped"
        BY <1>1, user_popInv
      <3> QED BY <3>1 DEF SearchInv, PhaseInv
    <2>2. TrailOK(m_trail', m_justification') /\ ScopesOK(m_trail', m_justification', m_scopes')
          /\ Len(m_scopes') = 0
      BY <2>1 DEF TrailInv, scope_lvl
    <2>3. \A i \in 1 .. Len(m_trail') : m_justification'[var(m_trail'[i])] = None(0) /\ m_trail'[i] \in Lits
      <3>1. \A i \in 1 .. Len(m_trail') : m_justification'[var(m_trail'[i])] = None(0)
        BY <2>2, AtBase
      <3>2. \A i \in 1 .. Len(m_trail') : m_trail'[i] \in Lits
        BY <2>2, TrailFacts
      <3> QED BY <3>1, <3>2
    <2> SUFFICES ASSUME NEW i \in 1 .. Len(m_trail')
                 PROVE  /\ LvlIn(m_justification', m_trail'[i]) = 0 /\ var(m_trail'[i]) \in LiveVars'
                             => Entails(U, {m_trail'[i]})
                        /\ m_justification'[var(m_trail'[i])].lits # {}
                             => Follows(U, LiveVars', {m_trail'[i]} \cup m_justification'[var(m_trail'[i])].lits)
      BY DEF TrailSound
    <2>4. m_justification'[var(m_trail'[i])].lits = {}
      BY <2>3 DEF None, Just
    <2>5. ASSUME LvlIn(m_justification', m_trail'[i]) = 0, var(m_trail'[i]) \in LiveVars'
          PROVE  Entails(U, {m_trail'[i]})
      <3>1. Entails(input, {m_trail'[i]})
        BY <1>8, <1>13, <2>5 DEF TrailSound
      <3>2. {m_trail'[i]} \subseteq Lits /\ v \notin VarsOf({m_trail'[i]})
        BY <1>8, <2>3, <2>5 DEF VarsOf
      <3> QED BY <1>7, <3>1, <3>2
    <2> QED BY <2>4, <2>5
  <1>15. ConflictSound' /\ ~Pending'
    <2>1. scope_lvl' = 0
      <3>1. SearchInv'
        BY user_popInv
      <3> QED BY <1>1, <3>1 DEF SearchInv, PhaseInv
    <2>2. Entails(input, {}) => Entails(U, {})
      BY <1>7 DEF VarsOf
    <2> QED BY <1>1, <1>7, <1>13, <2>1, <2>2 DEF ConflictSound, Pending
  <1>16. TrailSound(input, LiveVars, m_trail, m_justification)'
    BY <1>7, <1>14
  <1>17. (\A i \in 1 .. Len(m_trail) : var(m_trail[i]) \in 1 .. nvars)'
    BY <1>1, <1>13
  <1> QED BY <1>9, <1>10, <1>12, <1>15, <1>16, <1>17 DEF SoundInv

\* What is left to be shown when a lemma is added.
LEMMA LearnFrameSound ==
  ASSUME SearchInv, SoundInv, Learn,
         \A id \in DOMAIN clauses' : Sure(Range(clauses'[id])),
         TrailSound(input, LiveVars, m_trail', m_justification'),
         \A i \in 1 .. Len(m_trail') : var(m_trail'[i]) \in 1 .. nvars,
         ConflictSound'
  PROVE  SoundInv'
  <1>1. /\ pc = "learn" /\ pc' = "search"
        /\ UNCHANGED <<m_assumptions, m_user_scope_literals, nvars, toassume>>
    BY LearnIs
  <1>2. input' = input
    BY DEF Learn, mk_clause_core
  <1>3. InputInv' /\ LiveVars' = LiveVars /\ \A c : Sure(c)' <=> Sure(c)
    BY <1>1, <1>2, SameUser
  <1>4. GoalsInv' /\ ~Pending'
    BY <1>1, <1>2, GoalsSame DEF Pending
  <1>5. (\A id \in DOMAIN clauses : Sure(Range(clauses[id])))'
    BY <1>2, <1>3 DEF Sure
  <1>6. TrailSound(input, LiveVars, m_trail, m_justification)'
    BY <1>2, <1>3
  <1>7. (\A i \in 1 .. Len(m_trail) : var(m_trail[i]) \in 1 .. nvars)'
    BY <1>1
  <1> QED BY <1>3, <1>4, <1>5, <1>6, <1>7 DEF SoundInv

\* The conflict that a unit meets stays.
LEMMA ConflictStays ==
  ASSUME TrailInv, SoundInv, pc # "idle",
         UNCHANGED <<input, clauses, m_user_scope_literals, m_assumptions, m_conflict, m_scopes>>,
         \/ UNCHANGED <<m_trail, m_justification>>
         \/ \E l \in Lits, js \in Justs : Undef(l) /\ assign_core(l, js)
  PROVE  ConflictSound'
  <1>1. (inconsistent' <=> inconsistent) /\ scope_lvl' = scope_lvl /\ ConflictLits' = ConflictLits
    BY DEF inconsistent, scope_lvl, ConflictLits, Reason
  <1>2. Refuted' = Refuted
    BY <1>1 DEF Refuted
  <1>3. LiveVars' = LiveVars /\ ScopeLits' = ScopeLits
    BY SureSame
  <1>4. Sure(Refuted)' <=> Sure(Refuted)
    BY <1>2, <1>3 DEF Sure
  <1>5. ASSUME Clash PROVE Clash'
    <2>1. PICK n : n = m_conflict.not_l
      OBVIOUS
    <2>2. n \in Lits /\ True(n) /\ lvl(n) <= 1 /\ -n \in Goals /\ m_conflict.js = None(1)
      BY <1>5, <2>1 DEF Clash
    <2>3. True(n)' /\ lvl(n)' <= 1
      <3>1. CASE UNCHANGED <<m_trail, m_justification>>
        BY <2>2, <3>1 DEF True, lvl
      <3>2. CASE \E l \in Lits, js \in Justs : Undef(l) /\ assign_core(l, js)
        <4>1. PICK l \in Lits, js \in Justs : Undef(l) /\ assign_core(l, js)
          BY <3>2
        <4>2. TrailOK(m_trail, m_justification) /\ var(l) \notin DOMAIN m_justification
          BY <4>1, ValuesAre DEF TrailInv
        <4>3. m_trail' = Append(m_trail, l) /\ m_justification' = Extended(m_justification, l, js)
          BY <4>1 DEF assign_core, Assigned, Extended, Norm
        <4>4. Extends(m_trail, m_justification, l, js, m_trail', m_justification')
          BY <4>2, <4>3, ExtendedIs
        <4>5. n \in Range(m_trail) /\ var(n) \in DOMAIN m_justification
          BY <2>2, <4>2, ValuesAre DEF Assigned
        <4>6. n \in Range(m_trail') /\ m_justification'[var(n)] = m_justification[var(n)]
          BY <4>4, <4>5 DEF Extends
        <4>7. TrailOK(m_trail', m_justification')
          BY <4>4 DEF Extends
        <4>8. True(n)'
          <5>1. Range(m_trail') = {m_trail'[i] : i \in 1 .. Len(m_trail')} /\ DOMAIN m_trail' = 1 .. Len(m_trail')
            BY <4>7, TrailFacts
          <5> QED BY <4>6, <5>1 DEF True
        <4> QED BY <2>2, <4>6, <4>8 DEF lvl
      <3> QED BY <3>1, <3>2
    <2>4. Goals' = Goals
      BY <1>3 DEF Goals
    <2> QED BY <2>1, <2>2, <2>3, <2>4 DEF Clash
  <1>6. inconsistent => IF scope_lvl = 0 THEN Entails(input, {}) ELSE Sure(Refuted) \/ Clash
    BY DEF SoundInv, ConflictSound
  <1> QED BY <1>1, <1>4, <1>5, <1>6 DEF ConflictSound

\* A unit that follows is added.
LEMMA LearnUnitSound ==
  ASSUME SearchInv, SoundInv, Learn, NEW l \in Lits, Sure({l}), assign(l, None(0)), UNCHANGED clauses
  PROVE  SoundInv'
  <1>1. /\ pc = "learn" /\ pc' = "search" /\ TrailInv /\ scope_lvl' = scope_lvl
        /\ UNCHANGED <<m_scopes, m_assumptions, m_user_scope_literals, nvars>>
    BY LearnIs
  <1>2. input' = input /\ UserInv
    BY DEF Learn, mk_clause_core, SearchInv
  <1>3. \A id \in DOMAIN clauses' : Sure(Range(clauses'[id]))
    BY DEF SoundInv
  <1>4. Entails(input, {l}) /\ var(l) \in 1 .. nvars
    <2>1. Entails(input, {l}) /\ var(l) \in LiveVars
      BY DEF Sure, Follows
    <2> QED BY <1>2, <2>1, LiveAre
  <1>5. None(0) \in Justs /\ None(0).lvl = 0 /\ None(0).lits = {}
    BY JustsAre DEF None, Just
  <1>6. ASSUME UNCHANGED <<m_trail, m_justification>>
        PROVE  /\ TrailSound(input, LiveVars, m_trail', m_justification')
               /\ \A i \in 1 .. Len(m_trail') : var(m_trail'[i]) \in 1 .. nvars
    BY <1>6 DEF SoundInv
  <1>7. CASE Undef(l) /\ assign_core(l, None(0))
    <2>1. /\ TrailSound(input, LiveVars, m_trail', m_justification')
          /\ \A i \in 1 .. Len(m_trail') : var(m_trail'[i]) \in 1 .. nvars
      BY <1>1, <1>4, <1>5, <1>7, GrowTrailSound
    <2>2. m_conflict' = m_conflict
      BY <1>7 DEF assign_core
    <2>3. ConflictSound'
      BY <1>1, <1>2, <1>5, <1>7, <2>2, ConflictStays
    <2> QED BY <1>3, <2>1, <2>3, LearnFrameSound
  <1>8. CASE True(l) /\ UNCHANGED <<m_trail, m_justification, m_conflict>>
    <2>1. ConflictSound'
      BY <1>1, <1>2, <1>8, ConflictStays
    <2> QED BY <1>3, <1>6, <1>8, <2>1, LearnFrameSound
  <1>9. CASE False(l) /\ set_conflict(-l, None(0))
    <2>1. UNCHANGED <<m_trail, m_justification>>
      BY <1>9 DEF set_conflict
    <2>2. CASE inconsistent
      <3>1. m_conflict' = m_conflict
        BY <1>9, <2>2 DEF set_conflict
      <3>2. ConflictSound'
        BY <1>1, <1>2, <2>1, <3>1, ConflictStays
      <3> QED BY <1>3, <1>6, <2>1, <3>2, LearnFrameSound
    <2>3. CASE ~inconsistent
      <3> DEFINE n == -l
      <3>1. n \in Lits /\ -n = l
        BY LitsAre
      <3>2. set_conflict(n, None(0))
        BY <1>9
      <3> HIDE DEF n
      <3>3. ReasonIn(clauses', None(0), -n) = {}
        BY DEF ReasonIn, None, Just
      <3>4. n # 0 /\ {} \subseteq Lits /\ -n \in Lits
        BY <3>1, LitsAre
      <3>5. Refuted' = {} \cup (IF n = 0 THEN {} ELSE {-n})
        BY <2>3, <3>2, <3>3, <3>4, RefutedIs
      <3>6. Refuted' = {l}
        BY <3>1, <3>4, <3>5
      <3>7. \A k \in {l} : False(k)
        BY <1>9
      <3>8. ConflictSound'
        BY <1>1, <1>2, <3>6, <3>7, RefuteSound
      <3> QED BY <1>3, <1>6, <2>1, <3>8, LearnFrameSound
    <2> QED BY <2>2, <2>3
  <1> QED BY <1>7, <1>8, <1>9 DEF assign

\* A clause that follows is added, and its first literal assigned.
LEMMA LearnClauseSound ==
  ASSUME SearchInv, SoundInv, Learn, Sure(Range(m_lemma)), ~inconsistent, NEW e, Asserted(e)
  PROVE  SoundInv'
  <1>1. PICK js, j : /\ Range(e) = Range(m_lemma) /\ assign_core(e[1], js) /\ Asserts(e, js, j)
                     /\ js.lits \in {{}, Range(e) \ {e[1]}}
                     /\ UNCHANGED clauses \/ Attach(e)
    BY DEF Asserted
  <1>2. /\ GoodClause(e) /\ Undef(e[1]) /\ (\A i \in 2 .. Len(e) : False(e[i])) /\ js \in Justs
        /\ js.lvl = Highest(Range(e) \ {e[1]})
    BY <1>1 DEF Asserts
  <1>3. TrailInv /\ UserInv /\ ClausesOK(clauses)
    BY DEF SearchInv, StoreInv
  <1>4. /\ e[1] \in Range(e) /\ Range(e) = {e[i] : i \in 1 .. Len(e)} /\ e[1] \in Lits /\ Len(e) \in Nat
    <2>1. /\ Len(e) \in Nat /\ Len(e) >= 2 /\ Range(e) = {e[i] : i \in 1 .. Len(e)}
          /\ \A i \in 1 .. Len(e) : e[i] \in Lits /\ e[i] \in Range(e)
      BY <1>2, ClauseFacts
    <2>2. 1 \in 1 .. Len(e)
      BY <2>1
    <2> QED BY <2>1, <2>2
  <1>5. \A k \in Range(e) \ {e[1]} : False(k)
    <2> SUFFICES ASSUME NEW k \in Range(e), k # e[1] PROVE False(k)
      OBVIOUS
    <2>1. PICK i \in 1 .. Len(e) : e[i] = k
      BY <1>4
    <2>2. i \in 2 .. Len(e)
      BY <1>4, <2>1
    <2> QED BY <1>2, <2>1, <2>2
  <1>6. Sure(Range(e))
    BY <1>1
  <1>7. /\ Highest(Range(e) \ {e[1]}) = 0 => Entails(input, {e[1]})
        /\ var(e[1]) \in LiveVars /\ var(e[1]) \in 1 .. nvars
    BY <1>3, <1>4, <1>5, <1>6, UnitSound
  <1>8. js.lits # {} => Sure({e[1]} \cup js.lits)
    <2>1. {e[1]} \cup (Range(e) \ {e[1]}) = Range(e)
      BY <1>4
    <2> QED BY <1>1, <1>6, <2>1
  <1>9. /\ TrailSound(input, LiveVars, m_trail', m_justification')
        /\ \A i \in 1 .. Len(m_trail') : var(m_trail'[i]) \in 1 .. nvars
    <2>1. js.lvl = 0 /\ var(e[1]) \in LiveVars => Entails(input, {e[1]})
      BY <1>2, <1>7
    <2> QED BY <1>1, <1>2, <1>3, <1>4, <1>7, <1>8, <2>1, GrowTrailSound
  <1>10. \A id \in DOMAIN clauses' : Sure(Range(clauses'[id]))
    <2>1. CASE UNCHANGED clauses
      BY <2>1 DEF SoundInv
    <2>2. CASE Attach(e)
      <3>1. /\ DOMAIN clauses' = DOMAIN clauses \cup {FreeId} /\ clauses'[FreeId] = e
            /\ \A i \in DOMAIN clauses : clauses'[i] = clauses[i]
        BY <1>2, <1>3, <2>2, AttachIs
      <3> QED BY <1>6, <3>1 DEF SoundInv
    <2> QED BY <1>1, <2>1, <2>2
  <1>11. ConflictSound'
    <2>1. ~inconsistent'
      BY <1>1 DEF assign_core, inconsistent
    <2> QED BY <2>1 DEF ConflictSound
  <1> QED BY <1>9, <1>10, <1>11, LearnFrameSound

\* A lemma is added.
LEMMA LearnSound ==
  ASSUME SearchInv, SoundInv, Learn
  PROVE  SoundInv'
  <1>1. Sure(Range(m_lemma))
    BY LearnIs DEF SoundInv, Pending
  <1>2. CASE UNCHANGED <<clauses, learned>> /\ Len(m_lemma) = 1 /\ m_lemma[1] \in Lits /\ assign(m_lemma[1], None(0))
    <2>1. Range(m_lemma) = {m_lemma[1]}
      <3>1. m_lemma \in Seq(Lits)
        BY LearnIs DEF LemmaAt
      <3>2. Range(m_lemma) = {m_lemma[i] : i \in 1 .. 1}
        BY <1>2, <3>1, RangeFinite
      <3> QED BY <3>2
    <2> QED BY <1>1, <1>2, <2>1, LearnUnitSound
  <1>3. CASE /\ UNCHANGED <<clauses, learned>>
             /\ \E l, k \in Lits : Range(m_lemma) = {l, k} /\ assign(l, None(0)) /\ IsBinary(l, -k)
    <2>1. PICK l \in Lits, k \in Lits : Range(m_lemma) = {l, k} /\ assign(l, None(0)) /\ IsBinary(l, -k)
      BY <1>3
    <2>2. PICK i \in DOMAIN clauses : Range(clauses[i]) = {l, -k}
      BY <2>1 DEF IsBinary
    <2>3. Sure({l, -k}) /\ Sure({l, k})
      BY <1>1, <2>1, <2>2 DEF SoundInv
    <2>4. Entails(input, {l})
      <3>1. Entails(input, {l, -k}) /\ Entails(input, {l, k})
        BY <2>3 DEF Sure, Follows
      <3> QED BY <3>1, EntailsResolve
    <2>5. Sure({l})
      BY <2>3, <2>4 DEF Sure, Follows
    <2> QED BY <1>3, <2>1, <2>5, LearnUnitSound
  <1>4. CASE ~inconsistent /\ \E e : Asserted(e)
    BY <1>1, <1>4, LearnClauseSound
  <1> QED BY <1>2, <1>3, <1>4, LearnCases

\* A clause that is added makes more follow.
LEMMA MoreClauses ==
  ASSUME UserInv, SoundInv, NEW c \in SUBSET Problem, NEW all, all = c \cup ScopeLits, NEW U, U = input \cup {all}
  PROVE  /\ \A d : Entails(input, d) => Entails(U, d)
         /\ \A d : Follows(input, LiveVars, d) => Follows(U, LiveVars, d)
         /\ Follows(U, LiveVars, all) /\ all \subseteq Lits
         /\ \A d \in U : d \subseteq Problem \cup ScopeLits
         /\ TrailSound(U, LiveVars, m_trail, m_justification)
  <1>1. \A d : Entails(input, d) => Entails(U, d)
    BY EntailsWeaker
  <1>2. \A d : Follows(input, LiveVars, d) => Follows(U, LiveVars, d)
    BY <1>1 DEF Follows
  <1>3. all \subseteq Problem \cup ScopeLits /\ Problem \subseteq Lits /\ ScopeLits \subseteq Lits
    <2>1. ScopeLits \subseteq Vars
      BY NegScopesAre
    <2> QED BY <2>1, LitsAre DEF Lits
  <1>4. Follows(U, LiveVars, all)
    <2>1. Entails(U, all)
      BY EntailsMember
    <2>2. \A l \in all : l \in Lits /\ var(l) \in LiveVars
      BY <1>3, LiveAre
    <2> QED BY <2>1, <2>2 DEF Follows
  <1>5. \A d \in U : d \subseteq Problem \cup ScopeLits
    BY <1>3 DEF SoundInv, InputInv
  <1>6. TrailSound(U, LiveVars, m_trail, m_justification)
    BY <1>1, <1>2, KeepSound DEF SoundInv
  <1> QED BY <1>1, <1>2, <1>3, <1>4, <1>5, <1>6

\* At the base level what is open of a clause follows, if no literal is true.
LEMMA OpenFollows ==
  ASSUME TrailInv, scope_lvl = 0, NEW U, NEW V, TrailSound(U, V, m_trail, m_justification),
         NEW all, Follows(U, V, all), all \subseteq Lits, ~ \E l \in all : True(l),
         NEW open, open = {l \in all : Undef(l)}
  PROVE  Follows(U, V, open)
  <1>1. TrailOK(m_trail, m_justification) /\ ScopesOK(m_trail, m_justification, m_scopes)
    BY DEF TrailInv
  <1>2. ASSUME NEW k \in all \ open PROVE -k \in Range(m_trail) /\ LvlIn(m_justification, k) = 0
    <2>1. k \in Lits /\ ~Undef(k) /\ ~True(k)
      BY <1>2
    <2>2. -k \in Range(m_trail) /\ var(k) \in Assigned
      BY <1>1, <2>1, ValuesAre DEF Undef
    <2>3. lvl(k) \in 0 .. scope_lvl
      BY <1>1, <2>1, <2>2, LevelsAre
    <2>4. lvl(k) = 0
      BY <2>3
    <2> QED BY <2>2, <2>4, LvlIs
  <1>3. open \subseteq all
    OBVIOUS
  <1> QED BY <1>1, <1>2, <1>3, DropLow

\* The user adds a clause.
LEMMA mk_clauseSound ==
  ASSUME SearchInv, SoundInv, NEW c \in Extra, mk_clause(c)
  PROVE  SoundInv'
  <1> DEFINE a == c \cup ScopeLits
             o == {l \in a : Undef(l)}
  <1>1. /\ pc = "idle" /\ pc' = pc /\ scope_lvl = 0 /\ input' = input \cup {a}
        /\ UNCHANGED <<m_scopes, user, goal, m_lemma>>
        /\ \/ Keep3 /\ UNCHANGED clauses
           \/ /\ ~ \E l \in a : True(l)
              /\ \/ o = {} /\ set_conflict(0, None(0)) /\ UNCHANGED clauses
                 \/ Cardinality(o) = 1 /\ UNCHANGED clauses /\ \E l \in o : assign_core(l, None(0))
                 \/ Cardinality(o) > 1 /\ Attach(Sorted(o)) /\ Keep3
    BY DEF mk_clause, at_base_lvl
  <1>2. PICK all : all = a
    OBVIOUS
  <1>3. PICK open : open = o
    OBVIOUS
  <1>4. PICK U : U = input \cup {all}
    OBVIOUS
  <1>5. open = {l \in all : Undef(l)} /\ input' = U
    BY <1>1, <1>2, <1>3, <1>4
  <1>6. \/ Keep3 /\ UNCHANGED clauses
        \/ /\ ~ \E l \in all : True(l)
           /\ \/ open = {} /\ set_conflict(0, None(0)) /\ UNCHANGED clauses
              \/ Cardinality(open) = 1 /\ UNCHANGED clauses /\ \E l \in open : assign_core(l, None(0))
              \/ Cardinality(open) > 1 /\ Attach(Sorted(open)) /\ Keep3
    <2> HIDE DEF a, o
    <2>1. a = all /\ o = open
      BY <1>2, <1>3
    <2>2. CASE Keep3 /\ UNCHANGED clauses
      BY <2>2
    <2>3. CASE /\ ~ \E l \in a : True(l)
               /\ \/ o = {} /\ set_conflict(0, None(0)) /\ UNCHANGED clauses
                  \/ Cardinality(o) = 1 /\ UNCHANGED clauses /\ \E l \in o : assign_core(l, None(0))
                  \/ Cardinality(o) > 1 /\ Attach(Sorted(o)) /\ Keep3
      <3>1. ~ \E l \in all : True(l)
        BY <2>1, <2>3
      <3>2. \/ open = {} /\ set_conflict(0, None(0)) /\ UNCHANGED clauses
            \/ Cardinality(open) = 1 /\ UNCHANGED clauses /\ \E l \in open : assign_core(l, None(0))
            \/ Cardinality(open) > 1 /\ Attach(Sorted(open)) /\ Keep3
        BY <2>1, <2>3 DEF Attach
      <3> QED BY <3>1, <3>2
    <2> QED BY <1>1, <2>2, <2>3
  <1>7. TrailInv /\ UserInv /\ ClausesOK(clauses) /\ c \in SUBSET Problem
    BY SatSolverAssumption DEF SearchInv, StoreInv
  <1>8. all = c \cup ScopeLits
    BY <1>2
  <1> HIDE DEF a, o
  <1>9. /\ \A d : Entails(input, d) => Entails(U, d)
        /\ \A d : Follows(input, LiveVars, d) => Follows(U, LiveVars, d)
        /\ Follows(U, LiveVars, all) /\ all \subseteq Lits
        /\ \A d \in U : d \subseteq Problem \cup ScopeLits
        /\ TrailSound(U, LiveVars, m_trail, m_justification)
    BY <1>4, <1>7, <1>8, MoreClauses
  <1>10. (~ \E l \in all : True(l)) => Follows(U, LiveVars, open)
    BY <1>1, <1>5, <1>7, <1>9, OpenFollows
  <1>11. /\ UNCHANGED <<m_assumptions, m_user_scope_literals, nvars, toassume>> /\ scope_lvl' = 0
         /\ ScopeLits' = ScopeLits /\ LiveVars' = LiveVars
    <2>1. UNCHANGED <<m_assumptions, m_user_scope_literals, nvars, toassume>> /\ scope_lvl' = 0
      BY <1>1 DEF user, goal, scope_lvl
    <2>2. ScopeLits' = ScopeLits
      BY <2>1 DEF ScopeLits
    <2> QED BY <2>1, <2>2 DEF LiveVars
  <1>12. InputInv' /\ GoalsInv' /\ ~Pending'
    <2>1. \A d \in input' : d \subseteq Problem \cup ScopeLits'
      BY <1>5, <1>9, <1>11
    <2>2. InputInv'
      BY <1>11, <2>1 DEF SoundInv, InputInv
    <2>3. GoalsInv'
      BY <1>1, <1>11 DEF SoundInv, GoalsInv
    <2> QED BY <1>1, <2>2, <2>3 DEF Pending
  <1>13. \A i \in 1 .. Len(m_trail) : var(m_trail[i]) \in 1 .. nvars
    BY DEF SoundInv
  <1>14. \A id \in DOMAIN clauses : Follows(U, LiveVars, Range(clauses[id]))
    BY <1>9 DEF SoundInv, Sure
  <1>15. inconsistent => Entails(U, {})
    BY <1>1, <1>9 DEF SoundInv, ConflictSound
  <1>16. ASSUME \A id \in DOMAIN clauses' : Follows(U, LiveVars, Range(clauses'[id])),
                TrailSound(U, LiveVars, m_trail', m_justification'),
                \A i \in 1 .. Len(m_trail') : var(m_trail'[i]) \in 1 .. nvars,
                inconsistent' => Entails(U, {})
         PROVE  SoundInv'
    <2>1. (\A id \in DOMAIN clauses : Sure(Range(clauses[id])))'
      BY <1>5, <1>11, <1>16 DEF Sure
    <2>2. TrailSound(input, LiveVars, m_trail, m_justification)'
      BY <1>5, <1>11, <1>16
    <2>3. (\A i \in 1 .. Len(m_trail) : var(m_trail[i]) \in 1 .. nvars)'
      BY <1>11, <1>16
    <2>4. ConflictSound'
      BY <1>5, <1>11, <1>16 DEF ConflictSound
    <2> QED BY <1>12, <2>1, <2>2, <2>3, <2>4 DEF SoundInv
  <1>17. CASE Keep3 /\ UNCHANGED clauses
    <2>1. UNCHANGED <<m_trail, m_justification, m_conflict>> /\ clauses' = clauses
      BY <1>17 DEF Keep3
    <2>2. inconsistent' => Entails(U, {})
      BY <1>15, <2>1 DEF inconsistent
    <2> QED BY <1>9, <1>13, <1>14, <1>16, <2>1, <2>2
  <1>18. CASE open = {} /\ set_conflict(0, None(0)) /\ UNCHANGED clauses /\ ~ \E l \in all : True(l)
    <2>1. UNCHANGED <<m_trail, m_justification>> /\ clauses' = clauses
      BY <1>18 DEF set_conflict
    <2>2. Entails(U, {})
      BY <1>10, <1>18 DEF Follows
    <2> QED BY <1>9, <1>13, <1>14, <1>16, <2>1, <2>2
  <1>19. CASE /\ Cardinality(open) = 1 /\ UNCHANGED clauses /\ \E l \in open : assign_core(l, None(0))
              /\ ~ \E l \in all : True(l)
    <2>1. PICK l \in open : assign_core(l, None(0))
      BY <1>19
    <2>2. open = {l} /\ l \in Lits /\ Undef(l)
      <3>1. open \subseteq Lits
        BY <1>5, <1>9
      <3>2. IsFiniteSet(open)
        BY <3>1, LitsFinite
      <3>3. \E x : open = {x}
        BY <1>19, <3>2, One
      <3> QED BY <1>5, <2>1, <3>1, <3>3
    <2>3. Follows(U, LiveVars, {l})
      BY <1>10, <1>19, <2>2
    <2>4. Entails(U, {l}) /\ var(l) \in 1 .. nvars
      <3>1. Entails(U, {l}) /\ var(l) \in LiveVars
        BY <2>3 DEF Follows
      <3> QED BY <1>7, <3>1, LiveAre
    <2>5. None(0) \in Justs /\ None(0).lvl = 0 /\ None(0).lits = {}
      BY JustsAre DEF None, Just
    <2>6. m_trail' = Append(m_trail, l) /\ m_justification' = Extended(m_justification, l, None(0))
          /\ m_conflict' = m_conflict
      BY <2>1 DEF assign_core, Assigned, Extended, Norm
    <2>7. TrailOK(m_trail, m_justification) /\ var(l) \notin DOMAIN m_justification
      BY <1>7, <2>2, ValuesAre DEF TrailInv
    <2>8. TrailSound(U, LiveVars, m_trail', m_justification')
      <3>1. TrailSound(U, LiveVars, Append(m_trail, l), Extended(m_justification, l, None(0)))
        BY <1>9, <2>2, <2>4, <2>5, <2>7, GrowSound
      <3> QED BY <2>6, <3>1
    <2>9. \A i \in 1 .. Len(m_trail') : var(m_trail'[i]) \in 1 .. nvars
      <3>2. /\ Len(m_trail) \in Nat /\ Len(m_trail') = Len(m_trail) + 1 /\ m_trail'[Len(m_trail) + 1] = l
            /\ \A j \in 1 .. Len(m_trail) : m_trail'[j] = m_trail[j]
        BY <2>2, <2>5, <2>6, <2>7, ExtendedIs DEF Extends
      <3>3. \A i \in 1 .. Len(m_trail') : i \in 1 .. Len(m_trail) \/ i = Len(m_trail) + 1
        BY <3>2
      <3> QED BY <1>13, <2>4, <3>2, <3>3
    <2>10. inconsistent' => Entails(U, {})
      BY <1>15, <2>6 DEF inconsistent
    <2> QED BY <1>14, <1>16, <1>19, <2>8, <2>9, <2>10
  <1>20. CASE Cardinality(open) > 1 /\ Attach(Sorted(open)) /\ Keep3 /\ ~ \E l \in all : True(l)
    <2> DEFINE e == Sorted(open)
    <2>1. open \subseteq Lits /\ IsFiniteSet(open)
      <3>1. open \subseteq Lits
        BY <1>5, <1>9
      <3> QED BY <3>1, LitsFinite
    <2>2. GoodClause(e) /\ Range(e) = open
      BY <1>20, <2>1, SortedGood
    <2>3. Attach(e)
      BY <1>20
    <2> HIDE DEF e
    <2>4. /\ DOMAIN clauses' = DOMAIN clauses \cup {FreeId} /\ clauses'[FreeId] = e
          /\ \A i \in DOMAIN clauses : clauses'[i] = clauses[i]
      BY <1>7, <2>2, <2>3, AttachIs
    <2>5. \A id \in DOMAIN clauses' : Follows(U, LiveVars, Range(clauses'[id]))
      BY <1>10, <1>14, <1>20, <2>2, <2>4
    <2>6. UNCHANGED <<m_trail, m_justification, m_conflict>>
      BY <1>20 DEF Keep3
    <2>7. inconsistent' => Entails(U, {})
      BY <1>15, <2>6 DEF inconsistent
    <2> QED BY <1>9, <1>13, <1>16, <2>5, <2>6, <2>7
  <1> QED BY <1>6, <1>17, <1>18, <1>19, <1>20

\* Soundness holds of every formula at the start.
LEMMA InitSound ==
  ASSUME Init
  PROVE  SoundInv
  <1>1. PICK f \in Formulas :
          /\ input = Range(f.clauses)
          /\ clauses = [i \in DOMAIN f.clauses |-> Sorted(f.clauses[i])]
          /\ m_trail = <<>> /\ m_conflict = NoConflict /\ m_user_scope_literals = <<>>
          /\ m_assumptions = <<>> /\ toassume = <<>> /\ pc = "idle"
    BY DEF Init
  <1>2. UserInv
    BY InitInv DEF SearchInv
  <1>3. /\ f.clauses \in Seq(SUBSET Problem) /\ input = {f.clauses[i] : i \in DOMAIN f.clauses}
        /\ \A i \in DOMAIN f.clauses : f.clauses[i] \subseteq Problem
    BY <1>1, SatSolverAssumption DEF Range
  <1>4. ScopeLits = {} /\ Injective(m_user_scope_literals) /\ Len(m_trail) = 0
    <2>1. \A i \in 1 .. Len(<<>>) : FALSE
      OBVIOUS
    <2> QED BY <1>1, <2>1, RangeEmpty DEF ScopeLits, Injective
  <1>5. InputInv
    BY <1>3, <1>4 DEF InputInv
  <1>6. GoalsInv
    BY <1>1, RangeEmpty DEF GoalsInv
  <1>7. ASSUME NEW i \in DOMAIN clauses PROVE Sure(Range(clauses[i]))
    <2>1. i \in DOMAIN f.clauses /\ clauses[i] = Sorted(f.clauses[i])
      BY <1>1
    <2>2. f.clauses[i] \subseteq Lits /\ IsFiniteSet(f.clauses[i])
      BY <1>3, <2>1, LitsAre, LitsFinite
    <2>3. Range(clauses[i]) = f.clauses[i]
      BY <2>1, <2>2, SortedIs
    <2>4. f.clauses[i] \in input
      BY <1>3, <2>1
    <2>5. Entails(input, f.clauses[i])
      BY <2>4, EntailsMember
    <2>6. \A l \in f.clauses[i] : l \in Lits /\ var(l) \in LiveVars
      BY <1>2, <1>3, <2>1, <2>2, LiveAre
    <2> QED BY <2>3, <2>5, <2>6 DEF Sure, Follows
  <1>8. \A i \in 1 .. Len(m_trail) : FALSE
    BY <1>4
  <1>9. ~inconsistent /\ ~Pending
    BY <1>1 DEF inconsistent, Pending
  <1> QED BY <1>5, <1>6, <1>7, <1>8, <1>9 DEF SoundInv, TrailSound, ConflictSound

\* And in a step that changes nothing.
LEMMA StutterSound ==
  ASSUME SoundInv, UNCHANGED vars
  PROVE  SoundInv'
  <1>1. /\ UNCHANGED <<input, clauses, m_trail, m_justification, m_scopes, m_conflict, nvars,
                       m_user_scope_literals, m_assumptions, toassume, pc, m_lemma>>
    BY DEF vars, store, search, user, goal
  <1>2. ScopeLits' = ScopeLits /\ LiveVars' = LiveVars /\ \A c : Sure(c)' <=> Sure(c)
    BY <1>1, SureSame
  <1>3. GoalsInv'
    BY <1>1, <1>2 DEF SoundInv, GoalsInv, Goals
  <1>4. ConflictSound'
    <2>1. (inconsistent' <=> inconsistent) /\ scope_lvl' = scope_lvl /\ ConflictLits' = ConflictLits
      BY <1>1 DEF inconsistent, scope_lvl, ConflictLits, Reason
    <2>2. Refuted' = Refuted /\ Goals' = Goals
      BY <1>1, <1>2, <2>1 DEF Refuted, Goals
    <2>3. Clash' <=> Clash
      BY <1>1, <2>2 DEF Clash, True, lvl
    <2>4. Sure(Refuted)' <=> Sure(Refuted)
      BY <1>1, <1>2, <2>2 DEF Sure
    <2> QED BY <1>1, <2>1, <2>3, <2>4 DEF SoundInv, ConflictSound
  <1>5. /\ DOMAIN clauses' \subseteq DOMAIN clauses
        /\ \A id \in DOMAIN clauses' : Range(clauses'[id]) = Range(clauses[id])
    BY <1>1
  <1>6. /\ TrailSound(input, LiveVars, m_trail', m_justification')
        /\ \A i \in 1 .. Len(m_trail') : var(m_trail'[i]) \in 1 .. nvars
    BY <1>1 DEF SoundInv
  <1>7. Pending' => Sure(Range(m_lemma'))
    BY <1>1 DEF SoundInv, Pending
  <1> QED BY <1>1, <1>3, <1>4, <1>5, <1>6, <1>7, StepSound

\* Every step of the solver and of its user keeps it.
LEMMA NextSound ==
  ASSUME SearchInv, SoundInv, [Next]_vars
  PROVE  SoundInv'
  <1>1. CASE Search
    <2>1. CASE Dequeue
      BY <2>1, DequeueSound
    <2>2. ASSUME NEW id \in todo, VisitShort(id) \/ VisitLong(id)
          PROVE  SoundInv'
      BY <2>2, VisitsDo, VisitIsSound
    <2>3. CASE init_assumptions \/ reinit_assumptions
      BY <2>3, OpenSound
    <2>4. CASE Assume
      BY <2>4, AssumeSound
    <2>5. CASE Assumed \/ Propagated \/ BaseConflict \/ final_check \/ Cancel \/ ConflictIsFinal
      BY <2>5, EndsSound
    <2>6. CASE decide
      BY <2>6, decideSound
    <2>7. CASE do_restart \/ Backtrack
      BY <2>7, ClosedSound
    <2>8. CASE do_gc
      BY <2>8, do_gcSound
    <2>9. CASE learn_lemma_and_backjump
      BY <2>9, BackjumpSound
    <2>10. CASE Learn
      BY <2>10, LearnSound
    <2> QED BY <1>1, <2>1, <2>2, <2>3, <2>4, <2>5, <2>6, <2>7, <2>8, <2>9, <2>10 DEF Search
  <1>2. CASE User
    <2>1. ASSUME NEW lits \in Assumptions, check(lits) PROVE SoundInv'
      BY <2>1, checkSound
    <2>2. ASSUME NEW c \in Extra, mk_clause(c) PROVE SoundInv'
      BY <2>2, mk_clauseSound
    <2> QED BY <1>2, <2>1, <2>2, BackToBaseSound, user_pushSound, user_popSound DEF User
  <1>3. CASE UNCHANGED vars
    BY <1>3, StutterSound
  <1> QED BY <1>1, <1>2, <1>3 DEF Next

\* What holds in all assignments holds in those of the variables in use.
LEMMA ImpliedByModels ==
  ASSUME UserInv, NEW c, Entails(input, c), NEW A \in Models(input)
  PROVE  \E l \in c : IF l > 0 THEN l \in A ELSE -l \notin A
  <1>1. A \in SUBSET Vars
    <2>1. 1 .. nvars \subseteq Vars
      BY SatSolverAssumption DEF UserInv, Vars
    <2> QED BY <2>1 DEF Models
  <1>2. Sat(A, input)
    BY DEF Models, Sat, Holds
  <1> QED BY <1>1, <1>2 DEF Entails, Holds

\* What it says of lemmas and of literals of level 0.
LEMMA LemmasHold ==
  ASSUME SearchInv, SoundInv
  PROVE  LemmasImplied
  <1> DEFINE Implied(c) == \A A \in Models(input) : \E l \in c : IF l > 0 THEN l \in A ELSE -l \notin A
  <1>1. UserInv /\ TrailInv /\ learned \subseteq DOMAIN clauses
    BY DEF SearchInv, StoreInv
  <1>2. ASSUME NEW c, Entails(input, c) PROVE Implied(c)
    BY <1>1, <1>2, ImpliedByModels
  <1> HIDE DEF Implied
  <1>3. ASSUME NEW id \in learned PROVE Implied(Range(clauses[id]))
    <2>1. Entails(input, Range(clauses[id]))
      BY <1>1 DEF SoundInv, Sure, Follows
    <2> QED BY <1>2, <2>1
  <1>4. ASSUME NEW i \in DOMAIN m_trail, lvl(m_trail[i]) = 0, var(m_trail[i]) \notin Retired
        PROVE  Implied({m_trail[i]})
    <2>1. i \in 1 .. Len(m_trail) /\ LvlIn(m_justification, m_trail[i]) = 0
      <3>1. DOMAIN m_trail = 1 .. Len(m_trail)
        BY <1>1, TrailFacts DEF TrailInv
      <3> QED BY <1>4, <3>1, LvlIs
    <2>2. var(m_trail[i]) \in LiveVars
      <3>1. var(m_trail[i]) \in 1 .. nvars
        BY <2>1 DEF SoundInv
      <3>2. NumVars \in Nat /\ nvars \in Nat
        BY <1>1, LiveAre, SatSolverAssumption
      <3>3. \A v \in 1 .. nvars : v \in 1 .. NumVars \/ v \in NumVars + 1 .. nvars
        BY <3>2
      <3> QED BY <1>4, <3>1, <3>3 DEF Retired, LiveVars
    <2>3. Entails(input, {m_trail[i]})
      BY <2>1, <2>2 DEF SoundInv, TrailSound
    <2> QED BY <1>2, <2>3
  <1>5. ASSUME m_lemma # <<>> PROVE Implied(Range(m_lemma))
    <2>1. Entails(input, Range(m_lemma))
      BY <1>5 DEF SearchInv, LemmaInv, SoundInv, Sure, Follows
    <2> QED BY <1>2, <2>1
  <1> QED BY <1>3, <1>4, <1>5 DEF LemmasImplied, Implied

\* Every lemma, the one conflict analysis has just built, and every literal of
\* level 0 (of a variable still in use) follow from the clauses that are asserted,
\* in every run (resolve_conflict_core, minimize_lemma, learn_lemma_and_backjump;
\* user_pop deletes what depended on a scope).
THEOREM LemmasFollow == Spec => []LemmasImplied
  <1>1. Init => SearchInv /\ SoundInv
    BY InitInv, InitSound
  <1>2. SearchInv /\ SoundInv /\ [Next]_vars => (SearchInv /\ SoundInv)'
    BY NextInv, NextSound
  <1>3. SearchInv /\ SoundInv => LemmasImplied
    BY LemmasHold
  <1> QED BY <1>1, <1>2, <1>3, PTL DEF Spec

-----------------------------------------------------------------------------
(***************************************************************************)
(* What answers rest on: no clause that was asserted is lost, assumptions  *)
(* are made before the search begins, and hold while it lasts.             *)
(***************************************************************************)
\* Every clause of the user is in the store without the literals that are false,
\* or is true at the base level, or the clauses are refuted.
Covered(c) == \/ \E id \in DOMAIN clauses \ learned : Range(clauses[id]) \subseteq c
              \/ \E l \in c : -l \in c \/ (True(l) /\ lvl(l) = 0)
              \/ inconsistent /\ scope_lvl = 0
CoverInv   == \A c \in input : Covered(c)

\* Assumptions are true when the search runs, unless one of them was false.
Met(g) == True(g) /\ lvl(g) <= 1
Refusal == inconsistent /\ scope_lvl <= 1
MetInv ==
  /\ pc = "base" => m_assumptions = <<>> /\ Neg(ScopeLits) \subseteq Range(toassume)
  /\ pc \in {"assume", "reassume"} =>
       inconsistent \/ \A g \in Goals : Met(g) \/ g \in Range(toassume)
  /\ pc \in {"first", "reprop", "learn", "search"} => (\A g \in Goals : Met(g)) \/ Refusal
  /\ pc \in {"first", "reprop"} => scope_lvl = 1
  /\ pc \in {"learn", "search"} /\ tracking_assumptions => scope_lvl > 0 \/ inconsistent

\* What is assigned at level 1 without a reason is an assumption.
Given == {l \in Range(m_trail) : m_justification[var(l)] = None(1)}
GivenInv == pc \notin {"idle", "base", "popped"} /\ (tracking_assumptions \/ pc = "assume") =>
              Given \subseteq Goals

\* The assumptions of a check do not contradict each other, if no list does.
Consistent == \A a \in Assumptions : \A l \in Range(a) : -l \notin Range(a)
Chosen     == (Range(m_assumptions) \cup Range(toassume)) \cap Problem
ChosenInv  == Consistent => \A l \in Chosen : -l \notin Chosen

AnswerInv == /\ CoverInv /\ MetInv /\ GivenInv /\ ChosenInv
             /\ result # "none" => pc = "idle"

\* The two parts of AnswerRight: cores are right if assumptions are consistent.
ModelRight == result = "sat" => {v \in 1 .. nvars : True(v)} \in
                                  Models(input \cup Scopes \cup Units(Range(m_assumptions)))
RightInv   == ModelRight /\ (Consistent => CoreRefuted)

\* What the assigned literals make of the variables.
Values == {v \in 1 .. nvars : True(v)}

\* Every true literal holds in them.
LEMMA TrueHolds ==
  ASSUME TrailInv, NEW l \in Lits, var(l) \in 1 .. nvars, True(l)
  PROVE  Holds(Values, l)
  <1>1. l > 0 => var(l) = l
    BY DEF var
  <1>2. True(-l) => FALSE
    BY ValuesAre DEF TrailInv, False
  <1> QED BY <1>1, <1>2 DEF Holds, Values

\* A clause that is a literal and its negation holds always.
LEMMA AlwaysHolds ==
  ASSUME NEW A, NEW l \in Lits, NEW c, l \in c, -l \in c
  PROVE  \E k \in c : Holds(A, k)
  BY HoldsNeg

\* When all variables are assigned and propagation has ended, every clause holds.
LEMMA ClausesHold ==
  ASSUME SearchInv, PropInv, SoundInv, CoverInv, Fixpoint, Assigned = 1 .. nvars
  PROVE  Sat(Values, input)
  <1> SUFFICES ASSUME NEW c \in input PROVE \E l \in c : Holds(Values, l)
    BY DEF Sat
  <1>0. TrailInv /\ UserInv
    BY DEF SearchInv
  <1>1. \A k \in c : k \in Lits /\ var(k) \in 1 .. nvars
    <2>1. c \subseteq Problem \cup ScopeLits
      BY DEF SoundInv, InputInv
    <2>2. \A k \in Problem : k \in Lits
      BY LitsAre
    <2>3. ScopeLits \subseteq Vars
      BY <1>0, NegScopesAre
    <2>4. Vars \subseteq Lits
      BY DEF Lits
    <2>5. LiveVars \subseteq 1 .. nvars /\ \A k \in Problem \cup ScopeLits : var(k) \in LiveVars
      BY <1>0, LiveAre
    <2> QED BY <2>1, <2>2, <2>3, <2>4, <2>5
  <1>2. ~inconsistent
    BY DEF Fixpoint
  <1>3. CASE \E l \in c : -l \in c
    BY <1>1, <1>3, AlwaysHolds
  <1>4. CASE \E l \in c : True(l)
    BY <1>0, <1>1, <1>4, TrueHolds
  <1>5. CASE \E id \in DOMAIN clauses \ learned : Range(clauses[id]) \subseteq c
    <2>1. PICK id \in DOMAIN clauses : Range(clauses[id]) \subseteq c
      BY <1>5
    <2>2. \/ \E l \in Range(clauses[id]) : True(l)
          \/ Cardinality({l \in Range(clauses[id]) : Undef(l)}) > 1
      BY PropagationHolds DEF NoMissedPropagation
    <2>3. \A l \in Range(clauses[id]) : ~Undef(l)
      BY <1>1, <2>1 DEF Undef
    <2>4. {l \in Range(clauses[id]) : Undef(l)} = {}
      BY <2>3
    <2>5. Cardinality({l \in Range(clauses[id]) : Undef(l)}) = 0
      BY <2>4, FS_EmptySet
    <2> QED BY <1>4, <2>1, <2>2, <2>5
  <1> QED BY <1>2, <1>3, <1>4, <1>5 DEF CoverInv, Covered

\* A set of clauses is satisfied by an assignment, as Models says it.
LEMMA ModelsAre ==
  ASSUME NEW S, NEW A
  PROVE  A \in Models(S) <=> A \in SUBSET (1 .. nvars) /\ Sat(A, S)
  BY DEF Models, Sat, Holds

\* The clauses, the scopes and the assumptions hold.
LEMMA GoalsHold ==
  ASSUME NEW A, NEW S, Sat(A, input \cup Scopes \cup Units(S))
  PROVE  /\ Sat(A, input) /\ \A l \in S \cup Neg(ScopeLits) : Holds(A, l)
  <1>1. \A l \in S : {l} \in Units(S)
    BY DEF Units
  <1>2. \A l \in Neg(ScopeLits) : {l} \in Scopes
    BY DEF Scopes, Neg
  <1>3. ASSUME NEW l \in S \cup Neg(ScopeLits) PROVE Holds(A, l)
    <2>1. PICK c \in input \cup Scopes \cup Units(S) : c = {l}
      BY <1>1, <1>2
    <2> QED BY <2>1 DEF Sat
  <1> QED BY <1>3 DEF Sat

\* And the other way round.
LEMMA HoldGoals ==
  ASSUME NEW A, NEW S, Sat(A, input), \A l \in S \cup Neg(ScopeLits) : Holds(A, l)
  PROVE  Sat(A, input \cup Scopes \cup Units(S))
  BY DEF Sat, Units, Scopes, Neg

\* A model.
LEMMA SatAnswer ==
  ASSUME SearchInv, PropInv, SoundInv, AnswerInv, final_check
  PROVE  RightInv'
  <1>1. pc = "search" /\ Fixpoint /\ Assigned = 1 .. nvars /\ result' = "sat"
        /\ UNCHANGED <<store, search, user, m_assumptions>>
    BY DEF final_check, Finish
  <1>2. Sat(Values, input)
    BY <1>1, ClausesHold DEF AnswerInv
  <1>3. \A g \in Goals : True(g)
    <2>1. ~inconsistent
      BY <1>1 DEF Fixpoint
    <2> QED BY <1>1, <2>1 DEF AnswerInv, MetInv, Refusal, Met
  <1>4. ASSUME NEW g \in Goals PROVE Holds(Values, g)
    <2>1. g \in Range(m_trail)
      BY <1>3, ValuesAre DEF SearchInv, TrailInv
    <2>2. g \in Lits /\ var(g) \in Assigned
      <3>1. TrailOK(m_trail, m_justification)
        BY DEF SearchInv, TrailInv
      <3>2. Range(m_trail) \subseteq Lits /\ DOMAIN m_justification = VarsOf(Range(m_trail))
        BY <3>1, TrailFacts
      <3> QED BY <2>1, <3>2 DEF VarsOf, Assigned
    <2> QED BY <1>1, <1>3, <2>2, TrueHolds DEF SearchInv
  <1>5. Sat(Values, input \cup Scopes \cup Units(Range(m_assumptions)))
    BY <1>2, <1>4, HoldGoals DEF Goals
  <1>6. Values \in Models(input \cup Scopes \cup Units(Range(m_assumptions)))
    BY <1>5, ModelsAre DEF Values
  <1>7. /\ input' = input /\ m_user_scope_literals' = m_user_scope_literals /\ nvars' = nvars
        /\ m_assumptions' = m_assumptions /\ m_trail' = m_trail
    BY <1>1 DEF store, search, user
  <1>8. {v \in 1 .. nvars : True(v)}' = Values
    BY <1>7 DEF Values, True
  <1>9. Models(input \cup Scopes \cup Units(Range(m_assumptions)))'
          = Models(input \cup Scopes \cup Units(Range(m_assumptions)))
    BY <1>7 DEF Models, Scopes, Units, ScopeLits
  <1> QED BY <1>1, <1>6, <1>8, <1>9 DEF RightInv, ModelRight, CoreRefuted

-----------------------------------------------------------------------------
(***************************************************************************)
(* Unsat cores: what unsat_core reaches holds in every model of the core,  *)
(* by induction along the trail.                                           *)
(***************************************************************************)
Start == IF at_base_lvl THEN Len(m_trail) ELSE m_scopes[1]
ClosedAt(M) ==
  /\ ConflictLits \subseteq M
  /\ \A i \in Start + 1 .. Len(m_trail) :
       m_trail[i] \in M /\ lvl(m_trail[i]) = m_conflict_lvl => Antecedents(m_trail[i]) \subseteq M
Reached == {l \in Range(m_trail) : \A M \in SUBSET Range(m_trail) : ClosedAt(M) => l \in M}
CoreOf  == (Reached \cup (IF m_conflict.not_l = 0 THEN {} ELSE {-m_conflict.not_l}))
             \cap Range(m_assumptions)

\* The core is what is reached of the assumptions.
LEMMA CoreIs ==
  unsat_core = IF m_conflict_lvl = 0 THEN {}
               ELSE IF Cardinality(CoreOf) > 1 THEN Above(CoreOf) ELSE CoreOf
  BY DEF unsat_core, CoreOf, Reached, ClosedAt, Start

\* What is reached is closed, and the least such set.
LEMMA ReachedIs ==
  ASSUME TrailInv, ReasonInv, ConflictLits \subseteq Range(m_trail), scope_lvl > 0
  PROVE  /\ Reached \subseteq Range(m_trail) /\ ConflictLits \subseteq Reached
         /\ ClosedAt(Reached)
         /\ \A M \in SUBSET Range(m_trail) : ClosedAt(M) => Reached \subseteq M
  <1>1. Reached \subseteq Range(m_trail) /\ ConflictLits \subseteq Reached
    BY DEF Reached, ClosedAt
  <1>2. ASSUME NEW i \in Start + 1 .. Len(m_trail), m_trail[i] \in Reached,
               lvl(m_trail[i]) = m_conflict_lvl, NEW k \in Antecedents(m_trail[i])
        PROVE  k \in Reached
    <2>1. i \in 1 .. Len(m_trail)
      <3>1. Start \in Nat /\ Len(m_trail) \in Nat
        <4>1. Len(m_trail) \in Nat /\ m_scopes \in Seq(Nat)
          BY TrailFacts DEF TrailInv, ScopesOK
        <4> QED BY <4>1 DEF Start, scope_lvl, at_base_lvl
      <3> QED BY <3>1
    <2>2. k \in Range(m_trail)
      BY <2>1, AntecedentsAre
    <2>3. ASSUME NEW M \in SUBSET Range(m_trail), ClosedAt(M) PROVE k \in M
      BY <1>2, <2>3 DEF ClosedAt, Reached
    <2> QED BY <2>2, <2>3 DEF Reached
  <1>3. \A M \in SUBSET Range(m_trail) : ClosedAt(M) => Reached \subseteq M
    BY DEF Reached
  <1> QED BY <1>1, <1>2, <1>3 DEF ClosedAt

\* Literals of level 1 or less, of variables in use.
Within == {l \in Range(m_trail) : lvl(l) <= 1 /\ var(l) \in LiveVars}

\* A literal without a reason has no antecedents.
LEMMA NoAntecedents ==
  ASSUME NEW l, NEW n, m_justification[var(l)] = None(n)
  PROVE  Antecedents(l) = {}
  BY DEF Antecedents, Reason, None, Just

\* They are closed.
LEMMA WithinClosed ==
  ASSUME SearchInv, SoundInv, ConflictLits \subseteq Within, scope_lvl > 0
  PROVE  ClosedAt(Within)
  <1>0. TrailInv /\ ReasonInv /\ StoreInv
    BY DEF SearchInv
  <1> SUFFICES ASSUME NEW i \in Start + 1 .. Len(m_trail), m_trail[i] \in Within,
                      NEW k \in Antecedents(m_trail[i])
               PROVE  k \in Within
    BY DEF ClosedAt
  <1>1. i \in 1 .. Len(m_trail)
    <2>1. Start \in Nat /\ Len(m_trail) \in Nat
      <3>1. Len(m_trail) \in Nat /\ m_scopes \in Seq(Nat)
        BY <1>0, TrailFacts DEF TrailInv, ScopesOK
      <3> QED BY <3>1 DEF Start, scope_lvl, at_base_lvl
    <2> QED BY <2>1
  <1>2. k \in Range(m_trail) /\ lvl(k) <= lvl(m_trail[i])
    BY <1>0, <1>1, AntecedentsAre
  <1>3. k \in Lits /\ m_trail[i] \in Lits
    <2>1. TrailOK(m_trail, m_justification)
      BY <1>0 DEF TrailInv
    <2>2. Range(m_trail) \subseteq Lits /\ \A j \in 1 .. Len(m_trail) : m_trail[j] \in Lits
      BY <2>1, TrailFacts
    <2> QED BY <1>1, <1>2, <2>2
  <1>4. lvl(k) \in Nat /\ lvl(m_trail[i]) \in Nat
    <2>1. TrailOK(m_trail, m_justification)
      BY <1>0 DEF TrailInv
    <2>2. \A j \in 1 .. Len(m_trail) : LvlIn(m_justification, m_trail[j]) \in Nat
      BY <2>1, TrailFacts
    <2>3. PICK j \in 1 .. Len(m_trail) : m_trail[j] = k
      <3>1. Range(m_trail) = {m_trail[j] : j \in 1 .. Len(m_trail)}
        BY <2>1, TrailFacts
      <3> QED BY <1>2, <3>1
    <2>4. lvl(k) = LvlIn(m_justification, k)
          /\ lvl(m_trail[i]) = LvlIn(m_justification, m_trail[i])
      BY LvlIs
    <2> QED BY <1>1, <2>2, <2>3, <2>4
  <1>5. lvl(k) <= 1
    BY <1>2, <1>4 DEF Within
  <1>6. m_justification[var(m_trail[i])] # None(lvl(m_trail[i]))
    BY NoAntecedents
  <1>7. Sure({m_trail[i]} \cup Reason(m_justification[var(m_trail[i])], m_trail[i]))
    BY <1>0, <1>1, <1>6, SureReason
  <1>8. PICK r \in Reason(m_justification[var(m_trail[i])], m_trail[i]) : k = -r
    BY DEF Antecedents
  <1>9. var(r) \in LiveVars /\ r \in Lits
    BY <1>7 DEF Sure, Follows
  <1>10. var(k) = var(r)
    BY <1>8, <1>9, LitsAre
  <1> QED BY <1>2, <1>5, <1>9, <1>10 DEF Within

\* A model in which the assumptions among them hold makes all that is reached true.
LEMMA ReachedHolds ==
  ASSUME SearchInv, SoundInv, ConflictLits \subseteq Within, scope_lvl > 0, m_conflict_lvl = 1,
         NEW A \in SUBSET Vars, Sat(A, input), \A l \in Reached \cap Given : Holds(A, l)
  PROVE  \A l \in Reached : Holds(A, l)
  <1>0. TrailInv /\ ReasonInv /\ StoreInv /\ TrailOK(m_trail, m_justification)
    BY DEF SearchInv, TrailInv
  <1>1. Reached \subseteq Range(m_trail) /\ ClosedAt(Reached)
    <2>1. ConflictLits \subseteq Range(m_trail)
      BY DEF Within
    <2> QED BY <1>0, <2>1, ReachedIs
  <1>2. Reached \subseteq Within
    BY WithinClosed DEF Reached, Within
  <1>3. Range(m_trail) = {m_trail[i] : i \in 1 .. Len(m_trail)} /\ Len(m_trail) \in Nat
        /\ \A i \in 1 .. Len(m_trail) : m_trail[i] \in Lits /\ LvlIn(m_justification, m_trail[i]) \in Nat
    BY <1>0, TrailFacts
  <1> DEFINE P == {i \in 1 .. Len(m_trail) : m_trail[i] \in Reached /\ ~Holds(A, m_trail[i])}
  <1>4. SUFFICES ASSUME P # {} PROVE FALSE
    BY <1>1, <1>3
  <1>5. PICK i \in P : \A j \in P : i <= j
    <2>1. P \subseteq Nat
      OBVIOUS
    <2> HIDE DEF P
    <2> QED BY <1>4, <2>1, LeastOf
  <1>6. i \in 1 .. Len(m_trail) /\ m_trail[i] \in Reached /\ ~Holds(A, m_trail[i])
    BY <1>5
  <1>7. \A j \in 1 .. i - 1 : m_trail[j] \in Reached => Holds(A, m_trail[j])
    <2>1. \A j \in 1 .. i - 1 : j \in 1 .. Len(m_trail) /\ ~(i <= j)
      BY <1>3, <1>6
    <2> QED BY <1>5, <2>1
  <1> HIDE DEF P
  <1>8. lvl(m_trail[i]) \in Nat /\ lvl(m_trail[i]) <= 1 /\ var(m_trail[i]) \in LiveVars
    BY <1>2, <1>3, <1>6, LvlIs DEF Within
  <1>9. CASE lvl(m_trail[i]) = 0
    <2>1. Entails(input, {m_trail[i]})
      BY <1>6, <1>8, <1>9, LvlIs DEF SoundInv, TrailSound
    <2> QED BY <1>6, <2>1 DEF Entails
  <1>10. CASE lvl(m_trail[i]) = 1 /\ m_justification[var(m_trail[i])] = None(1)
    BY <1>1, <1>6, <1>10 DEF Given
  <1>11. CASE lvl(m_trail[i]) = 1 /\ m_justification[var(m_trail[i])] # None(1)
    <2>1. Sure({m_trail[i]} \cup Reason(m_justification[var(m_trail[i])], m_trail[i]))
      BY <1>0, <1>6, <1>11, SureReason
    <2>2. PICK r \in {m_trail[i]} \cup Reason(m_justification[var(m_trail[i])], m_trail[i]) : Holds(A, r)
      BY <2>1 DEF Sure, Follows, Entails
    <2>3. r \in Lits
      BY <2>1 DEF Sure, Follows
    <2>4. -r \in Antecedents(m_trail[i])
      BY <1>6, <2>2 DEF Antecedents
    <2>5. i \in Start + 1 .. Len(m_trail)
      <3>1. m_scopes[1] \in Nat /\ Len(m_scopes) >= 1 /\ Start = m_scopes[1]
        <4>1. m_scopes \in Seq(Nat) /\ Len(m_scopes) > 0
          BY <1>0 DEF TrailInv, ScopesOK, scope_lvl
        <4> QED BY <4>1 DEF Start, at_base_lvl, scope_lvl
      <3>2. i <= m_scopes[1] => LvlIn(m_justification, m_trail[i]) < 1
        <4>1. \A k \in 1 .. Len(m_scopes) : \A j \in 1 .. m_scopes[k] : LvlIn(m_justification, m_trail[j]) < k
          BY <1>0 DEF TrailInv, ScopesOK
        <4>2. 1 \in 1 .. Len(m_scopes)
          BY <3>1
        <4> QED BY <1>3, <1>6, <3>1, <4>1, <4>2
      <3> QED BY <1>3, <1>6, <1>11, <3>1, <3>2, LvlIs
    <2>6. -r \in Reached
      BY <1>1, <1>6, <1>11, <2>4, <2>5 DEF ClosedAt
    <2>7. PICK j \in 1 .. i - 1 : m_trail[j] = -r
      BY <1>0, <1>6, <2>4, AntecedentsAre
    <2>8. Holds(A, -r)
      BY <1>7, <2>6, <2>7
    <2> QED BY <2>2, <2>3, <2>8, HoldsNeg
  <1>12. lvl(m_trail[i]) = 0 \/ lvl(m_trail[i]) = 1
    BY <1>8
  <1> QED BY <1>9, <1>10, <1>11, <1>12

\* An assumption that is false: what the conflict is made of.
LEMMA ClashIs ==
  ASSUME TrailInv, UserInv, SoundInv, Clash
  PROVE  /\ m_conflict_lvl = 1 /\ ConflictLits = {m_conflict.not_l}
         /\ m_conflict.not_l \in Within /\ m_conflict.not_l # 0
         /\ lvl(m_conflict.not_l) \in {0, 1} /\ lvl(-m_conflict.not_l) = lvl(m_conflict.not_l)
         /\ m_conflict.not_l \in Lits
  <1> DEFINE n == m_conflict.not_l
  <1>0. TrailOK(m_trail, m_justification) /\ ScopesOK(m_trail, m_justification, m_scopes)
    BY DEF TrailInv
  <1>1. /\ m_conflict.js = None(1) /\ n \in Lits /\ True(n) /\ lvl(n) <= 1 /\ -n \in Goals
    BY DEF Clash
  <1> HIDE DEF n
  <1>2. n # 0 /\ var(-n) = var(n) /\ -(-n) = n
    BY <1>1, LitsAre
  <1>3. n \in Range(m_trail) /\ var(n) \in Assigned
    BY <1>0, <1>1, ValuesAre
  <1>4. lvl(n) \in Nat /\ lvl(-n) = lvl(n)
    <2>1. scope_lvl \in Nat /\ lvl(n) \in 0 .. scope_lvl
      BY <1>0, <1>1, <1>3, LevelsAre
    <2> QED BY <1>2, <2>1 DEF lvl
  <1>5. \A l : Reason(m_conflict.js, l) = {}
    BY <1>1 DEF Reason, None, Just
  <1>6. ConflictLits = {n}
    BY <1>2, <1>5 DEF ConflictLits, n
  <1>7. Highest({n}) = lvl(n)
    <2>1. \E l \in {n} : lvl(l) = Highest({n})
      BY <1>0, <1>1, <1>3, HighestIs
    <2> QED BY <2>1
  <1>8. m_conflict_lvl = Max({lvl(n), 1})
    <2>1. m_conflict.js.lvl = 1
      BY <1>1 DEF None, Just
    <2> QED BY <1>5, <1>6, <1>7, <2>1 DEF m_conflict_lvl
  <1>9. m_conflict_lvl = 1
    <2>1. {lvl(n), 1} \subseteq Nat /\ {lvl(n), 1} # {} /\ \A k \in {lvl(n), 1} : k <= 1
      BY <1>1, <1>4
    <2>2. PICK S : S = {lvl(n), 1}
      OBVIOUS
    <2>3. 1 \in S /\ S # {} /\ S \subseteq 0 .. 1
      BY <2>1, <2>2
    <2>4. Max(S) \in S /\ \A k \in S : k <= Max(S)
      BY <2>3, MaxIs
    <2>5. Max(S) = 1
      <3>1. \A m \in 0 .. 1 : 1 <= m => m = 1
        OBVIOUS
      <3> QED BY <2>3, <2>4, <3>1
    <2> QED BY <1>8, <2>2, <2>5
  <1>10. var(n) \in LiveVars
    <2>1. -n \in Problem \/ -n \in Neg(ScopeLits)
      BY <1>1 DEF Goals, SoundInv, GoalsInv
    <2>2. var(-n) \in LiveVars
      BY <2>1, LiveAre
    <2> QED BY <1>2, <2>2
  <1> QED BY <1>1, <1>2, <1>3, <1>4, <1>6, <1>9, <1>10 DEF Within, n

\* A conflict that depends on nothing.
LEMMA NothingLeft ==
  ASSUME SearchInv, SoundInv, pc \in {"first", "search"}, inconsistent,
         m_conflict_lvl = 0 \/ scope_lvl = 0
  PROVE  Entails(input, {})
  <1>0. TrailInv /\ UserInv /\ TrailOK(m_trail, m_justification)
    BY DEF SearchInv, TrailInv
  <1>1. CASE scope_lvl = 0
    BY <1>1 DEF SoundInv, ConflictSound
  <1>2. CASE scope_lvl # 0 /\ m_conflict_lvl = 0
    <2>1. Sure(Refuted) \/ Clash
      BY <1>2 DEF SoundInv, ConflictSound
    <2>2. ~Clash
      BY <1>0, <1>2, ClashIs
    <2>3. ConflictAt(clauses, m_trail, m_conflict, search_lvl)
      BY DEF SearchInv, ConflictInv
    <2>4. ConflictLits \subseteq Range(m_trail) /\ \A l \in ConflictLits : lvl(l) <= 0
      BY <1>0, <1>2, <2>3, ConflictFacts
    <2>5. \A k \in Refuted : -k \in Range(m_trail) /\ lvl(k) = 0
      <3>1. SUFFICES ASSUME NEW l \in ConflictLits
                     PROVE  -(-l) \in Range(m_trail) /\ lvl(-l) = 0
        BY DEF Refuted, Neg
      <3>2. Range(m_trail) \subseteq Lits
        BY <1>0, TrailFacts
      <3>3. l \in Lits /\ l \in Range(m_trail) /\ -(-l) = l
        BY <2>4, <3>2, LitsAre
      <3>4. var(l) \in Assigned
        BY <1>0, <3>3, ValuesAre
      <3>5. scope_lvl \in Nat /\ lvl(l) \in 0 .. scope_lvl /\ lvl(-l) = lvl(l)
        BY <1>0, <3>3, <3>4, LevelsAre DEF TrailInv
      <3>6. lvl(l) <= 0
        BY <2>4
      <3> QED BY <3>3, <3>5, <3>6
    <2>6. Sure({})
      BY <1>0, <2>1, <2>2, <2>5, SureDrop
    <2> QED BY <2>6 DEF Sure, Follows
  <1> QED BY <1>1, <1>2

\* The literals of a conflict of level 1.
LEMMA ConflictWithin ==
  ASSUME SearchInv, SoundInv, pc \in {"first", "search"}, inconsistent, scope_lvl # 0, m_conflict_lvl = 1
  PROVE  ConflictLits \subseteq Within
  <1>0. TrailInv /\ UserInv /\ TrailOK(m_trail, m_justification)
    BY DEF SearchInv, TrailInv
  <1>1. CASE Clash
    BY <1>0, <1>1, ClashIs
  <1>2. CASE Sure(Refuted)
    <2>1. ConflictAt(clauses, m_trail, m_conflict, search_lvl)
      BY DEF SearchInv, ConflictInv
    <2>2. ConflictLits \subseteq Range(m_trail) /\ \A l \in ConflictLits : lvl(l) <= 1
      BY <1>0, <2>1, ConflictFacts
    <2>3. ASSUME NEW l \in ConflictLits PROVE var(l) \in LiveVars
      <3>1. -l \in Refuted
        BY DEF Refuted, Neg
      <3>2. var(-l) \in LiveVars
        BY <1>2, <3>1 DEF Sure, Follows
      <3>3. l \in Lits
        BY <1>0, <2>2, TrailFacts
      <3> QED BY <3>2, <3>3, LitsAre
    <2> QED BY <2>2, <2>3 DEF Within
  <1> QED BY <1>1, <1>2 DEF SoundInv, ConflictSound

\* A literal is of level 0 or 1, if what is reached of it is one of the two.
LEMMA ReachedAlone ==
  ASSUME TrailInv, NEW n \in Range(m_trail), ConflictLits = {n}, lvl(n) = 0, m_conflict_lvl = 1
  PROVE  Reached \subseteq {n}
  <1>1. \A i : m_trail[i] \in {n} /\ lvl(m_trail[i]) = m_conflict_lvl => FALSE
    OBVIOUS
  <1>2. ClosedAt({n})
    BY <1>1 DEF ClosedAt
  <1>3. {n} \in SUBSET Range(m_trail)
    OBVIOUS
  <1> QED BY <1>2, <1>3 DEF Reached

\* The core of a conflict of level 1 has no model.
LEMMA CoreRefutes ==
  ASSUME Consistent, SearchInv, SoundInv, AnswerInv, pc \in {"first", "search"}, inconsistent,
         tracking_assumptions, scope_lvl # 0, m_conflict_lvl = 1,
         NEW A \in SUBSET Vars, Sat(A, input), \A l \in unsat_core \cup Neg(ScopeLits) : Holds(A, l)
  PROVE  FALSE
  <1>0. TrailInv /\ ReasonInv /\ UserInv /\ TrailOK(m_trail, m_justification) /\ scope_lvl > 0
    <2>1. TrailInv /\ ReasonInv /\ UserInv
      BY DEF SearchInv
    <2>2. TrailOK(m_trail, m_justification) /\ scope_lvl \in Nat
      BY <2>1, LevelsAre DEF TrailInv
    <2> QED BY <2>1, <2>2
  <1>1. ConflictLits \subseteq Within
    BY ConflictWithin
  <1>2. Reached \subseteq Range(m_trail) /\ ConflictLits \subseteq Reached
    <2>1. ConflictLits \subseteq Range(m_trail)
      BY <1>1 DEF Within
    <2> QED BY <1>0, <2>1, ReachedIs
  <1>3. unsat_core = IF Cardinality(CoreOf) > 1 THEN Above(CoreOf) ELSE CoreOf
    BY CoreIs
  <1>4. \A l \in CoreOf : lvl(l) > 0 => l \in unsat_core
    BY <1>3 DEF Above
  <1>5. \A l \in Given : l \in Goals /\ lvl(l) = 1
    <2>1. Given \subseteq Goals
      BY DEF AnswerInv, GivenInv
    <2> QED BY <2>1 DEF Given, lvl, None, Just
  <1>6. ASSUME NEW l \in Reached \cap Given PROVE Holds(A, l)
    <2>1. l \in Goals /\ lvl(l) = 1
      BY <1>5
    <2>2. CASE l \in Range(m_assumptions)
      <3>1. l \in CoreOf
        BY <2>2 DEF CoreOf
      <3>2. l \in unsat_core
        BY <1>4, <2>1, <3>1
      <3> QED BY <3>2
    <2> QED BY <2>1, <2>2 DEF Goals
  <1>7. \A l \in Reached : Holds(A, l)
    BY <1>0, <1>1, <1>6, ReachedHolds
  <1>8. CASE Sure(Refuted)
    <2>1. PICK r \in Refuted : Holds(A, r)
      BY <1>8 DEF Sure, Follows, Entails
    <2>2. PICK l \in ConflictLits : r = -l
      BY DEF Refuted, Neg
    <2>3. l \in Lits
      BY <1>0, <1>2, TrailFacts
    <2> QED BY <1>2, <1>7, <2>1, <2>2, <2>3, HoldsNeg
  <1>9. CASE Clash
    <2> DEFINE n == m_conflict.not_l
    <2>1. /\ ConflictLits = {n} /\ n \in Within /\ n # 0 /\ n \in Lits
          /\ lvl(n) \in {0, 1} /\ lvl(-n) = lvl(n)
      BY <1>0, <1>9, ClashIs
    <2>2. -n \in Goals
      BY <1>9 DEF Clash
    <2>3. Holds(A, n)
      BY <1>2, <1>7, <2>1
    <2>4. ~Holds(A, -n)
      BY <2>1, <2>3, HoldsNeg
    <2>5. -n \in Range(m_assumptions)
      BY <2>2, <2>4 DEF Goals
    <2>6. -n \in CoreOf
      BY <2>1, <2>5 DEF CoreOf
    <2>7. CASE lvl(n) = 1
      BY <1>4, <2>1, <2>4, <2>6, <2>7
    <2>8. CASE lvl(n) = 0
      <3>1. Reached \subseteq {n}
        BY <1>0, <2>1, <2>8, ReachedAlone DEF Within
      <3>2. n \notin Range(m_assumptions)
        <4>1. -(-n) = n
          BY <2>1, LitsAre
        <4>2. Range(m_assumptions) \subseteq Chosen
          BY DEF SoundInv, GoalsInv, Chosen
        <4> QED BY <2>5, <4>1, <4>2 DEF AnswerInv, ChosenInv
      <3>3. CoreOf = {-n}
        BY <2>1, <2>6, <3>1, <3>2 DEF CoreOf
      <3>4. Cardinality(CoreOf) = 1
        BY <3>3, FS_Singleton
      <3>5. unsat_core = CoreOf
        BY <1>3, <3>4
      <3> QED BY <2>4, <2>6, <3>5
    <2> QED BY <2>1, <2>7, <2>8
  <1> QED BY <1>8, <1>9 DEF SoundInv, ConflictSound

\* An answer that no model contradicts.
LEMMA UnsatAnswer ==
  ASSUME SearchInv, SoundInv, NEW core, Finish("unsat", core),
         UNCHANGED <<store, search, user, m_assumptions>>, core \subseteq Range(m_assumptions),
         Consistent => \A A \in SUBSET Vars :
           Sat(A, input) /\ (\A l \in core \cup Neg(ScopeLits) : Holds(A, l)) => FALSE
  PROVE  RightInv'
  <1>1. /\ input' = input /\ m_user_scope_literals' = m_user_scope_literals /\ nvars' = nvars
        /\ m_assumptions' = m_assumptions /\ result' = "unsat" /\ m_core' = core
    BY DEF store, search, user, Finish
  <1>2. Consistent => Models(input \cup Scopes \cup Units(core)) = {}
    <2> SUFFICES ASSUME Consistent, NEW A \in Models(input \cup Scopes \cup Units(core)) PROVE FALSE
      OBVIOUS
    <2>1. \A B \in SUBSET Vars : Sat(B, input) /\ (\A l \in core \cup Neg(ScopeLits) : Holds(B, l)) => FALSE
      OBVIOUS
    <2>2. A \in SUBSET (1 .. nvars) /\ Sat(A, input \cup Scopes \cup Units(core))
      BY ModelsAre
    <2>3. A \in SUBSET Vars
      <3>1. 1 .. nvars \subseteq Vars
        BY SatSolverAssumption DEF SearchInv, UserInv, Vars
      <3> QED BY <2>2, <3>1
    <2>4. Sat(A, input) /\ \A l \in core \cup Neg(ScopeLits) : Holds(A, l)
      BY <2>2, GoalsHold
    <2> QED BY <2>1, <2>3, <2>4
  <1>3. Models(input \cup Scopes \cup Units(m_core))' = Models(input \cup Scopes \cup Units(core))
    BY <1>1 DEF Models, Scopes, Units, ScopeLits
  <1> QED BY <1>1, <1>2, <1>3 DEF RightInv, ModelRight, CoreRefuted, Consistent

\* Refuted clauses have no models.
LEMMA NoModels ==
  ASSUME Entails(input, {}), NEW A \in SUBSET Vars, Sat(A, input)
  PROVE  FALSE
  BY DEF Entails

\* A conflict that depends on assumptions at most ends the check.
LEMMA CoreAnswer ==
  ASSUME SearchInv, SoundInv, AnswerInv, ConflictIsFinal
  PROVE  RightInv'
  <1> DEFINE core == IF tracking_assumptions THEN unsat_core ELSE {}
  <1>1. /\ pc \in {"first", "search"} /\ inconsistent
        /\ m_conflict_lvl = 0 \/ (m_conflict_lvl <= 1 /\ tracking_assumptions)
        /\ Finish("unsat", core) /\ UNCHANGED <<store, search, user, m_assumptions>>
    BY DEF ConflictIsFinal
  <1>2. core \subseteq Range(m_assumptions)
    BY CoreIs DEF CoreOf, Above
  <1>3. ASSUME Consistent, NEW A \in SUBSET Vars, Sat(A, input), \A l \in core \cup Neg(ScopeLits) : Holds(A, l)
        PROVE  FALSE
    <2>1. CASE m_conflict_lvl = 0 \/ scope_lvl = 0
      <3>1. Entails(input, {})
        BY <1>1, <2>1, NothingLeft
      <3> QED BY <1>3, <3>1, NoModels
    <2>2. CASE m_conflict_lvl # 0 /\ scope_lvl # 0
      <3>1. m_conflict_lvl \in Nat
        <4>1. ConflictAt(clauses, m_trail, m_conflict, search_lvl)
          BY <1>1 DEF SearchInv, ConflictInv
        <4> QED BY <4>1, ConflictFacts DEF SearchInv
      <3>2. m_conflict_lvl = 1 /\ tracking_assumptions
        BY <1>1, <2>2, <3>1
      <3> QED BY <1>1, <1>3, <2>2, <3>2, CoreRefutes
    <2> QED BY <2>1, <2>2
  <1> HIDE DEF core
  <1> QED BY <1>1, <1>2, <1>3, UnsatAnswer

\* The clauses themselves are refuted, at the base level.
LEMMA BaseAnswer ==
  ASSUME SearchInv, SoundInv, BaseConflict
  PROVE  RightInv'
  <1>1. pc = "base" /\ inconsistent /\ Finish("unsat", {})
        /\ UNCHANGED <<store, search, user, m_assumptions>>
    BY DEF BaseConflict
  <1>2. Entails(input, {})
    <2>1. scope_lvl = 0
      BY <1>1 DEF SearchInv, PhaseInv
    <2> QED BY <1>1, <2>1 DEF SoundInv, ConflictSound
  <1>3. \A A \in SUBSET Vars : Sat(A, input) => FALSE
    BY <1>2, NoModels
  <1> QED BY <1>1, <1>3, UnsatAnswer

-----------------------------------------------------------------------------
(***************************************************************************)
(* What steps keep: literals of low levels, and clauses.                   *)
(***************************************************************************)
Keeps(n) == \A k : True(k) /\ lvl(k) <= n => True(k)' /\ lvl(k)' = lvl(k)

\* Clauses that are no lemmas, and part of c, stay and keep their literals.
KeepsPart(c) ==
  \A id \in DOMAIN clauses \ learned : Range(clauses[id]) \subseteq c =>
    id \in DOMAIN clauses' \ learned' /\ Range(clauses'[id]) = Range(clauses[id])

\* A literal is true if it is on the trail.
LEMMA TrueIs == \A k : (True(k) <=> k \in Range(m_trail)) /\ (True(k)' <=> k \in Range(m_trail'))
  BY DEF True, Range

\* What is assigned is the same.
LEMMA SameKeeps ==
  ASSUME UNCHANGED <<m_trail, m_justification>>
  PROVE  (\A n : Keeps(n)) /\ Given' = Given
  BY DEF Keeps, True, lvl, Given

\* The trail grows.
LEMMA GrowKeeps ==
  ASSUME TrailInv, NEW l \in Lits, Undef(l), NEW js \in Justs, assign_core(l, js)
  PROVE  /\ \A n : Keeps(n)
         /\ Given' \subseteq Given \cup {l} /\ (js # None(1) => Given' \subseteq Given)
         /\ True(l)' /\ lvl(l)' = js.lvl
  <1>0. TrailOK(m_trail, m_justification)
    BY DEF TrailInv
  <1>1. Extends(m_trail, m_justification, l, js, m_trail', m_justification')
    <2>1. var(l) \notin DOMAIN m_justification
      BY DEF Undef, Assigned
    <2>2. m_trail' = Append(m_trail, l) /\ m_justification' = Extended(m_justification, l, js)
      BY DEF assign_core, Extended, Norm, Assigned
    <2> QED BY <1>0, <2>1, <2>2, ExtendedIs
  <1>2. /\ Range(m_trail') = Range(m_trail) \cup {l}
        /\ \A v \in DOMAIN m_justification : m_justification'[v] = m_justification[v]
        /\ m_justification'[var(l)] = Norm(js) /\ LvlIn(m_justification', l) = js.lvl
    BY <1>1 DEF Extends
  <1>3. DOMAIN m_justification = VarsOf(Range(m_trail))
    BY <1>0, TrailFacts
  <1>4. \A k \in Range(m_trail) : m_justification'[var(k)] = m_justification[var(k)]
    BY <1>2, <1>3 DEF VarsOf
  <1>5. \A k : Keeps(k)
    BY <1>2, <1>4, TrueIs DEF Keeps, lvl
  <1>6. Given' \subseteq Given \cup {l}
    BY <1>2, <1>4 DEF Given
  <1>7. ASSUME js # None(1) PROVE Norm(js) # None(1)
    BY <1>7 DEF Norm, None, Just
  <1>8. js # None(1) => l \notin Given'
    BY <1>2, <1>7 DEF Given
  <1>9. l \notin Range(m_trail)
    BY <1>0, ValuesAre
  <1>10. True(l)' /\ lvl(l)' = js.lvl
    BY <1>2, TrueIs DEF lvl, LvlIn
  <1> QED BY <1>5, <1>6, <1>8, <1>10

\* Levels are closed.
LEMMA CutKeeps ==
  ASSUME TrailInv, NEW n \in 0 .. scope_lvl - 1, PopScopes(n)
  PROVE  Keeps(n) /\ Given' \subseteq Given /\ \A m \in 0 .. n : Keeps(m)
  <1>0. TrailOK(m_trail, m_justification) /\ scope_lvl \in Nat
    BY LevelsAre DEF TrailInv
  <1>1. /\ Range(m_trail') = {l \in Range(m_trail) : lvl(l) <= n}
        /\ \A l \in Lits : var(l) \in Assigned /\ lvl(l) <= n => var(l) \in DOMAIN m_justification'
        /\ \A v \in DOMAIN m_justification' : v \in Assigned /\ m_justification'[v] = m_justification[v]
    BY <1>0, CutInv
  <1>2. Range(m_trail) \subseteq Lits /\ DOMAIN m_justification = VarsOf(Range(m_trail))
    BY <1>0, TrailFacts
  <1>3. \A k \in Range(m_trail') : k \in Range(m_trail) /\ m_justification'[var(k)] = m_justification[var(k)]
    BY <1>1, <1>2 DEF VarsOf, Assigned
  <1>4. Keeps(n)
    BY <1>1, <1>3, TrueIs DEF Keeps, lvl
  <1>5. Given' \subseteq Given
    BY <1>3 DEF Given
  <1>6. \A k \in Range(m_trail) : lvl(k) \in Nat
    <2>1. \A i \in 1 .. Len(m_trail) : LvlIn(m_justification, m_trail[i]) \in Nat
      BY <1>0, TrailFacts
    <2>2. Range(m_trail) = {m_trail[i] : i \in 1 .. Len(m_trail)}
      BY <1>0, TrailFacts
    <2> QED BY <2>1, <2>2, LvlIs
  <1>7. ASSUME NEW m \in 0 .. n PROVE Keeps(m)
    <2>1. \A k \in Range(m_trail) : lvl(k) <= m => lvl(k) <= n
      BY <1>0, <1>6
    <2> QED BY <1>4, <2>1, TrueIs DEF Keeps
  <1> QED BY <1>4, <1>5, <1>7

\* A clause stays covered.
LEMMA CoverStep ==
  ASSUME NEW c, Covered(c), KeepsPart(c), Keeps(0),
         inconsistent /\ scope_lvl = 0 => inconsistent' /\ scope_lvl' = 0
  PROVE  Covered(c)'
  <1>1. CASE \E id \in DOMAIN clauses \ learned : Range(clauses[id]) \subseteq c
    <2>1. PICK id \in DOMAIN clauses \ learned : Range(clauses[id]) \subseteq c
      BY <1>1
    <2>2. id \in DOMAIN clauses' \ learned' /\ Range(clauses'[id]) \subseteq c
      BY <2>1 DEF KeepsPart
    <2> QED BY <2>2 DEF Covered
  <1>2. CASE \E l \in c : -l \in c \/ (True(l) /\ lvl(l) = 0)
    <2>1. PICK l \in c : -l \in c \/ (True(l) /\ lvl(l) = 0)
      BY <1>2
    <2>2. 0 <= 0
      OBVIOUS
    <2>3. True(l) /\ lvl(l) = 0 => True(l)' /\ lvl(l)' = 0
      BY <2>2 DEF Keeps
    <2> QED BY <2>1, <2>3 DEF Covered
  <1>3. CASE inconsistent /\ scope_lvl = 0
    BY <1>3 DEF Covered
  <1> QED BY <1>1, <1>2, <1>3 DEF Covered

\* All clauses do.
LEMMA CoverKept ==
  ASSUME CoverInv, input' \subseteq input, Keeps(0), \A c \in input' : KeepsPart(c),
         inconsistent /\ scope_lvl = 0 => inconsistent' /\ scope_lvl' = 0
  PROVE  CoverInv'
  <1> SUFFICES ASSUME NEW c \in input' PROVE Covered(c)'
    BY DEF CoverInv
  <1>1. Covered(c) /\ KeepsPart(c)
    BY DEF CoverInv
  <1> QED BY <1>1, CoverStep

\* Steps that keep the clauses, and their order at most.
LEMMA SameParts ==
  ASSUME learned' = learned, DOMAIN clauses \subseteq DOMAIN clauses',
         \A id \in DOMAIN clauses : Range(clauses'[id]) = Range(clauses[id])
  PROVE  \A c : KeepsPart(c)
  BY DEF KeepsPart

\* No answer yet.
LEMMA NoAnswer ==
  ASSUME result' = "none"
  PROVE  RightInv'
  BY DEF RightInv, ModelRight, CoreRefuted

\* A step inside a check that makes no assumption.
LEMMA AnswerStep ==
  ASSUME AnswerInv, pc # "idle", result' = result, CoverInv', MetInv',
         tracking_assumptions \/ pc = "assume" => Given' \subseteq Given,
         UNCHANGED <<m_user_scope_literals, m_assumptions>>, Range(toassume') \subseteq Range(toassume),
         pc \in {"base", "popped"} => pc' = pc \/ pc' = "idle", pc' = "assume" => pc = "assume"
  PROVE  AnswerInv' /\ RightInv'
  <1>1. result = "none" /\ result' = "none"
    BY DEF AnswerInv
  <1>2. Goals' = Goals /\ (tracking_assumptions' <=> tracking_assumptions)
    BY DEF Goals, ScopeLits, tracking_assumptions
  <1>3. GivenInv'
    BY <1>2 DEF AnswerInv, GivenInv
  <1>4. Chosen' \subseteq Chosen
    BY DEF Chosen
  <1>5. ChosenInv'
    BY <1>4 DEF AnswerInv, ChosenInv, Consistent
  <1> QED BY <1>1, <1>3, <1>5, NoAnswer DEF AnswerInv

\* What is assumed stays true.
LEMMA MetKept ==
  ASSUME Keeps(1), NEW g, Met(g)
  PROVE  Met(g)'
  BY DEF Keeps, Met

\* Without scopes and assumptions there is nothing to be met.
LEMMA NoGoals ==
  ASSUME ~tracking_assumptions
  PROVE  Goals = {}
  <1>1. m_assumptions = <<>> /\ m_user_scope_literals = <<>>
    BY DEF tracking_assumptions
  <1>2. ScopeLits = {} /\ Range(m_assumptions) = {}
    BY <1>1, RangeEmpty DEF ScopeLits
  <1> QED BY <1>2 DEF Goals, Neg

\* A step in one phase, when it is not in a conflict of the assumptions.
LEMMA MetStep ==
  ASSUME AnswerInv, pc \notin {"assume", "reassume"}, pc' = pc,
         UNCHANGED <<m_user_scope_literals, m_assumptions, toassume>>,
         pc \in {"first", "reprop", "learn", "search"} /\ tracking_assumptions => ~Refusal /\ Keeps(1),
         pc \in {"first", "reprop"} => scope_lvl' = scope_lvl,
         pc \in {"learn", "search"} /\ tracking_assumptions => scope_lvl' > 0 \/ inconsistent'
  PROVE  MetInv'
  <1>1. /\ Goals' = Goals /\ ScopeLits' = ScopeLits
        /\ (tracking_assumptions' <=> tracking_assumptions)
    BY DEF Goals, ScopeLits, tracking_assumptions
  <1>2. pc = "base" => m_assumptions' = <<>> /\ Neg(ScopeLits') \subseteq Range(toassume')
    BY <1>1 DEF AnswerInv, MetInv
  <1>3. pc \in {"first", "reprop", "learn", "search"} => \A g \in Goals : Met(g)'
    BY MetKept, NoGoals DEF AnswerInv, MetInv
  <1>4. pc \in {"first", "reprop"} => scope_lvl' = 1
    BY DEF AnswerInv, MetInv
  <1> QED BY <1>1, <1>2, <1>3, <1>4 DEF MetInv

-----------------------------------------------------------------------------
(***************************************************************************)
(* The steps of the search.                                                *)
(***************************************************************************)
LEMMA PropagateAnswer ==
  ASSUME SearchInv, AnswerInv, UNCHANGED Rest, Propagating, ~inconsistent,
         \A c : KeepsPart(c), \A n : Keeps(n), Given' \subseteq Given
  PROVE  AnswerInv' /\ RightInv'
  <1>1. /\ input' = input /\ m_user_scope_literals' = m_user_scope_literals
        /\ m_assumptions' = m_assumptions /\ toassume' = toassume /\ pc' = pc /\ result' = result
        /\ scope_lvl' = scope_lvl
    BY RestIs
  <1>2. pc \notin {"idle", "assume", "reassume"} /\ ~Refusal
    BY DEF Propagating, Refusal
  <1>3. CoverInv'
    BY <1>1, CoverKept DEF AnswerInv
  <1>4. pc \in {"learn", "search"} /\ tracking_assumptions => scope_lvl' > 0
    BY <1>1 DEF AnswerInv, MetInv
  <1>5. MetInv'
    BY <1>1, <1>2, <1>4, MetStep
  <1> QED BY <1>1, <1>2, <1>3, <1>5, AnswerStep

\* The next literal is taken from the queue.
LEMMA DequeueAnswer ==
  ASSUME SearchInv, AnswerInv, Dequeue
  PROVE  AnswerInv' /\ RightInv'
  <1>1. /\ UNCHANGED Rest /\ Propagating /\ ~inconsistent
        /\ UNCHANGED <<clauses, m_trail, m_justification>> /\ learned' = learned
    BY RestIs DEF Dequeue
  <1>2. (\A c : KeepsPart(c)) /\ (\A n : Keeps(n)) /\ Given' = Given
    BY <1>1, SameKeeps, SameParts
  <1> QED BY <1>1, <1>2, PropagateAnswer

\* A clause is visited.
LEMMA VisitAnswer ==
  ASSUME SearchInv, AnswerInv, NEW id \in todo, VisitDoes(id)
  PROVE  AnswerInv' /\ RightInv'
  <1> DEFINE c == Range(clauses[id])
  <1>1. /\ UNCHANGED Rest /\ DOMAIN clauses' = DOMAIN clauses
        /\ \A i \in DOMAIN clauses : Range(clauses'[i]) = Range(clauses[i])
        /\ \/ UNCHANGED <<m_trail, m_justification>>
           \/ \E l \in c, n \in Nat : \E S \in {{}, c \ {l}} :
                /\ Undef(l) /\ c \ {l} # {} /\ (\A k \in c \ {l} : False(k)) /\ (n # 0 \/ S # {})
                /\ assign_core(l, Just(Highest(c \ {l}), n, S))
    BY DEF VisitDoes, Keep3
  <1>2. Propagating /\ ~inconsistent /\ TrailInv /\ c \subseteq Lits
    <2>1. QueueInv
      BY DEF SearchInv
    <2>2. Propagating
      BY <2>1, id \in todo DEF QueueInv
    <2>3. ~inconsistent /\ TrailInv /\ GoodClause(clauses[id])
      BY Visited
    <2>4. c \subseteq Lits
      BY <2>3, ClauseFacts
    <2> QED BY <2>2, <2>3, <2>4
  <1>3. \A d : KeepsPart(d)
    BY <1>1, SameParts, RestIs
  <1>4. (\A n : Keeps(n)) /\ Given' \subseteq Given
    <2>1. CASE UNCHANGED <<m_trail, m_justification>>
      BY <2>1, SameKeeps
    <2>2. ASSUME NEW l \in c, NEW n \in Nat, NEW S \in {{}, c \ {l}},
                 Undef(l), c \ {l} # {}, \A k \in c \ {l} : False(k), n # 0 \/ S # {},
                 assign_core(l, Just(Highest(c \ {l}), n, S))
          PROVE  (\A m : Keeps(m)) /\ Given' \subseteq Given
      <3> DEFINE js == Just(Highest(c \ {l}), n, S)
      <3>1. js \in Justs
        <4>1. Highest(c \ {l}) \in Nat
          <5>1. c \ {l} \subseteq Lits
            BY <1>2
          <5>2. TrailInv /\ c \ {l} # {} /\ \A k \in c \ {l} : False(k)
            BY <1>2, <2>2
          <5> HIDE DEF c
          <5> QED BY <2>2, <5>1, <5>2, FalseReason
        <4>2. S \in SUBSET Lits
          BY <1>2
        <4> QED BY <4>1, <4>2, JustsAre
      <3>2. js # None(1)
        BY <2>2 DEF Just, None
      <3>3. assign_core(l, js) /\ l \in Lits
        BY <1>2, <2>2
      <3> HIDE DEF js
      <3> QED BY <1>2, <2>2, <3>1, <3>2, <3>3, GrowKeeps
    <2> QED BY <1>1, <2>1, <2>2
  <1> QED BY <1>1, <1>2, <1>3, <1>4, PropagateAnswer

\* A decision: its level is above that of the assumptions.
LEMMA decideAnswer ==
  ASSUME SearchInv, AnswerInv, decide
  PROVE  AnswerInv' /\ RightInv'
  <1>1. PICK v \in 1 .. nvars, sign \in Phases : Undef(v) /\ assign_core(sign * v, None(scope_lvl + 1))
    BY DEF decide
  <1>2. /\ ~inconsistent /\ UNCHANGED <<store, user, goal, pc, result>> /\ pc = "search" /\ push
    BY DEF decide, Fixpoint
  <1>3. TrailInv /\ UserInv /\ scope_lvl \in Nat
    BY LevelsAre DEF SearchInv, TrailInv
  <1>4. v \in Vars /\ v \in 1 .. nvars
    <2>1. nvars \in NumVars .. NumVars + MaxPushes
      BY <1>3 DEF UserInv
    <2>2. NumVars \in Nat /\ MaxPushes \in Nat
      BY SatSolverAssumption
    <2> QED BY <1>1, <2>1, <2>2 DEF Vars
  <1>5. sign * v \in Lits /\ var(sign * v) = v /\ var(v) = v
    <2>1. sign = 1 \/ sign = -1
      BY SatSolverAssumption
    <2>2. v \in Nat \ {0}
      BY <1>4, LitsAre
    <2>3. sign * v = v \/ sign * v = -v
      BY <2>1, <2>2
    <2> QED BY <1>4, <2>2, <2>3 DEF var, Lits
  <1> DEFINE l == sign * v
             n == scope_lvl + 1
  <1>6. l \in Lits /\ Undef(l) /\ assign_core(l, None(n)) /\ n \in Nat
    BY <1>1, <1>3, <1>5 DEF Undef
  <1> HIDE DEF l
  <1>7. scope_lvl' = n
    <2>1. m_scopes \in Seq(Nat) /\ Len(m_trail) \in Nat
      BY <1>3, TrailFacts DEF TrailInv, ScopesOK
    <2> QED BY <1>2, <2>1 DEF push, scope_lvl
  <1>8. tracking_assumptions => scope_lvl > 0
    BY <1>2 DEF AnswerInv, MetInv
  <1>9. n > 0 /\ (tracking_assumptions => n # 1)
    BY <1>3, <1>8
  <1> HIDE DEF n
  <1>10. /\ \A m : Keeps(m) /\ (None(n) # None(1) => Given' \subseteq Given)
    BY <1>3, <1>6, NoneGood, GrowKeeps
  <1>11. tracking_assumptions => Given' \subseteq Given
    BY <1>9, <1>10 DEF None, Just
  <1>12. /\ UNCHANGED <<clauses, learned, input, m_user_scope_literals, m_assumptions, toassume>>
         /\ \A c : KeepsPart(c)
    <2>1. UNCHANGED <<clauses, learned, input, m_user_scope_literals, m_assumptions, toassume>>
      BY <1>2 DEF store, user, goal
    <2> QED BY <2>1, SameParts
  <1>13. CoverInv'
    BY <1>2, <1>10, <1>12, CoverKept DEF AnswerInv
  <1>14. MetInv'
    BY <1>2, <1>7, <1>9, <1>10, <1>12, MetStep DEF Refusal
  <1> QED BY <1>2, <1>11, <1>12, <1>13, <1>14, AnswerStep

\* A lemma is deleted.
LEMMA do_gcAnswer ==
  ASSUME SearchInv, AnswerInv, do_gc
  PROVE  AnswerInv' /\ RightInv'
  <1>1. /\ ~inconsistent /\ UNCHANGED <<input, search, user, goal, pc, result>> /\ pc = "search"
        /\ \E id \in learned : Detach({id}) /\ learned' = learned \ {id}
    BY DEF do_gc, Fixpoint
  <1>2. /\ UNCHANGED <<m_trail, m_justification, m_scopes, m_user_scope_literals, m_assumptions, toassume>>
        /\ scope_lvl' = scope_lvl
    BY <1>1 DEF search, user, goal, scope_lvl
  <1>3. \A c : KeepsPart(c)
    BY <1>1 DEF KeepsPart, Detach
  <1>4. (\A n : Keeps(n)) /\ Given' = Given
    BY <1>2, SameKeeps
  <1>5. CoverInv'
    BY <1>1, <1>2, <1>3, <1>4, CoverKept DEF AnswerInv
  <1>6. tracking_assumptions => scope_lvl' > 0
    BY <1>1, <1>2 DEF AnswerInv, MetInv
  <1>7. MetInv'
    BY <1>1, <1>2, <1>4, <1>6, MetStep DEF Refusal
  <1> QED BY <1>1, <1>2, <1>4, <1>5, <1>7, AnswerStep

-----------------------------------------------------------------------------
\* Levels of the search are closed: those of the assumptions stay, or they are
\* asserted again.
LEMMA BackAnswer ==
  ASSUME SearchInv, AnswerInv, NEW n \in 0 .. scope_lvl - 1, pop(n),
         UNCHANGED <<store, user, goal, result>>, pc = "search", pc' \in {"search", "learn", "rebase"},
         tracking_assumptions => ~Refusal, tracking_assumptions /\ pc' # "rebase" => n > 0
  PROVE  AnswerInv' /\ RightInv'
  <1>1. TrailInv /\ scope_lvl \in Nat
    BY LevelsAre DEF SearchInv, TrailInv
  <1>2. PopScopes(n)
    <2>1. n # scope_lvl
      BY <1>1
    <2> QED BY <2>1 DEF pop
  <1>3. Keeps(n) /\ Given' \subseteq Given /\ \A m \in 0 .. n : Keeps(m)
    BY <1>1, <1>2, CutKeeps
  <1>4. UNCHANGED <<input, clauses, learned, m_user_scope_literals, m_assumptions, toassume>>
    BY DEF store, user, goal
  <1>5. scope_lvl' = n
    <2>1. m_scopes' = SubSeq(m_scopes, 1, n) /\ m_scopes \in Seq(Nat)
      BY <1>1, <1>2 DEF PopScopes, TrailInv, ScopesOK
    <2> QED BY <2>1 DEF scope_lvl
  <1>6. CoverInv'
    <2>1. Keeps(0)
      <3>1. 0 \in 0 .. n
        BY <1>1
      <3> QED BY <1>3, <3>1
    <2>2. ~(inconsistent /\ scope_lvl = 0)
      BY <1>1
    <2>3. \A c : KeepsPart(c)
      BY <1>4, SameParts
    <2> QED BY <1>4, <2>1, <2>2, <2>3, CoverKept DEF AnswerInv
  <1>7. MetInv'
    <2>1. Goals' = Goals /\ (tracking_assumptions' <=> tracking_assumptions)
      BY <1>4 DEF Goals, ScopeLits, tracking_assumptions
    <2>2. ASSUME pc' # "rebase", tracking_assumptions, NEW g \in Goals PROVE Met(g)'
      <3>1. Met(g)
        BY <2>2 DEF AnswerInv, MetInv
      <3>2. 1 \in 0 .. n
        BY <1>1, <2>2
      <3> QED BY <1>3, <3>1, <3>2, MetKept
    <2>3. pc' # "rebase" => \A g \in Goals' : Met(g)'
      BY <2>1, <2>2, NoGoals
    <2>4. pc' # "rebase" /\ tracking_assumptions' => scope_lvl' > 0
      BY <1>5, <2>1
    <2> QED BY <2>3, <2>4 DEF MetInv
  <1> QED BY <1>3, <1>4, <1>6, <1>7, AnswerStep

\* A restart, and the way back to where one literal is left.
LEMMA ClosedAnswer ==
  ASSUME SearchInv, SoundInv, AnswerInv, do_restart \/ Backtrack
  PROVE  AnswerInv' /\ RightInv'
  <1>1. TrailInv /\ scope_lvl \in Nat /\ search_lvl \in {0, 1} /\ (tracking_assumptions => search_lvl = 1)
    BY LevelsAre, SearchLvl DEF SearchInv, TrailInv, search_lvl
  <1>2. CASE do_restart
    <2>1. /\ pc = "search" /\ pc' = "search" /\ UNCHANGED <<store, user, goal, result>> /\ ~inconsistent
          /\ \E n \in search_lvl .. scope_lvl - 1 : pop(n)
      BY <1>2 DEF do_restart, Fixpoint
    <2>2. PICK n \in search_lvl .. scope_lvl - 1 : pop(n)
      BY <2>1
    <2>3. n \in 0 .. scope_lvl - 1 /\ (tracking_assumptions => n > 0)
      BY <1>1
    <2> QED BY <2>1, <2>2, <2>3, BackAnswer DEF Refusal
  <1>3. CASE Backtrack
    <2>1. /\ Resolvable /\ pc = "search" /\ pc' = "search" /\ UNCHANGED <<store, user, goal, result>>
          /\ pop(m_conflict_lvl - 1)
      BY <1>3 DEF Backtrack, Resolvable
    <2>2. /\ ConflictAt(clauses, m_trail, m_conflict, search_lvl)
          /\ m_conflict_lvl > search_lvl /\ m_conflict_lvl \in Nat
      BY <2>1, SureRefuted
    <2>3. m_conflict_lvl <= scope_lvl
      BY <1>1, <2>2, ConflictFacts
    <2> DEFINE n == m_conflict_lvl - 1
    <2>4. n \in 0 .. scope_lvl - 1 /\ pop(n) /\ (tracking_assumptions => n > 0 /\ scope_lvl > 1)
      BY <1>1, <2>1, <2>2, <2>3
    <2> HIDE DEF n
    <2>5. tracking_assumptions => ~Refusal
      BY <1>1, <2>4 DEF Refusal
    <2> QED BY <2>1, <2>4, <2>5, BackAnswer
  <1> QED BY <1>2, <1>3

\* A lemma is learned.
LEMMA BackjumpAnswer ==
  ASSUME SearchInv, SoundInv, AnswerInv, learn_lemma_and_backjump
  PROVE  AnswerInv' /\ RightInv'
  <1>1. TrailInv /\ scope_lvl \in Nat /\ search_lvl \in {0, 1} /\ (tracking_assumptions => search_lvl = 1)
    BY LevelsAre, SearchLvl DEF SearchInv, TrailInv, search_lvl
  <1>2. PICK n \in 0 .. scope_lvl - 1 :
           pop(n) /\ pc' = IF n = 0 /\ tracking_assumptions THEN "rebase" ELSE "learn"
    BY BackjumpDoes
  <1>3. Resolvable /\ pc = "search" /\ UNCHANGED <<store, user, goal, result>>
    BY DEF learn_lemma_and_backjump, Resolvable
  <1>4. /\ ConflictAt(clauses, m_trail, m_conflict, search_lvl)
        /\ m_conflict_lvl > search_lvl /\ m_conflict_lvl \in Nat
    BY <1>3, SureRefuted
  <1>5. m_conflict_lvl <= scope_lvl
    BY <1>1, <1>3, <1>4, ConflictFacts
  <1>6. tracking_assumptions => scope_lvl > 1
    BY <1>1, <1>4, <1>5
  <1>7. tracking_assumptions => ~Refusal
    BY <1>1, <1>6 DEF Refusal
  <1>8. tracking_assumptions /\ pc' # "rebase" => n > 0
    <2>1. n = 0 \/ n > 0
      BY <1>1
    <2> QED BY <1>2, <2>1
  <1> QED BY <1>2, <1>3, <1>7, <1>8, BackAnswer

-----------------------------------------------------------------------------
(* Ends of phases, and of checks *)

\* Steps that leave clauses and literals alone.
LEMMA QuietAnswer ==
  ASSUME CoverInv, UNCHANGED <<store, search>>
  PROVE  CoverInv' /\ Given' = Given /\ \A n : Keeps(n)
  <1>1. /\ UNCHANGED <<input, clauses, learned, m_trail, m_justification>>
        /\ inconsistent' = inconsistent /\ scope_lvl' = scope_lvl
    BY DEF store, search, inconsistent, scope_lvl
  <1>2. (\A c : KeepsPart(c)) /\ (\A n : Keeps(n)) /\ Given' = Given
    BY <1>1, SameKeeps, SameParts
  <1>3. inconsistent /\ scope_lvl = 0 => inconsistent' /\ scope_lvl' = 0
    BY <1>1
  <1>4. CoverInv'
    BY <1>1, <1>2, <1>3, CoverKept
  <1> QED BY <1>2, <1>4

\* A check ends.
LEMMA FinishAnswer ==
  ASSUME AnswerInv, NEW r, NEW core, Finish(r, core), UNCHANGED <<store, search, m_assumptions>>
  PROVE  AnswerInv'
  <1>1. CoverInv'
    BY QuietAnswer DEF AnswerInv
  <1>2. pc' = "idle" /\ toassume' = <<>>
    BY DEF Finish
  <1>3. MetInv' /\ GivenInv'
    BY <1>2 DEF MetInv, GivenInv
  <1>4. ChosenInv'
    <2>1. Chosen' \subseteq Chosen
      BY <1>2, RangeEmpty DEF Chosen
    <2> QED BY <2>1 DEF AnswerInv, ChosenInv, Consistent
  <1> QED BY <1>1, <1>2, <1>3, <1>4 DEF AnswerInv

\* Its answer is right.
LEMMA EndsAnswer ==
  ASSUME SearchInv, PropInv, SoundInv, AnswerInv, BaseConflict \/ final_check \/ Cancel \/ ConflictIsFinal
  PROVE  AnswerInv' /\ RightInv'
  <1>1. CASE BaseConflict
    <2>1. Finish("unsat", {}) /\ UNCHANGED <<store, search, m_assumptions>>
      BY <1>1 DEF BaseConflict
    <2> QED BY <1>1, <2>1, FinishAnswer, BaseAnswer
  <1>2. CASE final_check
    <2>1. Finish("sat", {}) /\ UNCHANGED <<store, search, m_assumptions>>
      BY <1>2 DEF final_check
    <2> QED BY <1>2, <2>1, FinishAnswer, SatAnswer
  <1>3. CASE Cancel
    <2>1. Finish("undef", {}) /\ UNCHANGED <<store, search, m_assumptions>>
      BY <1>3 DEF Cancel
    <2>2. RightInv'
      <3>1. result' = "undef"
        BY <2>1 DEF Finish
      <3> QED BY <3>1 DEF RightInv, ModelRight, CoreRefuted
    <2> QED BY <2>1, <2>2, FinishAnswer
  <1>4. CASE ConflictIsFinal
    <2>1. PICK core : core = IF tracking_assumptions THEN unsat_core ELSE {}
      OBVIOUS
    <2>2. Finish("unsat", core) /\ UNCHANGED <<store, search, m_assumptions>>
      BY <1>4, <2>1 DEF ConflictIsFinal
    <2> QED BY <1>4, <2>2, FinishAnswer, CoreAnswer
  <1> QED BY <1>1, <1>2, <1>3, <1>4

\* The assumptions are made.
LEMMA AssumedAnswer ==
  ASSUME SearchInv, AnswerInv, Assumed
  PROVE  AnswerInv' /\ RightInv'
  <1>1. /\ pc \in {"assume", "reassume"} /\ pc' \in {"first", "reprop"} /\ toassume' = <<>>
        /\ (toassume = <<>> \/ inconsistent)
        /\ UNCHANGED <<store, search, user, m_assumptions, result>>
    BY DEF Assumed
  <1>2. CoverInv' /\ Given' = Given /\ \A n : Keeps(n)
    BY <1>1, QuietAnswer DEF AnswerInv
  <1>3. /\ UNCHANGED <<m_user_scope_literals, m_assumptions, m_scopes, m_conflict>>
        /\ Range(toassume') \subseteq Range(toassume)
    BY <1>1, RangeEmpty DEF user, search
  <1>4. scope_lvl = 1 /\ scope_lvl' = 1 /\ inconsistent' = inconsistent
    BY <1>1, <1>3 DEF SearchInv, PhaseInv, scope_lvl, inconsistent
  <1>5. Goals' = Goals
    BY <1>3 DEF Goals, ScopeLits
  <1>6. inconsistent \/ \A g \in Goals : Met(g)
    BY <1>1, RangeEmpty DEF AnswerInv, MetInv
  <1>7. Refusal' \/ \A g \in Goals' : Met(g)'
    <2>1. \A g \in Goals : Met(g) => Met(g)'
      BY <1>2, MetKept
    <2>2. inconsistent => Refusal'
      BY <1>4 DEF Refusal
    <2> QED BY <1>5, <1>6, <2>1, <2>2
  <1>8. MetInv'
    BY <1>1, <1>4, <1>7 DEF MetInv
  <1> QED BY <1>1, <1>2, <1>3, <1>8, AnswerStep

\* Propagation has ended.
LEMMA PropagatedAnswer ==
  ASSUME SearchInv, AnswerInv, Propagated
  PROVE  AnswerInv' /\ RightInv'
  <1>1. /\ \/ pc = "first" /\ pc' = "search"
           \/ pc = "reprop" /\ pc' = "learn"
           \/ pc = "popped" /\ pc' = "idle"
           \/ pc = "rebase" /\ pc' = "learn" /\ inconsistent
        /\ UNCHANGED <<store, search, user, goal, result>>
    BY DEF Propagated
  <1>2. CoverInv' /\ Given' = Given /\ \A n : Keeps(n)
    BY <1>1, QuietAnswer DEF AnswerInv
  <1>3. UNCHANGED <<m_user_scope_literals, m_assumptions, toassume, m_scopes, m_conflict>>
    BY <1>1 DEF user, search, goal
  <1>4. scope_lvl' = scope_lvl /\ inconsistent' = inconsistent
    BY <1>3 DEF scope_lvl, inconsistent
  <1>5. Goals' = Goals
    BY <1>3 DEF Goals, ScopeLits
  <1>6. pc' # "idle" => ((\A g \in Goals : Met(g)) \/ Refusal) /\ (scope_lvl > 0 \/ inconsistent)
    <2>1. CASE pc = "rebase" /\ inconsistent
      <3>1. scope_lvl = 0
        BY <2>1 DEF SearchInv, PhaseInv
      <3> QED BY <2>1, <3>1 DEF Refusal
    <2>2. CASE pc \in {"first", "reprop"}
      <3>1. (\A g \in Goals : Met(g)) \/ Refusal
        BY <2>2 DEF AnswerInv, MetInv
      <3>2. scope_lvl = 1
        BY <2>2 DEF AnswerInv, MetInv
      <3> QED BY <3>1, <3>2
    <2> QED BY <1>1, <2>1, <2>2
  <1>7. pc' # "idle" => (Refusal' \/ \A g \in Goals' : Met(g)')
    BY <1>2, <1>4, <1>5, <1>6, MetKept DEF Refusal
  <1>8. MetInv'
    BY <1>1, <1>4, <1>6, <1>7 DEF MetInv
  <1> QED BY <1>1, <1>2, <1>3, <1>8, AnswerStep

-----------------------------------------------------------------------------
(* Assumptions are made *)

\* What sequences put together have, and what the tail of one leaves out.
LEMMA RangesCover ==
  ASSUME NEW S, NEW s \in Seq(S), NEW t \in Seq(S)
  PROVE  /\ Range(s) \cup Range(t) \subseteq Range(s \o t)
         /\ s # <<>> => Range(s) \subseteq {Head(s)} \cup Range(Tail(s))
  <1>1. /\ Range(s) = {s[i] : i \in 1 .. Len(s)} /\ Range(t) = {t[i] : i \in 1 .. Len(t)}
        /\ Len(s) \in Nat /\ Len(t) \in Nat
    BY DEF Range
  <1>2. Range(s) \cup Range(t) \subseteq Range(s \o t)
    <2>1. /\ s \o t \in Seq(S) /\ Len(s \o t) = Len(s) + Len(t)
          /\ \A i \in 1 .. Len(s) : (s \o t)[i] = s[i]
          /\ \A i \in 1 .. Len(t) : (s \o t)[Len(s) + i] = t[i]
      OBVIOUS
    <2>2. Range(s \o t) = {(s \o t)[i] : i \in 1 .. Len(s) + Len(t)}
      BY <2>1, RangeFinite
    <2>3. ASSUME NEW i \in 1 .. Len(s) PROVE s[i] \in Range(s \o t)
      <3>1. i \in 1 .. Len(s) + Len(t)
        BY <1>1
      <3> QED BY <2>1, <2>2, <3>1
    <2>4. ASSUME NEW i \in 1 .. Len(t) PROVE t[i] \in Range(s \o t)
      <3>1. Len(s) + i \in 1 .. Len(s) + Len(t)
        BY <1>1
      <3> QED BY <2>1, <2>2, <3>1
    <2> QED BY <1>1, <2>3, <2>4
  <1>3. ASSUME s # <<>>, NEW x \in Range(s) PROVE x = Head(s) \/ x \in Range(Tail(s))
    <2>1. Len(s) > 0 /\ Head(s) = s[1] /\ Tail(s) \in Seq(S) /\ Len(Tail(s)) = Len(s) - 1
          /\ \A i \in 1 .. Len(s) - 1 : Tail(s)[i] = s[i + 1]
      BY <1>3
    <2>2. PICK i \in 1 .. Len(s) : x = s[i]
      BY <1>1, <1>3
    <2>3. CASE i # 1
      <3>1. i - 1 \in 1 .. Len(s) - 1 /\ (i - 1) + 1 = i
        BY <1>1, <2>3
      <3>2. Tail(s)[i - 1] = s[i]
        BY <2>1, <3>1
      <3>3. Range(Tail(s)) = {Tail(s)[k] : k \in 1 .. Len(s) - 1}
        BY <2>1, RangeFinite
      <3> QED BY <2>2, <3>1, <3>2, <3>3
    <2> QED BY <2>1, <2>2, <2>3
  <1> QED BY <1>2, <1>3

\* Literals of scopes are not those of the user.
LEMMA ScopesApart ==
  ASSUME UserInv
  PROVE  Neg(ScopeLits) \cap Problem = {}
  <1>1. ASSUME NEW v \in ScopeLits PROVE -v \notin Problem
    <2>1. v \in NumVars + 1 .. nvars /\ nvars \in Nat
      BY NegScopesAre, LiveAre
    <2>2. NumVars \in Nat
      BY SatSolverAssumption
    <2> QED BY <2>1, <2>2 DEF Problem
  <1> QED BY <1>1 DEF Neg

\* At the base level nothing is assumed.
LEMMA NothingGiven ==
  ASSUME TrailInv, scope_lvl = 0
  PROVE  Given = {}
  <1>1. TrailOK(m_trail, m_justification) /\ ScopesOK(m_trail, m_justification, m_scopes)
    BY DEF TrailInv
  <1>2. ASSUME NEW l \in Range(m_trail) PROVE m_justification[var(l)] # None(1)
    <2>1. l \in Lits /\ var(l) \in Assigned
      <3>1. Range(m_trail) \subseteq Lits /\ DOMAIN m_justification = VarsOf(Range(m_trail))
        BY <1>1, TrailFacts
      <3> QED BY <3>1 DEF Assigned, VarsOf
    <2>2. lvl(l) \in 0 .. 0
      BY <1>1, <2>1, LevelsAre
    <2>3. None(1).lvl = 1
      BY DEF None, Just
    <2> QED BY <2>2, <2>3 DEF lvl
  <1> QED BY <1>2 DEF Given

\* The base level is propagated.
LEMMA init_assumptionsAnswer ==
  ASSUME SearchInv, AnswerInv, init_assumptions
  PROVE  AnswerInv' /\ RightInv'
  <1>1. /\ pc = "base" /\ ~inconsistent
        /\ UNCHANGED <<store, m_trail, m_justification, m_conflict, user, goal, result>>
        /\ (toassume = <<>> /\ pc' = "search") \/ (toassume # <<>> /\ pc' = "assume")
    BY DEF init_assumptions, Fixpoint
  <1>2. UNCHANGED <<input, clauses, learned, m_trail, m_justification, m_conflict,
                    m_user_scope_literals, m_assumptions, toassume>>
    BY <1>1 DEF store, user, goal
  <1>3. (\A c : KeepsPart(c)) /\ (\A n : Keeps(n)) /\ Given' = Given
    BY <1>2, SameKeeps, SameParts
  <1>4. CoverInv'
    BY <1>1, <1>2, <1>3, CoverKept DEF AnswerInv
  <1>5. Given' = {} /\ UserInv
    <2>1. scope_lvl = 0 /\ TrailInv /\ UserInv
      BY <1>1 DEF SearchInv, PhaseInv
    <2> QED BY <1>3, <2>1, NothingGiven
  <1>6. m_assumptions = <<>> /\ Neg(ScopeLits) \subseteq Range(toassume)
    BY <1>1 DEF AnswerInv, MetInv
  <1>7. Goals' \subseteq Range(toassume')
    BY <1>2, <1>6, RangeEmpty DEF Goals, ScopeLits
  <1>8. toassume = <<>> => ~tracking_assumptions'
    <2> SUFFICES ASSUME toassume = <<>> PROVE m_user_scope_literals = <<>>
      BY <1>2, <1>6 DEF tracking_assumptions
    <2>1. ScopeLits = {}
      BY <1>6, RangeEmpty DEF Neg
    <2>2. m_user_scope_literals \in Seq(NumVars + 1 .. nvars)
      BY <1>5 DEF UserInv
    <2>3. DOMAIN m_user_scope_literals = {}
      BY <2>1 DEF ScopeLits, Range
    <2> QED BY <2>2, <2>3
  <1>9. MetInv'
    <2>1. CASE toassume = <<>> /\ pc' = "search"
      <3>1. Goals' = {}
        BY <1>2, <1>7, <2>1, RangeEmpty
      <3> QED BY <1>8, <2>1, <3>1 DEF MetInv
    <2>2. CASE pc' = "assume"
      BY <1>7, <2>2 DEF MetInv
    <2> QED BY <1>1, <2>1, <2>2
  <1>10. GivenInv'
    BY <1>5 DEF GivenInv
  <1>11. ChosenInv'
    BY <1>2 DEF AnswerInv, ChosenInv, Consistent, Chosen
  <1>12. result' = "none"
    BY <1>1 DEF AnswerInv, SearchInv, UserInv
  <1> QED BY <1>4, <1>9, <1>10, <1>11, <1>12, NoAnswer DEF AnswerInv

\* The assumptions are made again.
LEMMA reinit_assumptionsAnswer ==
  ASSUME SearchInv, SoundInv, AnswerInv, reinit_assumptions
  PROVE  AnswerInv' /\ RightInv'
  <1>1. /\ pc = "rebase" /\ pc' = "reassume" /\ ~inconsistent /\ toassume' = NegScopes \o m_assumptions
        /\ UNCHANGED <<store, m_trail, m_justification, m_conflict, user, m_assumptions, result>>
    BY DEF reinit_assumptions, Fixpoint, NegScopes
  <1>2. UNCHANGED <<input, clauses, learned, m_trail, m_justification, m_conflict,
                    m_user_scope_literals, m_assumptions>>
    BY <1>1 DEF store, user
  <1>3. (\A c : KeepsPart(c)) /\ (\A n : Keeps(n)) /\ Given' = Given
    BY <1>2, SameKeeps, SameParts
  <1>4. CoverInv'
    BY <1>1, <1>2, <1>3, CoverKept DEF AnswerInv
  <1>5. Range(toassume') = Goals /\ UserInv
    <2>1. NegScopes \in Seq(Lits) /\ m_assumptions \in Seq(Lits) /\ Range(NegScopes) = Neg(ScopeLits) /\ UserInv
      BY NegScopesAre, NegScopesRange DEF SearchInv, UserInv
    <2>2. Range(NegScopes \o m_assumptions) = Range(NegScopes) \cup Range(m_assumptions)
      BY <2>1, RangesAre, RangesCover
    <2> QED BY <1>1, <2>1, <2>2 DEF Goals
  <1>6. Goals' = Goals
    BY <1>2 DEF Goals, ScopeLits
  <1>7. MetInv'
    BY <1>1, <1>5, <1>6 DEF MetInv
  <1>8. GivenInv'
    <2>1. Given = {}
      BY <1>1, NothingGiven DEF SearchInv, PhaseInv
    <2> QED BY <1>3, <2>1 DEF GivenInv
  <1>9. ChosenInv'
    <2>1. Chosen' \subseteq Chosen
      BY <1>2, <1>5, ScopesApart DEF Chosen, Goals
    <2> QED BY <2>1 DEF AnswerInv, ChosenInv, Consistent
  <1>10. result' = "none"
    BY <1>1 DEF AnswerInv, SearchInv, UserInv
  <1> QED BY <1>4, <1>7, <1>8, <1>9, <1>10, NoAnswer DEF AnswerInv

-----------------------------------------------------------------------------
(* An assumption is asserted; a lemma is added *)
LEMMA AssumeAnswer ==
  ASSUME SearchInv, SoundInv, AnswerInv, Assume
  PROVE  AnswerInv' /\ RightInv'
  <1>0. PICK h : h = Head(toassume)
    OBVIOUS
  <1>1. /\ pc \in {"assume", "reassume"} /\ toassume # <<>> /\ ~inconsistent
        /\ assign(h, None(scope_lvl)) /\ toassume' = Tail(toassume) /\ pc' = pc
        /\ UNCHANGED <<store, m_scopes, user, result>>
        /\ \/ (pc = "reassume" \/ -h \in ScopeLits) /\ m_assumptions' = m_assumptions
           \/ m_assumptions' = Append(m_assumptions, h)
    BY <1>0 DEF Assume
  <1>2. TrailInv /\ UserInv /\ scope_lvl = 1
    BY <1>1 DEF SearchInv, PhaseInv
  <1>3. /\ Range(toassume) = {h} \cup Range(toassume') /\ h \in Lits
        /\ Range(Append(m_assumptions, h)) = Range(m_assumptions) \cup {h}
    <2>1. toassume \in Seq(Lits) /\ m_assumptions \in Seq(Lits)
      BY <1>2 DEF UserInv
    <2>2. h \in Lits
      BY <1>0, <1>1, <2>1
    <2> QED BY <1>0, <1>1, <2>1, <2>2, RangesAre, RangesCover
  <1>4. UNCHANGED <<input, clauses, learned, m_user_scope_literals, m_scopes>> /\ scope_lvl' = 1
    BY <1>1, <1>2 DEF store, user, scope_lvl
  <1>5. /\ Goals \subseteq Goals' /\ Goals' \subseteq Goals \cup {h} /\ h \in Goals'
        /\ Range(m_assumptions') \subseteq Range(m_assumptions) \cup {h}
        /\ pc = "reassume" => m_assumptions' = m_assumptions \/ tracking_assumptions
    <2>1. ScopeLits' = ScopeLits
      BY <1>4 DEF ScopeLits
    <2>2. CASE pc = "reassume" /\ m_assumptions' = m_assumptions
      <3>1. h \in Goals
        BY <1>3, <2>2 DEF SoundInv, GoalsInv
      <3> QED BY <2>1, <2>2, <3>1 DEF Goals
    <2>3. CASE -h \in ScopeLits /\ m_assumptions' = m_assumptions
      <3>1. h \in Neg(ScopeLits)
        <4>1. -(-h) = h
          BY <1>3, LitsAre
        <4> QED BY <2>3, <4>1 DEF Neg
      <3> QED BY <2>1, <2>3, <3>1 DEF Goals
    <2>4. CASE m_assumptions' = Append(m_assumptions, h)
      <3>1. pc = "reassume" => tracking_assumptions
        <4> SUFFICES ASSUME pc = "reassume", ~tracking_assumptions PROVE FALSE
          OBVIOUS
        <4>1. Goals = {}
          BY NoGoals
        <4>2. h \in Goals
          BY <1>3 DEF SoundInv, GoalsInv
        <4> QED BY <4>1, <4>2
      <3> QED BY <1>3, <2>1, <2>4, <3>1 DEF Goals
    <2> QED BY <1>1, <2>2, <2>3, <2>4
  <1>6. /\ \A n : Keeps(n) /\ Given' \subseteq Given \cup {h}
        /\ inconsistent' \/ Met(h)'
    <2>1. CASE Undef(h) /\ assign_core(h, None(scope_lvl))
      <3>1. PICK js : js = None(1)
        OBVIOUS
      <3>2. assign_core(h, js) /\ js \in Justs /\ js.lvl = 1
        BY <1>2, <2>1, <3>1, NoneGood DEF None, Just
      <3> QED BY <1>2, <1>3, <2>1, <3>2, GrowKeeps DEF Met
    <2>2. CASE False(h) /\ set_conflict(-h, None(scope_lvl))
      <3>1. UNCHANGED <<m_trail, m_justification>> /\ inconsistent'
        <4>1. UNCHANGED <<m_trail, m_justification>>
          BY <2>2 DEF set_conflict
        <4>2. -h # 0
          BY <1>3, LitsAre
        <4>3. m_conflict'.not_l = -h
          BY <1>1, <2>2 DEF set_conflict
        <4> QED BY <4>1, <4>2, <4>3 DEF inconsistent, NoConflict
      <3> QED BY <3>1, SameKeeps
    <2>3. CASE True(h) /\ UNCHANGED <<m_trail, m_justification>>
      <3>1. Met(h)
        <4>1. h \in Range(m_trail)
          BY <2>3, TrueIs
        <4>2. TrailOK(m_trail, m_justification) /\ ScopesOK(m_trail, m_justification, m_scopes)
          BY <1>2 DEF TrailInv
        <4>3. var(h) \in Assigned
          <5>1. DOMAIN m_justification = VarsOf(Range(m_trail))
            BY <4>2, TrailFacts
          <5> QED BY <4>1, <5>1 DEF Assigned, VarsOf
        <4>4. lvl(h) \in 0 .. 1
          BY <1>2, <1>3, <4>2, <4>3, LevelsAre
        <4> QED BY <2>3, <4>4 DEF Met
      <3> QED BY <2>3, <3>1, SameKeeps, MetKept
    <2> QED BY <1>1, <2>1, <2>2, <2>3 DEF assign
  <1>7. CoverInv'
    <2>1. \A c : KeepsPart(c)
      BY <1>4, SameParts
    <2> QED BY <1>1, <1>4, <1>6, <2>1, CoverKept DEF AnswerInv
  <1>8. MetInv'
    <2>1. \A g \in Goals : Met(g) \/ g \in Range(toassume)
      BY <1>1 DEF AnswerInv, MetInv
    <2>2. \A g \in Goals : Met(g) => Met(g)'
      BY <1>6, MetKept
    <2>3. inconsistent' \/ \A g \in Goals' : Met(g)' \/ g \in Range(toassume')
      BY <1>3, <1>5, <1>6, <2>1, <2>2
    <2> QED BY <1>1, <2>3 DEF MetInv
  <1>9. GivenInv'
    <2>1. pc = "reassume" /\ tracking_assumptions' => tracking_assumptions
      BY <1>4, <1>5 DEF tracking_assumptions
    <2>2. pc' = "assume" \/ tracking_assumptions' => Given \subseteq Goals
      BY <1>1, <2>1 DEF AnswerInv, GivenInv
    <2> QED BY <1>5, <1>6, <2>2 DEF GivenInv
  <1>10. ChosenInv'
    <2>1. Chosen' \subseteq Chosen
      BY <1>3, <1>5 DEF Chosen
    <2> QED BY <2>1 DEF AnswerInv, ChosenInv, Consistent
  <1>11. result' = "none"
    BY <1>1 DEF AnswerInv, SearchInv, UserInv
  <1> QED BY <1>7, <1>8, <1>9, <1>10, <1>11, NoAnswer DEF AnswerInv

\* What is left to be shown when a lemma is added.
LEMMA LearnFrameAnswer ==
  ASSUME SearchInv, AnswerInv, Learn, \A c : KeepsPart(c), \A n : Keeps(n), Given' \subseteq Given,
         inconsistent => inconsistent'
  PROVE  AnswerInv' /\ RightInv'
  <1>1. /\ pc = "learn" /\ pc' = "search" /\ scope_lvl' = scope_lvl
        /\ UNCHANGED <<m_scopes, m_assumptions, m_user_scope_literals, toassume, result>>
    BY LearnIs
  <1>2. input' = input
    BY DEF Learn, mk_clause_core
  <1>3. CoverInv'
    BY <1>1, <1>2, CoverKept DEF AnswerInv
  <1>4. Goals' = Goals /\ (tracking_assumptions' <=> tracking_assumptions)
    BY <1>1 DEF Goals, ScopeLits, tracking_assumptions
  <1>5. (\A g \in Goals : Met(g)) \/ Refusal
    BY <1>1 DEF AnswerInv, MetInv
  <1>6. (\A g \in Goals' : Met(g)') \/ Refusal'
    <2>1. \A g \in Goals : Met(g) => Met(g)'
      BY MetKept
    <2>2. Refusal => Refusal'
      BY <1>1 DEF Refusal
    <2> QED BY <1>4, <1>5, <2>1, <2>2
  <1>7. tracking_assumptions => scope_lvl' > 0 \/ inconsistent'
    BY <1>1 DEF AnswerInv, MetInv
  <1>8. MetInv'
    BY <1>1, <1>4, <1>6, <1>7 DEF MetInv
  <1> QED BY <1>1, <1>3, <1>8, AnswerStep

\* A lemma is added.
LEMMA LearnAnswer ==
  ASSUME SearchInv, AnswerInv, Learn
  PROVE  AnswerInv' /\ RightInv'
  <1>1. TrailInv /\ ClausesOK(clauses)
    BY DEF SearchInv, StoreInv
  <1>2. ASSUME NEW l \in Lits, assign(l, None(0)), UNCHANGED <<clauses, learned>>
        PROVE  AnswerInv' /\ RightInv'
    <2>1. \A c : KeepsPart(c)
      BY <1>2, SameParts
    <2>2. CASE Undef(l) /\ assign_core(l, None(0))
      <3>1. PICK js : js = None(0)
        OBVIOUS
      <3>2. assign_core(l, js) /\ js \in Justs /\ js # None(1)
        BY <2>2, <3>1, NoneGood DEF None, Just
      <3>3. inconsistent' = inconsistent
        BY <2>2 DEF assign_core, inconsistent
      <3> QED BY <1>1, <2>1, <2>2, <3>2, <3>3, GrowKeeps, LearnFrameAnswer
    <2>3. CASE False(l) /\ set_conflict(-l, None(0))
      <3>1. UNCHANGED <<m_trail, m_justification>> /\ (inconsistent => inconsistent')
        BY <2>3 DEF set_conflict, inconsistent
      <3> QED BY <2>1, <3>1, SameKeeps, LearnFrameAnswer
    <2>4. CASE UNCHANGED <<m_trail, m_justification, m_conflict>>
      <3>1. inconsistent' = inconsistent
        BY <2>4 DEF inconsistent
      <3> QED BY <2>1, <2>4, <3>1, SameKeeps, LearnFrameAnswer
    <2> QED BY <1>2, <2>2, <2>3, <2>4 DEF assign
  <1>3. ASSUME ~inconsistent, NEW e, Asserted(e)
        PROVE  AnswerInv' /\ RightInv'
    <2>1. PICK js, j : /\ assign_core(e[1], js) /\ Asserts(e, js, j)
                       /\ UNCHANGED <<clauses, learned>> \/ (Attach(e) /\ learned' = learned \cup {FreeId})
      BY <1>3 DEF Asserted
    <2>2. GoodClause(e) /\ Undef(e[1]) /\ js \in Justs /\ js # None(js.lvl)
      BY <2>1 DEF Asserts
    <2>3. e[1] \in Lits
      <3>1. Len(e) \in Nat /\ Len(e) >= 2 /\ \A i \in 1 .. Len(e) : e[i] \in Lits
        BY <2>2, ClauseFacts
      <3> QED BY <3>1
    <2>4. js # None(1)
      BY <2>2 DEF None, Just
    <2>5. (\A n : Keeps(n)) /\ Given' \subseteq Given
      BY <1>1, <2>1, <2>2, <2>3, <2>4, GrowKeeps
    <2>6. \A c : KeepsPart(c)
      <3>1. CASE UNCHANGED <<clauses, learned>>
        BY <3>1, SameParts
      <3>2. CASE Attach(e) /\ learned' = learned \cup {FreeId}
        <4>1. /\ DOMAIN clauses' = DOMAIN clauses \cup {FreeId}
              /\ \A i \in DOMAIN clauses : clauses'[i] = clauses[i]
          BY <1>1, <2>2, <3>2, AttachIs
        <4>2. FreeId \notin DOMAIN clauses
          BY <1>1, FreeIdIs
        <4> QED BY <3>2, <4>1, <4>2 DEF KeepsPart
      <3> QED BY <2>1, <3>1, <3>2
    <2> QED BY <1>3, <2>5, <2>6, LearnFrameAnswer
  <1> QED BY <1>2, <1>3, LearnCases

-----------------------------------------------------------------------------
(* Between checks *)

\* What the user asks for has no answer yet.
LEMMA UserStep ==
  ASSUME CoverInv', pc' \in {"idle", "popped"} \/ (pc' = "base" /\ MetInv'), Chosen' \subseteq Chosen \/ ChosenInv',
         AnswerInv, result' = "none"
  PROVE  AnswerInv' /\ RightInv'
  <1>1. MetInv'
    <2>1. CASE pc' \in {"idle", "popped"}
      BY <2>1 DEF MetInv
    <2> QED BY <2>1
  <1>2. GivenInv'
    BY DEF GivenInv
  <1>3. ChosenInv'
    <2>1. CASE Chosen' \subseteq Chosen
      BY <2>1 DEF AnswerInv, ChosenInv, Consistent
    <2> QED BY <2>1
  <1> QED BY <1>1, <1>2, <1>3, NoAnswer DEF AnswerInv

\* Back to the base level.
LEMMA ToBaseKeeps ==
  ASSUME TrailInv, CoverInv, pop(0), UNCHANGED store
  PROVE  CoverInv'
  <1>1. scope_lvl \in Nat
    BY LevelsAre DEF TrailInv
  <1>2. UNCHANGED <<input, clauses, learned>>
    BY DEF store
  <1>3. \A c : KeepsPart(c)
    BY <1>2, SameParts
  <1>4. CASE scope_lvl = 0
    BY <1>4, QuietAnswer DEF pop
  <1>5. CASE scope_lvl # 0
    <2>1. 0 \in 0 .. scope_lvl - 1 /\ 0 # scope_lvl
      BY <1>1, <1>5
    <2>2. PopScopes(0)
      BY <2>1 DEF pop
    <2>3. Keeps(0)
      BY <2>1, <2>2, CutKeeps
    <2> QED BY <1>2, <1>3, <1>5, <2>3, CoverKept
  <1> QED BY <1>4, <1>5

\* A check begins.
LEMMA checkAnswer ==
  ASSUME SearchInv, AnswerInv, NEW lits \in Assumptions, check(lits)
  PROVE  AnswerInv' /\ RightInv'
  <1>1. /\ pop(0) /\ m_assumptions' = <<>> /\ toassume' = NegScopes \o lits /\ pc' = "base" /\ result' = "none"
        /\ UNCHANGED <<store, m_user_scope_literals>>
    BY DEF check, pop_to_base_level, NegScopes
  <1>2. TrailInv /\ UserInv
    BY DEF SearchInv
  <1>3. CoverInv'
    BY <1>1, <1>2, ToBaseKeeps DEF AnswerInv
  <1>4. Range(toassume') = Neg(ScopeLits) \cup Range(lits)
    <2>1. lits \in Seq(Problem) /\ Problem \subseteq Lits
      BY SatSolverAssumption, LitsAre
    <2>2. lits \in Seq(Lits) /\ NegScopes \in Seq(Lits) /\ Range(NegScopes) = Neg(ScopeLits)
      BY <1>2, <2>1, SeqWider, NegScopesAre, NegScopesRange
    <2> QED BY <1>1, <2>2, RangesAre, RangesCover
  <1>5. MetInv'
    <2>1. ScopeLits' = ScopeLits
      BY <1>1 DEF ScopeLits
    <2> QED BY <1>1, <1>4, <2>1 DEF MetInv
  <1>6. ChosenInv'
    <2>1. Chosen' \subseteq Range(lits)
      BY <1>1, <1>2, <1>4, RangeEmpty, ScopesApart DEF Chosen
    <2> QED BY <2>1 DEF Consistent, ChosenInv
  <1> QED BY <1>1, <1>3, <1>5, <1>6, UserStep

\* Back to the base level, for a clause or a scope.
LEMMA ToBaseAnswer ==
  ASSUME SearchInv, AnswerInv, BackToBase \/ user_push
  PROVE  AnswerInv' /\ RightInv'
  <1>1. /\ pc = "idle" /\ pc' = "idle" /\ pop(0) /\ m_assumptions' = <<>> /\ toassume' = toassume
        /\ result' = "none" /\ UNCHANGED store
    BY DEF BackToBase, user_push, pop_to_base_level
  <1>2. CoverInv'
    BY <1>1, ToBaseKeeps DEF AnswerInv, SearchInv
  <1>3. Chosen' \subseteq Chosen
    BY <1>1, RangeEmpty DEF Chosen
  <1> QED BY <1>1, <1>2, <1>3, UserStep

\* A scope is popped.
LEMMA user_popAnswer ==
  ASSUME SearchInv, AnswerInv, user_pop
  PROVE  AnswerInv' /\ RightInv'
  <1>1. PICK lit, gone : /\ lit = m_user_scope_literals[Len(m_user_scope_literals)]
                         /\ gone = {i \in DOMAIN clauses : lit \in VarsOf(Range(clauses[i]))}
    OBVIOUS
  <1>2. /\ pc' = "popped" /\ m_assumptions' = <<>> /\ toassume' = toassume /\ result' = "none"
        /\ input' = {c \in input : lit \notin VarsOf(c)}
        /\ Detach(gone) /\ learned' = learned \ gone
        /\ IF at_base_lvl THEN Keep3 /\ UNCHANGED <<m_scopes, todo>> ELSE PopScopes(0)
    BY <1>1 DEF user_pop
  <1>3. TrailInv /\ scope_lvl \in Nat
    BY LevelsAre DEF SearchInv, TrailInv
  <1>4. ASSUME NEW c \in input' PROVE KeepsPart(c)
    <2> SUFFICES ASSUME NEW id \in DOMAIN clauses \ learned, Range(clauses[id]) \subseteq c
                 PROVE  id \in DOMAIN clauses' \ learned' /\ Range(clauses'[id]) = Range(clauses[id])
      BY DEF KeepsPart
    <2>1. VarsOf(Range(clauses[id])) \subseteq VarsOf(c)
      BY DEF VarsOf
    <2>2. id \notin gone
      BY <1>1, <1>2, <2>1
    <2> QED BY <1>2, <2>2 DEF Detach
  <1>5. Keeps(0) /\ (inconsistent /\ scope_lvl = 0 => inconsistent' /\ scope_lvl' = 0)
    <2>1. CASE scope_lvl = 0
      <3>1. Keep3 /\ UNCHANGED m_scopes
        BY <1>2, <2>1 DEF at_base_lvl
      <3> QED BY <3>1, SameKeeps DEF Keep3, inconsistent, scope_lvl
    <2>2. CASE scope_lvl # 0
      <3>1. PopScopes(0) /\ 0 \in 0 .. scope_lvl - 1
        BY <1>2, <1>3, <2>2 DEF at_base_lvl
      <3>2. Keeps(0)
        BY <1>3, <3>1, CutKeeps
      <3> QED BY <2>2, <3>2
    <2> QED BY <2>1, <2>2
  <1>6. CoverInv'
    BY <1>2, <1>4, <1>5, CoverKept DEF AnswerInv
  <1>7. Chosen' \subseteq Chosen
    BY <1>2, RangeEmpty DEF Chosen
  <1> QED BY <1>2, <1>6, <1>7, UserStep

\* A clause is asserted.
LEMMA mk_clauseAnswer ==
  ASSUME SearchInv, AnswerInv, NEW c \in Extra, mk_clause(c)
  PROVE  AnswerInv' /\ RightInv'
  <1>1. PICK all, open : all = c \cup ScopeLits /\ open = {l \in all : Undef(l)}
    OBVIOUS
  <1>2. /\ pc' = "idle" /\ result' = "none" /\ input' = input \cup {all} /\ scope_lvl = 0
        /\ UNCHANGED <<learned, m_scopes, user, goal>>
        /\ \/ (\E l \in all : True(l) \/ -l \in all) /\ Keep3 /\ UNCHANGED clauses
           \/ open = {} /\ set_conflict(0, None(0)) /\ UNCHANGED clauses
           \/ UNCHANGED clauses /\ \E l \in open : assign_core(l, None(0))
           \/ Attach(Sorted(open)) /\ Keep3 /\ Cardinality(open) > 1
    BY <1>1 DEF mk_clause, at_base_lvl
  <1>3. TrailInv /\ UserInv /\ ClausesOK(clauses) /\ learned \subseteq DOMAIN clauses
    BY DEF SearchInv, StoreInv
  <1>4. all \subseteq Lits /\ open \subseteq all /\ IsFiniteSet(open)
    <2>1. c \subseteq Problem /\ Problem \subseteq Lits
      BY SatSolverAssumption, LitsAre
    <2>2. ScopeLits \subseteq Lits
      BY <1>3, NegScopesAre DEF Lits
    <2> QED BY <1>1, <2>1, <2>2, LitsFinite
  <1>5. scope_lvl' = 0 /\ Chosen' \subseteq Chosen
    BY <1>2 DEF scope_lvl, goal, Chosen
  <1>6. ASSUME \A d : KeepsPart(d), Keeps(0), inconsistent => inconsistent', Covered(all)'
        PROVE  AnswerInv' /\ RightInv'
    <2>1. ASSUME NEW d \in input PROVE Covered(d)'
      <3>1. Covered(d)
        BY DEF AnswerInv, CoverInv
      <3> QED BY <1>5, <1>6, <3>1, CoverStep
    <2>2. CoverInv'
      BY <1>2, <1>6, <2>1 DEF CoverInv
    <2> QED BY <1>2, <1>5, <2>2, UserStep
  <1>7. CASE (\E l \in all : True(l) \/ -l \in all) /\ Keep3 /\ UNCHANGED clauses
    <2>1. (\A d : KeepsPart(d)) /\ Keeps(0) /\ (inconsistent => inconsistent')
      BY <1>2, <1>7, SameParts, SameKeeps DEF Keep3, inconsistent
    <2>2. PICK l \in all : True(l) \/ -l \in all
      BY <1>7
    <2>3. True(l) => lvl(l) = 0
      <3> SUFFICES ASSUME True(l) PROVE lvl(l) = 0
        OBVIOUS
      <3>1. TrailOK(m_trail, m_justification) /\ ScopesOK(m_trail, m_justification, m_scopes)
        BY <1>3 DEF TrailInv
      <3>2. l \in Range(m_trail) /\ DOMAIN m_justification = VarsOf(Range(m_trail))
        BY <3>1, TrueIs, TrailFacts
      <3>3. var(l) \in Assigned /\ l \in Lits
        BY <1>4, <3>2 DEF Assigned, VarsOf
      <3>4. lvl(l) \in 0 .. 0
        BY <1>2, <3>1, <3>3, LevelsAre
      <3> QED BY <3>4
    <2>4. True(l) => True(l)' /\ lvl(l)' = 0
      BY <2>1, <2>3 DEF Keeps
    <2>5. Covered(all)'
      BY <2>2, <2>4 DEF Covered
    <2> QED BY <1>6, <2>1, <2>5
  <1>8. CASE set_conflict(0, None(0)) /\ UNCHANGED clauses
    <2>1. UNCHANGED <<m_trail, m_justification>>
      BY <1>8 DEF set_conflict
    <2>2. inconsistent'
      <3>1. CASE inconsistent
        BY <1>8, <3>1 DEF set_conflict, inconsistent
      <3>2. CASE ~inconsistent
        <4>1. m_conflict'.js = None(0)
          BY <1>8, <3>2 DEF set_conflict
        <4>2. None(0).lvl = 0 /\ NoConflict.js.lvl = -1
          BY DEF None, Just, NoConflict
        <4>3. m_conflict' # NoConflict
          <5>1. 0 # -1
            OBVIOUS
          <5> QED BY <4>1, <4>2, <5>1
        <4> QED BY <4>3 DEF inconsistent, NoConflict, None, Just
      <3> QED BY <3>1, <3>2
    <2>3. (\A d : KeepsPart(d)) /\ Keeps(0)
      BY <1>2, <1>8, <2>1, SameParts, SameKeeps
    <2>4. Covered(all)'
      BY <1>5, <2>2 DEF Covered
    <2> QED BY <1>6, <2>2, <2>3, <2>4
  <1>9. CASE UNCHANGED clauses /\ \E l \in open : assign_core(l, None(0))
    <2>1. PICK l \in open : assign_core(l, None(0))
      BY <1>9
    <2>2. PICK js : js = None(0)
      OBVIOUS
    <2>3. assign_core(l, js) /\ js \in Justs /\ js.lvl = 0
      BY <2>1, <2>2, NoneGood DEF None, Just
    <2>4. l \in all /\ l \in Lits /\ Undef(l)
      BY <1>1, <1>4
    <2>5. Keeps(0) /\ True(l)' /\ lvl(l)' = 0
      BY <1>3, <2>3, <2>4, GrowKeeps
    <2>6. (\A d : KeepsPart(d)) /\ (inconsistent => inconsistent')
      BY <1>2, <1>9, <2>1, SameParts DEF assign_core, inconsistent
    <2>7. Covered(all)'
      BY <2>4, <2>5 DEF Covered
    <2> QED BY <1>6, <2>5, <2>6, <2>7
  <1>10. CASE Attach(Sorted(open)) /\ Keep3 /\ Cardinality(open) > 1
    <2>1. PICK e : e = Sorted(open)
      OBVIOUS
    <2>2. Range(e) = open
      BY <1>4, <2>1, SortedIs
    <2>3. /\ DOMAIN clauses' = DOMAIN clauses \cup {FreeId} /\ clauses'[FreeId] = e
          /\ \A i \in DOMAIN clauses : clauses'[i] = clauses[i]
      <3>1. FreeId \notin DOMAIN clauses
        BY <1>3, FreeIdIs
      <3> QED BY <1>10, <2>1, <3>1 DEF Attach
    <2>4. FreeId \notin DOMAIN clauses
      BY <1>3, FreeIdIs
    <2>5. \A d : KeepsPart(d)
      BY <1>2, <2>3 DEF KeepsPart
    <2>6. Keeps(0) /\ (inconsistent => inconsistent')
      BY <1>10, SameKeeps DEF Keep3, inconsistent
    <2>7. Covered(all)'
      <3>1. FreeId \in DOMAIN clauses' \ learned'
        BY <1>2, <1>3, <2>3, <2>4
      <3>2. Range(clauses'[FreeId]) \subseteq all
        BY <1>4, <2>2, <2>3
      <3>3. \E i \in DOMAIN clauses' \ learned' : Range(clauses'[i]) \subseteq all
        BY <3>1, <3>2
      <3> QED BY <3>3 DEF Covered
    <2> QED BY <1>6, <2>5, <2>6, <2>7
  <1> QED BY <1>2, <1>7, <1>8, <1>9, <1>10

\* Before the first check.
LEMMA InitAnswer ==
  ASSUME Init
  PROVE  AnswerInv /\ RightInv
  <1>1. PICK f \in Formulas :
          /\ input = Range(f.clauses)
          /\ clauses = [i \in DOMAIN f.clauses |-> Sorted(f.clauses[i])]
          /\ learned = {} /\ m_assumptions = <<>> /\ toassume = <<>> /\ pc = "idle" /\ result = "none"
    BY DEF Init
  <1>2. ASSUME NEW c \in input PROVE Covered(c)
    <2>1. PICK i \in DOMAIN f.clauses : c = f.clauses[i]
      BY <1>1 DEF Range
    <2>2. c \subseteq Problem
      BY <2>1, SatSolverAssumption
    <2>3. c \subseteq Lits /\ IsFiniteSet(c)
      BY <2>2, LitsAre, LitsFinite
    <2>4. Range(clauses[i]) = c /\ i \in DOMAIN clauses \ learned
      BY <1>1, <2>1, <2>3, SortedIs
    <2> QED BY <2>4 DEF Covered
  <1>3. CoverInv /\ MetInv /\ GivenInv
    BY <1>1, <1>2 DEF CoverInv, MetInv, GivenInv
  <1>4. ChosenInv
    BY <1>1, RangeEmpty DEF ChosenInv, Chosen
  <1>5. RightInv
    BY <1>1 DEF RightInv, ModelRight, CoreRefuted
  <1> QED BY <1>1, <1>3, <1>4, <1>5 DEF AnswerInv

\* In a step that changes nothing.
LEMMA StutterAnswer ==
  ASSUME AnswerInv, RightInv, UNCHANGED vars
  PROVE  AnswerInv' /\ RightInv'
  <1>1. UNCHANGED <<store, search, input, clauses, learned, m_trail, m_justification, m_scopes, m_conflict,
                    nvars, m_user_scope_literals, m_assumptions, toassume, pc, m_core, result>>
    BY DEF vars, store, search, user, goal
  <1>2. CoverInv' /\ Given' = Given /\ \A n : Keeps(n)
    BY <1>1, QuietAnswer DEF AnswerInv
  <1>3. /\ Goals' = Goals /\ ScopeLits' = ScopeLits /\ (tracking_assumptions' <=> tracking_assumptions)
        /\ (inconsistent' <=> inconsistent) /\ scope_lvl' = scope_lvl /\ Chosen' = Chosen
    BY <1>1 DEF Goals, ScopeLits, tracking_assumptions, inconsistent, scope_lvl, Chosen
  <1>4. \A g \in Goals : Met(g) => Met(g)'
    BY <1>2, MetKept
  <1>5. MetInv'
    BY <1>1, <1>3, <1>4 DEF AnswerInv, MetInv, Refusal
  <1>6. GivenInv' /\ ChosenInv'
    BY <1>1, <1>2, <1>3 DEF AnswerInv, GivenInv, ChosenInv, Consistent
  <1>7. RightInv'
    BY <1>1 DEF RightInv, ModelRight, Consistent, CoreRefuted, Models, Scopes, ScopeLits, Units, True
  <1> QED BY <1>1, <1>2, <1>5, <1>6, <1>7 DEF AnswerInv

\* Every step of the solver and of its user keeps it.
LEMMA NextAnswer ==
  ASSUME SearchInv, PropInv, SoundInv, AnswerInv, RightInv, [Next]_vars
  PROVE  AnswerInv' /\ RightInv'
  <1>1. CASE Search
    <2>1. CASE Dequeue
      BY <2>1, DequeueAnswer
    <2>2. ASSUME NEW id \in todo, VisitShort(id) \/ VisitLong(id)
          PROVE  AnswerInv' /\ RightInv'
      BY <2>2, VisitsDo, VisitAnswer
    <2>3. CASE init_assumptions \/ reinit_assumptions
      BY <2>3, init_assumptionsAnswer, reinit_assumptionsAnswer
    <2>4. CASE Assume
      BY <2>4, AssumeAnswer
    <2>5. CASE BaseConflict \/ final_check \/ Cancel \/ ConflictIsFinal
      BY <2>5, EndsAnswer
    <2>6. CASE Assumed \/ Propagated
      BY <2>6, AssumedAnswer, PropagatedAnswer
    <2>7. CASE decide
      BY <2>7, decideAnswer
    <2>8. CASE do_restart \/ Backtrack
      BY <2>8, ClosedAnswer
    <2>9. CASE do_gc
      BY <2>9, do_gcAnswer
    <2>10. CASE learn_lemma_and_backjump
      BY <2>10, BackjumpAnswer
    <2>11. CASE Learn
      BY <2>11, LearnAnswer
    <2> QED BY <1>1, <2>1, <2>2, <2>3, <2>4, <2>5, <2>6, <2>7, <2>8, <2>9, <2>10, <2>11 DEF Search
  <1>2. CASE User
    <2>1. ASSUME NEW lits \in Assumptions, check(lits) PROVE AnswerInv' /\ RightInv'
      BY <2>1, checkAnswer
    <2>2. ASSUME NEW c \in Extra, mk_clause(c) PROVE AnswerInv' /\ RightInv'
      BY <2>2, mk_clauseAnswer
    <2> QED BY <1>2, <2>1, <2>2, ToBaseAnswer, user_popAnswer DEF User
  <1>3. CASE UNCHANGED vars
    BY <1>3, StutterAnswer
  <1> QED BY <1>1, <1>2, <1>3 DEF Next

\* What answers rest on holds in every state, whatever clauses, scopes,
\* assumptions and checks the user asks for.
LEMMA AnswerInvariance == Spec => []RightInv
  <1> DEFINE Inv == SearchInv /\ PropInv /\ SoundInv /\ AnswerInv /\ RightInv
  <1>1. Init => Inv
    BY InitInv, InitSound, InitAnswer
  <1>2. Inv /\ [Next]_vars => Inv'
    <2> SUFFICES ASSUME Inv, [Next]_vars PROVE Inv'
      OBVIOUS
    <2>1. SearchInv' /\ PropInv'
      BY NextInv
    <2>2. SoundInv'
      BY NextSound
    <2>3. AnswerInv' /\ RightInv'
      BY NextAnswer
    <2> QED BY <2>1, <2>2, <2>3
  <1>3. Inv => RightInv
    OBVIOUS
  <1> HIDE DEF Inv
  <1> QED BY <1>1, <1>2, <1>3, PTL DEF Spec

\* "sat" is said of a model of the clauses, the open scopes and the assumptions,
\* whatever the assumptions are (final_check, mk_model): after backtracking without
\* a lemma, backjumps below the assumptions, restarts, deletions, cancelled checks
\* and popped scopes.
THEOREM ModelsAreRight == Spec => []ModelRight
  <1>1. RightInv => ModelRight
    BY DEF RightInv
  <1> QED BY <1>1, AnswerInvariance, PTL

\* The whole of AnswerRight, if no list of assumptions has a literal and its
\* negation: "unsat" comes with a core of assumptions that the clauses and the
\* open scopes refute (resolve_conflict_for_unsat_core, which drops what is of
\* level 0 from a core of two or more).
THEOREM AnswersAreRight == Consistent /\ Spec => []AnswerRight
  <1>1. Consistent /\ RightInv => AnswerRight
    BY DEF RightInv, ModelRight, AnswerRight
  <1>2. Consistent => []Consistent
    <2>1. Consistent => Consistent'
      BY DEF Consistent
    <2> QED BY <2>1, PTL
  <1> QED BY <1>1, <1>2, AnswerInvariance, PTL

==============================================================================
