--------------------------- MODULE SatSolverProofs ---------------------------
(***************************************************************************)
(* The search of the SAT solver, for every formula, every list of          *)
(* assumptions and every bound: its trail, reasons and watches.  What they *)
(* make of lemmas and answers is in SatAnswersProofs.                      *)
(***************************************************************************)
EXTENDS SatSolver, FiniteSetTheorems, TLAPS

-----------------------------------------------------------------------------
(***************************************************************************)
(* Numbers and finite sets.                                                *)
(***************************************************************************)
\* A set of natural numbers has a least member.
LEMMA LeastOf ==
  ASSUME NEW S, S \subseteq Nat, S # {}
  PROVE  \E n \in S : \A k \in S : n <= k
  <1>1. PICK y \in S : \A z \in S : ~(<<z, y>> \in OpToRel(<, Nat))
    BY NatLessThanWellFounded, WFMin
  <1>2. \A z \in S : ~(z < y)
    BY <1>1 DEF OpToRel
  <1> QED BY <1>2

\* A bounded set of natural numbers has a greatest member.
LEMMA GreatestOf ==
  ASSUME NEW S, NEW n \in Nat, S \subseteq 0 .. n, S # {}
  PROVE  \E m \in S : \A k \in S : k <= m
  <1> DEFINE U == {u \in Nat : \A k \in S : k <= u}
  <1>1. U \subseteq Nat /\ U # {}
    <2>1. n \in U
      OBVIOUS
    <2> QED BY <2>1
  <1>2. PICK u \in U : \A k \in U : u <= k
    <2> HIDE DEF U
    <2> QED BY <1>1, LeastOf
  <1>3. CASE u \in S
    BY <1>2, <1>3
  <1>4. CASE u \notin S
    <2>1. \A k \in S : k <= u /\ k # u
      BY <1>2, <1>4
    <2>2. PICK k \in S : TRUE
      OBVIOUS
    <2>3. u - 1 \in Nat
      BY <2>1, <2>2
    <2>4. u - 1 \in U
      BY <2>1, <2>3
    <2> QED BY <1>2, <2>4
  <1> QED BY <1>3, <1>4

\* Max is that member.
LEMMA MaxIs ==
  ASSUME NEW S, NEW n \in Nat, S \subseteq 0 .. n, S # {}
  PROVE  Max(S) \in S /\ \A k \in S : k <= Max(S)
  <1>1. \E m \in S : \A k \in S : m >= k
    BY GreatestOf
  <1> QED BY <1>1 DEF Max

\* Min is the least one.
LEMMA MinIs ==
  ASSUME NEW S, S \subseteq Nat, S # {}
  PROVE  Min(S) \in S /\ \A k \in S : Min(S) <= k
  BY LeastOf DEF Min

\* Sets of no, one, and more than one member.
LEMMA One ==
  ASSUME NEW S, IsFiniteSet(S)
  PROVE  /\ Cardinality(S) \in Nat
         /\ Cardinality(S) = 1 <=> \E x : S = {x}
         /\ Cardinality(S) > 1 <=> \E x, y \in S : x # y
         /\ Cardinality(S) = 0 <=> S = {}
  <1>1. /\ Cardinality(S) \in Nat
        /\ Cardinality(S) = 1 <=> \E x : S = {x}
        /\ Cardinality(S) = 0 <=> S = {}
    BY FS_CardinalityType, FS_Singleton, FS_EmptySet
  <1>2. Cardinality(S) > 1 => \E x, y \in S : x # y
    <2> SUFFICES ASSUME Cardinality(S) > 1 PROVE \E x, y \in S : x # y
      OBVIOUS
    <2>1. S # {} /\ ~ \E x : S = {x}
      BY <1>1
    <2>2. PICK x \in S : TRUE
      BY <2>1
    <2>3. S # {x}
      BY <2>1
    <2> QED BY <2>2, <2>3
  <1>3. (\E x, y \in S : x # y) => Cardinality(S) > 1
    <2> SUFFICES ASSUME NEW x \in S, NEW y \in S, x # y PROVE Cardinality(S) > 1
      OBVIOUS
    <2>1. S # {} /\ ~ \E z : S = {z}
      OBVIOUS
    <2> QED BY <1>1, <2>1
  <1> QED BY <1>1, <1>2, <1>3

\* A sequence has finitely many members.
LEMMA RangeFinite ==
  ASSUME NEW s, NEW S, s \in Seq(S)
  PROVE  IsFiniteSet(Range(s)) /\ Range(s) = {s[i] : i \in 1 .. Len(s)}
  <1>1. DOMAIN s = 1 .. Len(s) /\ Len(s) \in Nat
    OBVIOUS
  <1>2. Range(s) = {s[i] : i \in 1 .. Len(s)}
    BY <1>1 DEF Range
  <1>3. IsFiniteSet(1 .. Len(s))
    BY <1>1, FS_Interval
  <1> DEFINE f == [i \in 1 .. Len(s) |-> s[i]]
  <1>4. f \in Surjection(1 .. Len(s), Range(s))
    BY <1>2 DEF Surjection
  <1> HIDE DEF f
  <1> QED BY <1>2, <1>3, <1>4, FS_Surjection

(***************************************************************************)
(* The i-th of a finite set of numbers: an enumeration in rising order.    *)
(***************************************************************************)
LEMMA NthIs ==
  ASSUME NEW S, S \subseteq Nat, IsFiniteSet(S)
  PROVE  /\ Cardinality(S) \in Nat
         /\ \A i \in 1 .. Cardinality(S) :
              /\ Nth(S, i) \in S
              /\ Cardinality({k \in S : k <= Nth(S, i)}) = i
         /\ \A n \in S : Cardinality({k \in S : k <= n}) \in 1 .. Cardinality(S)
         /\ \A n, m \in S : n < m => Cardinality({k \in S : k <= n})
                                       < Cardinality({k \in S : k <= m})
  <1> DEFINE B(n) == {k \in S : k <= n}
             N == Cardinality(S)
             r == [n \in S |-> Cardinality(B(n))]
  <1>1. N \in Nat
    BY FS_CardinalityType
  <1>2. \A n \in S : IsFiniteSet(B(n)) /\ Cardinality(B(n)) \in Nat /\ Cardinality(B(n)) <= N
    <2> TAKE n \in S
    <2>1. B(n) \in SUBSET S
      OBVIOUS
    <2> HIDE DEF B
    <2> QED BY <2>1, FS_Subset, FS_CardinalityType
  <1>3. \A n \in S : Cardinality(B(n)) # 0
    <2> TAKE n \in S
    <2>1. n \in B(n)
      OBVIOUS
    <2> HIDE DEF B
    <2> QED BY <1>2, <2>1, FS_EmptySet
  <1>4. \A n \in S : Cardinality(B(n)) \in 1 .. N
    <2> HIDE DEF B
    <2> QED BY <1>1, <1>2, <1>3
  <1>5. \A n, m \in S : n < m => Cardinality(B(n)) < Cardinality(B(m))
    <2> SUFFICES ASSUME NEW n \in S, NEW m \in S, n < m
                 PROVE  Cardinality(B(n)) < Cardinality(B(m))
      OBVIOUS
    <2>0. n \in Nat /\ m \in Nat /\ \A k \in S : k \in Nat
      OBVIOUS
    <2>1. B(n) \in SUBSET B(m) /\ B(n) # B(m)
      <3>1. m \in B(m) /\ m \notin B(n)
        BY <2>0
      <3>2. B(n) \subseteq B(m)
        <4>1. \A k \in S : k <= n => k <= m
          BY <2>0
        <4> QED BY <4>1
      <3> QED BY <3>1, <3>2
    <2> HIDE DEF B
    <2>2. Cardinality(B(n)) <= Cardinality(B(m)) /\ Cardinality(B(n)) # Cardinality(B(m))
      BY <1>2, <2>1, FS_Subset
    <2> QED BY <1>2, <2>2
  <1>6. r \in Surjection(S, 1 .. N)
    <2>1. r \in Injection(S, 1 .. N)
      <3>1. r \in [S -> 1 .. N]
        <4>1. \A n \in S : r[n] = Cardinality(B(n))
          <5> HIDE DEF B
          <5> QED OBVIOUS
        <4>2. r = [n \in S |-> r[n]]
          <5> HIDE DEF B
          <5> QED OBVIOUS
        <4> HIDE DEF r, B
        <4>3. \A n \in S : r[n] \in 1 .. N
          BY <1>4, <4>1
        <4> QED BY <4>2, <4>3
      <3>2. \A n, m \in S : r[n] = r[m] => n = m
        <4> HIDE DEF B
        <4> TAKE n, m \in S
        <4>1. r[n] = Cardinality(B(n)) /\ r[m] = Cardinality(B(m))
          OBVIOUS
        <4>2. n \in Nat /\ m \in Nat
          OBVIOUS
        <4>3. n < m \/ m < n \/ n = m
          BY <4>2
        <4>4. n < m => Cardinality(B(n)) < Cardinality(B(m))
          BY <1>5
        <4>5. m < n => Cardinality(B(m)) < Cardinality(B(n))
          BY <1>5
        <4>6. Cardinality(B(n)) \in Nat /\ Cardinality(B(m)) \in Nat
          BY <1>2
        <4> HIDE DEF r
        <4> QED BY <4>1, <4>3, <4>4, <4>5, <4>6
      <3> HIDE DEF r
      <3> QED BY <3>1, <3>2 DEF Injection, IsInjective
    <2>2. IsFiniteSet(1 .. N) /\ Cardinality(1 .. N) = N
      BY <1>1, FS_Interval
    <2> HIDE DEF r
    <2> QED BY <2>1, <2>2, FS_Injection
  <1>7. ASSUME NEW i \in 1 .. N PROVE Nth(S, i) \in S /\ Cardinality(B(Nth(S, i))) = i
    <2>1. PICK n \in S : r[n] = i
      <3> HIDE DEF r
      <3> QED BY <1>6 DEF Surjection
    <2>2. Cardinality(B(n)) = i
      BY <2>1
    <2> QED BY <2>2 DEF Nth
  <1> QED BY <1>1, <1>4, <1>5, <1>7

\* Nth lists a set in ascending order.
LEMMA Enumerated ==
  ASSUME NEW S, S \subseteq Nat, IsFiniteSet(S)
  PROVE  LET N == Cardinality(S) IN
         /\ N \in Nat
         /\ \A i \in 1 .. N : Nth(S, i) \in S
         /\ \A i, j \in 1 .. N : i < j => Nth(S, i) < Nth(S, j)
         /\ \A n \in S : \E i \in 1 .. N : Nth(S, i) = n
  <1> DEFINE N == Cardinality(S)
             r(n) == Cardinality({k \in S : k <= n})
  <1>1. /\ N \in Nat
        /\ \A i \in 1 .. N : Nth(S, i) \in S /\ r(Nth(S, i)) = i
        /\ \A n \in S : r(n) \in 1 .. N
        /\ \A n, m \in S : n < m => r(n) < r(m)
    BY NthIs
  <1> HIDE DEF r, N
  <1>2. ASSUME NEW i \in 1 .. N, NEW j \in 1 .. N, i < j PROVE Nth(S, i) < Nth(S, j)
    <2>1. Nth(S, i) \in Nat /\ Nth(S, j) \in Nat /\ Nth(S, i) \in S /\ Nth(S, j) \in S
      BY <1>1
    <2>2. r(Nth(S, i)) = i /\ r(Nth(S, j)) = j
      BY <1>1
    <2>3. Nth(S, j) < Nth(S, i) => r(Nth(S, j)) < r(Nth(S, i))
      BY <1>1, <2>1
    <2>4. i \in Int /\ j \in Int
      BY <1>1
    <2>5. Nth(S, i) = Nth(S, j) => i = j
      BY <2>2
    <2> QED BY <1>2, <2>1, <2>2, <2>3, <2>4, <2>5
  <1>3. ASSUME NEW n \in S PROVE \E i \in 1 .. N : Nth(S, i) = n
    <2>1. r(n) \in 1 .. N
      BY <1>1
    <2> DEFINE m == Nth(S, r(n))
    <2>2. m \in S /\ r(m) = r(n)
      BY <1>1, <2>1
    <2>3. m \in Nat /\ n \in Nat
      BY <2>2
    <2>4. ~ (r(n) < r(n))
      BY <1>1, <2>1
    <2> HIDE DEF m
    <2>6. m < n => r(m) < r(n)
      BY <1>1, <2>2
    <2>7. n < m => r(n) < r(m)
      BY <1>1, <2>2
    <2>5. m = n
      BY <2>2, <2>3, <2>4, <2>6, <2>7
    <2> QED BY <2>1, <2>5 DEF m
  <1> QED BY <1>1, <1>2, <1>3 DEF N

\* If the set starts with 1 .. m, so does the list.
LEMMA EnumeratedFrom ==
  ASSUME NEW S, S \subseteq Nat \ {0}, IsFiniteSet(S), NEW m \in Nat, 1 .. m \subseteq S
  PROVE  m <= Cardinality(S) /\ \A i \in 1 .. m : Nth(S, i) = i
  <1> DEFINE N == Cardinality(S)
             r(n) == Cardinality({k \in S : k <= n})
  <1>1. /\ N \in Nat
        /\ \A i \in 1 .. N : Nth(S, i) \in S /\ r(Nth(S, i)) = i
        /\ \A n, p \in S : n < p => r(n) < r(p)
    BY NthIs
  <1>2. m <= N
    <2>1. IsFiniteSet(1 .. m) /\ Cardinality(1 .. m) = m
      BY FS_Interval
    <2> QED BY <2>1, FS_Subset
  <1>3. \A i \in 1 .. m : r(i) = i
    <2> TAKE i \in 1 .. m
    <2>1. {k \in S : k <= i} = 1 .. i
      <3>1. ASSUME NEW k \in S, k <= i PROVE k \in 1 .. i
        BY <3>1
      <3>2. ASSUME NEW k \in 1 .. i PROVE k \in S /\ k <= i
        <4>1. k \in 1 .. m /\ k <= i
          BY <3>2
        <4> QED BY <4>1
      <3> QED BY <3>1, <3>2
    <2>2. Cardinality(1 .. i) = i
      BY FS_Interval
    <2> QED BY <2>1, <2>2
  <1> HIDE DEF r, N
  <1>4. ASSUME NEW i \in 1 .. m PROVE Nth(S, i) = i
    <2>1. i \in 1 .. N /\ i \in S
      BY <1>1, <1>2
    <2> DEFINE p == Nth(S, i)
    <2>2. p \in S /\ r(p) = i /\ r(i) = i /\ p \in Nat /\ i \in Nat
      BY <1>1, <1>3, <2>1
    <2>3. p < i => r(p) < r(i)
      BY <1>1, <2>1, <2>2
    <2>4. i < p => r(i) < r(p)
      BY <1>1, <2>1, <2>2
    <2> HIDE DEF p
    <2>5. p = i
      BY <2>2, <2>3, <2>4
    <2> QED BY <2>5 DEF p
  <1> QED BY <1>2, <1>4 DEF N

(***************************************************************************)
(* Literals.                                                               *)
(***************************************************************************)
LEMMA LitsAre ==
  /\ Vars \subseteq Nat \ {0} /\ Lits \subseteq Int \ {0}
  /\ \A l \in Lits : /\ -l \in Lits /\ var(l) \in Vars /\ var(-l) = var(l)
                     /\ -(-l) = l /\ l # -l
                     /\ var(l) \in Lits
  /\ \A l, k \in Lits : var(l) = var(k) <=> l = k \/ l = -k
  /\ Problem \subseteq Lits
  <1>1. NumVars \in Nat \ {0} /\ MaxPushes \in Nat
    BY SatSolverAssumption
  <1> QED BY <1>1 DEF Vars, Lits, var, Problem

\* The index tells literals apart.
LEMMA IndexIs ==
  ASSUME NEW l \in Lits, NEW k \in Lits
  PROVE  index(l) \in Nat /\ (index(l) = index(k) => l = k)
  <1>1. l \in Int \ {0} /\ k \in Int \ {0}
    BY LitsAre
  <1> QED BY <1>1 DEF index, var

Injective(s) == \A i, j \in 1 .. Len(s) : s[i] = s[j] => i = j

\* Sorted lists the literals of a clause, each once.
LEMMA SortedIs ==
  ASSUME NEW c, c \subseteq Lits, IsFiniteSet(c)
  PROVE  /\ Sorted(c) \in Seq(c) /\ Len(Sorted(c)) = Cardinality(c)
         /\ Range(Sorted(c)) = c /\ Injective(Sorted(c))
  <1> DEFINE S == {index(k) : k \in c}
             N == Cardinality(c)
             f == [k \in c |-> index(k)]
             s == Sorted(c)
  <1>1. S \subseteq Nat /\ \A l, k \in c : index(l) = index(k) => l = k
    BY IndexIs
  <1>2. IsFiniteSet(S) /\ Cardinality(S) = N
    <2>1. f \in [c -> S] /\ \A k \in c : f[k] = index(k)
      OBVIOUS
    <2>2. \A x \in S : \E k \in c : x = index(k)
      OBVIOUS
    <2> HIDE DEF f, S
    <2>3. f \in Surjection(c, S)
      BY <2>1, <2>2 DEF Surjection
    <2>4. f \in Injection(c, S)
      BY <1>1, <2>1 DEF Injection, IsInjective
    <2> QED BY <2>3, <2>4, FS_Surjection
  <1>3. /\ N \in Nat
        /\ \A i \in 1 .. N : Nth(S, i) \in S
        /\ \A i, j \in 1 .. N : i < j => Nth(S, i) < Nth(S, j)
        /\ \A n \in S : \E i \in 1 .. N : Nth(S, i) = n
    <2> HIDE DEF S, N
    <2> QED BY <1>1, <1>2, Enumerated
  <1>4. ASSUME NEW i \in 1 .. N PROVE s[i] \in c /\ index(s[i]) = Nth(S, i)
    <2>1. \E l \in c : index(l) = Nth(S, i)
      BY <1>3
    <2>2. s[i] = CHOOSE l \in c : index(l) = Nth(S, i)
      <3> HIDE DEF S
      <3>1. s = [j \in 1 .. N |-> CHOOSE l \in c : index(l) = Nth(S, j)]
        BY DEF Sorted, S
      <3> HIDE DEF s
      <3> QED BY <3>1
    <2> HIDE DEF S, s
    <2> QED BY <2>1, <2>2
  <1>5. DOMAIN s = 1 .. N /\ s = [i \in 1 .. N |-> s[i]]
    <2> DEFINE at(i) == CHOOSE l \in c : index(l) = Nth(S, i)
    <2>1. s = [i \in 1 .. N |-> at(i)]
      BY DEF Sorted
    <2> HIDE DEF at, s
    <2> QED BY <2>1
  <1> HIDE DEF s, S, N
  <1>6. s \in Seq(c) /\ Len(s) = N
    BY <1>3, <1>4, <1>5
  <1>7. Range(s) = c
    <2>1. Range(s) \subseteq c
      BY <1>4, <1>5 DEF Range
    <2>2. ASSUME NEW l \in c PROVE l \in Range(s)
      <3>1. index(l) \in S
        BY DEF S
      <3>2. PICK i \in 1 .. N : Nth(S, i) = index(l)
        BY <1>3, <3>1
      <3>3. s[i] = l
        BY <1>1, <1>4, <3>2
      <3> QED BY <1>5, <3>3 DEF Range
    <2> QED BY <2>1, <2>2
  <1>8. Injective(s)
    <2> SUFFICES ASSUME NEW i \in 1 .. N, NEW j \in 1 .. N, s[i] = s[j] PROVE i = j
      BY <1>6 DEF Injective
    <2>1. Nth(S, i) = Nth(S, j)
      BY <1>4
    <2>2. Nth(S, i) \in Nat
      BY <1>1, <1>3
    <2>3. ~ (i < j) /\ ~ (j < i)
      BY <1>3, <2>1, <2>2
    <2> QED BY <1>3, <2>3
  <1> QED BY <1>6, <1>7, <1>8 DEF s, N

-----------------------------------------------------------------------------
(***************************************************************************)
(* A trail with its justifications: literals of different variables, each  *)
(* justified.                                                              *)
(***************************************************************************)
Justs == [lvl : Nat, cls : Nat, lits : SUBSET Lits]

LvlIn(ju, l)       == ju[var(l)].lvl
ReasonIn(cl, js, l) == IF js.cls # 0 THEN Range(cl[js.cls]) \ {l} ELSE js.lits

TrailOK(tr, ju) ==
  /\ tr \in Seq(Lits)
  /\ ju = [v \in {var(tr[i]) : i \in 1 .. Len(tr)} |-> ju[v]]
  /\ \A i, j \in 1 .. Len(tr) : var(tr[i]) = var(tr[j]) => i = j
  /\ \A i \in 1 .. Len(tr) : /\ ju[var(tr[i])] \in Justs
                             /\ LvlIn(ju, tr[i]) = 0 => ju[var(tr[i])] = None(0)

\* What lies below the k-th scope is of a level below k.
ScopesOK(tr, ju, sc) ==
  /\ sc \in Seq(Nat)
  /\ \A i \in 1 .. Len(tr) : LvlIn(ju, tr[i]) <= Len(sc)
  /\ \A k \in 1 .. Len(sc) : sc[k] <= Len(tr) /\ \A j \in 1 .. k : sc[j] <= sc[k]
  /\ \A k \in 1 .. Len(sc) : \A i \in 1 .. sc[k] : LvlIn(ju, tr[i]) < k

\* The reason of a literal: false, below it, of its level at most, one of its level.
ReasonAt(cl, tr, ju, i) ==
  LET l  == tr[i]
      js == ju[var(l)]
  IN  js # None(js.lvl) =>
        /\ js.cls # 0 => js.cls \in DOMAIN cl /\ Len(cl[js.cls]) > 3 /\ cl[js.cls][1] = l
        /\ \A k \in ReasonIn(cl, js, l) :
             k \in Lits /\ LvlIn(ju, k) <= js.lvl /\ \E j \in 1 .. i - 1 : tr[j] = -k
        /\ \E k \in ReasonIn(cl, js, l) : LvlIn(ju, k) = js.lvl

\* A decision above the assumptions is the lowest literal of its level.
DecidedAt(tr, ju, base, i) ==
  LET js == ju[var(tr[i])]
  IN  js = None(js.lvl) /\ js.lvl > base => \A j \in 1 .. i - 1 : LvlIn(ju, tr[j]) # js.lvl

ReasonsOK(cl, tr, ju)   == \A i \in 1 .. Len(tr) : ReasonAt(cl, tr, ju, i)
DecidedOK(tr, ju, base) == \A i \in 1 .. Len(tr) : DecidedAt(tr, ju, base, i)

\* A clause at level n, the first b literals of the trail being propagated:
\* it is true, or two of its watches are not false.
Settled(c, tr, ju, n, b) ==
  \/ \E i \in 1 .. Len(tr) : tr[i] \in Range(c) /\ LvlIn(ju, tr[i]) <= n
  \/ \E i, j \in 1 .. Len(c) :
       /\ i # j /\ (Len(c) > 3 => i <= 2 /\ j <= 2)
       /\ \A p \in 1 .. b : tr[p] # -c[i] /\ tr[p] # -c[j]

\* What justifications are made of.
LEMMA JustsAre ==
  /\ \A n \in Nat : None(n) \in Justs /\ None(n).lvl = n
  /\ \A n \in Nat, c \in Nat, S \in SUBSET Lits :
       Just(n, c, S) \in Justs /\ Just(n, c, S).lvl = n
       /\ Just(n, c, S).cls = c /\ Just(n, c, S).lits = S
  BY DEF Justs, None, Just

\* The values of the variables.
LEMMA TrailFacts ==
  ASSUME NEW tr, NEW ju, TrailOK(tr, ju)
  PROVE  /\ Len(tr) \in Nat /\ DOMAIN tr = 1 .. Len(tr) /\ Range(tr) \subseteq Lits
         /\ Range(tr) = {tr[i] : i \in 1 .. Len(tr)}
         /\ DOMAIN ju = {var(tr[i]) : i \in 1 .. Len(tr)}
         /\ DOMAIN ju = VarsOf(Range(tr))
         /\ \A i \in 1 .. Len(tr) : tr[i] \in Lits /\ LvlIn(ju, tr[i]) \in Nat
         /\ \A l \in Lits : var(l) \in DOMAIN ju <=> l \in Range(tr) \/ -l \in Range(tr)
         /\ \A l \in Lits : l \in Range(tr) => -l \notin Range(tr)
         /\ \A v \in DOMAIN ju : ju[v] \in Justs
  <1>1. /\ Len(tr) \in Nat /\ DOMAIN tr = 1 .. Len(tr)
        /\ \A i \in 1 .. Len(tr) : tr[i] \in Lits
    BY DEF TrailOK
  <1>2. Range(tr) = {tr[i] : i \in 1 .. Len(tr)} /\ Range(tr) \subseteq Lits
    BY <1>1 DEF Range
  <1>3. DOMAIN ju = {var(tr[i]) : i \in 1 .. Len(tr)}
    BY DEF TrailOK
  <1>4. DOMAIN ju = VarsOf(Range(tr))
    BY <1>2, <1>3 DEF VarsOf
  <1>5. \A i \in 1 .. Len(tr) : LvlIn(ju, tr[i]) \in Nat
    BY DEF TrailOK, LvlIn, Justs
  <1>6. ASSUME NEW l \in Lits
        PROVE  var(l) \in DOMAIN ju <=> l \in Range(tr) \/ -l \in Range(tr)
    <2>1. \A i \in 1 .. Len(tr) : var(l) = var(tr[i]) <=> tr[i] = l \/ tr[i] = -l
      BY <1>1, LitsAre
    <2> QED BY <1>2, <1>3, <2>1
  <1>7. ASSUME NEW l \in Lits, l \in Range(tr), -l \in Range(tr) PROVE FALSE
    <2>1. PICK i \in 1 .. Len(tr) : tr[i] = l
      BY <1>2, <1>7
    <2>2. PICK j \in 1 .. Len(tr) : tr[j] = -l
      BY <1>2, <1>7
    <2>3. var(tr[i]) = var(tr[j])
      BY <2>1, <2>2, LitsAre
    <2>4. i = j
      BY <2>3 DEF TrailOK
    <2> QED BY <2>1, <2>2, <2>4, LitsAre
  <1>8. \A v \in DOMAIN ju : ju[v] \in Justs
    BY <1>3 DEF TrailOK
  <1> QED BY <1>1, <1>2, <1>3, <1>4, <1>5, <1>6, <1>7, <1>8

(***************************************************************************)
(* A literal is put on the trail.                                          *)
(***************************************************************************)
Norm(js) == IF js.lvl = 0 THEN None(0) ELSE js
Extended(ju, l, js) ==
  [v \in DOMAIN ju \cup {var(l)} |-> IF v = var(l) THEN Norm(js) ELSE ju[v]]

Extends(tr, ju, l, js, tr2, ju2) ==
  LET n == Len(tr)
  IN  /\ TrailOK(tr2, ju2) /\ n \in Nat
      /\ Len(tr2) = n + 1 /\ tr2[n + 1] = l /\ \A i \in 1 .. n : tr2[i] = tr[i]
      /\ ju2[var(l)] = Norm(js) /\ LvlIn(ju2, l) = js.lvl /\ LvlIn(ju2, -l) = js.lvl
      /\ \A i \in 1 .. n : /\ ju2[var(tr[i])] = ju[var(tr[i])]
                           /\ LvlIn(ju2, tr[i]) = LvlIn(ju, tr[i])
      /\ \A v \in DOMAIN ju : ju2[v] = ju[v]
      /\ Range(tr2) = Range(tr) \cup {l}
      /\ DOMAIN ju2 = DOMAIN ju \cup {var(l)}

\* A literal appended to a trail makes a trail.
LEMMA ExtendedIs ==
  ASSUME NEW tr, NEW ju, TrailOK(tr, ju), NEW l \in Lits, var(l) \notin DOMAIN ju,
         NEW js \in Justs
  PROVE  Extends(tr, ju, l, js, Append(tr, l), Extended(ju, l, js))
  <1> DEFINE tr2 == Append(tr, l)
             ju2 == Extended(ju, l, js)
             n   == Len(tr)
  <1>1. /\ tr \in Seq(Lits) /\ n \in Nat /\ \A i \in 1 .. n : tr[i] \in Lits
        /\ DOMAIN ju = {var(tr[i]) : i \in 1 .. n}
    BY TrailFacts DEF TrailOK
  <1>2. /\ tr2 \in Seq(Lits) /\ Len(tr2) = n + 1 /\ tr2[n + 1] = l
        /\ \A i \in 1 .. n : tr2[i] = tr[i]
    BY <1>1
  <1>3. /\ DOMAIN ju2 = DOMAIN ju \cup {var(l)} /\ ju2[var(l)] = Norm(js)
        /\ \A v \in DOMAIN ju : ju2[v] = ju[v]
        /\ ju2 = [v \in DOMAIN ju2 |-> ju2[v]]
    BY DEF Extended
  <1> HIDE DEF ju2, tr2
  <1>4. DOMAIN ju2 = {var(tr2[i]) : i \in 1 .. Len(tr2)}
    <2>1. ASSUME NEW i \in 1 .. n + 1 PROVE var(tr2[i]) \in DOMAIN ju2
      <3>1. i \in 1 .. n \/ i = n + 1
        BY <1>1
      <3> QED BY <1>1, <1>2, <1>3, <3>1
    <2>2. ASSUME NEW v \in DOMAIN ju2 PROVE \E i \in 1 .. n + 1 : v = var(tr2[i])
      <3>1. CASE v = var(l)
        BY <1>1, <1>2, <3>1
      <3>2. CASE v \in DOMAIN ju
        <4>1. PICK i \in 1 .. n : v = var(tr[i])
          BY <1>1, <3>2
        <4>2. i \in 1 .. n + 1
          BY <1>1
        <4> QED BY <1>2, <4>1, <4>2
      <3> QED BY <1>3, <3>1, <3>2
    <2> QED BY <1>2, <2>1, <2>2
  <1>5. \A i, j \in 1 .. n + 1 : var(tr2[i]) = var(tr2[j]) => i = j
    <2> TAKE i, j \in 1 .. n + 1
    <2>1. \A k \in 1 .. n : var(tr[k]) # var(l)
      BY <1>1
    <2>2. (i \in 1 .. n \/ i = n + 1) /\ (j \in 1 .. n \/ j = n + 1)
      BY <1>1
    <2> QED BY <1>2, <2>1, <2>2 DEF TrailOK
  <1>6. Norm(js) \in Justs /\ Norm(js).lvl = js.lvl /\ (Norm(js).lvl = 0 => Norm(js) = None(0))
    BY JustsAre DEF Norm
  <1>7. \A i \in 1 .. n : /\ ju2[var(tr[i])] = ju[var(tr[i])]
                          /\ LvlIn(ju2, tr[i]) = LvlIn(ju, tr[i])
    BY <1>1, <1>3 DEF LvlIn
  <1>8. LvlIn(ju2, l) = js.lvl /\ LvlIn(ju2, -l) = js.lvl
    BY <1>3, <1>6, LitsAre DEF LvlIn
  <1>9. ASSUME NEW i \in 1 .. n + 1
        PROVE  /\ ju2[var(tr2[i])] \in Justs
               /\ LvlIn(ju2, tr2[i]) = 0 => ju2[var(tr2[i])] = None(0)
    <2>1. CASE i \in 1 .. n
      BY <1>2, <1>7, <2>1 DEF TrailOK
    <2>2. CASE i = n + 1
      BY <1>2, <1>3, <1>6, <2>2 DEF LvlIn
    <2> QED BY <1>1, <2>1, <2>2
  <1>10. TrailOK(tr2, ju2)
    BY <1>2, <1>3, <1>4, <1>5, <1>9 DEF TrailOK
  <1>11. Range(tr2) = Range(tr) \cup {l}
    <2>1. Range(tr) = {tr[i] : i \in 1 .. n}
      BY TrailFacts
    <2>2. Range(tr2) = {tr2[i] : i \in 1 .. n + 1}
      BY <1>2, <1>10, TrailFacts
    <2>3. ASSUME NEW i \in 1 .. n + 1 PROVE tr2[i] \in Range(tr) \cup {l}
      <3>1. i \in 1 .. n \/ i = n + 1
        BY <1>1
      <3> QED BY <1>2, <2>1, <3>1
    <2>4. ASSUME NEW i \in 1 .. n PROVE tr[i] \in Range(tr2)
      <3>1. i \in 1 .. n + 1
        BY <1>1
      <3> QED BY <1>2, <2>2, <3>1
    <2>5. l \in Range(tr2)
      BY <1>1, <1>2, <2>2
    <2> QED BY <2>1, <2>2, <2>3, <2>4, <2>5
  <1>12. Extends(tr, ju, l, js, tr2, ju2)
    BY <1>1, <1>2, <1>3, <1>7, <1>8, <1>10, <1>11 DEF Extends
  <1> QED BY <1>12 DEF tr2, ju2

\* A reason for a new literal: false literals, of its level at most, one of its level.
GoodReason(cl, tr, ju, l, js) ==
  js # None(js.lvl) =>
    /\ js.cls # 0 => js.cls \in DOMAIN cl /\ Len(cl[js.cls]) > 3 /\ cl[js.cls][1] = l
    /\ \A k \in ReasonIn(cl, js, l) : /\ k \in Lits /\ -k \in Range(tr)
                                      /\ LvlIn(ju, k) <= js.lvl
    /\ \E k \in ReasonIn(cl, js, l) : LvlIn(ju, k) = js.lvl

\* The scopes of a trail that has grown.
LEMMA ExtendScopes ==
  ASSUME NEW tr, NEW ju, NEW sc, TrailOK(tr, ju), ScopesOK(tr, ju, sc),
         NEW l \in Lits, var(l) \notin DOMAIN ju, NEW js \in Justs, js.lvl <= Len(sc)
  PROVE  ScopesOK(Append(tr, l), Extended(ju, l, js), sc)
  <1> DEFINE tr2 == Append(tr, l)
             ju2 == Extended(ju, l, js)
             n   == Len(tr)
  <1>1. /\ n \in Nat /\ Len(tr2) = n + 1 /\ tr2[n + 1] = l /\ \A i \in 1 .. n : tr2[i] = tr[i]
        /\ LvlIn(ju2, l) = js.lvl
        /\ \A i \in 1 .. n : LvlIn(ju2, tr[i]) = LvlIn(ju, tr[i])
    <2>1. Extends(tr, ju, l, js, tr2, ju2)
      BY ExtendedIs
    <2> HIDE DEF tr2, ju2
    <2> QED BY <2>1, TrailFacts DEF Extends
  <1>2. sc \in Seq(Nat)
    BY DEF ScopesOK
  <1> HIDE DEF tr2, ju2
  <1>3. ASSUME NEW i \in 1 .. n + 1 PROVE LvlIn(ju2, tr2[i]) <= Len(sc)
    <2>1. i \in 1 .. n \/ i = n + 1
      BY <1>1
    <2> QED BY <1>1, <2>1 DEF ScopesOK
  <1>4. ASSUME NEW k \in 1 .. Len(sc)
        PROVE  /\ sc[k] <= n + 1 /\ \A j \in 1 .. k : sc[j] <= sc[k]
               /\ \A i \in 1 .. sc[k] : LvlIn(ju2, tr2[i]) < k
    <2>1. sc[k] <= n /\ sc[k] \in Nat
      BY <1>2 DEF ScopesOK
    <2>2. ASSUME NEW i \in 1 .. sc[k] PROVE LvlIn(ju2, tr2[i]) < k
      <3>1. i \in 1 .. n
        BY <1>1, <2>1
      <3> QED BY <1>1, <3>1 DEF ScopesOK
    <2> QED BY <1>1, <2>1, <2>2 DEF ScopesOK
  <1>5. ScopesOK(tr2, ju2, sc)
    BY <1>1, <1>2, <1>3, <1>4 DEF ScopesOK
  <1> QED BY <1>5 DEF tr2, ju2

\* The reasons of a trail that has grown.
LEMMA ExtendReasons ==
  ASSUME NEW cl, NEW tr, NEW ju, TrailOK(tr, ju), ReasonsOK(cl, tr, ju),
         NEW l \in Lits, var(l) \notin DOMAIN ju, NEW js \in Justs, GoodReason(cl, tr, ju, l, js)
  PROVE  ReasonsOK(cl, Append(tr, l), Extended(ju, l, js))
  <1> DEFINE tr2 == Append(tr, l)
             ju2 == Extended(ju, l, js)
             n   == Len(tr)
  <1>1. /\ n \in Nat /\ Len(tr2) = n + 1 /\ tr2[n + 1] = l /\ \A i \in 1 .. n : tr2[i] = tr[i]
        /\ ju2[var(l)] = Norm(js)
        /\ \A i \in 1 .. n : /\ ju2[var(tr[i])] = ju[var(tr[i])]
                             /\ LvlIn(ju2, tr[i]) = LvlIn(ju, tr[i])
        /\ Range(tr) = {tr[i] : i \in 1 .. n} /\ \A i \in 1 .. n : tr[i] \in Lits
    <2>1. Extends(tr, ju, l, js, tr2, ju2)
      BY ExtendedIs
    <2> HIDE DEF tr2, ju2
    <2> QED BY <2>1, TrailFacts DEF Extends
  <1>2. ASSUME NEW i \in 1 .. n, NEW k, tr[i] = -k, k \in Lits
        PROVE  LvlIn(ju2, k) = LvlIn(ju, k)
    <2>1. var(k) = var(tr[i])
      BY <1>2, LitsAre
    <2> QED BY <1>1, <2>1 DEF LvlIn
  <1> HIDE DEF tr2, ju2
  <1>3. ASSUME NEW i \in 1 .. n PROVE ReasonAt(cl, tr2, ju2, i)
    <2> DEFINE js1 == ju[var(tr[i])]
    <2> SUFFICES ASSUME js1 # None(js1.lvl)
                 PROVE  /\ js1.cls # 0 => /\ js1.cls \in DOMAIN cl /\ Len(cl[js1.cls]) > 3
                                          /\ cl[js1.cls][1] = tr[i]
                        /\ \A k \in ReasonIn(cl, js1, tr[i]) :
                             /\ k \in Lits /\ LvlIn(ju2, k) <= js1.lvl
                             /\ \E j \in 1 .. i - 1 : tr2[j] = -k
                        /\ \E k \in ReasonIn(cl, js1, tr[i]) : LvlIn(ju2, k) = js1.lvl
      BY <1>1 DEF ReasonAt
    <2> HIDE DEF js1
    <2>1. ReasonAt(cl, tr, ju, i)
      BY DEF ReasonsOK
    <2>2. /\ js1.cls # 0 => /\ js1.cls \in DOMAIN cl /\ Len(cl[js1.cls]) > 3
                            /\ cl[js1.cls][1] = tr[i]
          /\ \A k \in ReasonIn(cl, js1, tr[i]) :
               k \in Lits /\ LvlIn(ju, k) <= js1.lvl /\ \E j \in 1 .. i - 1 : tr[j] = -k
          /\ \E k \in ReasonIn(cl, js1, tr[i]) : LvlIn(ju, k) = js1.lvl
      BY <2>1 DEF ReasonAt, js1
    <2>3. ASSUME NEW k \in ReasonIn(cl, js1, tr[i])
          PROVE  LvlIn(ju2, k) = LvlIn(ju, k) /\ \E j \in 1 .. i - 1 : tr2[j] = -k
      <3>1. PICK j \in 1 .. i - 1 : tr[j] = -k
        BY <2>2
      <3>2. j \in 1 .. n
        BY <1>1
      <3> QED BY <1>1, <1>2, <2>2, <3>1, <3>2
    <2> QED BY <2>2, <2>3
  <1>4. ReasonAt(cl, tr2, ju2, n + 1)
    <2> DEFINE js2 == Norm(js)
    <2> SUFFICES ASSUME js2 # None(js2.lvl)
                 PROVE  /\ js2.cls # 0 => /\ js2.cls \in DOMAIN cl /\ Len(cl[js2.cls]) > 3
                                          /\ cl[js2.cls][1] = l
                        /\ \A k \in ReasonIn(cl, js2, l) :
                             /\ k \in Lits /\ LvlIn(ju2, k) <= js2.lvl
                             /\ \E j \in 1 .. (n + 1) - 1 : tr2[j] = -k
                        /\ \E k \in ReasonIn(cl, js2, l) : LvlIn(ju2, k) = js2.lvl
      BY <1>1 DEF ReasonAt
    <2>1. js2 = js
      BY JustsAre DEF Norm
    <2> HIDE DEF js2
    <2>2. ASSUME NEW k \in ReasonIn(cl, js, l)
          PROVE  /\ LvlIn(ju2, k) = LvlIn(ju, k) /\ k \in Lits /\ LvlIn(ju, k) <= js.lvl
                 /\ \E j \in 1 .. (n + 1) - 1 : tr2[j] = -k
      <3>1. k \in Lits /\ -k \in Range(tr) /\ LvlIn(ju, k) <= js.lvl
        BY <2>1 DEF GoodReason
      <3>2. PICK j \in 1 .. n : tr[j] = -k
        BY <1>1, <3>1
      <3>3. j \in 1 .. (n + 1) - 1
        BY <1>1
      <3> QED BY <1>1, <1>2, <3>1, <3>2, <3>3
    <2> QED BY <2>1, <2>2 DEF GoodReason
  <1>5. ReasonsOK(cl, tr2, ju2)
    <2> SUFFICES ASSUME NEW i \in 1 .. n + 1 PROVE ReasonAt(cl, tr2, ju2, i)
      BY <1>1 DEF ReasonsOK
    <2>1. i \in 1 .. n \/ i = n + 1
      BY <1>1
    <2> QED BY <1>3, <1>4, <2>1
  <1> QED BY <1>5 DEF tr2, ju2

\* New literals are no decisions above the assumptions, or of a level that is new.
LEMMA ExtendDecided ==
  ASSUME NEW tr, NEW ju, NEW base \in Nat, TrailOK(tr, ju), DecidedOK(tr, ju, base),
         NEW l \in Lits, var(l) \notin DOMAIN ju, NEW js \in Justs,
         js = None(js.lvl) /\ js.lvl > base => \A i \in 1 .. Len(tr) : LvlIn(ju, tr[i]) # js.lvl
  PROVE  DecidedOK(Append(tr, l), Extended(ju, l, js), base)
  <1> DEFINE tr2 == Append(tr, l)
             ju2 == Extended(ju, l, js)
             n   == Len(tr)
  <1>1. /\ n \in Nat /\ Len(tr2) = n + 1 /\ tr2[n + 1] = l /\ \A i \in 1 .. n : tr2[i] = tr[i]
        /\ ju2[var(l)] = Norm(js)
        /\ \A i \in 1 .. n : /\ ju2[var(tr[i])] = ju[var(tr[i])]
                             /\ LvlIn(ju2, tr[i]) = LvlIn(ju, tr[i])
    <2>1. Extends(tr, ju, l, js, tr2, ju2)
      BY ExtendedIs
    <2> HIDE DEF tr2, ju2
    <2> QED BY <2>1, TrailFacts DEF Extends
  <1> HIDE DEF tr2, ju2
  <1>2. Norm(js) = js \/ Norm(js) = None(0)
    BY DEF Norm
  <1>3. ASSUME NEW i \in 1 .. n PROVE DecidedAt(tr2, ju2, base, i)
    <2>1. DecidedAt(tr, ju, base, i)
      BY DEF DecidedOK
    <2>2. \A j \in 1 .. i - 1 : j \in 1 .. n
      BY <1>1
    <2> QED BY <1>1, <2>1, <2>2 DEF DecidedAt
  <1>4. DecidedAt(tr2, ju2, base, n + 1)
    <2>1. (n + 1) - 1 = n
      BY <1>1
    <2>2. js.lvl = 0 \/ Norm(js) = js
      BY DEF Norm
    <2>3. js.lvl = 0 => Norm(js) = None(0) /\ None(0).lvl = 0
      BY JustsAre DEF Norm
    <2>4. ASSUME NEW j \in 1 .. n, Norm(js) = None(Norm(js).lvl), Norm(js).lvl > base
          PROVE  LvlIn(ju, tr[j]) # Norm(js).lvl
      <3>1. CASE Norm(js) = js
        BY <2>4, <3>1
      <3>2. CASE js.lvl = 0
        BY <2>3, <2>4, <3>2
      <3> QED BY <2>2, <3>1, <3>2
    <2> QED BY <1>1, <2>1, <2>4 DEF DecidedAt
  <1>5. DecidedOK(tr2, ju2, base)
    <2> SUFFICES ASSUME NEW i \in 1 .. n + 1 PROVE DecidedAt(tr2, ju2, base, i)
      BY <1>1 DEF DecidedOK
    <2>1. i \in 1 .. n \/ i = n + 1
      BY <1>1
    <2> QED BY <1>3, <1>4, <2>1
  <1> QED BY <1>5 DEF tr2, ju2

\* What is settled stays settled when the trail grows.
LEMMA ExtendSettled ==
  ASSUME NEW tr, NEW ju, TrailOK(tr, ju), NEW l \in Lits, var(l) \notin DOMAIN ju, NEW js \in Justs,
         NEW c, NEW n, NEW b \in 0 .. Len(tr), Settled(c, tr, ju, n, b)
  PROVE  Settled(c, Append(tr, l), Extended(ju, l, js), n, b)
  <1> DEFINE tr2 == Append(tr, l)
             ju2 == Extended(ju, l, js)
  <1>1. /\ Len(tr) \in Nat /\ Len(tr2) = Len(tr) + 1 /\ \A i \in 1 .. Len(tr) : tr2[i] = tr[i]
        /\ \A i \in 1 .. Len(tr) : LvlIn(ju2, tr[i]) = LvlIn(ju, tr[i])
    <2>1. Extends(tr, ju, l, js, tr2, ju2)
      BY ExtendedIs
    <2> HIDE DEF tr2, ju2
    <2> QED BY <2>1, TrailFacts DEF Extends
  <1> HIDE DEF tr2, ju2
  <1>2. CASE \E i \in 1 .. Len(tr) : tr[i] \in Range(c) /\ LvlIn(ju, tr[i]) <= n
    <2>1. PICK i \in 1 .. Len(tr) : tr[i] \in Range(c) /\ LvlIn(ju, tr[i]) <= n
      BY <1>2
    <2>2. i \in 1 .. Len(tr2) /\ tr2[i] \in Range(c) /\ LvlIn(ju2, tr2[i]) <= n
      BY <1>1, <2>1
    <2>3. Settled(c, tr2, ju2, n, b)
      BY <2>2 DEF Settled
    <2> QED BY <2>3 DEF tr2, ju2
  <1>3. CASE \E i, j \in 1 .. Len(c) :
               /\ i # j /\ (Len(c) > 3 => i <= 2 /\ j <= 2)
               /\ \A p \in 1 .. b : tr[p] # -c[i] /\ tr[p] # -c[j]
    <2>1. \A p \in 1 .. b : tr2[p] = tr[p]
      BY <1>1
    <2>2. Settled(c, tr2, ju2, n, b)
      BY <1>3, <2>1 DEF Settled
    <2> QED BY <2>2 DEF tr2, ju2
  <1> QED BY <1>2, <1>3 DEF Settled

(***************************************************************************)
(* The trail is cut back to level n: what is of a higher level goes, the   *)
(* rest keeps its order and the first b literals their place.              *)
(***************************************************************************)
SubTrail(tr, ju, tr2, ju2, n, b, g) ==
  /\ TrailOK(tr2, ju2)
  /\ b <= Len(tr2)
  /\ \A i \in 1 .. Len(tr2) : /\ g[i] \in 1 .. Len(tr) /\ tr2[i] = tr[g[i]]
                              /\ ju2[var(tr2[i])] = ju[var(tr2[i])]
                              /\ LvlIn(ju2, tr2[i]) = LvlIn(ju, tr2[i])
                              /\ LvlIn(ju, tr2[i]) <= n
  /\ \A i, j \in 1 .. Len(tr2) : i < j => g[i] < g[j]
  /\ \A i \in 1 .. b : g[i] = i /\ i \in 1 .. Len(tr2)
  /\ \A i \in 1 .. Len(tr) : LvlIn(ju, tr[i]) <= n => \E j \in 1 .. Len(tr2) : g[j] = i

Cut(tr, ju, n, b) == {i \in 1 .. Len(tr) : i <= b \/ LvlIn(ju, tr[i]) <= n}

CutTo(tr, ju, n, b, tr2, ju2) ==
  LET K == Cut(tr, ju, n, b)
  IN  /\ tr2 = [i \in 1 .. Cardinality(K) |-> tr[Nth(K, i)]]
      /\ ju2 = [v \in VarsOf(Range(tr2)) |-> ju[v]]

\* What unassign_vars keeps is a trail.
LEMMA CutTrail ==
  ASSUME NEW tr, NEW ju, TrailOK(tr, ju), NEW n \in Nat, NEW b \in 0 .. Len(tr),
         \A i \in 1 .. b : LvlIn(ju, tr[i]) <= n,
         NEW tr2, NEW ju2, CutTo(tr, ju, n, b, tr2, ju2)
  PROVE  \E g : SubTrail(tr, ju, tr2, ju2, n, b, g)
  <1> DEFINE K == Cut(tr, ju, n, b)
             N == Cardinality(K)
             g == [i \in 1 .. N |-> Nth(K, i)]
  <1>0. /\ tr \in Seq(Lits) /\ Len(tr) \in Nat /\ \A i \in 1 .. Len(tr) : tr[i] \in Lits
        /\ \A i \in 1 .. Len(tr) : LvlIn(ju, tr[i]) \in Nat
        /\ b \in Nat
    <2>1. /\ Len(tr) \in Nat /\ \A i \in 1 .. Len(tr) : tr[i] \in Lits
          /\ \A i \in 1 .. Len(tr) : LvlIn(ju, tr[i]) \in Nat
      BY TrailFacts
    <2>2. tr \in Seq(Lits)
      BY DEF TrailOK
    <2> QED BY <2>1, <2>2
  <1>1. /\ K \subseteq 1 .. Len(tr) /\ 1 .. b \subseteq K
        /\ \A i \in K : LvlIn(ju, tr[i]) <= n
        /\ \A i \in 1 .. Len(tr) : LvlIn(ju, tr[i]) <= n => i \in K
    BY <1>0 DEF Cut
  <1>a. tr2 = [i \in 1 .. N |-> tr[Nth(K, i)]] /\ ju2 = [v \in VarsOf(Range(tr2)) |-> ju[v]]
    BY DEF CutTo
  <1> HIDE DEF K
  <1>2. K \subseteq Nat /\ K \subseteq Nat \ {0} /\ IsFiniteSet(K)
    <2>1. IsFiniteSet(1 .. Len(tr))
      BY <1>0, FS_Interval
    <2>2. IsFiniteSet(K)
      BY <1>1, <2>1, FS_Subset
    <2> QED BY <1>0, <1>1, <2>2
  <1>3. /\ N \in Nat
        /\ \A i \in 1 .. N : Nth(K, i) \in K
        /\ \A i, j \in 1 .. N : i < j => Nth(K, i) < Nth(K, j)
        /\ \A m \in K : \E i \in 1 .. N : Nth(K, i) = m
    BY <1>2, Enumerated
  <1> HIDE DEF N
  <1>4. b <= N /\ \A i \in 1 .. b : Nth(K, i) = i
    BY <1>0, <1>1, <1>2, EnumeratedFrom DEF N
  <1>5. \A i \in 1 .. N : g[i] = Nth(K, i)
    OBVIOUS
  <1>6. \A i \in 1 .. N : tr2[i] = tr[g[i]] /\ g[i] \in 1 .. Len(tr) /\ g[i] \in K
    BY <1>a, <1>1, <1>3
  <1> HIDE DEF g
  <1>7. tr2 \in Seq(Lits) /\ Len(tr2) = N
    <2>1. DOMAIN tr2 = 1 .. N /\ tr2 = [i \in 1 .. N |-> tr2[i]]
      BY <1>a
    <2>2. \A i \in 1 .. N : tr2[i] \in Lits
      BY <1>0, <1>6
    <2> QED BY <1>3, <2>1, <2>2
  <1>8. VarsOf(Range(tr2)) = {var(tr2[i]) : i \in 1 .. Len(tr2)}
    BY <1>7 DEF VarsOf, Range
  <1>9. \A i \in 1 .. N : /\ ju2[var(tr2[i])] = ju[var(tr2[i])]
                          /\ LvlIn(ju2, tr2[i]) = LvlIn(ju, tr2[i])
                          /\ LvlIn(ju, tr2[i]) <= n
    <2>1. \A v \in VarsOf(Range(tr2)) : ju2[v] = ju[v]
      BY <1>a
    <2> QED BY <1>1, <1>6, <1>7, <1>8, <2>1 DEF LvlIn
  <1>10. TrailOK(tr2, ju2)
    <2>1. ju2 = [v \in {var(tr2[i]) : i \in 1 .. Len(tr2)} |-> ju2[v]]
      BY <1>a, <1>8
    <2>2. ASSUME NEW i \in 1 .. N, NEW j \in 1 .. N, var(tr2[i]) = var(tr2[j]) PROVE i = j
      <3>1. g[i] = g[j]
        BY <1>6, <2>2 DEF TrailOK
      <3>2. g[i] \in Nat /\ i \in Int /\ j \in Int
        BY <1>2, <1>3, <1>6
      <3>3. ~ (i < j) /\ ~ (j < i)
        BY <1>3, <1>5, <3>1, <3>2
      <3> QED BY <3>2, <3>3
    <2>3. ASSUME NEW i \in 1 .. N
          PROVE  /\ ju2[var(tr2[i])] \in Justs
                 /\ LvlIn(ju2, tr2[i]) = 0 => ju2[var(tr2[i])] = None(0)
      BY <1>6, <1>9 DEF TrailOK
    <2> QED BY <1>7, <2>1, <2>2, <2>3 DEF TrailOK
  <1>11. \A i \in 1 .. b : g[i] = i /\ i \in 1 .. Len(tr2)
    BY <1>0, <1>3, <1>4, <1>5, <1>7
  <1>12. \A i \in 1 .. Len(tr) : LvlIn(ju, tr[i]) <= n => \E j \in 1 .. Len(tr2) : g[j] = i
    BY <1>1, <1>3, <1>5, <1>7
  <1>13. \A i, j \in 1 .. Len(tr2) : i < j => g[i] < g[j]
    BY <1>3, <1>5, <1>7
  <1>14. SubTrail(tr, ju, tr2, ju2, n, b, g)
    BY <1>4, <1>6, <1>7, <1>9, <1>10, <1>11, <1>12, <1>13 DEF SubTrail
  <1> QED BY <1>14

Prefix(s, sc, n, b) ==
  s \in Seq(Nat) /\ Len(s) = n /\ b = sc[n + 1] /\ \A k \in 1 .. n : s[k] = sc[k]

\* The scopes that remain are those of what is kept.
LEMMA CutScopes ==
  ASSUME NEW tr, NEW ju, TrailOK(tr, ju), NEW sc, ScopesOK(tr, ju, sc), NEW n \in 0 .. Len(sc) - 1,
         NEW b, NEW s, Prefix(s, sc, n, b),
         NEW tr2, NEW ju2, NEW g, SubTrail(tr, ju, tr2, ju2, n, b, g)
  PROVE  /\ ScopesOK(tr2, ju2, s) /\ Len(s) = n /\ b \in 0 .. Len(tr2)
         /\ \A k \in 1 .. n : s[k] = sc[k]
  <1>1. sc \in Seq(Nat) /\ Len(sc) \in Nat /\ n \in Nat /\ n + 1 \in 1 .. Len(sc) /\ b \in Nat /\ b = sc[n + 1]
    BY DEF ScopesOK, Prefix
  <1>2. s \in Seq(Nat) /\ Len(s) = n /\ \A k \in 1 .. n : s[k] = sc[k]
    BY <1>1 DEF Prefix
  <1>3. Len(tr2) \in Nat /\ b <= Len(tr2) /\ Len(tr) \in Nat
    BY TrailFacts DEF SubTrail
  <1>4. \A i \in 1 .. Len(tr2) : LvlIn(ju2, tr2[i]) <= Len(s)
    BY <1>2 DEF SubTrail
  <1>5. ASSUME NEW k \in 1 .. n
        PROVE  /\ s[k] <= Len(tr2) /\ \A j \in 1 .. k : s[j] <= s[k]
               /\ \A i \in 1 .. s[k] : LvlIn(ju2, tr2[i]) < k
    <2>1. k \in 1 .. Len(sc) /\ s[k] = sc[k] /\ sc[k] \in Nat
      <3>1. k \in 1 .. Len(sc)
        BY <1>1
      <3>2. \A j \in 1 .. Len(sc) : sc[j] \in Nat
        BY <1>1
      <3>3. s[k] = sc[k]
        BY <1>2
      <3> QED BY <3>1, <3>2, <3>3
    <2>2. sc[k] <= b
      <3>1. k \in 1 .. n + 1
        BY <1>1
      <3> QED BY <1>1, <3>1 DEF ScopesOK
    <2>3. \A j \in 1 .. k : s[j] <= s[k]
      <3> TAKE j \in 1 .. k
      <3>1. j \in 1 .. n
        BY <1>1
      <3> QED BY <1>2, <2>1, <3>1 DEF ScopesOK
    <2>4. ASSUME NEW i \in 1 .. s[k] PROVE LvlIn(ju2, tr2[i]) < k
      <3>1. i \in 1 .. b
        BY <1>1, <2>1, <2>2
      <3>2. i \in 1 .. Len(tr2) /\ g[i] = i
        BY <3>1 DEF SubTrail
      <3>3. LvlIn(ju2, tr2[i]) = LvlIn(ju, tr[i])
        BY <3>2 DEF SubTrail
      <3> QED BY <2>1, <3>3 DEF ScopesOK
    <2> QED BY <1>1, <1>3, <2>1, <2>2, <2>3, <2>4
  <1>6. ScopesOK(tr2, ju2, s)
    BY <1>2, <1>4, <1>5 DEF ScopesOK
  <1> QED BY <1>1, <1>2, <1>3, <1>6

\* What is kept, and where it was.
LEMMA SubTrailFacts ==
  ASSUME NEW tr, NEW ju, TrailOK(tr, ju), NEW n \in Nat, NEW b \in Nat,
         NEW tr2, NEW ju2, NEW g, SubTrail(tr, ju, tr2, ju2, n, b, g)
  PROVE  /\ Len(tr) \in Nat /\ Len(tr2) \in Nat
         /\ Range(tr2) = {l \in Range(tr) : LvlIn(ju, l) <= n}
         /\ \A l \in Lits : var(l) \in DOMAIN ju2 =>
              var(l) \in DOMAIN ju /\ LvlIn(ju2, l) = LvlIn(ju, l) /\ LvlIn(ju, l) <= n
         /\ \A l \in Lits : var(l) \in DOMAIN ju /\ LvlIn(ju, l) <= n => var(l) \in DOMAIN ju2
         /\ DOMAIN ju2 \subseteq DOMAIN ju /\ \A v \in DOMAIN ju2 : ju2[v] = ju[v]
  <1>1. /\ Len(tr) \in Nat /\ Len(tr2) \in Nat
        /\ Range(tr) = {tr[i] : i \in 1 .. Len(tr)}
        /\ Range(tr2) = {tr2[i] : i \in 1 .. Len(tr2)}
        /\ \A l \in Lits : var(l) \in DOMAIN ju2 <=> l \in Range(tr2) \/ -l \in Range(tr2)
        /\ \A l \in Lits : var(l) \in DOMAIN ju <=> l \in Range(tr) \/ -l \in Range(tr)
        /\ DOMAIN ju2 = {var(tr2[i]) : i \in 1 .. Len(tr2)}
        /\ DOMAIN ju = {var(tr[i]) : i \in 1 .. Len(tr)}
    BY TrailFacts DEF SubTrail
  <1>2. ASSUME NEW i \in 1 .. Len(tr2)
        PROVE  /\ tr2[i] \in Range(tr) /\ LvlIn(ju, tr2[i]) <= n
               /\ \E j \in 1 .. Len(tr) : tr2[i] = tr[j]
               /\ LvlIn(ju2, tr2[i]) = LvlIn(ju, tr2[i])
               /\ ju2[var(tr2[i])] = ju[var(tr2[i])]
    <2>1. /\ g[i] \in 1 .. Len(tr) /\ tr2[i] = tr[g[i]] /\ LvlIn(ju, tr2[i]) <= n
          /\ LvlIn(ju2, tr2[i]) = LvlIn(ju, tr2[i]) /\ ju2[var(tr2[i])] = ju[var(tr2[i])]
      BY DEF SubTrail
    <2> QED BY <1>1, <2>1
  <1>3. ASSUME NEW i \in 1 .. Len(tr), LvlIn(ju, tr[i]) <= n
        PROVE  \E j \in 1 .. Len(tr2) : tr2[j] = tr[i]
    <2>1. PICK j \in 1 .. Len(tr2) : g[j] = i
      BY <1>3 DEF SubTrail
    <2>2. tr2[j] = tr[i]
      BY <2>1 DEF SubTrail
    <2> QED BY <2>2
  <1>4. Range(tr2) = {l \in Range(tr) : LvlIn(ju, l) <= n}
    <2>1. ASSUME NEW l \in Range(tr2) PROVE l \in Range(tr) /\ LvlIn(ju, l) <= n
      BY <1>1, <1>2
    <2>2. ASSUME NEW l \in Range(tr), LvlIn(ju, l) <= n PROVE l \in Range(tr2)
      <3>1. PICK i \in 1 .. Len(tr) : tr[i] = l
        BY <1>1
      <3>2. PICK j \in 1 .. Len(tr2) : tr2[j] = l
        BY <1>3, <2>2, <3>1
      <3> QED BY <1>1, <3>2
    <2> QED BY <2>1, <2>2
  <1>5. ASSUME NEW v \in DOMAIN ju2 PROVE v \in DOMAIN ju /\ ju2[v] = ju[v]
    <2>1. PICK i \in 1 .. Len(tr2) : v = var(tr2[i])
      BY <1>1
    <2>2. PICK j \in 1 .. Len(tr) : tr2[i] = tr[j]
      BY <1>2
    <2> QED BY <1>1, <1>2, <2>1, <2>2
  <1>6. \A l : LvlIn(ju, l) = ju[var(l)].lvl /\ LvlIn(ju2, l) = ju2[var(l)].lvl
    BY DEF LvlIn
  <1>7. ASSUME NEW l \in Lits, var(l) \in DOMAIN ju2
        PROVE  var(l) \in DOMAIN ju /\ LvlIn(ju2, l) = LvlIn(ju, l) /\ LvlIn(ju, l) <= n
    <2>1. PICK i \in 1 .. Len(tr2) : var(l) = var(tr2[i])
      BY <1>1, <1>7
    <2>2. LvlIn(ju, l) = LvlIn(ju, tr2[i])
      BY <2>1 DEF LvlIn
    <2> QED BY <1>2, <1>5, <1>6, <1>7, <2>2
  <1>8. ASSUME NEW l \in Lits, var(l) \in DOMAIN ju, LvlIn(ju, l) <= n PROVE var(l) \in DOMAIN ju2
    <2>1. PICK i \in 1 .. Len(tr) : var(l) = var(tr[i])
      BY <1>1, <1>8
    <2>2. LvlIn(ju, tr[i]) <= n
      BY <1>8, <2>1 DEF LvlIn
    <2>3. PICK j \in 1 .. Len(tr2) : tr2[j] = tr[i]
      BY <1>3, <2>2
    <2> QED BY <1>1, <2>1, <2>3
  <1> QED BY <1>1, <1>4, <1>5, <1>7, <1>8

\* What is kept has its reasons: they are of its level at most.
LEMMA CutReasons ==
  ASSUME NEW cl, NEW tr, NEW ju, TrailOK(tr, ju), ReasonsOK(cl, tr, ju), NEW n \in Nat, NEW b \in Nat,
         NEW tr2, NEW ju2, NEW g, SubTrail(tr, ju, tr2, ju2, n, b, g)
  PROVE  ReasonsOK(cl, tr2, ju2)
  <1> SUFFICES ASSUME NEW i \in 1 .. Len(tr2) PROVE ReasonAt(cl, tr2, ju2, i)
    BY DEF ReasonsOK
  <1> DEFINE js == ju2[var(tr2[i])]
             l  == tr2[i]
  <1>1. /\ Len(tr) \in Nat /\ Len(tr2) \in Nat
        /\ g[i] \in 1 .. Len(tr) /\ l = tr[g[i]] /\ js = ju[var(l)]
        /\ \A j \in 1 .. Len(tr) : LvlIn(ju, tr[j]) \in Nat
        /\ \A j \in 1 .. Len(tr) : tr[j] \in Lits
    BY SubTrailFacts, TrailFacts DEF SubTrail
  <1>2. ReasonAt(cl, tr, ju, g[i])
    BY <1>1 DEF ReasonsOK
  <1>3. js.lvl <= n /\ js.lvl \in Nat
    BY <1>1 DEF SubTrail, LvlIn
  <1> SUFFICES ASSUME js # None(js.lvl)
               PROVE  /\ js.cls # 0 => js.cls \in DOMAIN cl /\ Len(cl[js.cls]) > 3 /\ cl[js.cls][1] = l
                      /\ \A k \in ReasonIn(cl, js, l) :
                           k \in Lits /\ LvlIn(ju2, k) <= js.lvl /\ \E j \in 1 .. i - 1 : tr2[j] = -k
                      /\ \E k \in ReasonIn(cl, js, l) : LvlIn(ju2, k) = js.lvl
    BY DEF ReasonAt
  <1> HIDE DEF js, l
  <1>4. /\ js.cls # 0 => js.cls \in DOMAIN cl /\ Len(cl[js.cls]) > 3 /\ cl[js.cls][1] = l
        /\ \A k \in ReasonIn(cl, js, l) :
             k \in Lits /\ LvlIn(ju, k) <= js.lvl /\ \E j \in 1 .. g[i] - 1 : tr[j] = -k
        /\ \E k \in ReasonIn(cl, js, l) : LvlIn(ju, k) = js.lvl
    BY <1>1, <1>2 DEF ReasonAt
  <1>5. ASSUME NEW k \in ReasonIn(cl, js, l)
        PROVE  LvlIn(ju2, k) = LvlIn(ju, k) /\ \E j \in 1 .. i - 1 : tr2[j] = -k
    <2>1. k \in Lits /\ LvlIn(ju, k) <= js.lvl
      BY <1>4
    <2>2. PICK j \in 1 .. g[i] - 1 : tr[j] = -k
      BY <1>4
    <2>3. j \in 1 .. Len(tr) /\ j < g[i]
      BY <1>1
    <2>4. LvlIn(ju, tr[j]) = LvlIn(ju, k)
      BY <2>1, <2>2, LitsAre DEF LvlIn
    <2>5. LvlIn(ju, tr[j]) <= n
      BY <1>1, <1>3, <2>1, <2>3, <2>4
    <2>6. PICK m \in 1 .. Len(tr2) : g[m] = j
      BY <2>3, <2>5 DEF SubTrail
    <2>7. tr2[m] = -k /\ LvlIn(ju2, tr2[m]) = LvlIn(ju, tr2[m])
      BY <2>2, <2>6 DEF SubTrail
    <2>8. ~ (i < m) /\ i # m
      <3>1. i < m => g[i] < g[m]
        BY DEF SubTrail
      <3> QED BY <1>1, <2>3, <2>6, <3>1
    <2>9. m \in 1 .. i - 1
      BY <1>1, <2>8
    <2>10. LvlIn(ju2, k) = LvlIn(ju, k)
      BY <2>1, <2>7, LitsAre DEF LvlIn
    <2> QED BY <2>7, <2>9, <2>10
  <1> QED BY <1>4, <1>5

\* What is kept is decided as before.
LEMMA CutDecided ==
  ASSUME NEW tr, NEW ju, TrailOK(tr, ju), NEW base \in Nat, DecidedOK(tr, ju, base),
         NEW n \in Nat, NEW b \in Nat,
         NEW tr2, NEW ju2, NEW g, SubTrail(tr, ju, tr2, ju2, n, b, g)
  PROVE  DecidedOK(tr2, ju2, base)
  <1> SUFFICES ASSUME NEW i \in 1 .. Len(tr2) PROVE DecidedAt(tr2, ju2, base, i)
    BY DEF DecidedOK
  <1>1. /\ Len(tr) \in Nat /\ Len(tr2) \in Nat
        /\ g[i] \in 1 .. Len(tr) /\ tr2[i] = tr[g[i]] /\ ju2[var(tr2[i])] = ju[var(tr2[i])]
    BY SubTrailFacts DEF SubTrail
  <1>2. DecidedAt(tr, ju, base, g[i])
    BY <1>1 DEF DecidedOK
  <1>3. ASSUME NEW j \in 1 .. i - 1
        PROVE  LvlIn(ju2, tr2[j]) = LvlIn(ju, tr[g[j]]) /\ g[j] \in 1 .. g[i] - 1
    <2>1. j \in 1 .. Len(tr2) /\ j < i
      BY <1>1
    <2>2. /\ g[j] \in 1 .. Len(tr) /\ tr2[j] = tr[g[j]] /\ LvlIn(ju2, tr2[j]) = LvlIn(ju, tr2[j])
          /\ g[j] < g[i]
      BY <2>1 DEF SubTrail
    <2> QED BY <1>1, <2>2
  <1>4. DecidedAt(tr2, ju2, base, i)
    BY <1>1, <1>2, <1>3 DEF DecidedAt
  <1> QED BY <1>4

\* A clause settled at a level that stays is settled in what is kept.
LEMMA CutSettled ==
  ASSUME NEW tr, NEW ju, TrailOK(tr, ju), NEW n \in Nat, NEW b \in Nat,
         NEW tr2, NEW ju2, NEW g, SubTrail(tr, ju, tr2, ju2, n, b, g),
         NEW c, NEW m \in 0 .. n, NEW d \in 0 .. b, Settled(c, tr, ju, m, d)
  PROVE  Settled(c, tr2, ju2, m, d)
  <1>1. Len(tr) \in Nat /\ Len(tr2) \in Nat /\ \A i \in 1 .. Len(tr) : LvlIn(ju, tr[i]) \in Nat
    BY SubTrailFacts, TrailFacts
  <1>2. CASE \E i \in 1 .. Len(tr) : tr[i] \in Range(c) /\ LvlIn(ju, tr[i]) <= m
    <2>1. PICK i \in 1 .. Len(tr) : tr[i] \in Range(c) /\ LvlIn(ju, tr[i]) <= m
      BY <1>2
    <2>2. LvlIn(ju, tr[i]) <= n
      BY <1>1, <2>1
    <2>3. PICK j \in 1 .. Len(tr2) : g[j] = i
      BY <2>2 DEF SubTrail
    <2>4. tr2[j] = tr[i] /\ LvlIn(ju2, tr2[j]) = LvlIn(ju, tr[i])
      BY <2>3 DEF SubTrail
    <2> QED BY <2>1, <2>4 DEF Settled
  <1>3. CASE \E i, j \in 1 .. Len(c) :
               /\ i # j /\ (Len(c) > 3 => i <= 2 /\ j <= 2)
               /\ \A p \in 1 .. d : tr[p] # -c[i] /\ tr[p] # -c[j]
    <2>1. ASSUME NEW p \in 1 .. d PROVE tr2[p] = tr[p]
      <3>1. p \in 1 .. b
        BY <1>1
      <3>2. p \in 1 .. Len(tr2) /\ g[p] = p
        BY <3>1 DEF SubTrail
      <3> QED BY <3>2 DEF SubTrail
    <2> QED BY <1>3, <2>1 DEF Settled
  <1> QED BY <1>2, <1>3 DEF Settled

-----------------------------------------------------------------------------
(***************************************************************************)
(* The clauses.                                                            *)
(***************************************************************************)
GoodClause(c) == c \in Seq(Lits) /\ Len(c) >= 2 /\ Injective(c)
ClausesOK(cl) == /\ IsFiniteSet(DOMAIN cl) /\ DOMAIN cl \subseteq Nat \ {0}
                 /\ \A id \in DOMAIN cl : GoodClause(cl[id])

\* What a clause of the store is.
LEMMA ClauseFacts ==
  ASSUME NEW c, GoodClause(c)
  PROVE  /\ Len(c) \in Nat /\ Len(c) >= 2 /\ DOMAIN c = 1 .. Len(c)
         /\ \A i \in 1 .. Len(c) : c[i] \in Lits /\ c[i] \in Range(c)
         /\ Range(c) = {c[i] : i \in 1 .. Len(c)} /\ Range(c) \subseteq Lits
         /\ IsFiniteSet(Range(c)) /\ c[1] # c[2] /\ 0 \notin Range(c)
         /\ \A i, j \in 1 .. Len(c) : c[i] = c[j] => i = j
  <1>1. c \in Seq(Lits) /\ Len(c) \in Nat /\ Len(c) >= 2 /\ DOMAIN c = 1 .. Len(c)
    BY DEF GoodClause
  <1>2. Range(c) = {c[i] : i \in 1 .. Len(c)} /\ IsFiniteSet(Range(c))
    BY <1>1, RangeFinite
  <1>3. \A i \in 1 .. Len(c) : c[i] \in Lits
    BY <1>1
  <1>4. \A i, j \in 1 .. Len(c) : c[i] = c[j] => i = j
    BY DEF GoodClause, Injective
  <1>5. c[1] # c[2]
    <2>1. 1 \in 1 .. Len(c) /\ 2 \in 1 .. Len(c)
      BY <1>1
    <2> QED BY <1>4, <2>1
  <1>6. 0 \notin Lits
    BY LitsAre
  <1> QED BY <1>1, <1>2, <1>3, <1>4, <1>5, <1>6

\* A clause with two literals swapped.
LEMMA SwapIs ==
  ASSUME NEW c, GoodClause(c), NEW i \in 1 .. Len(c), NEW j \in 1 .. Len(c)
  PROVE  /\ GoodClause(Swap(c, i, j)) /\ Range(Swap(c, i, j)) = Range(c)
         /\ Len(Swap(c, i, j)) = Len(c)
         /\ Swap(c, i, j)[i] = c[j] /\ Swap(c, i, j)[j] = c[i]
         /\ \A k \in 1 .. Len(c) : k # i /\ k # j => Swap(c, i, j)[k] = c[k]
  <1> DEFINE d == Swap(c, i, j)
             n == Len(c)
  <1>1. c \in Seq(Lits) /\ n \in Nat /\ DOMAIN c = 1 .. n /\ n >= 2
    BY DEF GoodClause
  <1>2. DOMAIN d = 1 .. n /\ d[i] = c[j] /\ d[j] = c[i] /\ d = [k \in 1 .. n |-> d[k]]
    BY <1>1 DEF Swap
  <1>3. \A k \in 1 .. n : k # i /\ k # j => d[k] = c[k]
    BY <1>1 DEF Swap
  <1> HIDE DEF d
  <1>4. \A k \in 1 .. n : d[k] \in Lits
    BY <1>1, <1>2, <1>3
  <1>5. d \in Seq(Lits) /\ Len(d) = n
    BY <1>1, <1>2, <1>4
  <1>6. Range(d) = Range(c)
    <2>1. Range(d) = {d[k] : k \in 1 .. n} /\ Range(c) = {c[k] : k \in 1 .. n}
      BY <1>1, <1>2 DEF Range
    <2>2. \A k \in 1 .. n : d[k] \in Range(c)
      BY <1>2, <1>3, <2>1
    <2>3. \A k \in 1 .. n : c[k] \in Range(d)
      BY <1>2, <1>3, <2>1
    <2> QED BY <2>1, <2>2, <2>3
  <1>7. Injective(d)
    <2>1. \A p, q \in 1 .. n : c[p] = c[q] => p = q
      BY DEF GoodClause, Injective
    <2>2. \A p, q \in 1 .. n : d[p] = d[q] => p = q
      BY <1>2, <1>3, <2>1
    <2> QED BY <1>5, <2>2 DEF Injective
  <1>8. GoodClause(d) /\ Range(d) = Range(c) /\ Len(d) = n /\ d[i] = c[j] /\ d[j] = c[i]
        /\ \A k \in 1 .. n : k # i /\ k # j => d[k] = c[k]
    BY <1>1, <1>2, <1>3, <1>5, <1>6, <1>7 DEF GoodClause
  <1> QED BY <1>8 DEF d

\* A set of literals in their order is a clause.
LEMMA SortedGood ==
  ASSUME NEW c, c \subseteq Lits, IsFiniteSet(c), Cardinality(c) > 1
  PROVE  GoodClause(Sorted(c)) /\ Range(Sorted(c)) = c
  <1>1. /\ Sorted(c) \in Seq(c) /\ Len(Sorted(c)) = Cardinality(c)
        /\ Range(Sorted(c)) = c /\ Injective(Sorted(c))
    BY SortedIs
  <1>2. Cardinality(c) \in Nat
    BY FS_CardinalityType
  <1>3. \A s \in Seq(c) : s \in Seq(Lits)
    OBVIOUS
  <1> QED BY <1>1, <1>2, <1>3 DEF GoodClause

\* There are finitely many literals.
LEMMA LitsFinite == IsFiniteSet(Lits) /\ \A S \in SUBSET Lits : IsFiniteSet(S)
  <1>1. NumVars + MaxPushes \in Nat
    BY SatSolverAssumption
  <1>2. IsFiniteSet(Vars)
    <2>1. IsFiniteSet(1 .. NumVars + MaxPushes)
      BY <1>1, FS_Interval
    <2> QED BY <2>1 DEF Vars
  <1> DEFINE f == [v \in Vars |-> -v]
             R == {-v : v \in Vars}
  <1>3. f \in Surjection(Vars, R)
    BY DEF Surjection
  <1> HIDE DEF f
  <1>4. IsFiniteSet(R)
    <2> HIDE DEF R
    <2> QED BY <1>2, <1>3, FS_Surjection
  <1>5. IsFiniteSet(Vars \cup R)
    <2> HIDE DEF R
    <2> QED BY <1>2, <1>4, FS_Union
  <1>6. IsFiniteSet(Lits)
    BY <1>5 DEF Lits
  <1> QED BY <1>6, FS_Subset

(***************************************************************************)
(* Clauses come, change and go: the reasons stay.                          *)
(***************************************************************************)
LEMMA FreeIdIs ==
  ASSUME ClausesOK(clauses)
  PROVE  FreeId \notin DOMAIN clauses /\ FreeId \in Nat \ {0}
  <1> DEFINE n == Cardinality(DOMAIN clauses)
  <1>1. IsFiniteSet(DOMAIN clauses) /\ n \in Nat
    BY FS_CardinalityType DEF ClausesOK
  <1>2. IsFiniteSet(1 .. n + 1) /\ Cardinality(1 .. n + 1) = n + 1
    BY <1>1, FS_Interval
  <1>3. ~ (1 .. n + 1 \subseteq DOMAIN clauses)
    <2>1. 1 .. n + 1 \subseteq DOMAIN clauses => Cardinality(1 .. n + 1) <= n
      BY <1>1, FS_Subset
    <2> QED BY <1>1, <1>2, <2>1
  <1>4. \E i \in 1 .. n + 1 : i \notin DOMAIN clauses
    BY <1>3
  <1>5. FreeId \in 1 .. n + 1 /\ FreeId \notin DOMAIN clauses
    BY <1>4 DEF FreeId
  <1> QED BY <1>1, <1>5

Attached(cl, id, c) == [i \in DOMAIN cl \cup {id} |-> IF i = id THEN c ELSE cl[i]]
Detached(cl, S)     == [i \in DOMAIN cl \ S |-> cl[i]]

\* The store with a clause more.
LEMMA AttachedIs ==
  ASSUME NEW cl, ClausesOK(cl), NEW id \in Nat \ {0}, id \notin DOMAIN cl, NEW c, GoodClause(c)
  PROVE  /\ ClausesOK(Attached(cl, id, c)) /\ DOMAIN Attached(cl, id, c) = DOMAIN cl \cup {id}
         /\ Attached(cl, id, c)[id] = c
         /\ \A i \in DOMAIN cl : Attached(cl, id, c)[i] = cl[i]
  <1> DEFINE cl2 == Attached(cl, id, c)
  <1>1. /\ DOMAIN cl2 = DOMAIN cl \cup {id} /\ cl2[id] = c
        /\ \A i \in DOMAIN cl : cl2[i] = cl[i]
    BY DEF Attached
  <1> HIDE DEF cl2
  <1>2. IsFiniteSet(DOMAIN cl2)
    BY <1>1, FS_AddElement DEF ClausesOK
  <1>3. ClausesOK(cl2)
    BY <1>1, <1>2 DEF ClausesOK
  <1> QED BY <1>1, <1>3 DEF cl2

\* The store with clauses less.
LEMMA DetachedIs ==
  ASSUME NEW cl, ClausesOK(cl), NEW S
  PROVE  /\ ClausesOK(Detached(cl, S)) /\ DOMAIN Detached(cl, S) = DOMAIN cl \ S
         /\ \A i \in DOMAIN cl \ S : Detached(cl, S)[i] = cl[i]
  <1> DEFINE cl2 == Detached(cl, S)
  <1>1. DOMAIN cl2 = DOMAIN cl \ S /\ \A i \in DOMAIN cl \ S : cl2[i] = cl[i]
    BY DEF Detached
  <1> HIDE DEF cl2
  <1>2. IsFiniteSet(DOMAIN cl2)
    BY <1>1, FS_Subset DEF ClausesOK
  <1>3. ClausesOK(cl2)
    BY <1>1, <1>2 DEF ClausesOK
  <1> QED BY <1>1, <1>3 DEF cl2

\* A clause is put in another order.
LEMMA PutIs ==
  ASSUME NEW cl, ClausesOK(cl), NEW id \in DOMAIN cl, NEW c, GoodClause(c)
  PROVE  /\ ClausesOK([cl EXCEPT ![id] = c]) /\ DOMAIN [cl EXCEPT ![id] = c] = DOMAIN cl
         /\ [cl EXCEPT ![id] = c][id] = c
         /\ \A i \in DOMAIN cl : i # id => [cl EXCEPT ![id] = c][i] = cl[i]
  <1> DEFINE cl2 == [cl EXCEPT ![id] = c]
  <1>1. /\ DOMAIN cl2 = DOMAIN cl /\ cl2[id] = c
        /\ \A i \in DOMAIN cl : i # id => cl2[i] = cl[i]
    OBVIOUS
  <1> HIDE DEF cl2
  <1>2. ClausesOK(cl2)
    BY <1>1 DEF ClausesOK
  <1> QED BY <1>1, <1>2 DEF cl2

\* Reasons that keep their literals and their consequent in front.
LEMMA KeepReasons ==
  ASSUME NEW cl, NEW cl2, NEW tr, NEW ju, ReasonsOK(cl, tr, ju),
         \A i \in 1 .. Len(tr) : LET c == ju[var(tr[i])].cls IN
            c # 0 /\ c \in DOMAIN cl /\ Len(cl[c]) > 3 /\ cl[c][1] = tr[i] =>
              /\ c \in DOMAIN cl2 /\ Len(cl2[c]) = Len(cl[c])
              /\ cl2[c][1] = tr[i] /\ Range(cl2[c]) = Range(cl[c])
  PROVE  ReasonsOK(cl2, tr, ju)
  <1> SUFFICES ASSUME NEW i \in 1 .. Len(tr) PROVE ReasonAt(cl2, tr, ju, i)
    BY DEF ReasonsOK
  <1> DEFINE js == ju[var(tr[i])]
             l  == tr[i]
  <1>1. ReasonAt(cl, tr, ju, i)
    BY DEF ReasonsOK
  <1>2. CASE js = None(js.lvl)
    BY <1>2 DEF ReasonAt
  <1>3. CASE js # None(js.lvl)
    <2>1. /\ js.cls # 0 => js.cls \in DOMAIN cl /\ Len(cl[js.cls]) > 3 /\ cl[js.cls][1] = l
          /\ \A k \in ReasonIn(cl, js, l) :
               k \in Lits /\ LvlIn(ju, k) <= js.lvl /\ \E j \in 1 .. i - 1 : tr[j] = -k
          /\ \E k \in ReasonIn(cl, js, l) : LvlIn(ju, k) = js.lvl
      BY <1>1, <1>3 DEF ReasonAt
    <2>2. js.cls # 0 => /\ js.cls \in DOMAIN cl2 /\ Len(cl2[js.cls]) = Len(cl[js.cls])
                        /\ cl2[js.cls][1] = l /\ Range(cl2[js.cls]) = Range(cl[js.cls])
      BY <2>1
    <2>3. ReasonIn(cl2, js, l) = ReasonIn(cl, js, l)
      BY <2>2 DEF ReasonIn
    <2> QED BY <2>1, <2>2, <2>3 DEF ReasonAt
  <1> QED BY <1>2, <1>3

\* The levels and reasons of the state, as those of its trail.
LEMMA LvlIs == \A l : lvl(l) = LvlIn(m_justification, l)
  BY DEF lvl, LvlIn

\* The same for reasons.
LEMMA ReasonIs == \A js, l : Reason(js, l) = ReasonIn(clauses, js, l)
  BY DEF Reason, ReasonIn

\* The levels of assigned literals.
LEMMA LevelsAre ==
  ASSUME TrailOK(m_trail, m_justification), ScopesOK(m_trail, m_justification, m_scopes)
  PROVE  /\ scope_lvl \in Nat
         /\ \A l \in Lits : var(l) \in Assigned => lvl(l) \in 0 .. scope_lvl
         /\ \A l \in Lits : lvl(-l) = lvl(l)
  <1>1. scope_lvl \in Nat
    BY DEF ScopesOK, scope_lvl
  <1>2. ASSUME NEW l \in Lits, var(l) \in Assigned PROVE lvl(l) \in 0 .. scope_lvl
    <2>0. DOMAIN m_justification = {var(m_trail[i]) : i \in 1 .. Len(m_trail)}
      BY TrailFacts
    <2>1. PICK i \in 1 .. Len(m_trail) : var(l) = var(m_trail[i])
      BY <1>2, <2>0 DEF Assigned
    <2>2. LvlIn(m_justification, l) = LvlIn(m_justification, m_trail[i])
      BY <2>1 DEF LvlIn
    <2>3. LvlIn(m_justification, m_trail[i]) \in Nat
      BY TrailFacts
    <2>4. LvlIn(m_justification, m_trail[i]) <= Len(m_scopes)
      BY DEF ScopesOK
    <2> QED BY <1>1, <2>2, <2>3, <2>4, LvlIs DEF scope_lvl
  <1>3. \A l \in Lits : lvl(-l) = lvl(l)
    BY LitsAre DEF lvl
  <1> QED BY <1>1, <1>2, <1>3

\* Highest is a level, and a level of one of the literals.
LEMMA HighestIs ==
  ASSUME TrailOK(m_trail, m_justification), ScopesOK(m_trail, m_justification, m_scopes),
         NEW S, S \subseteq Lits, \A l \in S : var(l) \in Assigned
  PROVE  /\ Highest(S) \in 0 .. scope_lvl /\ Highest(S) \in Nat
         /\ \A l \in S : lvl(l) <= Highest(S)
         /\ S # {} => \E l \in S : lvl(l) = Highest(S)
         /\ Highest(S) > 0 => \E l \in S : lvl(l) = Highest(S)
  <1> DEFINE L == {lvl(l) : l \in S} \cup {0}
  <1>1. scope_lvl \in Nat /\ \A l \in S : lvl(l) \in 0 .. scope_lvl
    BY LevelsAre
  <1>2. L \subseteq 0 .. scope_lvl /\ L # {} /\ \A l \in S : lvl(l) \in L
    BY <1>1
  <1>3. \A x \in L : x = 0 \/ \E l \in S : lvl(l) = x
    OBVIOUS
  <1>4. Highest(S) = Max(L)
    BY DEF Highest
  <1> HIDE DEF L
  <1>5. Max(L) \in L /\ \A k \in L : k <= Max(L)
    BY <1>1, <1>2, MaxIs
  <1>6. Highest(S) \in 0 .. scope_lvl /\ \A l \in S : lvl(l) <= Highest(S)
    BY <1>2, <1>4, <1>5
  <1>7. Highest(S) > 0 => \E l \in S : lvl(l) = Highest(S)
    BY <1>3, <1>4, <1>5
  <1>8. ASSUME NEW l \in S, Highest(S) = 0 PROVE lvl(l) = Highest(S)
    BY <1>1, <1>6, <1>8
  <1> QED BY <1>1, <1>6, <1>7, <1>8

\* MaxIndex finds a literal of the highest level.
LEMMA MaxIndexIs ==
  ASSUME TrailOK(m_trail, m_justification), ScopesOK(m_trail, m_justification, m_scopes),
         NEW c, NEW I, I \subseteq Nat, I # {},
         \A i \in I : c[i] \in Lits /\ var(c[i]) \in Assigned
  PROVE  MaxIndex(c, I) \in I /\ \A j \in I : lvl(c[j]) <= lvl(c[MaxIndex(c, I)])
  <1> DEFINE L == {lvl(c[i]) : i \in I}
  <1>1. scope_lvl \in Nat /\ \A i \in I : lvl(c[i]) \in 0 .. scope_lvl
    BY LevelsAre
  <1>2. L \subseteq 0 .. scope_lvl /\ L # {} /\ \A i \in I : lvl(c[i]) \in L
    BY <1>1
  <1>3. \A x \in L : \E i \in I : lvl(c[i]) = x
    OBVIOUS
  <1> HIDE DEF L
  <1>4. PICK m \in L : \A k \in L : k <= m
    BY <1>1, <1>2, GreatestOf
  <1> DEFINE J == {i \in I : lvl(c[i]) = m}
  <1>5. J \subseteq Nat /\ J # {}
    BY <1>3
  <1>6. PICK i \in J : \A j \in J : i <= j
    <2> HIDE DEF J
    <2> QED BY <1>5, LeastOf
  <1>7. i \in I /\ lvl(c[i]) = m
    BY <1>6
  <1>8. ASSUME NEW j \in I PROVE lvl(c[i]) > lvl(c[j]) \/ (lvl(c[i]) = lvl(c[j]) /\ i <= j)
    <2>1. lvl(c[j]) <= m /\ lvl(c[j]) \in Nat /\ m \in Nat
      BY <1>1, <1>2, <1>4
    <2>2. CASE lvl(c[j]) = m
      BY <1>6, <1>7, <2>2
    <2>3. CASE lvl(c[j]) # m
      BY <1>7, <2>1, <2>3
    <2> QED BY <2>2, <2>3
  <1> DEFINE x == MaxIndex(c, I)
  <1>9. x \in I /\ \A j \in I : lvl(c[x]) > lvl(c[j]) \/ (lvl(c[x]) = lvl(c[j]) /\ x <= j)
    BY <1>7, <1>8 DEF MaxIndex
  <1> HIDE DEF x
  <1>10. \A j \in I : lvl(c[j]) <= lvl(c[x])
    <2> TAKE j \in I
    <2>1. lvl(c[x]) \in Nat /\ lvl(c[j]) \in Nat
      BY <1>1, <1>9
    <2>2. lvl(c[x]) > lvl(c[j]) \/ lvl(c[x]) = lvl(c[j])
      BY <1>9
    <2> QED BY <2>1, <2>2
  <1> QED BY <1>9, <1>10 DEF x

-----------------------------------------------------------------------------
(***************************************************************************)
(* The invariant.                                                          *)
(***************************************************************************)
StoreInv  == ClausesOK(clauses) /\ learned \subseteq DOMAIN clauses
TrailInv  == TrailOK(m_trail, m_justification) /\ ScopesOK(m_trail, m_justification, m_scopes)
ReasonInv == ReasonsOK(clauses, m_trail, m_justification)
DecideInv == DecidedOK(m_trail, m_justification, search_lvl)

QueueInv ==
  /\ m_qhead \in 0 .. Len(m_trail)
  /\ todo # {} => Propagating /\ ~inconsistent /\ m_qhead > 0
  /\ todo \subseteq watches(m_trail[m_qhead])

\* The conflict: literals of the trail; one without a reason is about an
\* assumption, or about a unit.
ConflictAt(cl, tr, cf, base) ==
  /\ cf.js \in Justs /\ (cf.js.cls # 0 => cf.js.cls \in DOMAIN cl)
  /\ \A k \in ReasonIn(cl, cf.js, -cf.not_l) : k \in Lits /\ -k \in Range(tr)
  /\ cf.not_l # 0 => cf.not_l \in Range(tr)
  /\ ReasonIn(cl, cf.js, 0) = {} => cf.js.lvl <= base
ConflictInv == pc \notin {"idle", "base", "popped"} /\ inconsistent =>
                 ConflictAt(clauses, m_trail, m_conflict, search_lvl)

\* The lemma to be added: a unit, or the first literal is to be assigned.
LemmaAt(lm, tr, ju) ==
  /\ lm \in Seq(Lits) /\ Len(lm) >= 1 /\ Injective(lm)
  /\ Len(lm) > 1 => /\ var(lm[1]) \notin DOMAIN ju
                    /\ \A i \in 2 .. Len(lm) : -lm[i] \in Range(tr) /\ LvlIn(ju, lm[i]) > 0
Pending == pc \in {"rebase", "reassume", "reprop", "learn"}
LemmaInv ==
  /\ Pending => LemmaAt(m_lemma, m_trail, m_justification) /\ (Len(m_lemma) > 1 => ~inconsistent)
  /\ ~Pending => m_lemma = <<>>
  /\ Pending /\ pc # "learn" => Len(m_lemma) = 1 /\ tracking_assumptions

PhaseInv ==
  /\ pc \in {"base", "rebase", "popped"} => scope_lvl = 0
  /\ pc \in {"assume", "reassume"} => scope_lvl = 1
UserInv ==
  /\ nvars \in NumVars .. NumVars + MaxPushes
  /\ m_user_scope_literals \in Seq(NumVars + 1 .. nvars)
  /\ m_assumptions \in Seq(Lits) /\ toassume \in Seq(Lits)
  /\ m_core \subseteq Lits /\ result \in {"none", "sat", "unsat", "undef"}

SearchInv == /\ StoreInv /\ TrailInv /\ ReasonInv /\ DecideInv /\ QueueInv
             /\ ConflictInv /\ LemmaInv /\ PhaseInv /\ UserInv

\* Every clause is settled at every level; at the last one up to what is
\* propagated, unless there is a conflict.
Done(id) == IF id \in todo THEN m_qhead - 1 ELSE m_qhead
PropInv ==
  \A id \in DOMAIN clauses :
    /\ \A n \in 0 .. scope_lvl - 1 :
         Settled(clauses[id], m_trail, m_justification, n, m_scopes[n + 1])
    /\ ~inconsistent => Settled(clauses[id], m_trail, m_justification, scope_lvl, Done(id))

-----------------------------------------------------------------------------

\* True, false and unassigned literals.
LEMMA ValuesAre ==
  ASSUME TrailOK(m_trail, m_justification)
  PROVE  /\ \A l : True(l) <=> l \in Range(m_trail)
         /\ \A l : False(l) <=> -l \in Range(m_trail)
         /\ \A l \in Lits : Undef(l) <=> l \notin Range(m_trail) /\ -l \notin Range(m_trail)
         /\ \A l \in Lits : ~ (True(l) /\ False(l))
         /\ \A l \in Lits : True(l) \/ False(l) => var(l) \in Assigned
         /\ \A l : Undef(l) <=> var(l) \notin DOMAIN m_justification
  <1>1. /\ DOMAIN m_trail = 1 .. Len(m_trail)
        /\ Range(m_trail) = {m_trail[i] : i \in 1 .. Len(m_trail)}
        /\ \A l \in Lits : var(l) \in DOMAIN m_justification <=>
                             l \in Range(m_trail) \/ -l \in Range(m_trail)
        /\ \A l \in Lits : l \in Range(m_trail) => -l \notin Range(m_trail)
    BY TrailFacts
  <1>2. \A l : True(l) <=> l \in Range(m_trail)
    BY <1>1 DEF True
  <1>3. \A l : False(l) <=> -l \in Range(m_trail)
    BY <1>2 DEF False
  <1>4. \A l : Undef(l) <=> var(l) \notin DOMAIN m_justification
    BY DEF Undef, Assigned
  <1>5. ASSUME NEW l \in Lits
        PROVE  /\ Undef(l) <=> l \notin Range(m_trail) /\ -l \notin Range(m_trail)
               /\ ~ (True(l) /\ False(l))
               /\ True(l) \/ False(l) => var(l) \in Assigned
    BY <1>1, <1>2, <1>3, <1>4 DEF Assigned
  <1> QED BY <1>2, <1>3, <1>4, <1>5

\* The trail grows.
LEMMA Grow ==
  ASSUME TrailInv, NEW l \in Lits, Undef(l), NEW js \in Justs, js.lvl <= Len(m_scopes),
         assign_core(l, js)
  PROVE  /\ m_trail' = Append(m_trail, l)
         /\ m_justification' = Extended(m_justification, l, js)
         /\ Extends(m_trail, m_justification, l, js, m_trail', m_justification')
         /\ ScopesOK(m_trail', m_justification', m_scopes)
         /\ var(l) \notin DOMAIN m_justification
         /\ m_conflict' = m_conflict
  <1>1. m_trail' = Append(m_trail, l) /\ m_conflict' = m_conflict
    BY DEF assign_core
  <1>2. m_justification' = Extended(m_justification, l, js)
    BY DEF assign_core, Extended, Norm, Assigned
  <1>3. TrailOK(m_trail, m_justification) /\ ScopesOK(m_trail, m_justification, m_scopes)
    BY DEF TrailInv
  <1>4. var(l) \notin DOMAIN m_justification
    BY DEF Undef, Assigned
  <1>5. Extends(m_trail, m_justification, l, js, m_trail', m_justification')
    BY <1>1, <1>2, <1>3, <1>4, ExtendedIs
  <1>6. ScopesOK(m_trail', m_justification', m_scopes)
    BY <1>1, <1>2, <1>3, <1>4, ExtendScopes
  <1> QED BY <1>1, <1>2, <1>4, <1>5, <1>6

\* The trail is cut back.
LEMMA Shrink ==
  ASSUME TrailInv, NEW n \in 0 .. scope_lvl - 1, PopScopes(n)
  PROVE  /\ \E g : SubTrail(m_trail, m_justification, m_trail', m_justification', n, m_scopes[n + 1], g)
         /\ m_scopes' = SubSeq(m_scopes, 1, n) /\ scope_lvl' = n
         /\ \A k \in 1 .. n : m_scopes'[k] = m_scopes[k]
         /\ TrailInv' /\ m_scopes[n + 1] \in 0 .. Len(m_trail')
         /\ m_scopes[n + 1] \in Nat /\ n \in Nat
  <1> DEFINE b == m_scopes[n + 1]
  <1>1. /\ TrailOK(m_trail, m_justification) /\ ScopesOK(m_trail, m_justification, m_scopes)
        /\ n \in 0 .. Len(m_scopes) - 1
    BY DEF TrailInv, scope_lvl
  <1>2. m_scopes \in Seq(Nat) /\ Len(m_scopes) \in Nat /\ n + 1 \in 1 .. Len(m_scopes) /\ n \in Nat
    BY <1>1 DEF ScopesOK
  <1>3. b \in Nat /\ b <= Len(m_trail) /\ Len(m_trail) \in Nat
    BY <1>1, <1>2, TrailFacts DEF ScopesOK
  <1>4. \A i \in 1 .. b : LvlIn(m_justification, m_trail[i]) <= n
    <2> TAKE i \in 1 .. b
    <2>1. LvlIn(m_justification, m_trail[i]) < n + 1
      BY <1>1, <1>2 DEF ScopesOK
    <2>2. LvlIn(m_justification, m_trail[i]) \in Nat
      <3>1. i \in 1 .. Len(m_trail)
        BY <1>3
      <3> QED BY <1>1, <3>1, TrailFacts
    <2> QED BY <1>2, <2>1, <2>2
  <1>5. CutTo(m_trail, m_justification, n, b, m_trail', m_justification')
    <2>1. {i \in DOMAIN m_trail : i <= b \/ lvl(m_trail[i]) <= n} = Cut(m_trail, m_justification, n, b)
      <3>1. DOMAIN m_trail = 1 .. Len(m_trail)
        BY <1>1, TrailFacts
      <3> QED BY <3>1, LvlIs DEF Cut
    <2> DEFINE K == Cut(m_trail, m_justification, n, b)
    <2>2. /\ m_trail' = [i \in 1 .. Cardinality(K) |-> m_trail[Nth(K, i)]]
          /\ m_justification' = [v \in VarsOf(Range([i \in 1 .. Cardinality(K) |-> m_trail[Nth(K, i)]])) |-> m_justification[v]]
      BY <2>1 DEF PopScopes, unassign_vars
    <2> HIDE DEF K
    <2>3. m_justification' = [v \in VarsOf(Range(m_trail')) |-> m_justification[v]]
      BY <2>2
    <2> QED BY <2>2, <2>3 DEF CutTo, K
  <1>6. PICK g : SubTrail(m_trail, m_justification, m_trail', m_justification', n, b, g)
    <2>1. b \in 0 .. Len(m_trail)
      BY <1>3
    <2> HIDE DEF b
    <2> QED BY <1>1, <1>2, <1>4, <1>5, <2>1, CutTrail
  <1>7. m_scopes' = SubSeq(m_scopes, 1, n)
    BY DEF PopScopes
  <1>8. /\ ScopesOK(m_trail', m_justification', m_scopes') /\ Len(m_scopes') = n
        /\ b \in 0 .. Len(m_trail')
        /\ \A k \in 1 .. n : m_scopes'[k] = m_scopes[k]
    <2>2. Prefix(m_scopes', m_scopes, n, b)
      BY <1>2, <1>7 DEF Prefix
    <2> HIDE DEF b
    <2> QED BY <1>1, <1>6, <2>2, CutScopes
  <1>9. TrailOK(m_trail', m_justification')
    BY <1>6 DEF SubTrail
  <1> QED BY <1>2, <1>3, <1>6, <1>7, <1>8, <1>9 DEF TrailInv, scope_lvl

\* What closing scopes keeps.
LEMMA CutInv ==
  ASSUME TrailInv, NEW n \in 0 .. scope_lvl - 1, PopScopes(n), NEW base \in Nat
  PROVE  /\ ReasonInv => ReasonsOK(clauses, m_trail', m_justification')
         /\ DecidedOK(m_trail, m_justification, base) => DecidedOK(m_trail', m_justification', base)
         /\ \A c : \A m \in 0 .. n, d \in 0 .. m_scopes[n + 1] :
              Settled(c, m_trail, m_justification, m, d) => Settled(c, m_trail', m_justification', m, d)
         /\ Range(m_trail') = {l \in Range(m_trail) : lvl(l) <= n}
         /\ \A l \in Lits : var(l) \in DOMAIN m_justification' =>
              /\ var(l) \in Assigned /\ lvl(l) <= n
              /\ LvlIn(m_justification', l) = lvl(l)
         /\ \A l \in Lits : var(l) \in Assigned /\ lvl(l) <= n => var(l) \in DOMAIN m_justification'
         /\ \A v \in DOMAIN m_justification' : v \in Assigned /\ m_justification'[v] = m_justification[v]
  <1> DEFINE b == m_scopes[n + 1]
  <1>1. b \in Nat /\ n \in Nat
    BY Shrink
  <1>2. PICK g : SubTrail(m_trail, m_justification, m_trail', m_justification', n, b, g)
    BY Shrink
  <1>3. TrailOK(m_trail, m_justification)
    BY DEF TrailInv
  <1> HIDE DEF b
  <1>4. ReasonInv => ReasonsOK(clauses, m_trail', m_justification')
    BY <1>1, <1>2, <1>3, CutReasons DEF ReasonInv
  <1>5. DecidedOK(m_trail, m_justification, base) => DecidedOK(m_trail', m_justification', base)
    BY <1>1, <1>2, <1>3, CutDecided
  <1>6. \A c : \A m \in 0 .. n, d \in 0 .. b :
          Settled(c, m_trail, m_justification, m, d) => Settled(c, m_trail', m_justification', m, d)
    BY <1>1, <1>2, <1>3, CutSettled
  <1>7. /\ Range(m_trail') = {l \in Range(m_trail) : LvlIn(m_justification, l) <= n}
        /\ \A l \in Lits : var(l) \in DOMAIN m_justification' =>
             /\ var(l) \in DOMAIN m_justification
             /\ LvlIn(m_justification', l) = LvlIn(m_justification, l)
             /\ LvlIn(m_justification, l) <= n
        /\ \A l \in Lits : var(l) \in DOMAIN m_justification /\ LvlIn(m_justification, l) <= n
                             => var(l) \in DOMAIN m_justification'
        /\ DOMAIN m_justification' \subseteq DOMAIN m_justification
        /\ \A v \in DOMAIN m_justification' : m_justification'[v] = m_justification[v]
    BY <1>1, <1>2, <1>3, SubTrailFacts
  <1> QED BY <1>4, <1>5, <1>6, <1>7, LvlIs DEF Assigned, b

-----------------------------------------------------------------------------
(***************************************************************************)
(* Steps that leave the trail and the clauses alone.                       *)
(***************************************************************************)
\* Steps that change the phase only keep most of it.
LEMMA Frame ==
  ASSUME UNCHANGED <<store, search, user, m_assumptions>>
  PROVE  /\ (StoreInv => StoreInv') /\ (TrailInv => TrailInv') /\ (ReasonInv => ReasonInv')
         /\ (DecideInv => DecideInv') /\ (PropInv => PropInv')
         /\ search_lvl' = search_lvl /\ scope_lvl' = scope_lvl
         /\ (tracking_assumptions' <=> tracking_assumptions)
         /\ (inconsistent' <=> inconsistent)
  <1>1. /\ input' = input /\ clauses' = clauses /\ learned' = learned
        /\ m_trail' = m_trail /\ m_justification' = m_justification /\ m_scopes' = m_scopes
        /\ m_qhead' = m_qhead /\ todo' = todo /\ m_conflict' = m_conflict
        /\ nvars' = nvars /\ m_user_scope_literals' = m_user_scope_literals
        /\ m_assumptions' = m_assumptions
    BY DEF store, search, user
  <1>2. /\ (tracking_assumptions' <=> tracking_assumptions) /\ (inconsistent' <=> inconsistent)
        /\ scope_lvl' = scope_lvl
    BY <1>1 DEF tracking_assumptions, inconsistent, scope_lvl
  <1>3. search_lvl' = search_lvl
    BY <1>2 DEF search_lvl
  <1>4. (StoreInv => StoreInv') /\ (TrailInv => TrailInv') /\ (ReasonInv => ReasonInv')
    BY <1>1 DEF StoreInv, TrailInv, ReasonInv
  <1>5. DecideInv => DecideInv'
    BY <1>1, <1>3 DEF DecideInv
  <1>6. PropInv => PropInv'
    BY <1>1, <1>2 DEF PropInv, Done
  <1> QED BY <1>2, <1>3, <1>4, <1>5, <1>6

\* ... to which phase they lead.
LEMMA QuietStep ==
  ASSUME SearchInv, UNCHANGED <<store, search, user, m_assumptions>>,
         todo = {} \/ (Propagating => Propagating'),
         pc \in {"idle", "base", "popped"} => ~inconsistent \/ pc' \in {"idle", "base", "popped"},
         LemmaInv', PhaseInv', UserInv'
  PROVE  SearchInv' /\ (PropInv => PropInv')
  <1>1. /\ clauses' = clauses /\ m_trail' = m_trail /\ m_qhead' = m_qhead /\ todo' = todo
        /\ m_conflict' = m_conflict
    BY DEF store, search
  <1>2. /\ StoreInv' /\ TrailInv' /\ ReasonInv' /\ DecideInv' /\ (PropInv => PropInv')
        /\ search_lvl' = search_lvl /\ (inconsistent' <=> inconsistent)
    BY Frame DEF SearchInv
  <1>3. watches(m_trail[m_qhead])' = watches(m_trail[m_qhead])
    BY <1>1 DEF watches
  <1>4. QueueInv'
    BY <1>1, <1>2, <1>3 DEF SearchInv, QueueInv
  <1>5. ConflictInv'
    BY <1>1, <1>2 DEF SearchInv, ConflictInv
  <1> QED BY <1>2, <1>4, <1>5 DEF SearchInv

\* Assumptions are made.
LEMMA AssumedInv ==
  ASSUME SearchInv, Assumed
  PROVE  SearchInv' /\ (PropInv => PropInv')
  <1>1. /\ UNCHANGED <<store, search, user, m_assumptions>> /\ UNCHANGED <<m_lemma, m_core, result>>
        /\ pc \in {"assume", "reassume"} /\ pc' = IF pc = "assume" THEN "first" ELSE "reprop"
        /\ toassume' = <<>>
    BY DEF Assumed
  <1>2. /\ m_trail' = m_trail /\ m_justification' = m_justification
        /\ nvars' = nvars /\ m_user_scope_literals' = m_user_scope_literals
        /\ m_lemma' = m_lemma
    BY <1>1 DEF search, user
  <1>3. todo = {} \/ (Propagating => Propagating')
    BY <1>1 DEF SearchInv, QueueInv, Propagating
  <1>4. (tracking_assumptions' <=> tracking_assumptions) /\ (inconsistent' <=> inconsistent)
    BY <1>1, Frame
  <1>5. LemmaInv'
    BY <1>1, <1>2, <1>4 DEF SearchInv, LemmaInv, Pending
  <1>6. PhaseInv' /\ UserInv'
    BY <1>1, <1>2 DEF SearchInv, PhaseInv, UserInv
  <1> QED BY <1>1, <1>3, <1>5, <1>6, QuietStep

\* Propagation has ended.
LEMMA PropagatedInv ==
  ASSUME SearchInv, Propagated
  PROVE  SearchInv' /\ (PropInv => PropInv')
  <1>1. /\ UNCHANGED <<store, search, user, goal>> /\ UNCHANGED <<m_lemma, m_core, result>>
        /\ \/ pc = "first" /\ Fixpoint /\ pc' = "search"
           \/ pc = "popped" /\ (inconsistent \/ Fixpoint) /\ pc' = "idle"
           \/ /\ pc \in {"rebase", "reprop"} /\ pc' = "learn"
              /\ inconsistent \/ (pc = "reprop" /\ Fixpoint)
    BY DEF Propagated
  <1>2. /\ m_trail' = m_trail /\ m_justification' = m_justification
        /\ nvars' = nvars /\ m_user_scope_literals' = m_user_scope_literals
        /\ m_lemma' = m_lemma /\ m_assumptions' = m_assumptions /\ toassume' = toassume
    BY <1>1 DEF search, user, goal
  <1>3. todo = {}
    BY <1>1 DEF SearchInv, QueueInv, Fixpoint
  <1>4. (tracking_assumptions' <=> tracking_assumptions) /\ (inconsistent' <=> inconsistent)
    BY <1>1, <1>2, Frame
  <1>5. LemmaInv'
    <2>1. /\ Pending => LemmaAt(m_lemma, m_trail, m_justification) /\ (Len(m_lemma) > 1 => ~inconsistent)
          /\ ~Pending => m_lemma = <<>>
          /\ Pending /\ pc # "learn" => Len(m_lemma) = 1 /\ tracking_assumptions
      BY DEF SearchInv, LemmaInv
    <2>2. Pending' => Pending /\ pc' = "learn"
      BY <1>1 DEF Pending
    <2>3. ~Pending' => ~Pending
      BY <1>1 DEF Pending
    <2> QED BY <1>2, <1>4, <2>1, <2>2, <2>3 DEF LemmaInv
  <1>6. PhaseInv' /\ UserInv'
    BY <1>1, <1>2 DEF SearchInv, PhaseInv, UserInv
  <1> QED BY <1>1, <1>2, <1>3, <1>5, <1>6, QuietStep

\* A check ends.
LEMMA FinishInv ==
  ASSUME SearchInv, NEW r \in {"sat", "unsat", "undef"}, NEW core, core \subseteq Lits, Finish(r, core),
         UNCHANGED <<store, search, user, m_assumptions>>, todo = {}
  PROVE  SearchInv' /\ (PropInv => PropInv')
  <1>1. /\ pc' = "idle" /\ result' = r /\ m_core' = core /\ m_lemma' = <<>> /\ toassume' = <<>>
    BY DEF Finish
  <1>2. nvars' = nvars /\ m_user_scope_literals' = m_user_scope_literals
    BY DEF user
  <1>3. LemmaInv'
    BY <1>1 DEF LemmaInv, Pending
  <1>4. PhaseInv'
    BY <1>1 DEF PhaseInv
  <1>5. UserInv'
    BY <1>1, <1>2 DEF SearchInv, UserInv
  <1> QED BY <1>1, <1>3, <1>4, <1>5, QuietStep

\* The ways a check ends.
LEMMA EndsInv ==
  ASSUME SearchInv, BaseConflict \/ final_check \/ Cancel \/ ConflictIsFinal
  PROVE  SearchInv' /\ (PropInv => PropInv')
  <1>0. {} \subseteq Lits
    OBVIOUS
  <1>1. CASE BaseConflict
    <2>1. todo = {}
      BY <1>1 DEF BaseConflict, SearchInv, QueueInv
    <2>2. Finish("unsat", {}) /\ UNCHANGED <<store, search, user, m_assumptions>>
      BY <1>1 DEF BaseConflict
    <2> QED BY <1>0, <2>1, <2>2, FinishInv
  <1>2. CASE final_check
    <2>1. todo = {}
      BY <1>2 DEF final_check, Fixpoint
    <2>2. Finish("sat", {}) /\ UNCHANGED <<store, search, user, m_assumptions>>
      BY <1>2 DEF final_check
    <2> QED BY <1>0, <2>1, <2>2, FinishInv
  <1>3. CASE Cancel
    <2>1. todo = {}
      BY <1>3 DEF Cancel
    <2>2. Finish("undef", {}) /\ UNCHANGED <<store, search, user, m_assumptions>>
      BY <1>3 DEF Cancel
    <2> QED BY <1>0, <2>1, <2>2, FinishInv
  <1>4. CASE ConflictIsFinal
    <2>1. todo = {}
      BY <1>4 DEF ConflictIsFinal, SearchInv, QueueInv
    <2> DEFINE core == IF tracking_assumptions THEN unsat_core ELSE {}
    <2>2. Finish("unsat", core) /\ UNCHANGED <<store, search, user, m_assumptions>>
      BY <1>4 DEF ConflictIsFinal
    <2>3. core \subseteq Lits
      <3>1. Range(m_assumptions) \subseteq Lits
        <4>1. m_assumptions \in Seq(Lits)
          BY DEF SearchInv, UserInv
        <4> QED BY <4>1 DEF Range
      <3>2. unsat_core \subseteq Range(m_assumptions)
        BY DEF unsat_core, Above
      <3> QED BY <3>1, <3>2
    <2> HIDE DEF core
    <2> QED BY <2>1, <2>2, <2>3, FinishInv
  <1> QED BY <1>1, <1>2, <1>3, <1>4

-----------------------------------------------------------------------------
(***************************************************************************)
(* A level is opened when all is propagated.                               *)
(***************************************************************************)
Pushed(sc, tr) == Append(sc, Len(tr))

\* A scope more.
LEMMA PushedIs ==
  ASSUME NEW tr, NEW ju, TrailOK(tr, ju), NEW sc, ScopesOK(tr, ju, sc),
         NEW sc2, sc2 = Pushed(sc, tr)
  PROVE  /\ ScopesOK(tr, ju, sc2) /\ Len(sc2) = Len(sc) + 1 /\ Len(sc) \in Nat
         /\ sc2[Len(sc) + 1] = Len(tr) /\ \A k \in 1 .. Len(sc) : sc2[k] = sc[k]
  <1>1. sc \in Seq(Nat) /\ Len(sc) \in Nat /\ Len(tr) \in Nat
    BY TrailFacts DEF ScopesOK
  <1>2. /\ sc2 \in Seq(Nat) /\ Len(sc2) = Len(sc) + 1
        /\ sc2[Len(sc) + 1] = Len(tr) /\ \A k \in 1 .. Len(sc) : sc2[k] = sc[k]
    BY <1>1 DEF Pushed
  <1>3. \A i \in 1 .. Len(tr) : LvlIn(ju, tr[i]) \in Nat /\ LvlIn(ju, tr[i]) <= Len(sc)
    BY TrailFacts DEF ScopesOK
  <1>4. \A i \in 1 .. Len(tr) : LvlIn(ju, tr[i]) <= Len(sc2)
    BY <1>1, <1>2, <1>3
  <1>5. ASSUME NEW k \in 1 .. Len(sc2)
        PROVE  /\ sc2[k] <= Len(tr) /\ \A j \in 1 .. k : sc2[j] <= sc2[k]
               /\ \A i \in 1 .. sc2[k] : LvlIn(ju, tr[i]) < k
    <2>1. CASE k \in 1 .. Len(sc)
      <3>1. \A j \in 1 .. k : j \in 1 .. Len(sc)
        BY <1>1, <2>1
      <3> QED BY <1>2, <2>1, <3>1 DEF ScopesOK
    <2>2. CASE k = Len(sc) + 1
      <3>1. sc2[k] = Len(tr)
        BY <1>2, <2>2
      <3>2. ASSUME NEW j \in 1 .. k PROVE sc2[j] <= sc2[k]
        <4>1. j \in 1 .. Len(sc) \/ j = k
          BY <1>1, <2>2
        <4>2. j \in 1 .. Len(sc) => sc2[j] = sc[j] /\ sc[j] <= Len(tr)
          BY <1>2 DEF ScopesOK
        <4> QED BY <1>1, <3>1, <4>1, <4>2
      <3>3. \A i \in 1 .. Len(tr) : LvlIn(ju, tr[i]) < k
        BY <1>1, <1>3, <2>2
      <3> QED BY <1>1, <3>1, <3>2, <3>3
    <2>3. k \in 1 .. Len(sc) \/ k = Len(sc) + 1
      BY <1>1, <1>2
    <2> QED BY <2>1, <2>2, <2>3
  <1>6. ScopesOK(tr, ju, sc2)
    BY <1>2, <1>4, <1>5 DEF ScopesOK
  <1> QED BY <1>1, <1>2, <1>6

\* What is settled at a level is settled at a higher one.
LEMMA SettledUp ==
  ASSUME NEW c, NEW tr, NEW ju, TrailOK(tr, ju), NEW n \in Nat, NEW m \in Nat, n <= m, NEW b,
         Settled(c, tr, ju, n, b)
  PROVE  Settled(c, tr, ju, m, b)
  <1>1. \A i \in 1 .. Len(tr) : LvlIn(ju, tr[i]) \in Nat
    BY TrailFacts
  <1>2. \A i \in 1 .. Len(tr) : LvlIn(ju, tr[i]) <= n => LvlIn(ju, tr[i]) <= m
    BY <1>1
  <1> QED BY <1>2 DEF Settled

\* Fewer literals are propagated.
LEMMA SettledLess ==
  ASSUME NEW c, NEW tr, NEW ju, NEW n, NEW b \in Nat, NEW d \in 0 .. b, Settled(c, tr, ju, n, b)
  PROVE  Settled(c, tr, ju, n, d)
  <1>1. \A p \in 1 .. d : p \in 1 .. b
    OBVIOUS
  <1> QED BY <1>1 DEF Settled

\* At a fixpoint everything is settled at the level that is left.
LEMMA PushProp ==
  ASSUME TrailInv, PropInv, Fixpoint, push,
         UNCHANGED <<clauses, m_trail, m_justification, m_qhead, todo, m_conflict>>
  PROVE  PropInv'
  <1>1. TrailOK(m_trail, m_justification) /\ ScopesOK(m_trail, m_justification, m_scopes)
    BY DEF TrailInv
  <1>2. m_scopes' = Pushed(m_scopes, m_trail)
    BY DEF push, Pushed
  <1>3. /\ Len(m_scopes') = Len(m_scopes) + 1 /\ Len(m_scopes) \in Nat
        /\ m_scopes'[Len(m_scopes) + 1] = Len(m_trail)
        /\ \A k \in 1 .. Len(m_scopes) : m_scopes'[k] = m_scopes[k]
    BY <1>1, <1>2, PushedIs
  <1>4. m_qhead = Len(m_trail) /\ todo = {} /\ ~inconsistent
    BY DEF Fixpoint
  <1> SUFFICES ASSUME NEW id \in DOMAIN clauses
               PROVE  /\ \A n \in 0 .. Len(m_scopes') - 1 :
                           Settled(clauses[id], m_trail, m_justification, n, m_scopes'[n + 1])
                      /\ Settled(clauses[id], m_trail, m_justification, Len(m_scopes'), m_qhead)
    BY <1>4 DEF PropInv, scope_lvl, Done
  <1>5. /\ \A n \in 0 .. Len(m_scopes) - 1 :
             Settled(clauses[id], m_trail, m_justification, n, m_scopes[n + 1])
        /\ Settled(clauses[id], m_trail, m_justification, Len(m_scopes), m_qhead)
    BY <1>4 DEF PropInv, scope_lvl, Done
  <1>6. ASSUME NEW n \in 0 .. Len(m_scopes') - 1
        PROVE  Settled(clauses[id], m_trail, m_justification, n, m_scopes'[n + 1])
    <2>1. CASE n \in 0 .. Len(m_scopes) - 1
      <3>1. m_scopes'[n + 1] = m_scopes[n + 1]
        BY <1>3, <2>1
      <3> QED BY <1>5, <2>1, <3>1
    <2>2. CASE n = Len(m_scopes)
      BY <1>3, <1>4, <1>5, <2>2
    <2> QED BY <1>3, <2>1, <2>2
  <1>7. Settled(clauses[id], m_trail, m_justification, Len(m_scopes'), m_qhead)
    <2>1. Len(m_scopes') \in Nat /\ Len(m_scopes) <= Len(m_scopes')
      BY <1>3
    <2> QED BY <1>1, <1>3, <1>5, <2>1, SettledUp
  <1> QED BY <1>6, <1>7

NegScopes == [i \in DOMAIN m_user_scope_literals |-> -m_user_scope_literals[i]]

\* The literals of the user scopes.
LEMMA NegScopesAre ==
  ASSUME UserInv
  PROVE  NegScopes \in Seq(Lits) /\ ScopeLits \subseteq Vars /\ ScopeLits \subseteq NumVars + 1 .. nvars
  <1> DEFINE s == m_user_scope_literals
             f == NegScopes
  <1>1. s \in Seq(NumVars + 1 .. nvars) /\ nvars \in NumVars .. NumVars + MaxPushes
        /\ NumVars \in Nat /\ MaxPushes \in Nat
    BY SatSolverAssumption DEF UserInv
  <1>2. NumVars + 1 .. nvars \subseteq Vars
    BY <1>1 DEF Vars
  <1>3. Len(s) \in Nat /\ DOMAIN s = 1 .. Len(s) /\ \A i \in 1 .. Len(s) : s[i] \in NumVars + 1 .. nvars
    BY <1>1
  <1>4. \A i \in 1 .. Len(s) : -s[i] \in Lits
    BY <1>2, <1>3 DEF Lits
  <1>5. f = [i \in 1 .. Len(s) |-> -s[i]]
    BY <1>3 DEF NegScopes
  <1> HIDE DEF f
  <1>6. f \in Seq(Lits)
    BY <1>3, <1>4, <1>5
  <1>7. ScopeLits \subseteq NumVars + 1 .. nvars
    BY <1>3 DEF ScopeLits, Range
  <1> QED BY <1>2, <1>6, <1>7 DEF f

\* The assumptions get a level of their own.
LEMMA OpenInv ==
  ASSUME SearchInv, init_assumptions \/ reinit_assumptions
  PROVE  SearchInv' /\ (PropInv => PropInv')
  <1>1. /\ Fixpoint /\ UNCHANGED <<store, m_trail, m_justification, m_qhead, todo, m_conflict, user>>
        /\ UNCHANGED <<m_assumptions, m_lemma, m_core, result>>
        /\ \/ pc = "base" /\ toassume' = toassume
              /\ \/ pc' = "search" /\ m_scopes' = m_scopes
                 \/ pc' = "assume" /\ push
           \/ /\ pc = "rebase" /\ pc' = "reassume" /\ push
              /\ toassume' = [i \in DOMAIN m_user_scope_literals |-> -m_user_scope_literals[i]] \o m_assumptions
    BY DEF init_assumptions, reinit_assumptions, goal
  <1>2. /\ clauses' = clauses /\ learned' = learned /\ input' = input
        /\ m_trail' = m_trail /\ m_justification' = m_justification
        /\ m_qhead' = m_qhead /\ todo' = todo /\ m_conflict' = m_conflict
        /\ nvars' = nvars /\ m_user_scope_literals' = m_user_scope_literals
    BY <1>1 DEF store, user
  <1>3. todo = {} /\ ~inconsistent /\ scope_lvl = 0
    BY <1>1 DEF Fixpoint, SearchInv, PhaseInv
  <1>4. (tracking_assumptions' <=> tracking_assumptions) /\ (inconsistent' <=> inconsistent)
        /\ search_lvl' = search_lvl
    BY <1>1, <1>2 DEF tracking_assumptions, inconsistent, search_lvl
  <1>5. TrailOK(m_trail, m_justification) /\ ScopesOK(m_trail, m_justification, m_scopes)
    BY DEF SearchInv, TrailInv
  <1>6. TrailInv' /\ (push => scope_lvl' = 1)
    <2>1. ASSUME push
          PROVE  ScopesOK(m_trail, m_justification, m_scopes') /\ Len(m_scopes') = Len(m_scopes) + 1
      <3>1. m_scopes' = Pushed(m_scopes, m_trail)
        BY <2>1 DEF push, Pushed
      <3> QED BY <1>5, <3>1, PushedIs
    <2>2. m_scopes' = m_scopes => ScopesOK(m_trail, m_justification, m_scopes')
      BY <1>5
    <2>3. push \/ m_scopes' = m_scopes
      BY <1>1
    <2>4. TrailOK(m_trail', m_justification') /\ ScopesOK(m_trail', m_justification', m_scopes')
      BY <1>2, <1>5, <2>1, <2>2, <2>3
    <2>5. push => scope_lvl' = 1
      BY <1>3, <2>1 DEF scope_lvl
    <2> QED BY <2>4, <2>5 DEF TrailInv
  <1>7. StoreInv' /\ ReasonInv' /\ DecideInv'
    BY <1>2, <1>4 DEF SearchInv, StoreInv, ReasonInv, DecideInv
  <1>8. QueueInv' /\ ConflictInv'
    BY <1>2, <1>3, <1>4 DEF SearchInv, QueueInv, ConflictInv
  <1>9. LemmaInv'
    BY <1>1, <1>2, <1>4 DEF SearchInv, LemmaInv, Pending
  <1>10. PhaseInv'
    BY <1>1, <1>6 DEF PhaseInv
  <1>11. UserInv'
    <2>1. /\ m_user_scope_literals \in Seq(NumVars + 1 .. nvars) /\ m_assumptions \in Seq(Lits)
          /\ toassume \in Seq(Lits) /\ nvars \in NumVars .. NumVars + MaxPushes
      BY DEF SearchInv, UserInv
    <2> DEFINE f == NegScopes
    <2>3. f \in Seq(Lits)
      BY NegScopesAre DEF SearchInv
    <2> HIDE DEF f
    <2>4. f \o m_assumptions \in Seq(Lits)
      BY <2>1, <2>3
    <2>5. toassume' \in Seq(Lits)
      BY <1>1, <2>1, <2>4 DEF f, NegScopes
    <2> QED BY <1>1, <1>2, <2>1, <2>5 DEF SearchInv, UserInv
  <1>12. PropInv => PropInv'
    <2>1. CASE push
      <3>1. UNCHANGED <<clauses, m_trail, m_justification, m_qhead, todo, m_conflict>>
        BY <1>2
      <3> QED BY <1>1, <2>1, <3>1, PushProp DEF SearchInv
    <2>2. CASE m_scopes' = m_scopes
      BY <1>2, <1>4, <2>2 DEF PropInv, Done, scope_lvl
    <2> QED BY <1>1, <2>1, <2>2
  <1> QED BY <1>6, <1>7, <1>8, <1>9, <1>10, <1>11, <1>12 DEF SearchInv

\* What propagation leaves alone.
LEMMA RestIs ==
  ASSUME UNCHANGED Rest
  PROVE  /\ input' = input /\ learned' = learned /\ m_scopes' = m_scopes
         /\ nvars' = nvars /\ m_user_scope_literals' = m_user_scope_literals
         /\ m_assumptions' = m_assumptions /\ toassume' = toassume
         /\ m_lemma' = m_lemma /\ m_core' = m_core /\ pc' = pc /\ result' = result
         /\ scope_lvl' = scope_lvl /\ search_lvl' = search_lvl
         /\ (tracking_assumptions' <=> tracking_assumptions)
         /\ (Propagating' <=> Propagating) /\ (Pending' <=> Pending)
         /\ (PhaseInv => PhaseInv') /\ (UserInv => UserInv')
  <1>1. /\ input' = input /\ learned' = learned /\ m_scopes' = m_scopes
        /\ nvars' = nvars /\ m_user_scope_literals' = m_user_scope_literals
        /\ m_assumptions' = m_assumptions /\ toassume' = toassume
        /\ m_lemma' = m_lemma /\ m_core' = m_core /\ pc' = pc /\ result' = result
    BY DEF Rest, user, goal
  <1>2. (tracking_assumptions' <=> tracking_assumptions) /\ scope_lvl' = scope_lvl
    BY <1>1 DEF tracking_assumptions, scope_lvl
  <1>3. search_lvl' = search_lvl
    BY <1>2 DEF search_lvl
  <1>4. (Propagating' <=> Propagating) /\ (Pending' <=> Pending)
    BY <1>1 DEF Propagating, Pending
  <1>5. (PhaseInv => PhaseInv') /\ (UserInv => UserInv')
    BY <1>1, <1>2 DEF PhaseInv, UserInv
  <1> QED BY <1>1, <1>2, <1>3, <1>4, <1>5

\* Who watches a literal.
LEMMA WatchesAre ==
  ASSUME NEW l, NEW id
  PROVE  id \in watches(l) <=>
           /\ id \in DOMAIN clauses
           /\ \E j \in 1 .. IF Len(clauses[id]) > 3 THEN 2 ELSE Len(clauses[id]) : clauses[id][j] = -l
  BY DEF watches

\* The next literal is taken from the queue.
LEMMA DequeueInv ==
  ASSUME SearchInv, Dequeue
  PROVE  SearchInv'
  <1>1. /\ Propagating /\ ~inconsistent /\ todo = {} /\ m_qhead < Len(m_trail)
        /\ m_qhead' = m_qhead + 1 /\ todo' \subseteq watches(m_trail[m_qhead + 1])
        /\ UNCHANGED <<clauses, m_trail, m_justification, m_conflict>> /\ UNCHANGED Rest
    BY DEF Dequeue
  <1>2. /\ learned' = learned /\ m_scopes' = m_scopes /\ m_lemma' = m_lemma /\ pc' = pc
        /\ search_lvl' = search_lvl
        /\ (tracking_assumptions' <=> tracking_assumptions)
        /\ (Propagating' <=> Propagating) /\ (Pending' <=> Pending)
        /\ PhaseInv' /\ UserInv'
    BY <1>1, RestIs DEF SearchInv
  <1>3. inconsistent' <=> inconsistent
    BY <1>1 DEF inconsistent
  <1>4. StoreInv' /\ TrailInv' /\ ReasonInv' /\ DecideInv'
    BY <1>1, <1>2 DEF SearchInv, StoreInv, TrailInv, ReasonInv, DecideInv
  <1>5. QueueInv'
    <2>1. m_qhead \in 0 .. Len(m_trail) /\ Len(m_trail) \in Nat
      BY TrailFacts DEF SearchInv, QueueInv, TrailInv
    <2>2. m_qhead' \in 0 .. Len(m_trail') /\ m_qhead' > 0
      BY <1>1, <2>1
    <2>3. watches(m_trail[m_qhead])' = watches(m_trail[m_qhead + 1])
      BY <1>1 DEF watches
    <2> QED BY <1>1, <1>2, <1>3, <2>2, <2>3 DEF QueueInv
  <1>6. ConflictInv'
    BY <1>1, <1>3 DEF ConflictInv
  <1>7. LemmaInv'
    BY <1>1, <1>2, <1>3 DEF SearchInv, LemmaInv
  <1> QED BY <1>2, <1>4, <1>5, <1>6, <1>7 DEF SearchInv

\* A clause that does not watch the next literal, or is true, is settled.
LEMMA SettledNext ==
  ASSUME NEW c, GoodClause(c), NEW tr, NEW ju, TrailOK(tr, ju), NEW n \in Nat, NEW b \in 0 .. Len(tr) - 1,
         Settled(c, tr, ju, n, b),
         ~ \E j \in 1 .. IF Len(c) > 3 THEN 2 ELSE Len(c) : c[j] = -tr[b + 1]
  PROVE  Settled(c, tr, ju, n, b + 1)
  <1>1. Len(tr) \in Nat /\ Len(c) \in Nat /\ \A i \in 1 .. Len(c) : c[i] \in Lits
    BY TrailFacts, ClauseFacts
  <1>2. \A l \in Lits : -(-l) = l
    BY LitsAre
  <1>3. ASSUME NEW i \in 1 .. Len(c), NEW j \in 1 .. Len(c), i # j, Len(c) > 3 => i <= 2 /\ j <= 2,
               \A p \in 1 .. b : tr[p] # -c[i] /\ tr[p] # -c[j]
        PROVE  Settled(c, tr, ju, n, b + 1)
    <2>1. tr[b + 1] # -c[i] /\ tr[b + 1] # -c[j]
      <3>1. /\ i \in 1 .. IF Len(c) > 3 THEN 2 ELSE Len(c)
            /\ j \in 1 .. IF Len(c) > 3 THEN 2 ELSE Len(c)
        BY <1>1, <1>3
      <3>2. c[i] # -tr[b + 1] /\ c[j] # -tr[b + 1]
        BY <3>1
      <3> QED BY <1>1, <1>2, <3>2
    <2>2. \A p \in 1 .. b + 1 : tr[p] # -c[i] /\ tr[p] # -c[j]
      <3> TAKE p \in 1 .. b + 1
      <3>1. p \in 1 .. b \/ p = b + 1
        OBVIOUS
      <3> QED BY <1>3, <2>1, <3>1
    <2> QED BY <1>3, <2>2 DEF Settled
  <1> QED BY <1>3 DEF Settled

\* A clause with a true literal of a low level is settled.
LEMMA SettledTrue ==
  ASSUME NEW c, NEW tr, NEW ju, TrailOK(tr, ju), NEW n, NEW b, NEW l \in Range(c), l \in Range(tr),
         LvlIn(ju, l) <= n
  PROVE  Settled(c, tr, ju, n, b)
  <1>1. Range(tr) = {tr[i] : i \in 1 .. Len(tr)}
    BY TrailFacts
  <1>2. PICK i \in 1 .. Len(tr) : tr[i] = l
    BY <1>1
  <1> QED BY <1>2 DEF Settled

\* Clauses that are not to be visited for it are settled.
LEMMA DequeueProp ==
  ASSUME SearchInv, PropInv, Dequeue
  PROVE  PropInv'
  <1>1. /\ ~inconsistent /\ todo = {} /\ m_qhead < Len(m_trail) /\ m_qhead' = m_qhead + 1
        /\ todo' = {i \in watches(m_trail[m_qhead + 1]) :
                      Len(clauses[i]) > 3 \/ ~\E l \in Range(clauses[i]) : True(l)}
        /\ UNCHANGED <<clauses, m_trail, m_justification, m_conflict>> /\ UNCHANGED Rest
    BY DEF Dequeue
  <1>2. m_scopes' = m_scopes /\ scope_lvl' = scope_lvl
    BY <1>1, RestIs
  <1>3. /\ TrailOK(m_trail, m_justification) /\ ScopesOK(m_trail, m_justification, m_scopes)
        /\ ClausesOK(clauses) /\ m_qhead \in 0 .. Len(m_trail)
    BY DEF SearchInv, TrailInv, StoreInv, QueueInv
  <1>4. Len(m_trail) \in Nat /\ scope_lvl \in Nat /\ m_qhead \in 0 .. Len(m_trail) - 1
    <2>1. Len(m_trail) \in Nat /\ scope_lvl \in Nat
      BY <1>3, TrailFacts, LevelsAre
    <2> QED BY <1>1, <1>3, <2>1
  <1> SUFFICES ASSUME NEW id \in DOMAIN clauses
               PROVE  /\ \A n \in 0 .. scope_lvl - 1 :
                           Settled(clauses[id], m_trail, m_justification, n, m_scopes[n + 1])
                      /\ Settled(clauses[id], m_trail, m_justification, scope_lvl, Done(id)')
    BY <1>1, <1>2 DEF PropInv
  <1>5. /\ \A n \in 0 .. scope_lvl - 1 :
             Settled(clauses[id], m_trail, m_justification, n, m_scopes[n + 1])
        /\ Settled(clauses[id], m_trail, m_justification, scope_lvl, m_qhead)
    BY <1>1 DEF PropInv, Done
  <1> DEFINE c == clauses[id]
  <1>6. CASE id \in todo'
    <2>1. Done(id)' = m_qhead
      BY <1>1, <1>4, <1>6 DEF Done
    <2> QED BY <1>5, <2>1
  <1>7. CASE id \notin watches(m_trail[m_qhead + 1])
    <2>1. Done(id)' = m_qhead + 1
      BY <1>1, <1>7 DEF Done
    <2>2. ~ \E j \in 1 .. IF Len(c) > 3 THEN 2 ELSE Len(c) : c[j] = -m_trail[m_qhead + 1]
      BY <1>7, WatchesAre
    <2>3. GoodClause(c)
      BY <1>3 DEF ClausesOK
    <2> HIDE DEF c
    <2>4. Settled(c, m_trail, m_justification, scope_lvl, m_qhead)
      BY <1>5 DEF c
    <2>5. Settled(c, m_trail, m_justification, scope_lvl, m_qhead + 1)
      BY <1>3, <1>4, <2>2, <2>3, <2>4, SettledNext
    <2> QED BY <1>5, <2>1, <2>5 DEF c
  <1>8. CASE id \notin todo' /\ id \in watches(m_trail[m_qhead + 1])
    <2>1. PICK l \in Range(c) : True(l)
      BY <1>1, <1>8
    <2>2. l \in Range(m_trail) /\ l \in Lits
      <3>1. Range(c) \subseteq Lits
        BY <1>3, ClauseFacts DEF ClausesOK
      <3> QED BY <1>3, <2>1, <3>1, ValuesAre
    <2>3. LvlIn(m_justification, l) <= scope_lvl
      <3>1. var(l) \in Assigned
        BY <1>3, <2>1, <2>2, ValuesAre
      <3> QED BY <1>3, <2>2, <3>1, LevelsAre, LvlIs
    <2> HIDE DEF c
    <2>4. Settled(c, m_trail, m_justification, scope_lvl, Done(id)')
      BY <1>3, <2>1, <2>2, <2>3, SettledTrue
    <2> QED BY <1>5, <2>4 DEF c
  <1> QED BY <1>6, <1>7, <1>8

\* Fewer literals pass for decisions when the base goes up.
LEMMA DecidedUp ==
  ASSUME NEW tr, NEW ju, TrailOK(tr, ju), NEW base \in Nat, NEW base2 \in Nat, base <= base2,
         DecidedOK(tr, ju, base)
  PROVE  DecidedOK(tr, ju, base2)
  <1> SUFFICES ASSUME NEW i \in 1 .. Len(tr) PROVE DecidedAt(tr, ju, base2, i)
    BY DEF DecidedOK
  <1>1. DecidedAt(tr, ju, base, i)
    BY DEF DecidedOK
  <1>2. ju[var(tr[i])].lvl \in Nat
    BY TrailFacts DEF LvlIn
  <1>3. ju[var(tr[i])].lvl > base2 => ju[var(tr[i])].lvl > base
    BY <1>2
  <1> QED BY <1>1, <1>3 DEF DecidedAt

\* The level of the search.
LEMMA SearchLvl == search_lvl \in Nat /\ search_lvl \in {0, 1} /\ (tracking_assumptions <=> search_lvl = 1)
  BY DEF search_lvl

\* A literal is assigned below the assumptions, or with a reason.
LEMMA GrowInv ==
  ASSUME TrailInv, DecideInv, NEW l \in Lits, Undef(l), NEW js \in Justs, js.lvl <= Len(m_scopes),
         assign_core(l, js), m_scopes' = m_scopes,
         ReasonsOK(clauses', m_trail, m_justification), GoodReason(clauses', m_trail, m_justification, l, js),
         search_lvl' \in Nat, search_lvl <= search_lvl', js = None(js.lvl) => js.lvl <= search_lvl'
  PROVE  TrailInv' /\ ReasonInv' /\ DecideInv'
  <1>1. /\ m_trail' = Append(m_trail, l) /\ m_justification' = Extended(m_justification, l, js)
        /\ Extends(m_trail, m_justification, l, js, m_trail', m_justification')
        /\ ScopesOK(m_trail', m_justification', m_scopes)
        /\ var(l) \notin DOMAIN m_justification
    BY Grow
  <1>2. TrailInv'
    BY <1>1 DEF TrailInv, Extends
  <1>3. TrailOK(m_trail, m_justification)
    BY DEF TrailInv
  <1>4. ReasonInv'
    BY <1>1, <1>3, ExtendReasons DEF ReasonInv
  <1>5. DecidedOK(m_trail, m_justification, search_lvl')
    BY <1>3, SearchLvl, DecidedUp DEF DecideInv
  <1>6. js = None(js.lvl) /\ js.lvl > search_lvl'
          => \A i \in 1 .. Len(m_trail) : LvlIn(m_justification, m_trail[i]) # js.lvl
    <2>1. js.lvl \in Nat
      BY DEF Justs
    <2> QED BY <2>1
  <1>7. DecideInv'
    BY <1>1, <1>3, <1>5, <1>6, ExtendDecided DEF DecideInv
  <1> QED BY <1>2, <1>4, <1>7

\* No reason is needed for a literal without one.
LEMMA NoneGood ==
  ASSUME NEW n \in Nat
  PROVE  None(n) \in Justs /\ \A cl, tr, ju, l : GoodReason(cl, tr, ju, l, None(n))
  <1>1. None(n) \in Justs /\ None(n).lvl = n
    BY JustsAre
  <1> QED BY <1>1 DEF GoodReason

\* What a conflict without a reason is.
LEMMA NoneConflict ==
  ASSUME NEW n \in Nat, NEW l \in Lits, TrailOK(m_trail, m_justification), False(l),
         set_conflict(-l, None(n)), ~inconsistent, NEW base \in Nat, n <= base
  PROVE  ConflictAt(clauses', m_trail', m_conflict', base)
  <1>1. /\ m_conflict' = [not_l |-> -l, js |-> None(n)] /\ m_trail' = m_trail
    BY DEF set_conflict
  <1>2. m_conflict'.not_l = -l /\ m_conflict'.js = None(n) /\ None(n).cls = 0 /\ None(n).lits = {}
        /\ None(n).lvl = n /\ None(n) \in Justs
    BY <1>1, JustsAre DEF None, Just
  <1>3. \A k : ReasonIn(clauses', None(n), k) = {}
    BY <1>2 DEF ReasonIn
  <1>4. -l \in Range(m_trail)
    BY ValuesAre
  <1> QED BY <1>1, <1>2, <1>3, <1>4 DEF ConflictAt

\* A conflict outlives a step that only adds to the trail.
LEMMA ConflictKept ==
  ASSUME NEW cl, NEW tr, NEW tr2, NEW cf, NEW base \in Nat, NEW base2 \in Nat, base <= base2,
         ConflictAt(cl, tr, cf, base), Range(tr) \subseteq Range(tr2)
  PROVE  ConflictAt(cl, tr2, cf, base2)
  <1>1. cf.js.lvl \in Nat
    BY DEF ConflictAt, Justs
  <1> QED BY <1>1 DEF ConflictAt

\* The lemma of one literal depends on nothing.
LEMMA UnitKept ==
  ASSUME NEW lm, NEW tr, NEW ju, LemmaAt(lm, tr, ju), Len(lm) = 1, NEW tr2, NEW ju2
  PROVE  LemmaAt(lm, tr2, ju2)
  BY DEF LemmaAt

\* An assumption is asserted.
LEMMA AssumeInv ==
  ASSUME SearchInv, Assume
  PROVE  SearchInv'
  <1> DEFINE l == Head(toassume)
  <1>1. /\ pc \in {"assume", "reassume"} /\ toassume # <<>> /\ ~inconsistent
        /\ assign(l, None(scope_lvl)) /\ toassume' = Tail(toassume)
        /\ \/ m_assumptions' = m_assumptions /\ (pc = "reassume" \/ -l \in ScopeLits)
           \/ m_assumptions' = Append(m_assumptions, l)
        /\ UNCHANGED <<store, m_scopes, m_qhead, todo, user>>
        /\ UNCHANGED <<m_lemma, m_core, pc, result>>
    BY DEF Assume
  <1>2. /\ clauses' = clauses /\ learned' = learned /\ m_scopes' = m_scopes
        /\ m_qhead' = m_qhead /\ todo' = todo
        /\ nvars' = nvars /\ m_user_scope_literals' = m_user_scope_literals
        /\ m_lemma' = m_lemma /\ m_core' = m_core /\ pc' = pc /\ result' = result
    BY <1>1 DEF store, user
  <1>3. /\ TrailOK(m_trail, m_justification) /\ scope_lvl = 1 /\ todo = {}
        /\ toassume \in Seq(Lits) /\ m_assumptions \in Seq(Lits) /\ TrailInv /\ DecideInv /\ ReasonInv
        /\ m_qhead \in 0 .. Len(m_trail)
    BY <1>1 DEF SearchInv, TrailInv, PhaseInv, UserInv, QueueInv, Propagating
  <1>4. l \in Lits /\ toassume' \in Seq(Lits) /\ m_assumptions' \in Seq(Lits)
    <2>1. l \in Lits /\ toassume' \in Seq(Lits)
      BY <1>1, <1>3
    <2> HIDE DEF l
    <2>2. Append(m_assumptions, l) \in Seq(Lits)
      BY <1>3, <2>1
    <2>3. m_assumptions' \in Seq(Lits)
      BY <1>1, <1>3, <2>2
    <2> QED BY <2>1, <2>3
  <1> HIDE DEF l
  <1>5. tracking_assumptions'
    <2>1. CASE m_assumptions' = Append(m_assumptions, l)
      BY <1>3, <1>4, <2>1 DEF tracking_assumptions
    <2>2. CASE m_assumptions' = m_assumptions /\ pc = "reassume"
      <3>1. tracking_assumptions
        BY <2>2 DEF SearchInv, LemmaInv, Pending
      <3> QED BY <1>2, <2>2, <3>1 DEF tracking_assumptions
    <2>3. CASE m_assumptions' = m_assumptions /\ -l \in ScopeLits
      <3>1. m_user_scope_literals # <<>>
        <4>1. m_user_scope_literals = <<>> => DOMAIN m_user_scope_literals = {}
          OBVIOUS
        <4> QED BY <2>3, <4>1 DEF ScopeLits, Range
      <3> QED BY <1>2, <3>1 DEF tracking_assumptions
    <2> QED BY <1>1, <2>1, <2>2, <2>3
  <1>6. search_lvl' = 1 /\ search_lvl' \in Nat /\ search_lvl <= search_lvl'
    BY <1>5, SearchLvl DEF search_lvl
  <1>7. None(1) \in Justs /\ None(1).lvl = 1 /\ assign(l, None(1))
        /\ GoodReason(clauses', m_trail, m_justification, l, None(1))
    BY <1>1, <1>3, JustsAre, NoneGood
  <1>8. StoreInv' /\ UserInv' /\ PhaseInv'
    BY <1>2, <1>3, <1>4 DEF SearchInv, StoreInv, UserInv, PhaseInv, scope_lvl
  <1>9. (inconsistent' => ConflictAt(clauses', m_trail', m_conflict', 1))
        /\ TrailInv' /\ ReasonInv' /\ DecideInv' /\ Len(m_trail) <= Len(m_trail') /\ Len(m_trail') \in Nat
    <2>0. Len(m_trail) \in Nat
      BY <1>3, TrailFacts
    <2>1. CASE Undef(l) /\ assign_core(l, None(1))
      <3>1. None(1).lvl <= Len(m_scopes)
        BY <1>3, <1>7 DEF scope_lvl
      <3>2. TrailInv' /\ ReasonInv' /\ DecideInv'
        BY <1>2, <1>3, <1>4, <1>6, <1>7, <2>1, <3>1, GrowInv DEF ReasonInv
      <3>3. /\ Extends(m_trail, m_justification, l, None(1), m_trail', m_justification')
            /\ m_conflict' = m_conflict
        BY <1>3, <1>4, <1>7, <2>1, <3>1, Grow
      <3>4. Len(m_trail') = Len(m_trail) + 1
        BY <3>3 DEF Extends
      <3> QED BY <1>1, <2>0, <3>2, <3>3, <3>4 DEF inconsistent
    <2>2. CASE False(l) /\ set_conflict(-l, None(1))
      <3>1. m_trail' = m_trail /\ m_justification' = m_justification
        BY <2>2 DEF set_conflict
      <3>2. ConflictAt(clauses', m_trail', m_conflict', 1)
        BY <1>1, <1>3, <1>4, <2>2, NoneConflict
      <3>3. TrailInv' /\ ReasonInv'
        BY <1>2, <1>3, <3>1 DEF TrailInv, ReasonInv
      <3>4. DecideInv'
        BY <1>3, <1>6, <3>1, SearchLvl, DecidedUp DEF DecideInv
      <3> QED BY <2>0, <3>1, <3>2, <3>3, <3>4
    <2>3. CASE True(l) /\ UNCHANGED <<m_trail, m_justification, m_conflict>>
      <3>1. TrailInv' /\ ReasonInv'
        BY <1>2, <1>3, <2>3 DEF TrailInv, ReasonInv
      <3>2. DecideInv'
        BY <1>3, <1>6, <2>3, SearchLvl, DecidedUp DEF DecideInv
      <3> QED BY <1>1, <2>0, <2>3, <3>1, <3>2 DEF inconsistent
    <2> QED BY <1>7, <2>1, <2>2, <2>3 DEF assign
  <1>10. QueueInv'
    BY <1>2, <1>3, <1>9, TrailFacts DEF QueueInv
  <1>11. ConflictInv'
    BY <1>6, <1>9 DEF ConflictInv
  <1>12. LemmaInv'
    <2>1. Pending' <=> Pending
      BY <1>2 DEF Pending
    <2>2. Pending => Len(m_lemma) = 1 /\ tracking_assumptions /\ pc # "learn"
      BY <1>1 DEF SearchInv, LemmaInv
    <2>3. (Pending => LemmaAt(m_lemma, m_trail, m_justification)) /\ (~Pending => m_lemma = <<>>)
      BY DEF SearchInv, LemmaInv
    <2>4. Pending => LemmaAt(m_lemma', m_trail', m_justification')
      BY <1>2, <2>2, <2>3, UnitKept
    <2>5. ASSUME Pending PROVE Len(m_lemma') = 1 /\ ~ (Len(m_lemma') > 1)
      <3>1. Len(m_lemma) = 1
        BY <2>2, <2>5
      <3>2. m_lemma' = m_lemma
        BY <1>2
      <3>3. Len(m_lemma') = 1
        BY <3>1, <3>2
      <3>4. ~ (1 > 1)
        OBVIOUS
      <3> QED BY <3>3, <3>4
    <2> QED BY <1>2, <1>5, <2>1, <2>3, <2>4, <2>5 DEF LemmaInv
  <1> QED BY <1>8, <1>9, <1>10, <1>11, <1>12 DEF SearchInv

\* The positions PropInv speaks of are on the trail.
LEMMA BoundsAre ==
  ASSUME TrailInv, QueueInv
  PROVE  /\ \A n \in 0 .. scope_lvl - 1 : m_scopes[n + 1] \in 0 .. Len(m_trail)
         /\ \A id : Done(id) \in 0 .. Len(m_trail) /\ m_qhead \in 0 .. Len(m_trail)
         /\ scope_lvl \in Nat /\ Len(m_trail) \in Nat /\ scope_lvl = Len(m_scopes)
  <1>1. /\ TrailOK(m_trail, m_justification) /\ ScopesOK(m_trail, m_justification, m_scopes)
        /\ m_qhead \in 0 .. Len(m_trail) /\ (todo # {} => m_qhead > 0)
    BY DEF TrailInv, QueueInv
  <1>2. Len(m_trail) \in Nat /\ m_scopes \in Seq(Nat) /\ scope_lvl = Len(m_scopes) /\ scope_lvl \in Nat
    BY <1>1, TrailFacts DEF ScopesOK, scope_lvl
  <1>3. ASSUME NEW n \in 0 .. scope_lvl - 1 PROVE m_scopes[n + 1] \in 0 .. Len(m_trail)
    <2>1. n + 1 \in 1 .. Len(m_scopes)
      BY <1>2
    <2>2. m_scopes[n + 1] <= Len(m_trail) /\ m_scopes[n + 1] \in Nat
      BY <1>1, <1>2, <2>1 DEF ScopesOK
    <2> QED BY <1>2, <2>2
  <1>4. ASSUME NEW id PROVE Done(id) \in 0 .. Len(m_trail)
    <2>1. CASE id \in todo
      <3>1. m_qhead > 0 /\ Done(id) = m_qhead - 1
        BY <1>1, <2>1 DEF Done
      <3> QED BY <1>1, <1>2, <3>1
    <2>2. CASE id \notin todo
      BY <1>1, <2>2 DEF Done
    <2> QED BY <2>1, <2>2
  <1> QED BY <1>1, <1>2, <1>3, <1>4

\* What is settled stays settled when a literal is assigned.
LEMMA GrowSettled ==
  ASSUME TrailInv, NEW l \in Lits, Undef(l), NEW js \in Justs, assign_core(l, js)
  PROVE  \A c, n : \A b \in 0 .. Len(m_trail) : Settled(c, m_trail, m_justification, n, b)
                                                => Settled(c, m_trail', m_justification', n, b)
  <1>1. m_trail' = Append(m_trail, l)
    BY DEF assign_core
  <1>2. m_justification' = Extended(m_justification, l, js)
    BY DEF assign_core, Extended, Norm, Assigned
  <1>3. TrailOK(m_trail, m_justification) /\ var(l) \notin DOMAIN m_justification
    BY DEF TrailInv, Undef, Assigned
  <1> QED BY <1>1, <1>2, <1>3, ExtendSettled

\* Clauses that stay as they are while the trail grows, or stays.
LEMMA GrowProp ==
  ASSUME TrailInv, QueueInv, PropInv,
         NEW l, l \in Lits /\ Undef(l), NEW js \in Justs,
         assign_core(l, js) \/ UNCHANGED <<m_trail, m_justification>>,
         m_scopes' = m_scopes, NEW id \in DOMAIN clauses
  PROVE  /\ \A n \in 0 .. scope_lvl - 1 :
              Settled(clauses[id], m_trail', m_justification', n, m_scopes'[n + 1])
         /\ ~inconsistent => Settled(clauses[id], m_trail', m_justification', scope_lvl, Done(id))
  <1> DEFINE c == clauses[id]
  <1>1. \A n : \A b \in 0 .. Len(m_trail) : Settled(c, m_trail, m_justification, n, b)
                                             => Settled(c, m_trail', m_justification', n, b)
    <2> HIDE DEF c
    <2>1. CASE assign_core(l, js)
      BY <2>1, GrowSettled
    <2>2. CASE UNCHANGED <<m_trail, m_justification>>
      BY <2>2
    <2> QED BY <2>1, <2>2
  <1>2. /\ \A n \in 0 .. scope_lvl - 1 : Settled(c, m_trail, m_justification, n, m_scopes[n + 1])
        /\ ~inconsistent => Settled(c, m_trail, m_justification, scope_lvl, Done(id))
    BY DEF PropInv
  <1> HIDE DEF c
  <1>3. /\ \A n \in 0 .. scope_lvl - 1 : m_scopes[n + 1] \in 0 .. Len(m_trail)
        /\ Done(id) \in 0 .. Len(m_trail)
    BY BoundsAre
  <1>4. \A n \in 0 .. scope_lvl - 1 : Settled(c, m_trail', m_justification', n, m_scopes'[n + 1])
    BY <1>1, <1>2, <1>3
  <1>5. ~inconsistent => Settled(c, m_trail', m_justification', scope_lvl, Done(id))
    BY <1>1, <1>2, <1>3
  <1> QED BY <1>4, <1>5 DEF c

\* An assumption is asserted: every clause stays settled.
LEMMA AssumeProp ==
  ASSUME SearchInv, PropInv, Assume
  PROVE  PropInv'
  <1> DEFINE l == Head(toassume)
  <1>1. /\ toassume # <<>> /\ ~inconsistent /\ assign(l, None(scope_lvl))
        /\ UNCHANGED <<store, m_scopes, m_qhead, todo, user>>
    BY DEF Assume
  <1>2. /\ clauses' = clauses /\ m_scopes' = m_scopes /\ m_qhead' = m_qhead /\ todo' = todo
    BY <1>1 DEF store
  <1>3. /\ TrailOK(m_trail, m_justification) /\ TrailInv /\ QueueInv /\ toassume \in Seq(Lits)
    BY DEF SearchInv, TrailInv, UserInv
  <1>4. l \in Lits /\ scope_lvl \in Nat
    BY <1>1, <1>3, BoundsAre
  <1> HIDE DEF l
  <1>5. None(scope_lvl) \in Justs
    BY <1>4, JustsAre
  <1>6. /\ \A id : Done(id)' = Done(id)
        /\ scope_lvl' = scope_lvl
    BY <1>2 DEF Done, scope_lvl
  <1>7. CASE UNCHANGED <<m_trail, m_justification>>
    BY <1>1, <1>2, <1>6, <1>7 DEF PropInv
  <1>8. CASE Undef(l) /\ assign_core(l, None(scope_lvl))
    <2>1. ASSUME NEW id \in DOMAIN clauses
          PROVE  /\ \A n \in 0 .. scope_lvl - 1 :
                     Settled(clauses[id], m_trail', m_justification', n, m_scopes'[n + 1])
                 /\ Settled(clauses[id], m_trail', m_justification', scope_lvl, Done(id))
      BY <1>1, <1>2, <1>3, <1>4, <1>5, <1>8, GrowProp
    <2> QED BY <1>2, <1>6, <2>1 DEF PropInv
  <1> QED BY <1>1, <1>7, <1>8 DEF assign, set_conflict

(***************************************************************************)
(* A decision.                                                             *)
(***************************************************************************)
\* A decision opens a level.
LEMMA decideInv ==
  ASSUME SearchInv, decide
  PROVE  SearchInv' /\ (PropInv => PropInv')
  <1>1. /\ pc = "search" /\ Fixpoint /\ push
        /\ UNCHANGED <<store, m_qhead, todo, user, goal>> /\ UNCHANGED <<m_lemma, m_core, pc, result>>
    BY DEF decide
  <1>2. PICK v \in 1 .. nvars, sign \in Phases : Undef(v) /\ assign_core(sign * v, None(scope_lvl + 1))
    BY DEF decide
  <1> DEFINE l == sign * v
             js == None(scope_lvl + 1)
  <1>3. /\ clauses' = clauses /\ learned' = learned /\ m_qhead' = m_qhead /\ todo' = todo
        /\ nvars' = nvars /\ m_user_scope_literals' = m_user_scope_literals
        /\ m_assumptions' = m_assumptions /\ toassume' = toassume
        /\ m_lemma' = m_lemma /\ m_core' = m_core /\ pc' = pc /\ result' = result
    BY <1>1 DEF store, user, goal
  <1>4. todo = {} /\ ~inconsistent /\ m_qhead = Len(m_trail)
    BY <1>1 DEF Fixpoint
  <1>5. /\ TrailOK(m_trail, m_justification) /\ ScopesOK(m_trail, m_justification, m_scopes)
        /\ TrailInv /\ QueueInv /\ scope_lvl = Len(m_scopes) /\ scope_lvl \in Nat /\ Len(m_trail) \in Nat
    BY BoundsAre DEF SearchInv, TrailInv
  <1>6. l \in Lits /\ var(l) = v /\ Undef(l) /\ var(l) \notin DOMAIN m_justification
    <2>1. nvars \in NumVars .. NumVars + MaxPushes /\ NumVars \in Nat /\ MaxPushes \in Nat
          /\ sign \in {-1, 1}
      BY SatSolverAssumption DEF SearchInv, UserInv
    <2>2. v \in Vars /\ v \in Nat /\ v > 0
      BY <2>1 DEF Vars
    <2>3. l = v \/ l = -v
      BY <2>1, <2>2
    <2>4. l \in Lits
      BY <2>2, <2>3 DEF Lits
    <2>5. var(l) = v /\ var(v) = v
      BY <2>2, <2>3 DEF var
    <2> QED BY <1>2, <2>4, <2>5 DEF Undef, Assigned
  <1>7. js \in Justs /\ js.lvl = scope_lvl + 1
    BY <1>5, JustsAre
  <1>8. assign_core(l, js)
    BY <1>2
  <1> HIDE DEF l, js
  <1>9. /\ m_trail' = Append(m_trail, l) /\ m_justification' = Extended(m_justification, l, js)
        /\ m_conflict' = m_conflict
    BY <1>8 DEF assign_core, Extended, Norm, Assigned
  <1>10. m_scopes' = Pushed(m_scopes, m_trail)
    BY <1>1 DEF push, Pushed
  <1>11. /\ ScopesOK(m_trail, m_justification, m_scopes') /\ Len(m_scopes') = Len(m_scopes) + 1
         /\ m_scopes'[Len(m_scopes) + 1] = Len(m_trail)
         /\ \A k \in 1 .. Len(m_scopes) : m_scopes'[k] = m_scopes[k]
    BY <1>5, <1>10, PushedIs
  <1>12. scope_lvl' = scope_lvl + 1
    BY <1>5, <1>11 DEF scope_lvl
  <1>13. TrailInv'
    <2>1. js.lvl <= Len(m_scopes')
      BY <1>5, <1>7, <1>11
    <2>2. ScopesOK(m_trail', m_justification', m_scopes')
      BY <1>5, <1>6, <1>7, <1>9, <1>11, <2>1, ExtendScopes
    <2>3. Extends(m_trail, m_justification, l, js, m_trail', m_justification')
      BY <1>5, <1>6, <1>7, <1>9, ExtendedIs
    <2> QED BY <2>2, <2>3 DEF TrailInv, Extends
  <1>14. Len(m_trail') = Len(m_trail) + 1
    BY <1>5, <1>6, <1>9, ExtendedIs, <1>7 DEF Extends
  <1>15. (tracking_assumptions' <=> tracking_assumptions) /\ search_lvl' = search_lvl
         /\ (inconsistent' <=> inconsistent)
    BY <1>3, <1>9 DEF tracking_assumptions, search_lvl, inconsistent
  <1>16. ReasonInv'
    <2>1. \A cl, tr, ju, k : GoodReason(cl, tr, ju, k, js)
      BY <1>5, NoneGood DEF js
    <2> QED BY <1>3, <1>5, <1>6, <1>7, <1>9, <2>1, ExtendReasons DEF ReasonInv, SearchInv
  <1>17. DecideInv'
    <2>1. \A i \in 1 .. Len(m_trail) : LvlIn(m_justification, m_trail[i]) # js.lvl
      <3> TAKE i \in 1 .. Len(m_trail)
      <3>1. LvlIn(m_justification, m_trail[i]) <= scope_lvl /\ LvlIn(m_justification, m_trail[i]) \in Nat
        BY <1>5, TrailFacts DEF ScopesOK
      <3> QED BY <1>5, <1>7, <3>1
    <2>2. DecidedOK(m_trail, m_justification, search_lvl)
      BY DEF SearchInv, DecideInv
    <2> QED BY <1>5, <1>6, <1>7, <1>9, <1>15, <2>1, <2>2, SearchLvl, ExtendDecided DEF DecideInv
  <1>18. StoreInv' /\ QueueInv' /\ ConflictInv'
    BY <1>3, <1>4, <1>5, <1>14, <1>15 DEF SearchInv, StoreInv, QueueInv, ConflictInv
  <1>19. LemmaInv' /\ PhaseInv' /\ UserInv'
    BY <1>1, <1>3 DEF SearchInv, LemmaInv, Pending, PhaseInv, UserInv
  <1>20. ASSUME PropInv PROVE PropInv'
    <2> SUFFICES ASSUME NEW id \in DOMAIN clauses
                 PROVE  /\ \A n \in 0 .. scope_lvl :
                             Settled(clauses[id], m_trail', m_justification', n, m_scopes'[n + 1])
                        /\ Settled(clauses[id], m_trail', m_justification', scope_lvl + 1, m_qhead)
      <3>1. \A id : Done(id)' = m_qhead
        BY <1>3, <1>4 DEF Done
      <3>2. scope_lvl' - 1 = scope_lvl
        BY <1>5, <1>12
      <3> QED BY <1>3, <1>12, <3>1, <3>2 DEF PropInv
    <2> DEFINE c == clauses[id]
    <2>1. /\ \A n \in 0 .. scope_lvl - 1 : Settled(c, m_trail, m_justification, n, m_scopes[n + 1])
          /\ Settled(c, m_trail, m_justification, scope_lvl, m_qhead)
      BY <1>4, <1>20 DEF PropInv, Done
    <2> HIDE DEF c
    <2>2. \A n : \A b \in 0 .. Len(m_trail) : Settled(c, m_trail, m_justification, n, b)
                                               => Settled(c, m_trail', m_justification', n, b)
      BY <1>5, <1>6, <1>7, <1>8, GrowSettled
    <2>3. /\ \A n \in 0 .. scope_lvl - 1 : m_scopes[n + 1] \in 0 .. Len(m_trail)
          /\ m_qhead \in 0 .. Len(m_trail)
      BY <1>5, BoundsAre
    <2>4. Settled(c, m_trail, m_justification, scope_lvl + 1, m_qhead)
      BY <1>5, <2>1, SettledUp
    <2>5. Settled(c, m_trail', m_justification', scope_lvl + 1, m_qhead)
      BY <2>2, <2>3, <2>4
    <2>6. ASSUME NEW n \in 0 .. scope_lvl
          PROVE  Settled(c, m_trail', m_justification', n, m_scopes'[n + 1])
      <3>1. CASE n \in 0 .. scope_lvl - 1
        <4>1. m_scopes'[n + 1] = m_scopes[n + 1]
          BY <1>5, <1>11, <3>1
        <4> QED BY <2>1, <2>2, <2>3, <3>1, <4>1
      <3>2. CASE n = scope_lvl
        <4>1. m_scopes'[n + 1] = m_qhead
          BY <1>4, <1>5, <1>11, <3>2
        <4> QED BY <2>1, <2>2, <2>3, <3>2, <4>1
      <3> QED BY <1>5, <3>1, <3>2
    <2> QED BY <2>5, <2>6 DEF c
  <1> QED BY <1>13, <1>16, <1>17, <1>18, <1>19, <1>20 DEF SearchInv

-----------------------------------------------------------------------------
(***************************************************************************)
(* Levels are closed.                                                      *)
(***************************************************************************)
\* Levels are closed.
LEMMA PopInv ==
  ASSUME TrailInv, ReasonInv, DecideInv, QueueInv, NEW n \in 0 .. scope_lvl, pop(n)
  PROVE  /\ TrailInv' /\ ReasonsOK(clauses, m_trail', m_justification')
         /\ DecidedOK(m_trail', m_justification', search_lvl)
         /\ scope_lvl' = n /\ n \in Nat
         /\ n = scope_lvl \/ (todo' = {} /\ m_conflict' = NoConflict)
         /\ n = scope_lvl => /\ m_trail' = m_trail /\ m_justification' = m_justification
                             /\ m_scopes' = m_scopes /\ m_qhead' = m_qhead
                             /\ todo' = todo /\ m_conflict' = m_conflict
         /\ m_qhead' \in 0 .. Len(m_trail')
  <1>0. scope_lvl \in Nat /\ Len(m_trail) \in Nat /\ m_qhead \in 0 .. Len(m_trail)
    BY BoundsAre
  <1>1. CASE n = scope_lvl
    <2>1. /\ m_trail' = m_trail /\ m_justification' = m_justification
          /\ m_scopes' = m_scopes /\ m_qhead' = m_qhead
          /\ todo' = todo /\ m_conflict' = m_conflict
      BY <1>1 DEF pop, search
    <2>2. TrailInv' /\ scope_lvl' = scope_lvl
      BY <2>1 DEF TrailInv, scope_lvl
    <2> QED BY <1>0, <1>1, <2>1, <2>2 DEF ReasonInv, DecideInv
  <1>2. CASE n # scope_lvl
    <2>1. n \in 0 .. scope_lvl - 1 /\ n \in Nat
      BY <1>0, <1>2
    <2>2. PopScopes(n) /\ m_qhead' = m_scopes[n + 1]
      BY <1>2 DEF pop
    <2>3. todo' = {} /\ m_conflict' = NoConflict
      BY <2>2 DEF PopScopes
    <2>4. TrailInv' /\ scope_lvl' = n /\ m_scopes[n + 1] \in 0 .. Len(m_trail')
      BY <2>1, <2>2, Shrink
    <2>5. /\ ReasonsOK(clauses, m_trail', m_justification')
          /\ DecidedOK(m_trail', m_justification', search_lvl)
      BY <2>1, <2>2, SearchLvl, CutInv DEF DecideInv
    <2> QED BY <1>2, <2>1, <2>2, <2>3, <2>4, <2>5
  <1> QED BY <1>1, <1>2

\* What is put back is propagated again, so every clause is settled.
LEMMA PopProp ==
  ASSUME TrailInv, QueueInv, PropInv, NEW n \in 0 .. scope_lvl, pop(n)
  PROVE  \A id \in DOMAIN clauses :
           /\ \A m \in 0 .. scope_lvl' - 1 :
                Settled(clauses[id], m_trail', m_justification', m, m_scopes'[m + 1])
           /\ ~inconsistent' =>
                Settled(clauses[id], m_trail', m_justification', scope_lvl', Done(id)')
  <1> SUFFICES ASSUME NEW id \in DOMAIN clauses
               PROVE  /\ \A m \in 0 .. scope_lvl' - 1 :
                           Settled(clauses[id], m_trail', m_justification', m, m_scopes'[m + 1])
                      /\ ~inconsistent' =>
                           Settled(clauses[id], m_trail', m_justification', scope_lvl', Done(id)')
    OBVIOUS
  <1>0. scope_lvl \in Nat /\ Len(m_trail) \in Nat
    BY BoundsAre
  <1> DEFINE c == clauses[id]
  <1>1. /\ \A m \in 0 .. scope_lvl - 1 : Settled(c, m_trail, m_justification, m, m_scopes[m + 1])
        /\ ~inconsistent => Settled(c, m_trail, m_justification, scope_lvl, Done(id))
    BY DEF PropInv
  <1>2. CASE n = scope_lvl
    <2>1. /\ m_trail' = m_trail /\ m_justification' = m_justification
          /\ m_scopes' = m_scopes /\ m_qhead' = m_qhead
          /\ todo' = todo /\ m_conflict' = m_conflict
      BY <1>2 DEF pop, search
    <2>2. scope_lvl' = scope_lvl /\ Done(id)' = Done(id) /\ (inconsistent' <=> inconsistent)
      BY <2>1 DEF scope_lvl, Done, inconsistent
    <2> HIDE DEF c
    <2>3. /\ \A m \in 0 .. scope_lvl - 1 : Settled(c, m_trail', m_justification', m, m_scopes'[m + 1])
          /\ ~inconsistent => Settled(c, m_trail', m_justification', scope_lvl, Done(id))
      BY <1>1, <2>1
    <2> QED BY <2>2, <2>3 DEF c
  <1>3. CASE n # scope_lvl
    <2>1. n \in 0 .. scope_lvl - 1 /\ n \in Nat
      BY <1>0, <1>3
    <2>2. PopScopes(n) /\ m_qhead' = m_scopes[n + 1] /\ todo' = {}
      BY <1>3 DEF pop, PopScopes
    <2>3. /\ scope_lvl' = n /\ m_scopes[n + 1] \in 0 .. Len(m_trail') /\ m_scopes[n + 1] \in Nat
          /\ \A k \in 1 .. n : m_scopes'[k] = m_scopes[k]
      BY <2>1, <2>2, Shrink
    <2>4. \A x : \A m \in 0 .. n, d \in 0 .. m_scopes[n + 1] :
            Settled(x, m_trail, m_justification, m, d) => Settled(x, m_trail', m_justification', m, d)
      <3>1. 0 \in Nat
        OBVIOUS
      <3> QED BY <2>1, <2>2, <3>1, CutInv
    <2>5. Done(id)' = m_scopes[n + 1]
      BY <2>2 DEF Done
    <2> HIDE DEF c
    <2>6. Settled(c, m_trail', m_justification', n, m_scopes[n + 1])
      <3>1. Settled(c, m_trail, m_justification, n, m_scopes[n + 1])
        BY <1>1, <2>1
      <3>2. n \in 0 .. n /\ m_scopes[n + 1] \in 0 .. m_scopes[n + 1]
        BY <2>1, <2>3
      <3> QED BY <2>4, <3>1, <3>2
    <2>7. ASSUME NEW m \in 0 .. n - 1
          PROVE  Settled(c, m_trail', m_justification', m, m_scopes'[m + 1])
      <3>1. m \in 0 .. scope_lvl - 1 /\ m \in 0 .. n /\ m + 1 \in 1 .. n
        BY <1>0, <2>1
      <3>2. Settled(c, m_trail, m_justification, m, m_scopes[m + 1])
        BY <1>1, <3>1
      <3>3. m_scopes[m + 1] \in 0 .. m_scopes[n + 1]
        <4>1. ScopesOK(m_trail, m_justification, m_scopes) /\ scope_lvl = Len(m_scopes)
          BY DEF TrailInv, scope_lvl
        <4>2. n + 1 \in 1 .. Len(m_scopes) /\ m + 1 \in 1 .. n + 1 /\ m + 1 \in 1 .. Len(m_scopes)
          BY <1>0, <2>1, <3>1, <4>1
        <4>3. m_scopes[m + 1] <= m_scopes[n + 1] /\ m_scopes[m + 1] \in Nat
          BY <4>1, <4>2 DEF ScopesOK
        <4> QED BY <2>3, <4>3
      <3>4. m_scopes'[m + 1] = m_scopes[m + 1]
        BY <2>3, <3>1
      <3> QED BY <2>4, <3>1, <3>2, <3>3, <3>4
    <2> QED BY <2>3, <2>5, <2>6, <2>7 DEF c
  <1> QED BY <1>2, <1>3

\* At the base level nothing is decided and nothing has a reason.
LEMMA AtBase ==
  ASSUME NEW tr, NEW ju, TrailOK(tr, ju), NEW sc, ScopesOK(tr, ju, sc), Len(sc) = 0
  PROVE  /\ \A i \in 1 .. Len(tr) : ju[var(tr[i])] = None(0)
         /\ \A base \in Nat : DecidedOK(tr, ju, base)
         /\ \A cl : ReasonsOK(cl, tr, ju)
  <1>1. ASSUME NEW i \in 1 .. Len(tr) PROVE ju[var(tr[i])] = None(0)
    <2>1. LvlIn(ju, tr[i]) <= 0 /\ LvlIn(ju, tr[i]) \in Nat
      BY TrailFacts DEF ScopesOK
    <2>2. LvlIn(ju, tr[i]) = 0
      BY <2>1
    <2> QED BY <2>2 DEF TrailOK
  <1>2. None(0).lvl = 0
    BY JustsAre
  <1>3. \A base \in Nat : ~ (0 > base)
    OBVIOUS
  <1>4. \A base \in Nat : DecidedOK(tr, ju, base)
    BY <1>1, <1>2, <1>3 DEF DecidedOK, DecidedAt
  <1>5. \A cl : ReasonsOK(cl, tr, ju)
    BY <1>1, <1>2 DEF ReasonsOK, ReasonAt
  <1> QED BY <1>1, <1>4, <1>5

\* Back to the base level, between two checks.
LEMMA ToBase ==
  ASSUME SearchInv, pc = "idle", pop(0), clauses' = clauses, learned' = learned
  PROVE  /\ StoreInv' /\ TrailInv' /\ ReasonInv' /\ DecideInv' /\ QueueInv'
         /\ scope_lvl' = 0 /\ todo' = {} /\ (PropInv => PropInv')
  <1>1. TrailInv /\ ReasonInv /\ DecideInv /\ QueueInv /\ StoreInv
    BY DEF SearchInv
  <1>2. 0 \in 0 .. scope_lvl /\ todo = {}
    BY <1>1, BoundsAre DEF QueueInv, Propagating
  <1>3. /\ TrailInv' /\ scope_lvl' = 0 /\ m_qhead' \in 0 .. Len(m_trail')
        /\ 0 = scope_lvl \/ todo' = {}
        /\ 0 = scope_lvl => todo' = todo
    BY <1>1, <1>2, PopInv
  <1>4. TrailOK(m_trail', m_justification') /\ ScopesOK(m_trail', m_justification', m_scopes')
        /\ Len(m_scopes') = 0
    BY <1>3 DEF TrailInv, scope_lvl
  <1>5. ReasonInv' /\ DecideInv'
    <2>1. search_lvl' \in Nat
      BY DEF search_lvl
    <2>2. /\ \A base \in Nat : DecidedOK(m_trail', m_justification', base)
          /\ \A cl : ReasonsOK(cl, m_trail', m_justification')
      BY <1>4, AtBase
    <2> QED BY <2>1, <2>2 DEF ReasonInv, DecideInv
  <1>6. todo' = {}
    BY <1>2, <1>3
  <1>7. QueueInv'
    BY <1>3, <1>6 DEF QueueInv
  <1>8. StoreInv'
    BY <1>1 DEF StoreInv
  <1>9. PropInv => PropInv'
    BY <1>1, <1>2, PopProp DEF PropInv
  <1> QED BY <1>3, <1>5, <1>6, <1>7, <1>8, <1>9

\* A check begins.
LEMMA checkInv ==
  ASSUME SearchInv, NEW lits \in Assumptions, check(lits)
  PROVE  SearchInv' /\ (PropInv => PropInv')
  <1>1. /\ pc = "idle" /\ pop(0) /\ m_assumptions' = <<>>
        /\ toassume' = NegScopes \o lits
        /\ m_core' = {} /\ result' = "none" /\ pc' = "base"
        /\ UNCHANGED <<store, nvars, m_user_scope_literals, m_lemma>>
    BY DEF check, pop_to_base_level, NegScopes
  <1>2. clauses' = clauses /\ learned' = learned
    BY <1>1 DEF store
  <1>3. /\ StoreInv' /\ TrailInv' /\ ReasonInv' /\ DecideInv' /\ QueueInv'
        /\ scope_lvl' = 0 /\ todo' = {} /\ (PropInv => PropInv')
    BY <1>1, <1>2, ToBase
  <1>4. ConflictInv'
    BY <1>1 DEF ConflictInv
  <1>5. LemmaInv' /\ PhaseInv'
    BY <1>1, <1>3 DEF SearchInv, LemmaInv, Pending, PhaseInv
  <1>6. UserInv'
    <2>1. NegScopes \in Seq(Lits)
      BY NegScopesAre DEF SearchInv
    <2>2. lits \in Seq(Lits)
      <3>1. lits \in Seq(Problem) /\ Problem \subseteq Lits
        BY SatSolverAssumption, LitsAre
      <3> QED BY <3>1
    <2>3. NegScopes \o lits \in Seq(Lits)
      BY <2>1, <2>2
    <2>4. <<>> \in Seq(Lits)
      OBVIOUS
    <2>5. toassume' \in Seq(Lits)
      BY <1>1, <2>3
    <2> QED BY <1>1, <2>4, <2>5 DEF SearchInv, UserInv
  <1> QED BY <1>3, <1>4, <1>5, <1>6 DEF SearchInv

\* Back to the base level, between checks.
LEMMA IdleInv ==
  ASSUME SearchInv, BackToBase \/ user_push
  PROVE  SearchInv' /\ (PropInv => PropInv')
  <1>1. /\ pc = "idle" /\ pop(0) /\ m_assumptions' = <<>> /\ toassume' = toassume
        /\ m_core' = m_core /\ result' = "none" /\ pc' = pc /\ m_lemma' = m_lemma
        /\ UNCHANGED store
        /\ \/ nvars' = nvars /\ m_user_scope_literals' = m_user_scope_literals
           \/ /\ nvars < NumVars + MaxPushes /\ nvars' = nvars + 1
              /\ m_user_scope_literals' = Append(m_user_scope_literals, nvars + 1)
    BY DEF BackToBase, user_push, pop_to_base_level, user
  <1>2. clauses' = clauses /\ learned' = learned
    BY <1>1 DEF store
  <1>3. /\ StoreInv' /\ TrailInv' /\ ReasonInv' /\ DecideInv' /\ QueueInv'
        /\ scope_lvl' = 0 /\ todo' = {} /\ (PropInv => PropInv')
    BY <1>1, <1>2, ToBase
  <1>4. ConflictInv'
    BY <1>1 DEF ConflictInv
  <1>5. LemmaInv' /\ PhaseInv'
    BY <1>1, <1>3 DEF SearchInv, LemmaInv, Pending, PhaseInv
  <1>6. UserInv'
    <2>1. /\ nvars \in NumVars .. NumVars + MaxPushes /\ toassume \in Seq(Lits) /\ m_core \subseteq Lits
          /\ m_user_scope_literals \in Seq(NumVars + 1 .. nvars) /\ NumVars \in Nat /\ MaxPushes \in Nat
      BY SatSolverAssumption DEF SearchInv, UserInv
    <2>2. <<>> \in Seq(Lits)
      OBVIOUS
    <2>3. nvars' \in NumVars .. NumVars + MaxPushes
      BY <1>1, <2>1
    <2>4. m_user_scope_literals' \in Seq(NumVars + 1 .. nvars')
      <3>1. CASE nvars' = nvars /\ m_user_scope_literals' = m_user_scope_literals
        BY <2>1, <3>1
      <3>2. CASE nvars' = nvars + 1 /\ m_user_scope_literals' = Append(m_user_scope_literals, nvars + 1)
        <4>1. NumVars + 1 .. nvars \subseteq NumVars + 1 .. nvars + 1
          BY <2>1
        <4>2. m_user_scope_literals \in Seq(NumVars + 1 .. nvars + 1) /\ nvars + 1 \in NumVars + 1 .. nvars + 1
          BY <2>1, <4>1
        <4> QED BY <3>2, <4>2
      <3> QED BY <1>1, <3>1, <3>2
    <2> QED BY <1>1, <2>1, <2>2, <2>3, <2>4 DEF UserInv
  <1> QED BY <1>3, <1>4, <1>5, <1>6 DEF SearchInv

\* Every clause is settled when nothing is propagated.
LEMMA SettledAtStart ==
  ASSUME NEW c, GoodClause(c), NEW tr, NEW ju, NEW n
  PROVE  Settled(c, tr, ju, n, 0)
  <1>1. 1 \in 1 .. Len(c) /\ 2 \in 1 .. Len(c)
    BY DEF GoodClause
  <1>2. \A p \in 1 .. 0 : FALSE
    OBVIOUS
  <1> QED BY <1>1, <1>2 DEF Settled

\* A user scope is closed, and everything propagated anew.
LEMMA user_popInv ==
  ASSUME SearchInv, user_pop
  PROVE  SearchInv' /\ PropInv'
  <1> DEFINE s == m_user_scope_literals
             n == Len(s)
             lit == s[n]
             gone == {i \in DOMAIN clauses : lit \in VarsOf(Range(clauses[i]))}
  <1>1. /\ pc = "idle" /\ n > 0 /\ m_qhead' = 0 /\ m_assumptions' = <<>>
        /\ s' = SubSeq(s, 1, n - 1)
        /\ clauses' = Detached(clauses, gone) /\ learned' = learned \ gone
        /\ pc' = "popped" /\ result' = "none"
        /\ UNCHANGED <<nvars, toassume, m_lemma, m_core>>
    BY DEF user_pop, Detach, Detached
  <1>2. IF at_base_lvl THEN Keep3 /\ UNCHANGED <<m_scopes, todo>> ELSE PopScopes(0)
    BY DEF user_pop
  <1>3. TrailInv /\ StoreInv /\ QueueInv /\ UserInv /\ todo = {}
    BY <1>1 DEF SearchInv, QueueInv, Propagating
  <1>4. TrailInv' /\ scope_lvl' = 0 /\ todo' = {}
    <2>1. CASE at_base_lvl
      BY <1>2, <1>3, <2>1 DEF Keep3, TrailInv, at_base_lvl, scope_lvl
    <2>2. CASE ~at_base_lvl
      <3>1. 0 \in 0 .. scope_lvl - 1
        BY <1>3, <2>2, BoundsAre DEF at_base_lvl
      <3>2. PopScopes(0) /\ todo' = {}
        BY <1>2, <2>2 DEF PopScopes
      <3> QED BY <1>3, <3>1, <3>2, Shrink
    <2> QED BY <2>1, <2>2
  <1> HIDE DEF s, n, lit, gone
  <1>5. ClausesOK(clauses) /\ learned \subseteq DOMAIN clauses
    BY <1>3 DEF StoreInv
  <1>6. ClausesOK(clauses') /\ DOMAIN clauses' = DOMAIN clauses \ gone
    BY <1>1, <1>5, DetachedIs
  <1>7. StoreInv'
    BY <1>1, <1>5, <1>6 DEF StoreInv
  <1>8. TrailOK(m_trail', m_justification') /\ ScopesOK(m_trail', m_justification', m_scopes')
        /\ Len(m_scopes') = 0
    BY <1>4 DEF TrailInv, scope_lvl
  <1>9. ReasonInv' /\ DecideInv'
    <2>1. search_lvl' \in Nat
      BY DEF search_lvl
    <2>2. /\ \A base \in Nat : DecidedOK(m_trail', m_justification', base)
          /\ \A cl : ReasonsOK(cl, m_trail', m_justification')
      BY <1>8, AtBase
    <2> QED BY <2>1, <2>2 DEF ReasonInv, DecideInv
  <1>10. QueueInv'
    <2>1. Len(m_trail') \in Nat
      BY <1>8, TrailFacts
    <2>2. m_qhead' \in 0 .. Len(m_trail')
      BY <1>1, <2>1
    <2> QED BY <1>4, <2>2 DEF QueueInv
  <1>11. ConflictInv'
    BY <1>1 DEF ConflictInv
  <1>12. LemmaInv' /\ PhaseInv'
    BY <1>1, <1>4 DEF SearchInv, LemmaInv, Pending, PhaseInv
  <1>13. UserInv'
    <2>1. s \in Seq(NumVars + 1 .. nvars)
      BY <1>3 DEF UserInv, s
    <2>2. SubSeq(s, 1, n - 1) \in Seq(NumVars + 1 .. nvars)
      <3> DEFINE T == NumVars + 1 .. nvars
                 m == n - 1
      <3>1. s \in Seq(T) /\ n = Len(s) /\ n \in Nat
        BY <2>1 DEF n
      <3>2. m \in 0 .. Len(s) /\ m \in Nat
        BY <1>1, <3>1
      <3> HIDE DEF T, m
      <3>3. SubSeq(s, 1, m) \in Seq(T)
        BY <3>1, <3>2
      <3> QED BY <3>3 DEF T, m
    <2>3. <<>> \in Seq(Lits)
      OBVIOUS
    <2>4. m_user_scope_literals' \in Seq(NumVars + 1 .. nvars)
      BY <1>1, <2>2 DEF s
    <2> QED BY <1>1, <1>3, <2>3, <2>4 DEF UserInv
  <1>14. PropInv'
    <2> SUFFICES ASSUME NEW id \in DOMAIN clauses'
                 PROVE  /\ \A m \in 0 .. 0 - 1 :
                           Settled(clauses'[id], m_trail', m_justification', m, m_scopes'[m + 1])
                        /\ Settled(clauses'[id], m_trail', m_justification', 0, 0)
      <3>1. \A id : Done(id)' = 0
        BY <1>1, <1>4 DEF Done
      <3> QED BY <1>4, <3>1 DEF PropInv
    <2>1. GoodClause(clauses'[id])
      BY <1>6 DEF ClausesOK
    <2> QED BY <2>1, SettledAtStart
  <1> QED BY <1>4, <1>7, <1>9, <1>10, <1>11, <1>12, <1>13, <1>14 DEF SearchInv

\* Levels of the search are closed.
LEMMA BackInv ==
  ASSUME SearchInv, pc = "search", NEW n \in 0 .. scope_lvl - 1, pop(n), UNCHANGED <<store, user, goal>>
  PROVE  /\ StoreInv' /\ TrailInv' /\ ReasonInv' /\ DecideInv' /\ QueueInv'
         /\ ~inconsistent' /\ scope_lvl' = n
         /\ (tracking_assumptions' <=> tracking_assumptions)
         /\ (PropInv => PropInv')
  <1>1. /\ clauses' = clauses /\ learned' = learned /\ m_assumptions' = m_assumptions
        /\ m_user_scope_literals' = m_user_scope_literals
    BY DEF store, user, goal
  <1>2. TrailInv /\ ReasonInv /\ DecideInv /\ QueueInv /\ StoreInv /\ scope_lvl \in Nat
    BY BoundsAre DEF SearchInv
  <1>3. n \in 0 .. scope_lvl /\ n # scope_lvl
    BY <1>2
  <1>4. /\ TrailInv' /\ ReasonsOK(clauses, m_trail', m_justification')
        /\ DecidedOK(m_trail', m_justification', search_lvl)
        /\ scope_lvl' = n /\ todo' = {} /\ m_conflict' = NoConflict
        /\ m_qhead' \in 0 .. Len(m_trail')
    BY <1>2, <1>3, PopInv
  <1>5. (tracking_assumptions' <=> tracking_assumptions) /\ search_lvl' = search_lvl
    BY <1>1 DEF tracking_assumptions, search_lvl
  <1>6. StoreInv' /\ ReasonInv' /\ DecideInv' /\ QueueInv' /\ ~inconsistent'
    BY <1>1, <1>2, <1>4, <1>5 DEF StoreInv, ReasonInv, DecideInv, QueueInv, inconsistent
  <1>7. PropInv => PropInv'
    BY <1>1, <1>2, <1>3, PopProp DEF PropInv
  <1> QED BY <1>4, <1>5, <1>6, <1>7

-----------------------------------------------------------------------------
(***************************************************************************)
(* Conflict analysis.                                                      *)
(***************************************************************************)
\* What holds of 0 and goes from each number to the next holds up to n.
LEMMA Climbs ==
  ASSUME NEW S, NEW n \in Nat, 0 \in S, \A m \in 0 .. n - 1 : m \in S => m + 1 \in S
  PROVE  n \in S
  <1> DEFINE U == {m \in 0 .. n : m \notin S}
  <1> SUFFICES ASSUME U # {} PROVE FALSE
    OBVIOUS
  <1>1. PICK y \in U : \A k \in U : y <= k
    <2>1. U \subseteq Nat
      OBVIOUS
    <2> HIDE DEF U
    <2> QED BY <2>1, LeastOf
  <1>2. y \in 0 .. n /\ y \notin S /\ y # 0
    BY <1>1
  <1>3. y - 1 \in 0 .. n - 1 /\ y - 1 \in 0 .. n /\ ~ (y <= y - 1) /\ y - 1 + 1 = y
    BY <1>2
  <1>4. y - 1 \in S
    BY <1>1, <1>3
  <1> QED BY <1>2, <1>3, <1>4

\* The walk down the trail.
At(i) == m_trail[Len(m_trail) + 1 - i]
Walk(f, n) == /\ f[0] = Above(ConflictLits)
              /\ \A k \in 1 .. n : f[k] = Resolve(f[k - 1], At(k))

\* The walk is a function.
LEMMA WalkExists ==
  ASSUME NEW n \in Nat
  PROVE  \E f : Walk(f, n)
  <1> DEFINE S == {m \in 0 .. n : \E f : Walk(f, m)}
  <1>1. 0 \in S
    <2> DEFINE g == [k \in {0} |-> Above(ConflictLits)]
    <2>1. g[0] = Above(ConflictLits)
      OBVIOUS
    <2> HIDE DEF g
    <2>2. Walk(g, 0)
      BY <2>1 DEF Walk
    <2> QED BY <2>2
  <1>2. ASSUME NEW m \in 0 .. n - 1, m \in S PROVE m + 1 \in S
    <2>1. PICK g : Walk(g, m)
      BY <1>2
    <2> DEFINE x == Resolve(g[m], At(m + 1))
               f == [k \in 0 .. m + 1 |-> IF k \in 0 .. m THEN g[k] ELSE x]
    <2>2. m \in 0 .. m /\ m + 1 \notin 0 .. m /\ 0 \in 0 .. m /\ m + 1 \in 0 .. n
      OBVIOUS
    <2> HIDE DEF x
    <2>3. (\A k \in 0 .. m : f[k] = g[k]) /\ f[m + 1] = x
      BY <2>2
    <2> HIDE DEF f
    <2>4. f[0] = Above(ConflictLits)
      BY <2>1, <2>2, <2>3 DEF Walk
    <2>5. ASSUME NEW k \in 1 .. m + 1 PROVE f[k] = Resolve(f[k - 1], At(k))
      <3>1. CASE k = m + 1
        <4>1. k - 1 = m
          BY <3>1
        <4> QED BY <2>2, <2>3, <3>1, <4>1 DEF x
      <3>2. CASE k # m + 1
        <4>1. k \in 1 .. m /\ k \in 0 .. m /\ k - 1 \in 0 .. m
          BY <3>2
        <4>2. g[k] = Resolve(g[k - 1], At(k))
          BY <2>1, <4>1 DEF Walk
        <4> QED BY <2>3, <4>1, <4>2
      <3> QED BY <3>1, <3>2
    <2>6. Walk(f, m + 1)
      BY <2>4, <2>5 DEF Walk
    <2> QED BY <2>2, <2>6
  <1>3. n \in S
    <2> HIDE DEF S
    <2> QED BY <1>1, <1>2, Climbs
  <1> QED BY <1>3

\* FirstUIP is what is marked at its end.
LEMMA FirstUIPWalks ==
  ASSUME Len(m_trail) \in Nat
  PROVE  \E f : Walk(f, Len(m_trail)) /\ FirstUIP = f[Len(m_trail)]
  <1> DEFINE n == Len(m_trail)
             a == Above(ConflictLits)
             Eq(f) == f = [i \in 0 .. n |-> IF i = 0 THEN a ELSE Resolve(f[i - 1], m_trail[n + 1 - i])]
             c == CHOOSE f : Eq(f)
  <1>1. PICK g : Walk(g, n)
    BY WalkExists
  <1> DEFINE h == [k \in 0 .. n |-> g[k]]
  <1> HIDE DEF n, a
  <1>n. n \in Nat
    BY DEF n
  <1>2. Eq(h)
    <2>1. ASSUME NEW k \in 0 .. n
          PROVE  h[k] = IF k = 0 THEN a ELSE Resolve(h[k - 1], m_trail[n + 1 - k])
      <3>1. CASE k = 0
        BY <1>1, <3>1 DEF Walk, a
      <3>2. CASE k # 0
        <4>1. k \in 1 .. n /\ k - 1 \in 0 .. n
          BY <3>2, <1>n
        <4>2. h[k] = g[k] /\ h[k - 1] = g[k - 1]
          BY <4>1
        <4> HIDE DEF h
        <4>3. g[k] = Resolve(g[k - 1], m_trail[n + 1 - k])
          BY <1>1, <4>1 DEF Walk, At, n
        <4> QED BY <3>2, <4>2, <4>3
      <3> QED BY <3>1, <3>2
    <2>2. h = [k \in 0 .. n |-> h[k]]
      OBVIOUS
    <2> HIDE DEF h
    <2> QED BY <2>1, <2>2
  <1>3. Eq(c)
    <2> HIDE DEF Eq, h
    <2> QED BY <1>2
  <1>4. FirstUIP = c[n]
    BY DEF FirstUIP, n, a
  <1> HIDE DEF c
  <1>5. c[0] = a
    <2>1. 0 \in 0 .. n
      BY <1>n
    <2> QED BY <1>3, <2>1
  <1>6. \A k \in 1 .. n : c[k] = Resolve(c[k - 1], At(k))
    <2> TAKE k \in 1 .. n
    <2>1. k \in 0 .. n /\ k # 0
      BY <1>n
    <2>2. c[k] = Resolve(c[k - 1], m_trail[n + 1 - k])
      BY <1>3, <2>1
    <2> QED BY <2>2 DEF At, n
  <1>7. Walk(c, n)
    BY <1>5, <1>6 DEF Walk, a
  <1> QED BY <1>4, <1>7 DEF n

-----------------------------------------------------------------------------

\* The literals of the conflict and its level.
LEMMA ConflictFacts ==
  ASSUME TrailInv, ConflictAt(clauses, m_trail, m_conflict, search_lvl)
  PROVE  /\ ConflictLits \subseteq Range(m_trail)
         /\ m_conflict_lvl \in Nat
         /\ \A l \in ConflictLits : lvl(l) <= m_conflict_lvl
         /\ m_conflict_lvl > search_lvl =>
              m_conflict_lvl <= scope_lvl /\ \E l \in ConflictLits : lvl(l) = m_conflict_lvl
  <1> DEFINE js == m_conflict.js
             n  == m_conflict.not_l
             h  == Highest(ConflictLits)
             x  == IF Reason(js, 0) = {} THEN js.lvl ELSE 0
  <1>1. TrailOK(m_trail, m_justification) /\ ScopesOK(m_trail, m_justification, m_scopes)
    BY DEF TrailInv
  <1>2. ConflictLits \subseteq Range(m_trail)
    <2>1. \A k \in Reason(js, -n) : -k \in Range(m_trail)
      BY ReasonIs DEF ConflictAt
    <2>2. n # 0 => n \in Range(m_trail)
      BY DEF ConflictAt
    <2> QED BY <2>1, <2>2 DEF ConflictLits
  <1>3. ConflictLits \subseteq Lits /\ \A l \in ConflictLits : var(l) \in Assigned
    <2>1. Range(m_trail) \subseteq Lits
      BY <1>1, TrailFacts
    <2> QED BY <1>1, <1>2, <2>1, ValuesAre
  <1>4. /\ h \in 0 .. scope_lvl /\ \A l \in ConflictLits : lvl(l) <= h
        /\ h > 0 => \E l \in ConflictLits : lvl(l) = h
        /\ \A l \in ConflictLits : lvl(l) \in 0 .. scope_lvl
    BY <1>1, <1>3, HighestIs, LevelsAre
  <1>5. x \in Nat /\ x <= search_lvl
    <2>1. js.lvl \in Nat
      BY DEF ConflictAt, Justs
    <2>2. Reason(js, 0) = {} => js.lvl <= search_lvl
      BY ReasonIs DEF ConflictAt
    <2> QED BY <2>1, <2>2, SearchLvl
  <1>6. m_conflict_lvl = Max({h, x})
    BY DEF m_conflict_lvl
  <1> HIDE DEF h, x
  <1>7. scope_lvl \in Nat /\ search_lvl \in Nat
    BY <1>1, LevelsAre, SearchLvl
  <1>8. m_conflict_lvl \in {h, x} /\ h <= m_conflict_lvl /\ x <= m_conflict_lvl
    <2> DEFINE m == scope_lvl + search_lvl
    <2>1. m \in Nat /\ {h, x} \subseteq 0 .. m /\ {h, x} # {}
      BY <1>4, <1>5, <1>7
    <2> HIDE DEF m
    <2> QED BY <1>6, <2>1, MaxIs
  <1>9. m_conflict_lvl \in Nat /\ \A l \in ConflictLits : lvl(l) <= m_conflict_lvl
    BY <1>4, <1>5, <1>7, <1>8
  <1>10. ASSUME m_conflict_lvl > search_lvl
         PROVE  m_conflict_lvl <= scope_lvl /\ \E l \in ConflictLits : lvl(l) = m_conflict_lvl
    <2>1. m_conflict_lvl = h /\ h > 0
      BY <1>4, <1>5, <1>7, <1>8, <1>10
    <2> QED BY <1>4, <1>7, <2>1
  <1> QED BY <1>2, <1>9, <1>10

\* The literals marked: of the trail, above the base level, one of the level of
\* the conflict; all of that level are still to be met, unless there is just one.
Marked(M, i) ==
  /\ M \subseteq Range(m_trail) /\ \A l \in M : lvl(l) > 0 /\ lvl(l) <= m_conflict_lvl
  /\ Top(M) # {}
  /\ Cardinality(Top(M)) = 1 \/ \A l \in Top(M) : \E j \in 1 .. Len(m_trail) - i : m_trail[j] = l

\* Antecedents are true, below their consequent, of its level at most.
LEMMA AntecedentsAre ==
  ASSUME TrailInv, ReasonInv, NEW i \in 1 .. Len(m_trail)
  PROVE  \A k \in Antecedents(m_trail[i]) :
           /\ k \in Range(m_trail) /\ lvl(k) <= lvl(m_trail[i])
           /\ \E j \in 1 .. i - 1 : m_trail[j] = k
  <1> DEFINE l == m_trail[i]
             js == m_justification[var(l)]
  <1>1. TrailOK(m_trail, m_justification)
    BY DEF TrailInv
  <1>2. /\ Range(m_trail) = {m_trail[j] : j \in 1 .. Len(m_trail)} /\ Len(m_trail) \in Nat
        /\ Range(m_trail) \subseteq Lits
    BY <1>1, TrailFacts
  <1>3. ReasonAt(clauses, m_trail, m_justification, i)
    BY DEF ReasonInv, ReasonsOK
  <1>4. ASSUME NEW q \in Reason(js, l)
        PROVE  -q \in Range(m_trail) /\ lvl(-q) <= lvl(l) /\ \E j \in 1 .. i - 1 : m_trail[j] = -q
    <2>1. js # None(js.lvl)
      <3>1. None(js.lvl).cls = 0 /\ None(js.lvl).lits = {}
        BY DEF None, Just
      <3>2. js = None(js.lvl) => Reason(js, l) = {}
        BY <3>1 DEF Reason
      <3> QED BY <3>2
    <2>2. q \in Lits /\ LvlIn(m_justification, q) <= js.lvl /\ \E j \in 1 .. i - 1 : m_trail[j] = -q
      BY <1>3, <2>1, ReasonIs DEF ReasonAt
    <2>3. PICK j \in 1 .. i - 1 : m_trail[j] = -q
      BY <2>2
    <2>4. j \in 1 .. Len(m_trail)
      BY <1>2
    <2>5. lvl(-q) = LvlIn(m_justification, q) /\ lvl(l) = js.lvl
      BY <2>2, LitsAre DEF lvl, LvlIn
    <2> QED BY <1>2, <2>2, <2>3, <2>4, <2>5
  <1>5. Antecedents(l) = {-q : q \in Reason(js, l)}
    BY DEF Antecedents
  <1> QED BY <1>4, <1>5

\* So at the beginning: the literals of the conflict.
LEMMA MarkedStart ==
  ASSUME TrailInv, ConflictAt(clauses, m_trail, m_conflict, search_lvl), m_conflict_lvl > search_lvl
  PROVE  Marked(Above(ConflictLits), 0)
  <1>1. /\ ConflictLits \subseteq Range(m_trail) /\ m_conflict_lvl \in Nat
        /\ \A l \in ConflictLits : lvl(l) <= m_conflict_lvl
        /\ \E l \in ConflictLits : lvl(l) = m_conflict_lvl
    BY ConflictFacts
  <1>2. m_conflict_lvl > 0
    BY <1>1, SearchLvl
  <1> DEFINE M == Above(ConflictLits)
  <1>3. M \subseteq ConflictLits /\ \A l \in M : lvl(l) > 0
    BY DEF Above
  <1>4. Top(M) # {} /\ Top(M) \subseteq M
    BY <1>1, <1>2 DEF Top, Above
  <1>5. ASSUME NEW l \in Top(M) PROVE \E j \in 1 .. Len(m_trail) - 0 : m_trail[j] = l
    <2>1. Range(m_trail) = {m_trail[j] : j \in 1 .. Len(m_trail)} /\ Len(m_trail) \in Nat
      BY TrailFacts DEF TrailInv
    <2>2. l \in Range(m_trail)
      BY <1>1, <1>3, <1>4
    <2>3. Len(m_trail) - 0 = Len(m_trail)
      BY <2>1
    <2> QED BY <2>1, <2>2, <2>3
  <1> HIDE DEF M
  <1>6. Marked(M, 0)
    BY <1>1, <1>3, <1>4, <1>5 DEF Marked
  <1> QED BY <1>6 DEF M

\* And after every literal of the trail.
LEMMA MarkedStep ==
  ASSUME TrailInv, ReasonInv, m_conflict_lvl \in Nat, NEW M, NEW i \in 0 .. Len(m_trail) - 1, Marked(M, i)
  PROVE  Marked(Resolve(M, At(i + 1)), i + 1)
  <1> DEFINE n == Len(m_trail)
             p == n - i
             l == m_trail[p]
  <1>1. TrailOK(m_trail, m_justification) /\ ScopesOK(m_trail, m_justification, m_scopes)
    BY DEF TrailInv
  <1>2. /\ n \in Nat /\ Range(m_trail) = {m_trail[j] : j \in 1 .. n} /\ Range(m_trail) \subseteq Lits
        /\ IsFiniteSet(Range(m_trail))
    <2>1. m_trail \in Seq(Lits)
      BY <1>1 DEF TrailOK
    <2> QED BY <1>1, <2>1, TrailFacts, RangeFinite
  <1>3. p \in 1 .. n /\ n - (i + 1) = p - 1 /\ n + 1 - (i + 1) = p
    BY <1>2
  <1>4. At(i + 1) = l
    BY <1>3 DEF At
  <1>5. \A k \in Range(m_trail) : lvl(k) \in 0 .. scope_lvl /\ scope_lvl \in Nat
    BY <1>1, <1>2, ValuesAre, LevelsAre
  <1> HIDE DEF n, p, l
  <1>6. /\ M \subseteq Range(m_trail) /\ \A k \in M : lvl(k) > 0 /\ lvl(k) <= m_conflict_lvl
        /\ Top(M) # {} /\ Top(M) \subseteq M
        /\ Cardinality(Top(M)) = 1 \/ \A k \in Top(M) : \E j \in 1 .. p : m_trail[j] = k
    BY DEF Marked, Top, n, p
  <1>7. CASE Cardinality(Top(M)) = 1 \/ l \notin Top(M)
    <2>1. Resolve(M, l) = M
      BY <1>7 DEF Resolve
    <2>2. Cardinality(Top(M)) = 1 \/ \A k \in Top(M) : \E j \in 1 .. p - 1 : m_trail[j] = k
      <3> SUFFICES ASSUME l \notin Top(M), NEW k \in Top(M), NEW j \in 1 .. p, m_trail[j] = k
                   PROVE  \E q \in 1 .. p - 1 : m_trail[q] = k
        BY <1>6, <1>7
      <3>1. j # p
        BY DEF l
      <3>2. j \in 1 .. p - 1
        BY <1>2, <1>3, <3>1
      <3> QED BY <3>2
    <2> QED BY <1>3, <1>4, <1>6, <2>1, <2>2 DEF Marked, n
  <1>8. CASE Cardinality(Top(M)) # 1 /\ l \in Top(M)
    <2> DEFINE R == (M \ {l}) \cup Above(Antecedents(l))
    <2>1. Resolve(M, l) = R
      BY <1>8 DEF Resolve
    <2>2. ASSUME NEW k \in Antecedents(l)
          PROVE  k \in Range(m_trail) /\ lvl(k) <= lvl(l) /\ \E j \in 1 .. p - 1 : m_trail[j] = k
      BY <1>3, AntecedentsAre DEF l, n
    <2>3. lvl(l) = m_conflict_lvl
      BY <1>8 DEF Top
    <2>4. R \subseteq Range(m_trail) /\ \A k \in R : lvl(k) > 0 /\ lvl(k) <= m_conflict_lvl
      BY <1>6, <2>2, <2>3 DEF Above
    <2>5. PICK m \in Top(M) : m # l
      <3>1. IsFiniteSet(Top(M))
        BY <1>2, <1>6, FS_Subset
      <3>2. Top(M) # {l}
        BY <1>8, <3>1, One
      <3> QED BY <1>8, <3>2
    <2>6. Top(R) # {}
      BY <1>6, <2>5 DEF Top
    <2>7. ASSUME NEW k \in Top(R) PROVE \E j \in 1 .. p - 1 : m_trail[j] = k
      <3>1. CASE k \in Above(Antecedents(l))
        BY <2>2, <3>1 DEF Above
      <3>2. CASE k \in M /\ k # l
        <4>1. k \in Top(M)
          BY <2>7, <3>2 DEF Top
        <4>2. PICK j \in 1 .. p : m_trail[j] = k
          BY <1>6, <1>8, <4>1
        <4>3. j # p
          BY <3>2, <4>2 DEF l
        <4>4. j \in 1 .. p - 1
          BY <1>2, <1>3, <4>3
        <4> QED BY <4>2, <4>4
      <3> QED BY <2>7, <3>1, <3>2 DEF Top
    <2> HIDE DEF R
    <2> QED BY <1>3, <1>4, <2>1, <2>4, <2>6, <2>7 DEF Marked, n
  <1> QED BY <1>7, <1>8

\* At the end one literal of the level of the conflict is marked.
LEMMA FirstUIPIs ==
  ASSUME TrailInv, ReasonInv, ConflictAt(clauses, m_trail, m_conflict, search_lvl),
         m_conflict_lvl > search_lvl
  PROVE  /\ FirstUIP \subseteq Range(m_trail)
         /\ \A l \in FirstUIP : lvl(l) > 0 /\ lvl(l) <= m_conflict_lvl
         /\ \E u \in FirstUIP : lvl(u) = m_conflict_lvl /\ \A l \in FirstUIP : lvl(l) = m_conflict_lvl => l = u
  <1> DEFINE n == Len(m_trail)
  <1>1. n \in Nat /\ IsFiniteSet(Range(m_trail))
    <2>1. m_trail \in Seq(Lits)
      BY DEF TrailInv, TrailOK
    <2> QED BY <2>1, RangeFinite
  <1>2. m_conflict_lvl \in Nat
    BY ConflictFacts
  <1>3. PICK f : Walk(f, n) /\ FirstUIP = f[n]
    BY <1>1, FirstUIPWalks
  <1> DEFINE S == {i \in 0 .. n : Marked(f[i], i)}
  <1>4. 0 \in S
    BY <1>1, <1>3, MarkedStart DEF Walk
  <1>5. ASSUME NEW i \in 0 .. n - 1, i \in S PROVE i + 1 \in S
    <2>1. i + 1 \in 1 .. n /\ i + 1 \in 0 .. n /\ i + 1 - 1 = i
      BY <1>1
    <2>2. f[i + 1] = Resolve(f[i], At(i + 1))
      BY <1>3, <2>1 DEF Walk
    <2>3. Marked(f[i], i)
      BY <1>5
    <2>4. Marked(Resolve(f[i], At(i + 1)), i + 1)
      BY <1>2, <2>3, MarkedStep
    <2> QED BY <2>1, <2>2, <2>4
  <1>6. n \in S
    <2> HIDE DEF S
    <2> QED BY <1>1, <1>4, <1>5, Climbs
  <1>7. Marked(FirstUIP, n)
    BY <1>3, <1>6
  <1> DEFINE M == FirstUIP
  <1> HIDE DEF M
  <1>8. M \subseteq Range(m_trail) /\ \A l \in M : lvl(l) > 0 /\ lvl(l) <= m_conflict_lvl
    BY <1>7 DEF Marked, M
  <1>9. Cardinality(Top(M)) = 1
    <2>1. Top(M) # {}
      BY <1>7 DEF Marked, M
    <2>2. \A j \in 1 .. n - n : FALSE
      BY <1>1
    <2> QED BY <1>7, <2>1, <2>2 DEF Marked, M
  <1>10. PICK u : Top(M) = {u}
    <2>1. IsFiniteSet(Top(M))
      <3>1. Top(M) \subseteq Range(m_trail)
        BY <1>8 DEF Top
      <3> QED BY <1>1, <3>1, FS_Subset
    <2> QED BY <1>9, <2>1, One
  <1>11. u \in M /\ lvl(u) = m_conflict_lvl /\ \A l \in M : lvl(l) = m_conflict_lvl => l = u
    BY <1>10 DEF Top
  <1> QED BY <1>8, <1>11 DEF M

UIP == CHOOSE l \in FirstUIP : lvl(l) = m_conflict_lvl
Others == (FirstUIP \ {UIP}) \ Redundant(FirstUIP \ {UIP})

\* A sequence with one more at its head.
LEMMA Consed ==
  ASSUME NEW S, NEW x \in S, NEW s \in Seq(S)
  PROVE  /\ <<x>> \o s \in Seq(S) /\ Len(<<x>> \o s) = Len(s) + 1
         /\ (<<x>> \o s)[1] = x
         /\ \A i \in 2 .. Len(<<x>> \o s) : (<<x>> \o s)[i] = s[i - 1]
  <1>1. <<x>> \in Seq(S) /\ Len(<<x>>) = 1 /\ <<x>>[1] = x
    OBVIOUS
  <1>2. <<x>> \o s \in Seq(S) /\ Len(<<x>> \o s) = Len(<<x>>) + Len(s) /\ Len(s) \in Nat
    OBVIOUS
  <1>3. \A i \in 1 .. Len(<<x>>) + Len(s) :
          (<<x>> \o s)[i] = IF i <= Len(<<x>>) THEN <<x>>[i] ELSE s[i - Len(<<x>>)]
    BY <1>1
  <1> QED BY <1>1, <1>2, <1>3

\* The lemma: the negated first UIP, and false literals of lower levels.
LEMMA LemmaIs ==
  ASSUME TrailInv, ReasonInv, ConflictAt(clauses, m_trail, m_conflict, search_lvl),
         m_conflict_lvl > search_lvl
  PROVE  /\ Lemma \in Seq(Lits) /\ Len(Lemma) >= 1 /\ Injective(Lemma)
         /\ Lemma[1] = -UIP /\ UIP \in FirstUIP /\ lvl(UIP) = m_conflict_lvl
         /\ lvl(Lemma[1]) = m_conflict_lvl /\ Lemma[1] \in Lits
         /\ \A i \in 2 .. Len(Lemma) : /\ -Lemma[i] \in Range(m_trail) /\ Lemma[i] \in Lits
                                       /\ lvl(Lemma[i]) > 0 /\ lvl(Lemma[i]) < m_conflict_lvl
         /\ Range(Lemma) = {-l : l \in {UIP} \cup Others}
         /\ m_conflict_lvl \in Nat /\ m_conflict_lvl <= scope_lvl
  <1> DEFINE M == FirstUIP
             u == UIP
             R == {-l : l \in Others}
             s == Sorted(R)
             t == <<-u>> \o s
  <1>1. TrailOK(m_trail, m_justification) /\ ScopesOK(m_trail, m_justification, m_scopes)
    BY DEF TrailInv
  <1>2. /\ M \subseteq Range(m_trail) /\ \A l \in M : lvl(l) > 0 /\ lvl(l) <= m_conflict_lvl
        /\ \E x \in M : lvl(x) = m_conflict_lvl /\ \A l \in M : lvl(l) = m_conflict_lvl => l = x
    BY FirstUIPIs
  <1>3. u \in M /\ lvl(u) = m_conflict_lvl /\ \A l \in M : lvl(l) = m_conflict_lvl => l = u
    <2>1. u \in M /\ lvl(u) = m_conflict_lvl
      BY <1>2 DEF UIP
    <2> QED BY <1>2, <2>1
  <1>4. /\ Range(m_trail) \subseteq Lits
        /\ \A l \in Range(m_trail) : lvl(l) \in 0 .. scope_lvl /\ lvl(-l) = lvl(l)
        /\ \A l \in Lits : l \in Range(m_trail) => -l \notin Range(m_trail)
        /\ m_conflict_lvl \in Nat /\ m_conflict_lvl <= scope_lvl /\ scope_lvl \in Nat
    <2>1. Range(m_trail) \subseteq Lits /\ \A l \in Lits : l \in Range(m_trail) => -l \notin Range(m_trail)
      BY <1>1, TrailFacts
    <2> QED BY <1>1, <2>1, ValuesAre, LevelsAre, ConflictFacts
  <1>5. Others \subseteq M \ {u}
    BY DEF Others
  <1>6. Lemma = t
    BY DEF Lemma, Others, UIP
  <1> HIDE DEF M, u
  <1>7. ASSUME NEW k \in R
        PROVE  /\ k \in Lits /\ -k \in Others /\ -k \in Range(m_trail)
               /\ lvl(k) > 0 /\ lvl(k) < m_conflict_lvl /\ k # -u
    <2>1. PICK l \in Others : k = -l
      OBVIOUS
    <2>2. l \in M /\ l # u /\ l \in Range(m_trail) /\ l \in Lits
      BY <1>2, <1>4, <1>5
    <2>3. lvl(l) > 0 /\ lvl(l) <= m_conflict_lvl /\ lvl(l) # m_conflict_lvl /\ lvl(l) \in Nat
      BY <1>2, <1>3, <1>4, <2>2
    <2>4. k \in Lits /\ -k = l /\ lvl(k) = lvl(l)
      BY <1>4, <2>1, <2>2, LitsAre
    <2>5. u \in Lits /\ -(-u) = u
      BY <1>2, <1>3, <1>4, LitsAre
    <2>6. k # -u
      BY <2>2, <2>4, <2>5
    <2> QED BY <1>4, <2>2, <2>3, <2>4, <2>6
  <1>8. R \subseteq Lits /\ IsFiniteSet(R)
    BY <1>7, LitsFinite
  <1> HIDE DEF R
  <1>9. /\ s \in Seq(R) /\ Range(s) = R /\ Injective(s) /\ Len(s) \in Nat
        /\ \A i \in 1 .. Len(s) : s[i] \in R
    <2>1. s \in Seq(R) /\ Range(s) = R /\ Injective(s)
      BY <1>8, SortedIs
    <2> QED BY <2>1
  <1>10. -u \in Lits /\ lvl(-u) = m_conflict_lvl
    BY <1>2, <1>3, <1>4, LitsAre
  <1> HIDE DEF s
  <1>11. /\ Len(t) = Len(s) + 1 /\ t[1] = -u /\ \A i \in 2 .. Len(t) : t[i] = s[i - 1]
         /\ t \in Seq(Lits)
    <2>1. s \in Seq(Lits)
      BY <1>8, <1>9
    <2> QED BY <1>10, <2>1, Consed
  <1> HIDE DEF t
  <1>12. \A i \in 2 .. Len(t) : i - 1 \in 1 .. Len(s) /\ t[i] \in R
    BY <1>9, <1>11
  <1>13. Injective(t)
    <2> SUFFICES ASSUME NEW i \in 1 .. Len(t), NEW j \in 1 .. Len(t), t[i] = t[j] PROVE i = j
      BY DEF Injective
    <2>1. i = 1 \/ i \in 2 .. Len(t)
      BY <1>9, <1>11
    <2>2. j = 1 \/ j \in 2 .. Len(t)
      BY <1>9, <1>11
    <2>3. ASSUME NEW k \in 2 .. Len(t) PROVE t[k] # t[1]
      BY <1>7, <1>11, <1>12
    <2>4. CASE i \in 2 .. Len(t) /\ j \in 2 .. Len(t)
      <3>1. s[i - 1] = s[j - 1] /\ i - 1 \in 1 .. Len(s) /\ j - 1 \in 1 .. Len(s)
        BY <1>11, <1>12, <2>4
      <3>2. i - 1 = j - 1
        BY <1>9, <3>1 DEF Injective
      <3> QED BY <3>2
    <2> QED BY <2>1, <2>2, <2>3, <2>4
  <1>14. Range(t) = {-l : l \in {u} \cup Others}
    <2>1. Range(t) = {t[i] : i \in 1 .. Len(t)}
      BY <1>11, RangeFinite
    <2>2. {-l : l \in {u} \cup Others} = {-u} \cup R
      BY DEF R
    <2>3. ASSUME NEW i \in 1 .. Len(t) PROVE t[i] \in {-u} \cup R
      <3>1. i = 1 \/ i \in 2 .. Len(t)
        BY <1>9, <1>11
      <3> QED BY <1>11, <1>12, <3>1
    <2>4. -u \in Range(t)
      BY <1>9, <1>11, <2>1
    <2>5. ASSUME NEW k \in R PROVE k \in Range(t)
      <3>1. PICK i \in 1 .. Len(s) : s[i] = k
        <4>1. Range(s) = {s[i] : i \in 1 .. Len(s)}
          BY <1>9, RangeFinite
        <4> QED BY <1>9, <4>1
      <3>2. i + 1 \in 2 .. Len(t) /\ i + 1 \in 1 .. Len(t) /\ i + 1 - 1 = i
        BY <1>9, <1>11
      <3>3. t[i + 1] = k
        BY <1>11, <3>1, <3>2
      <3> QED BY <2>1, <3>2, <3>3
    <2> QED BY <2>1, <2>2, <2>3, <2>4, <2>5
  <1>15. \A i \in 2 .. Len(t) : /\ -t[i] \in Range(m_trail) /\ t[i] \in Lits
                                /\ lvl(t[i]) > 0 /\ lvl(t[i]) < m_conflict_lvl
    BY <1>7, <1>12
  <1>16. Len(t) >= 1
    BY <1>9, <1>11
  <1> QED BY <1>3, <1>4, <1>6, <1>10, <1>11, <1>13, <1>14, <1>15, <1>16 DEF M, u

\* A conflict is resolved, and levels are closed for its lemma.
LEMMA BackjumpInv ==
  ASSUME SearchInv, learn_lemma_and_backjump
  PROVE  SearchInv' /\ (PropInv => PropInv')
  <1> DEFINE lm   == Lemma
             jump == Highest({lm[i] : i \in 2 .. Len(lm)})
             back == lvl(lm[1]) - 1
  <1>1. /\ Resolvable /\ m_lemma' = lm /\ UNCHANGED <<store, user, goal>> /\ UNCHANGED <<m_core, result>>
        /\ \E n \in {jump, back} :
             /\ n < scope_lvl /\ pop(n)
             /\ pc' = IF n = 0 /\ tracking_assumptions THEN "rebase" ELSE "learn"
    BY DEF learn_lemma_and_backjump
  <1>2. /\ pc = "search" /\ inconsistent /\ m_conflict_lvl > search_lvl
    BY <1>1 DEF Resolvable, search_lvl
  <1>3. TrailInv /\ ReasonInv /\ ConflictAt(clauses, m_trail, m_conflict, search_lvl) /\ UserInv
    BY <1>2 DEF SearchInv, ConflictInv
  <1>4. TrailOK(m_trail, m_justification) /\ ScopesOK(m_trail, m_justification, m_scopes)
    BY <1>3 DEF TrailInv
  <1>5. /\ lm \in Seq(Lits) /\ Len(lm) >= 1 /\ Injective(lm)
        /\ lvl(lm[1]) = m_conflict_lvl /\ lm[1] \in Lits
        /\ \A i \in 2 .. Len(lm) : /\ -lm[i] \in Range(m_trail) /\ lm[i] \in Lits
                                   /\ lvl(lm[i]) > 0 /\ lvl(lm[i]) < m_conflict_lvl
        /\ m_conflict_lvl \in Nat /\ m_conflict_lvl <= scope_lvl
    BY <1>2, <1>3, LemmaIs
  <1> HIDE DEF lm
  <1>6. scope_lvl \in Nat /\ Len(lm) \in Nat /\ search_lvl \in Nat
    BY <1>4, <1>5, LevelsAre, SearchLvl
  <1> DEFINE T == {lm[i] : i \in 2 .. Len(lm)}
  <1>7. T \subseteq Lits /\ (\A l \in T : var(l) \in Assigned)
        /\ \A l \in T : lvl(l) > 0 /\ lvl(l) < m_conflict_lvl
    <2>1. \A i \in 2 .. Len(lm) : False(lm[i]) /\ lm[i] \in Lits
      BY <1>4, <1>5, ValuesAre
    <2>2. \A i \in 2 .. Len(lm) : var(lm[i]) \in Assigned
      BY <1>4, <2>1, ValuesAre
    <2> QED BY <1>5, <2>1, <2>2
  <1>8. /\ jump \in Nat /\ \A l \in T : lvl(l) <= jump
        /\ jump < m_conflict_lvl
        /\ jump = 0 => T = {}
    <2> HIDE DEF T
    <2> DEFINE h == Highest(T)
    <2>1. /\ h \in Nat /\ \A l \in T : lvl(l) <= h
          /\ h > 0 => \E l \in T : lvl(l) = h
      BY <1>4, <1>7, HighestIs
    <2> HIDE DEF h
    <2>2. h < m_conflict_lvl
      BY <1>2, <1>5, <1>6, <1>7, <2>1
    <2>3. h = 0 => T = {}
      <3>1. \A l \in T : lvl(l) \in Nat
        BY <1>4, <1>7, LevelsAre
      <3> QED BY <1>7, <2>1, <3>1
    <2> QED BY <2>1, <2>2, <2>3 DEF h, T
  <1>9. PICK n \in {jump, back} :
             /\ n < scope_lvl /\ pop(n)
             /\ pc' = IF n = 0 /\ tracking_assumptions THEN "rebase" ELSE "learn"
    BY <1>1
  <1> HIDE DEF T, jump
  <1>10. n \in 0 .. scope_lvl - 1 /\ n < m_conflict_lvl /\ \A l \in T : lvl(l) <= n
    <2>1. back = m_conflict_lvl - 1 /\ back \in Nat
      BY <1>2, <1>5, <1>6
    <2>2. CASE n = jump
      BY <1>6, <1>8, <1>9, <2>2
    <2>3. CASE n = back
      <3>1. \A l \in T : lvl(l) \in Nat
        BY <1>4, <1>7, LevelsAre
      <3> QED BY <1>5, <1>6, <1>7, <1>9, <2>1, <2>3, <3>1
    <2> QED BY <2>2, <2>3
  <1>11. /\ StoreInv' /\ TrailInv' /\ ReasonInv' /\ DecideInv' /\ QueueInv'
         /\ ~inconsistent' /\ scope_lvl' = n
         /\ (tracking_assumptions' <=> tracking_assumptions)
         /\ (PropInv => PropInv')
    BY <1>1, <1>2, <1>9, <1>10, BackInv
  <1>12. ConflictInv'
    BY <1>11 DEF ConflictInv
  <1>13. LemmaAt(lm, m_trail', m_justification')
    <2>0. PopScopes(n)
      BY <1>6, <1>9, <1>10 DEF pop
    <2>1. /\ Range(m_trail') = {l \in Range(m_trail) : lvl(l) <= n}
          /\ \A l \in Lits : var(l) \in DOMAIN m_justification' =>
               /\ var(l) \in Assigned /\ lvl(l) <= n
               /\ LvlIn(m_justification', l) = lvl(l)
          /\ \A l \in Lits : var(l) \in Assigned /\ lvl(l) <= n => var(l) \in DOMAIN m_justification'
      BY <1>3, <1>6, <1>10, <2>0, CutInv
    <2>2. var(lm[1]) \notin DOMAIN m_justification'
      BY <1>5, <1>6, <1>10, <2>1
    <2>3. ASSUME NEW i \in 2 .. Len(lm)
          PROVE  -lm[i] \in Range(m_trail') /\ LvlIn(m_justification', lm[i]) > 0
      <3>1. lm[i] \in T
        BY DEF T
      <3>2. lvl(-lm[i]) = lvl(lm[i])
        BY <1>4, <1>5, LevelsAre
      <3> QED BY <1>5, <1>7, <1>10, <2>1, <3>1, <3>2
    <2> QED BY <1>5, <2>2, <2>3 DEF LemmaAt
  <1>14. pc' = "rebase" => Len(lm) = 1 /\ tracking_assumptions /\ n = 0
    <2> SUFFICES ASSUME pc' = "rebase" PROVE Len(lm) = 1 /\ tracking_assumptions /\ n = 0
      OBVIOUS
    <2>1. n = 0 /\ tracking_assumptions
      BY <1>9
    <2>2. \A l \in T : FALSE
      <3>1. \A l \in T : lvl(l) \in Nat
        BY <1>4, <1>7, LevelsAre
      <3> QED BY <1>7, <1>10, <2>1, <3>1
    <2>3. ~ (2 \in 2 .. Len(lm))
      BY <2>2 DEF T
    <2>4. Len(lm) >= 1
      BY <1>5
    <2> QED BY <1>6, <2>1, <2>3, <2>4
  <1>15. LemmaInv'
    <2>1. Pending' /\ (pc' = "rebase" \/ pc' = "learn")
      BY <1>9 DEF Pending
    <2> QED BY <1>1, <1>11, <1>13, <1>14, <2>1 DEF LemmaInv
  <1>16. PhaseInv'
    BY <1>9, <1>11, <1>14 DEF PhaseInv
  <1>17. UserInv'
    BY <1>1, <1>3 DEF UserInv, user, goal
  <1> QED BY <1>11, <1>12, <1>15, <1>16, <1>17 DEF SearchInv

\* Levels of the search are closed without a lemma.
LEMMA ClosedInv ==
  ASSUME SearchInv, do_restart \/ Backtrack
  PROVE  SearchInv' /\ (PropInv => PropInv')
  <1>1. /\ pc = "search" /\ pc' = pc /\ UNCHANGED <<store, user, goal>>
        /\ m_lemma' = m_lemma /\ m_core' = m_core /\ result' = result
    BY DEF do_restart, Backtrack, Resolvable
  <1>2. TrailInv
    BY DEF SearchInv
  <1>3. scope_lvl \in Nat /\ search_lvl \in Nat
    BY <1>2, LevelsAre, SearchLvl DEF TrailInv
  <1>4. PICK n \in 0 .. scope_lvl - 1 : pop(n)
    <2>1. CASE do_restart
      <3>1. PICK n \in search_lvl .. scope_lvl - 1 : pop(n)
        BY <2>1 DEF do_restart
      <3>2. n \in 0 .. scope_lvl - 1
        BY <1>3
      <3> QED BY <3>1, <3>2
    <2>2. CASE Backtrack
      <3>1. inconsistent /\ m_conflict_lvl > search_lvl /\ pop(m_conflict_lvl - 1)
        BY <2>2 DEF Backtrack, Resolvable, search_lvl
      <3>2. ConflictAt(clauses, m_trail, m_conflict, search_lvl)
        BY <1>1, <3>1 DEF SearchInv, ConflictInv
      <3>3. m_conflict_lvl \in Nat /\ m_conflict_lvl <= scope_lvl
        BY <1>2, <3>1, <3>2, ConflictFacts
      <3>4. m_conflict_lvl - 1 \in 0 .. scope_lvl - 1
        BY <1>3, <3>1, <3>3
      <3> QED BY <3>1, <3>4
    <2> QED BY <2>1, <2>2
  <1>5. /\ StoreInv' /\ TrailInv' /\ ReasonInv' /\ DecideInv' /\ QueueInv'
        /\ ~inconsistent' /\ (PropInv => PropInv')
    BY <1>1, <1>4, BackInv
  <1>6. ConflictInv'
    BY <1>5 DEF ConflictInv
  <1>7. LemmaInv'
    BY <1>1 DEF LemmaInv, SearchInv, Pending
  <1>8. PhaseInv'
    BY <1>1 DEF PhaseInv
  <1>9. UserInv'
    BY <1>1 DEF UserInv, SearchInv, user, goal
  <1> QED BY <1>5, <1>6, <1>7, <1>8, <1>9 DEF SearchInv

-----------------------------------------------------------------------------
(* A lemma is deleted *)
\* A lemma that is no reason is deleted.
LEMMA do_gcInv ==
  ASSUME SearchInv, do_gc
  PROVE  SearchInv' /\ (PropInv => PropInv')
  <1>1. PICK id \in learned : /\ Len(clauses[id]) > 2 /\ can_delete(id)
                              /\ Detach({id}) /\ learned' = learned \ {id}
    BY DEF do_gc
  <1>2. /\ pc = "search" /\ Fixpoint /\ pc' = pc /\ UNCHANGED <<search, user, goal>>
        /\ m_lemma' = m_lemma /\ m_core' = m_core /\ result' = result
    BY DEF do_gc
  <1>3. /\ m_trail' = m_trail /\ m_justification' = m_justification /\ m_scopes' = m_scopes
        /\ m_qhead' = m_qhead /\ todo' = todo /\ m_conflict' = m_conflict
        /\ m_assumptions' = m_assumptions /\ m_user_scope_literals' = m_user_scope_literals
        /\ toassume' = toassume /\ nvars' = nvars /\ todo = {}
        /\ ~inconsistent /\ ~inconsistent' /\ scope_lvl' = scope_lvl /\ search_lvl' = search_lvl
    BY <1>2 DEF search, user, goal, Fixpoint, inconsistent, scope_lvl, search_lvl, tracking_assumptions
  <1>4. ClausesOK(clauses) /\ TrailInv /\ ReasonInv /\ learned \subseteq DOMAIN clauses
    BY DEF SearchInv, StoreInv
  <1>a. Len(clauses[id]) \in Nat
    <2>1. GoodClause(clauses[id])
      BY <1>4 DEF ClausesOK
    <2> QED BY <2>1, ClauseFacts
  <1>b. Len(clauses[id]) > 3 => Len(clauses[id]) # 3
    <2> DEFINE n == Len(clauses[id])
    <2>1. n \in Nat
      BY <1>a
    <2> HIDE DEF n
    <2>2. n > 3 => n # 3
      BY <2>1
    <2> QED BY <2>2 DEF n
  <1>5. clauses' = Detached(clauses, {id})
    BY <1>1 DEF Detach, Detached
  <1>6. /\ ClausesOK(clauses') /\ DOMAIN clauses' = DOMAIN clauses \ {id}
        /\ \A i \in DOMAIN clauses \ {id} : clauses'[i] = clauses[i]
    BY <1>4, <1>5, DetachedIs
  <1>7. StoreInv'
    BY <1>1, <1>4, <1>6 DEF StoreInv
  <1>8. TrailInv' /\ DecideInv'
    BY <1>3 DEF TrailInv, DecideInv, SearchInv
  <1>9. ReasonInv'
    <2>1. ReasonsOK(clauses', m_trail, m_justification)
      <3>0. DOMAIN m_trail = 1 .. Len(m_trail)
        BY <1>4, TrailFacts DEF TrailInv
      <3>1. ASSUME NEW i \in 1 .. Len(m_trail), Len(clauses[id]) > 3, clauses[id][1] = m_trail[i]
            PROVE  m_justification[var(m_trail[i])].cls # id
        <4>1. True(m_trail[i])
          BY <3>0 DEF True
        <4>2. ~ (Len(clauses[id]) = 3)
          BY <1>b, <3>1
        <4>3. ~ (True(clauses[id][1]) /\ m_justification[var(clauses[id][1])].cls = id)
          BY <1>1, <4>2 DEF can_delete
        <4> QED BY <3>1, <4>1, <4>3
      <3>2. \A i \in 1 .. Len(m_trail) : LET c == m_justification[var(m_trail[i])].cls IN
              c # 0 /\ c \in DOMAIN clauses /\ Len(clauses[c]) > 3 /\ clauses[c][1] = m_trail[i] =>
                c \in DOMAIN clauses' /\ clauses'[c] = clauses[c]
        BY <1>6, <3>1
      <3> QED BY <1>4, <3>2, KeepReasons DEF ReasonInv
    <2> QED BY <1>3, <2>1 DEF ReasonInv
  <1>10. QueueInv'
    BY <1>2, <1>3 DEF QueueInv, SearchInv
  <1>11. ConflictInv'
    BY <1>3 DEF ConflictInv
  <1>12. LemmaInv' /\ PhaseInv' /\ UserInv'
    <2>1. ~Pending /\ ~Pending' /\ m_lemma = <<>>
      BY <1>2 DEF Pending, LemmaInv, SearchInv
    <2>2. LemmaInv'
      BY <1>2, <2>1 DEF LemmaInv
    <2>3. PhaseInv'
      BY <1>2 DEF PhaseInv
    <2>4. UserInv'
      BY <1>2, <1>3 DEF UserInv, SearchInv
    <2> QED BY <2>2, <2>3, <2>4
  <1>13. ASSUME PropInv PROVE PropInv'
    <2> SUFFICES ASSUME NEW i \in DOMAIN clauses'
                 PROVE  /\ \A n \in 0 .. scope_lvl' - 1 :
                             Settled(clauses'[i], m_trail', m_justification', n, m_scopes'[n + 1])
                        /\ Settled(clauses'[i], m_trail', m_justification', scope_lvl', Done(i)')
      BY DEF PropInv
    <2>1. i \in DOMAIN clauses /\ clauses'[i] = clauses[i]
      BY <1>6
    <2>2. Done(i)' = Done(i)
      BY <1>3 DEF Done
    <2> QED BY <1>3, <1>13, <2>1, <2>2 DEF PropInv
  <1> QED BY <1>7, <1>8, <1>9, <1>10, <1>11, <1>12, <1>13 DEF SearchInv

-----------------------------------------------------------------------------
(***************************************************************************)
(* A visit of a clause.                                                    *)
(***************************************************************************)
Grown == /\ Len(m_trail) \in Nat /\ Len(m_trail') \in Nat /\ Len(m_trail) <= Len(m_trail')
         /\ \A i \in 1 .. Len(m_trail) : m_trail'[i] = m_trail[i]

\* Visits append to the trail, or leave it.
LEMMA GrownIs ==
  ASSUME TrailInv,
         \/ UNCHANGED m_trail
         \/ \E l \in Lits, js \in Justs : Undef(l) /\ js.lvl <= Len(m_scopes) /\ assign_core(l, js)
  PROVE  Grown
  <1>1. Len(m_trail) \in Nat
    BY TrailFacts DEF TrailInv
  <1>2. CASE UNCHANGED m_trail
    BY <1>1, <1>2 DEF Grown
  <1>3. ASSUME NEW l \in Lits, NEW js \in Justs, Undef(l), js.lvl <= Len(m_scopes), assign_core(l, js)
        PROVE  Grown
    <2>1. Extends(m_trail, m_justification, l, js, m_trail', m_justification')
      BY <1>3, Grow
    <2>2. Len(m_trail') = Len(m_trail) + 1 /\ \A i \in 1 .. Len(m_trail) : m_trail'[i] = m_trail[i]
      BY <2>1 DEF Extends
    <2> QED BY <1>1, <2>2 DEF Grown
  <1> QED BY <1>2, <1>3

\* What a visit has to keep.
LEMMA VisitInv ==
  ASSUME SearchInv, NEW id \in todo, UNCHANGED <<m_qhead, Rest>>, Grown, TrailInv', ReasonInv', DecideInv',
         ClausesOK(clauses'), DOMAIN clauses' = DOMAIN clauses,
         \A i \in DOMAIN clauses : i # id => clauses'[i] = clauses[i],
         todo' = {} \/ (todo' = todo \ {id} /\ ~inconsistent'),
         inconsistent' => ConflictAt(clauses', m_trail', m_conflict', search_lvl)
  PROVE  SearchInv'
  <1>1. /\ learned' = learned /\ m_lemma' = m_lemma /\ pc' = pc /\ search_lvl' = search_lvl
        /\ (tracking_assumptions' <=> tracking_assumptions)
        /\ (Propagating' <=> Propagating) /\ (Pending' <=> Pending)
        /\ PhaseInv' /\ UserInv'
    BY RestIs DEF SearchInv
  <1>2. Propagating /\ ~inconsistent /\ m_qhead > 0 /\ m_qhead \in 0 .. Len(m_trail)
        /\ todo \subseteq watches(m_trail[m_qhead])
    BY DEF SearchInv, QueueInv
  <1>3. StoreInv'
    BY <1>1 DEF SearchInv, StoreInv
  <1>4. QueueInv'
    <2>1. m_qhead' \in 0 .. Len(m_trail') /\ m_qhead' > 0 /\ m_trail'[m_qhead] = m_trail[m_qhead]
      BY <1>2 DEF Grown
    <2>2. todo' # {} => Propagating' /\ ~inconsistent' /\ m_qhead' > 0
      BY <1>1, <1>2, <2>1
    <2>3. todo' \subseteq watches(m_trail[m_qhead])'
      <3> SUFFICES ASSUME NEW i \in todo' PROVE i \in watches(m_trail[m_qhead])'
        OBVIOUS
      <3>1. i \in todo /\ i # id
        OBVIOUS
      <3>2. i \in watches(m_trail[m_qhead])
        BY <1>2, <3>1
      <3>3. i \in DOMAIN clauses /\ \E j \in 1 .. IF Len(clauses[i]) > 3 THEN 2 ELSE Len(clauses[i]) :
                                       clauses[i][j] = -m_trail[m_qhead]
        BY <3>2, WatchesAre
      <3>4. clauses'[i] = clauses[i]
        BY <3>1, <3>3
      <3> QED BY <2>1, <3>3, <3>4 DEF watches
    <2> QED BY <2>1, <2>2, <2>3 DEF QueueInv
  <1>5. ConflictInv'
    BY <1>1 DEF ConflictInv
  <1>6. LemmaInv'
    <2>1. CASE ~Pending
      BY <1>1, <2>1 DEF LemmaInv, SearchInv
    <2>2. CASE Pending
      <3>1. pc # "learn"
        BY <1>2 DEF Propagating
      <3>2. LemmaAt(m_lemma, m_trail, m_justification) /\ Len(m_lemma) = 1 /\ tracking_assumptions
        BY <2>2, <3>1 DEF LemmaInv, SearchInv
      <3>3. LemmaAt(m_lemma, m_trail', m_justification')
        BY <3>2, UnitKept
      <3>4. ~ (Len(m_lemma') > 1)
        BY <1>1, <3>2
      <3> QED BY <1>1, <2>2, <3>2, <3>3, <3>4 DEF LemmaInv
    <2> QED BY <2>1, <2>2
  <1> QED BY <1>1, <1>3, <1>4, <1>5, <1>6 DEF SearchInv

\* What is left to be shown of the clause that is visited.
LEMMA VisitProp ==
  ASSUME SearchInv, PropInv, NEW id \in todo, UNCHANGED <<m_qhead, Rest>>,
         \/ UNCHANGED <<m_trail, m_justification>>
         \/ \E l \in Lits, js \in Justs : Undef(l) /\ js.lvl <= Len(m_scopes) /\ assign_core(l, js),
         DOMAIN clauses' = DOMAIN clauses,
         \A i \in DOMAIN clauses : i # id => clauses'[i] = clauses[i],
         inconsistent' \/ todo' = todo \ {id},
         \A n \in 0 .. scope_lvl - 1 :
           Settled(clauses'[id], m_trail', m_justification', n, m_scopes[n + 1]),
         ~inconsistent' => Settled(clauses'[id], m_trail', m_justification', scope_lvl, m_qhead)
  PROVE  PropInv'
  <1>1. m_scopes' = m_scopes /\ scope_lvl' = scope_lvl /\ m_qhead' = m_qhead
    BY RestIs
  <1>2. TrailInv /\ QueueInv /\ ~inconsistent
    BY DEF SearchInv, QueueInv
  <1> SUFFICES ASSUME NEW i \in DOMAIN clauses'
               PROVE  /\ \A n \in 0 .. scope_lvl - 1 :
                           Settled(clauses'[i], m_trail', m_justification', n, m_scopes[n + 1])
                      /\ ~inconsistent' =>
                           Settled(clauses'[i], m_trail', m_justification', scope_lvl, Done(i)')
    BY <1>1 DEF PropInv
  <1>3. CASE i = id
    <2>1. ~inconsistent' => Done(i)' = m_qhead
      BY <1>1, <1>3 DEF Done
    <2> QED BY <1>3, <2>1
  <1>4. CASE i # id
    <2>1. i \in DOMAIN clauses /\ clauses'[i] = clauses[i]
      BY <1>4
    <2>2. ~inconsistent' => Done(i)' = Done(i)
      BY <1>1, <1>4 DEF Done
    <2>3. /\ \A n \in 0 .. scope_lvl - 1 :
               Settled(clauses[i], m_trail', m_justification', n, m_scopes[n + 1])
          /\ Settled(clauses[i], m_trail', m_justification', scope_lvl, Done(i))
      <3>1. CASE UNCHANGED <<m_trail, m_justification>>
        BY <1>2, <2>1, <3>1 DEF PropInv
      <3>2. ASSUME NEW l \in Lits, NEW js \in Justs, Undef(l), js.lvl <= Len(m_scopes), assign_core(l, js)
            PROVE  /\ \A n \in 0 .. scope_lvl - 1 :
                        Settled(clauses[i], m_trail', m_justification', n, m_scopes[n + 1])
                   /\ Settled(clauses[i], m_trail', m_justification', scope_lvl, Done(i))
        BY <1>1, <1>2, <2>1, <3>2, GrowProp
      <3> QED BY <3>1, <3>2
    <2> QED BY <2>1, <2>2, <2>3
  <1> QED BY <1>3, <1>4

\* The clause that is visited.
LEMMA Visited ==
  ASSUME SearchInv, NEW id \in todo
  PROVE  /\ id \in DOMAIN clauses /\ GoodClause(clauses[id]) /\ id \in Nat \ {0}
         /\ m_qhead \in 1 .. Len(m_trail) /\ m_trail[m_qhead] \in Lits /\ True(m_trail[m_qhead])
         /\ ~inconsistent /\ TrailInv
         /\ \E j \in 1 .. IF Len(clauses[id]) > 3 THEN 2 ELSE Len(clauses[id]) :
              clauses[id][j] = -m_trail[m_qhead]
         /\ False(-m_trail[m_qhead])
  <1>1. TrailInv /\ QueueInv /\ ~inconsistent /\ ClausesOK(clauses)
    BY DEF SearchInv, QueueInv, StoreInv
  <1>2. m_qhead \in 1 .. Len(m_trail) /\ id \in watches(m_trail[m_qhead])
    BY <1>1, TrailFacts DEF QueueInv, TrailInv
  <1>3. m_trail[m_qhead] \in Lits /\ DOMAIN m_trail = 1 .. Len(m_trail)
    BY <1>1, <1>2, TrailFacts DEF TrailInv
  <1>4. True(m_trail[m_qhead])
    BY <1>2, <1>3 DEF True
  <1>5. False(-m_trail[m_qhead])
    BY <1>3, <1>4, LitsAre DEF False
  <1>6. /\ id \in DOMAIN clauses
        /\ \E j \in 1 .. IF Len(clauses[id]) > 3 THEN 2 ELSE Len(clauses[id]) :
              clauses[id][j] = -m_trail[m_qhead]
    BY <1>2, WatchesAre
  <1> QED BY <1>1, <1>2, <1>3, <1>4, <1>5, <1>6 DEF ClausesOK

\* A clause with a true literal is settled.
LEMMA TrueSettles ==
  ASSUME TrailInv, NEW c, NEW l \in Range(c), l \in Lits, True(l), NEW b
  PROVE  Settled(c, m_trail, m_justification, scope_lvl, b)
  <1>1. TrailOK(m_trail, m_justification) /\ ScopesOK(m_trail, m_justification, m_scopes)
    BY DEF TrailInv
  <1>2. l \in Range(m_trail) /\ var(l) \in Assigned
    BY <1>1, ValuesAre
  <1>3. LvlIn(m_justification, l) <= scope_lvl
    <2>1. lvl(l) \in 0 .. scope_lvl /\ scope_lvl \in Nat
      BY <1>1, <1>2, LevelsAre
    <2> QED BY <2>1, LvlIs
  <1> QED BY <1>1, <1>2, <1>3, SettledTrue

\* The reason that false literals are.
LEMMA FalseReason ==
  ASSUME TrailInv, NEW S, S \subseteq Lits, S # {}, \A k \in S : False(k), NEW c \in Nat
  PROVE  /\ Just(Highest(S), c, S) \in Justs /\ Highest(S) \in Nat /\ Highest(S) <= Len(m_scopes)
         /\ Just(Highest(S), c, {}) \in Justs
         /\ Just(Highest(S), c, S).lvl = Highest(S) /\ Just(Highest(S), c, S).cls = c
         /\ Just(Highest(S), c, S).lits = S
         /\ \A n : Just(Highest(S), c, S) # None(n)
         /\ \A k \in S : /\ k \in Lits /\ -k \in Range(m_trail)
                         /\ LvlIn(m_justification, k) <= Highest(S)
         /\ \E k \in S : LvlIn(m_justification, k) = Highest(S)
  <1>1. TrailOK(m_trail, m_justification) /\ ScopesOK(m_trail, m_justification, m_scopes)
    BY DEF TrailInv
  <1>2. \A k \in S : -k \in Range(m_trail) /\ var(k) \in Assigned
    BY <1>1, ValuesAre
  <1>3. /\ Highest(S) \in 0 .. scope_lvl /\ Highest(S) \in Nat
        /\ \A l \in S : lvl(l) <= Highest(S)
        /\ \E l \in S : lvl(l) = Highest(S)
    BY <1>1, <1>2, HighestIs
  <1> DEFINE h == Highest(S)
  <1>4. h \in Nat /\ h <= Len(m_scopes)
    BY <1>1, <1>3, LevelsAre DEF scope_lvl
  <1> HIDE DEF h
  <1>5. Just(h, c, S) \in Justs /\ Just(h, c, {}) \in Justs /\ Just(h, c, S).lvl = h
        /\ Just(h, c, S).cls = c /\ Just(h, c, S).lits = S
    BY <1>4, JustsAre
  <1>6. \A n : Just(h, c, S) # None(n)
    BY DEF Just, None
  <1> QED BY <1>2, <1>3, <1>4, <1>5, <1>6, LvlIs DEF h

\* Two literals of a short clause that are not false settle it.
LEMMA OpenSettles ==
  ASSUME TrailInv, NEW c, GoodClause(c), Len(c) <= 3, NEW x \in Range(c), NEW y \in Range(c), x # y,
         ~False(x), ~False(y), NEW n, NEW b \in 0 .. Len(m_trail)
  PROVE  Settled(c, m_trail, m_justification, n, b)
  <1>1. Len(c) \in Nat /\ Range(c) = {c[i] : i \in 1 .. Len(c)}
    BY ClauseFacts
  <1>2. PICK i \in 1 .. Len(c) : x = c[i]
    BY <1>1
  <1>3. PICK j \in 1 .. Len(c) : y = c[j]
    BY <1>1
  <1>4. -x \notin Range(m_trail) /\ -y \notin Range(m_trail)
    BY ValuesAre DEF TrailInv
  <1>5. \A p \in 1 .. b : m_trail[p] \in Range(m_trail)
    <2>1. Len(m_trail) \in Nat /\ Range(m_trail) = {m_trail[p] : p \in 1 .. Len(m_trail)}
      BY TrailFacts DEF TrailInv
    <2> QED BY <2>1
  <1>6. \A p \in 1 .. b : m_trail[p] # -c[i] /\ m_trail[p] # -c[j]
    BY <1>2, <1>3, <1>4, <1>5
  <1>7. i # j /\ ~ (Len(c) > 3)
    BY <1>1, <1>2, <1>3
  <1> QED BY <1>6, <1>7 DEF Settled

\* A clause of two or three literals is visited.
LEMMA VisitShortInv ==
  ASSUME SearchInv, NEW id \in todo, VisitShort(id)
  PROVE  SearchInv' /\ (PropInv => PropInv')
  <1> DEFINE l      == m_trail[m_qhead]
             c      == clauses[id]
             others == Range(c) \ {-l}
             open   == {k \in others : ~False(k)}
             k      == CHOOSE k \in others : open \subseteq {k}
             S      == Range(c) \ {k}
             js     == Just(Highest(S), 0, S)
  <1>1. /\ id \in DOMAIN clauses /\ GoodClause(c) /\ m_qhead \in 1 .. Len(m_trail) /\ l \in Lits
        /\ ~inconsistent /\ TrailInv /\ False(-l)
        /\ \E j \in 1 .. IF Len(clauses[id]) > 3 THEN 2 ELSE Len(clauses[id]) : clauses[id][j] = -l
    BY Visited
  <1>2. /\ Len(c) <= 3 /\ UNCHANGED <<m_qhead, Rest>> /\ clauses' = clauses
        /\ \/ /\ (\E q \in others : True(q)) \/ Cardinality(open) > 1
              /\ todo' = todo \ {id} /\ Keep3
           \/ /\ Cardinality(open) = 1 /\ Undef(k)
              /\ todo' = todo \ {id} /\ assign_core(k, js)
           \/ open = {} /\ todo' = {} /\ set_conflict(-k, js)
    BY DEF VisitShort
  <1> HIDE DEF l
  <1>3. /\ Len(c) \in Nat /\ Range(c) \subseteq Lits /\ IsFiniteSet(Range(c)) /\ Len(c) >= 2
        /\ Range(c) = {c[i] : i \in 1 .. Len(c)} /\ c[1] # c[2]
    BY <1>1, ClauseFacts
  <1>4. -l \in Range(c)
    BY <1>1, <1>3 DEF c
  <1>5. others # {} /\ others \subseteq Lits /\ IsFiniteSet(open)
    <2>1. c[1] \in Range(c) /\ c[2] \in Range(c)
      BY <1>3
    <2>2. c[1] \in others \/ c[2] \in others
      BY <1>3, <2>1
    <2>3. open \subseteq Range(c)
      OBVIOUS
    <2> HIDE DEF c, open
    <2> QED BY <1>3, <2>2, <2>3, FS_Subset
  <1>6. (open = {} \/ Cardinality(open) = 1) => k \in others /\ open \subseteq {k}
    <2>1. Cardinality(open) = 1 => \E x : open = {x}
      BY <1>5, One
    <2>2. ASSUME open = {} \/ Cardinality(open) = 1 PROVE \E x \in others : open \subseteq {x}
      <3>1. CASE open = {}
        BY <1>5, <3>1
      <3>2. CASE open # {}
        <4>1. PICK x : open = {x}
          BY <2>1, <2>2, <3>2
        <4>2. x \in others
          BY <4>1
        <4> QED BY <4>1, <4>2
      <3> QED BY <3>1, <3>2
    <2> HIDE DEF others, open
    <2> QED BY <2>2
  <1> HIDE DEF k
  <1>7. ASSUME open = {} \/ Cardinality(open) = 1
        PROVE  k \in Lits /\ S \subseteq Lits /\ S # {} /\ \A x \in S : False(x)
    <2>1. k \in others /\ open \subseteq {k}
      BY <1>6, <1>7
    <2>2. -l \in S
      BY <1>4, <2>1
    <2>3. ASSUME NEW x \in S PROVE False(x)
      <3>1. CASE x = -l
        BY <1>1, <3>1
      <3>2. CASE x # -l
        BY <2>1, <3>2
      <3> QED BY <3>1, <3>2
    <2> QED BY <1>3, <2>1, <2>2, <2>3
  <1>f. ASSUME open = {} \/ Cardinality(open) = 1
        PROVE  /\ js \in Justs /\ js.lvl <= Len(m_scopes)
               /\ GoodReason(clauses, m_trail, m_justification, k, js)
               /\ js # None(js.lvl) /\ js.cls = 0 /\ js.lits = S
               /\ \A x \in S : x \in Lits /\ -x \in Range(m_trail)
    <2>1. S \subseteq Lits /\ S # {} /\ \A x \in S : False(x)
      BY <1>7, <1>f
    <2> HIDE DEF S
    <2>2. /\ js \in Justs /\ js.lvl <= Len(m_scopes) /\ js # None(js.lvl) /\ js.cls = 0 /\ js.lits = S
          /\ \A x \in S : /\ x \in Lits /\ -x \in Range(m_trail)
                          /\ LvlIn(m_justification, x) <= js.lvl
          /\ \E x \in S : LvlIn(m_justification, x) = js.lvl
      BY <1>1, <2>1, FalseReason
    <2> HIDE DEF js
    <2>3. ReasonIn(clauses, js, k) = S
      BY <2>2 DEF ReasonIn
    <2> QED BY <2>2, <2>3 DEF GoodReason
  <1>8. ClausesOK(clauses) /\ DecideInv /\ ReasonInv
    BY DEF SearchInv, StoreInv
  <1>9. m_scopes' = m_scopes /\ search_lvl' = search_lvl /\ search_lvl \in Nat
    BY <1>2, RestIs, SearchLvl
  <1> HIDE DEF S, js
  <1>10. CASE ((\E q \in others : True(q)) \/ Cardinality(open) > 1) /\ todo' = todo \ {id} /\ Keep3
    <2>1. /\ m_trail' = m_trail /\ m_justification' = m_justification /\ m_conflict' = m_conflict
          /\ ~inconsistent'
      BY <1>1, <1>10 DEF Keep3, inconsistent
    <2>2. TrailInv' /\ ReasonInv' /\ DecideInv' /\ Grown
      <3>1. Grown
        BY <1>1, <2>1, GrownIs
      <3> QED BY <1>1, <1>2, <1>8, <1>9, <2>1, <3>1 DEF TrailInv, ReasonInv, DecideInv
    <2>3. SearchInv'
      BY <1>2, <1>8, <1>10, <2>1, <2>2, VisitInv
    <2>4. Settled(c, m_trail, m_justification, scope_lvl, m_qhead)
      <3>1. CASE \E q \in others : True(q)
        <4>1. PICK q \in others : True(q)
          BY <3>1
        <4>2. q \in Range(c) /\ q \in Lits
          BY <1>5
        <4> HIDE DEF c, others
        <4> QED BY <1>1, <4>1, <4>2, TrueSettles
      <3>2. CASE Cardinality(open) > 1
        <4>1. PICK x, y \in open : x # y
          BY <1>5, <3>2, One
        <4>2. x \in Range(c) /\ y \in Range(c) /\ ~False(x) /\ ~False(y)
          OBVIOUS
        <4>3. m_qhead \in 0 .. Len(m_trail)
          BY <1>1
        <4> HIDE DEF c, open
        <4> QED BY <1>1, <1>2, <4>1, <4>2, <4>3, OpenSettles
      <3> QED BY <1>10, <3>1, <3>2
    <2>5. ASSUME PropInv PROVE PropInv'
      <3>1. \A n \in 0 .. scope_lvl - 1 :
              Settled(clauses'[id], m_trail', m_justification', n, m_scopes[n + 1])
        BY <1>1, <1>2, <2>1, <2>5 DEF PropInv
      <3>2. Settled(clauses'[id], m_trail', m_justification', scope_lvl, m_qhead)
        BY <1>2, <2>1, <2>4 DEF c
      <3> HIDE DEF c
      <3> QED BY <1>2, <1>10, <2>1, <2>5, <3>1, <3>2, VisitProp
    <2> QED BY <2>3, <2>5
  <1>11. CASE Cardinality(open) = 1 /\ Undef(k) /\ todo' = todo \ {id} /\ assign_core(k, js)
    <2>1. /\ k \in Lits /\ js \in Justs /\ js.lvl <= Len(m_scopes) /\ k \in Range(c)
          /\ GoodReason(clauses, m_trail, m_justification, k, js) /\ js # None(js.lvl)
      BY <1>6, <1>7, <1>f, <1>11
    <2>2. TrailInv' /\ ReasonInv' /\ DecideInv'
      <3>1. ReasonsOK(clauses', m_trail, m_justification)
            /\ GoodReason(clauses', m_trail, m_justification, k, js)
        BY <1>2, <1>8, <2>1 DEF ReasonInv
      <3>2. search_lvl <= search_lvl' /\ search_lvl' \in Nat
        BY <1>9
      <3> HIDE DEF c, open
      <3> QED BY <1>1, <1>8, <1>9, <1>11, <2>1, <3>1, <3>2, GrowInv
    <2>3. Grown /\ ~inconsistent'
      <3>1. Grown
        BY <1>1, <1>11, <2>1, GrownIs
      <3>2. m_conflict' = m_conflict
        BY <1>11 DEF assign_core
      <3> QED BY <1>1, <3>1, <3>2 DEF inconsistent
    <2>4. SearchInv'
      BY <1>2, <1>8, <1>11, <2>2, <2>3, VisitInv
    <2>5. ASSUME PropInv PROVE PropInv'
      <3>1. \A n \in 0 .. scope_lvl - 1 :
              Settled(clauses'[id], m_trail', m_justification', n, m_scopes[n + 1])
        <4>1. QueueInv
          BY DEF SearchInv
        <4> QED BY <1>1, <1>2, <1>9, <1>11, <2>1, <2>5, <4>1, GrowProp
      <3>2. Settled(c, m_trail', m_justification', scope_lvl, m_qhead)
        <4>1. Extends(m_trail, m_justification, k, js, m_trail', m_justification')
          BY <1>1, <1>11, <2>1, Grow
        <4>2. k \in Range(m_trail') /\ LvlIn(m_justification', k) <= scope_lvl /\ TrailOK(m_trail', m_justification')
          BY <2>1, <4>1 DEF Extends, scope_lvl
        <4> HIDE DEF c
        <4> QED BY <2>1, <4>2, SettledTrue
      <3>3. Settled(clauses'[id], m_trail', m_justification', scope_lvl, m_qhead)
        BY <1>2, <3>2 DEF c
      <3>4. \E x \in Lits, j \in Justs : Undef(x) /\ j.lvl <= Len(m_scopes) /\ assign_core(x, j)
        BY <1>11, <2>1
      <3> HIDE DEF c
      <3> QED BY <1>2, <1>11, <2>5, <3>1, <3>3, <3>4, VisitProp
    <2> QED BY <2>4, <2>5
  <1>12. CASE open = {} /\ todo' = {} /\ set_conflict(-k, js)
    <2>1. /\ m_trail' = m_trail /\ m_justification' = m_justification
          /\ m_conflict' = [not_l |-> -k, js |-> js]
      BY <1>1, <1>12 DEF set_conflict
    <2>2. /\ k \in Lits /\ js \in Justs /\ js.cls = 0 /\ js.lits = S /\ S # {}
          /\ (\A x \in S : x \in Lits /\ -x \in Range(m_trail)) /\ False(k)
      <3>1. False(k)
        BY <1>6, <1>12
      <3> QED BY <1>7, <1>f, <1>12, <3>1
    <2>3. inconsistent'
      <3>1. -k # 0
        BY <2>2, LitsAre
      <3> QED BY <2>1, <3>1 DEF inconsistent, NoConflict
    <2>4. ConflictAt(clauses', m_trail', m_conflict', search_lvl)
      <3>1. m_conflict'.not_l = -k /\ m_conflict'.js = js
        BY <2>1
      <3>2. -k \in Range(m_trail)
        BY <1>1, <2>2, ValuesAre DEF TrailInv
      <3>3. \A x : ReasonIn(clauses', js, x) = S
        BY <2>2 DEF ReasonIn
      <3> QED BY <2>1, <2>2, <3>1, <3>2, <3>3 DEF ConflictAt
    <2>5. TrailInv' /\ ReasonInv' /\ DecideInv' /\ Grown
      <3>1. Grown
        BY <1>1, <2>1, GrownIs
      <3> QED BY <1>1, <1>2, <1>8, <1>9, <2>1, <3>1 DEF TrailInv, ReasonInv, DecideInv
    <2>6. SearchInv'
      BY <1>2, <1>8, <1>12, <2>1, <2>4, <2>5, VisitInv
    <2>7. ASSUME PropInv PROVE PropInv'
      <3>1. \A n \in 0 .. scope_lvl - 1 :
              Settled(clauses'[id], m_trail', m_justification', n, m_scopes[n + 1])
        BY <1>1, <1>2, <2>1, <2>7 DEF PropInv
      <3> QED BY <1>2, <1>12, <2>1, <2>3, <2>7, <3>1, VisitProp
    <2> QED BY <2>6, <2>7
  <1> QED BY <1>2, <1>10, <1>11, <1>12

\* A clause is put in an order that keeps the literal in front, or does not
\* have it on the trail.
LEMMA PutReasons ==
  ASSUME TrailInv, ReasonInv, ClausesOK(clauses), NEW id \in DOMAIN clauses, NEW e, GoodClause(e),
         Len(e) = Len(clauses[id]), Range(e) = Range(clauses[id]),
         True(clauses[id][1]) => e[1] = clauses[id][1],
         clauses' = [clauses EXCEPT ![id] = e]
  PROVE  /\ ReasonsOK(clauses', m_trail, m_justification)
         /\ ClausesOK(clauses') /\ DOMAIN clauses' = DOMAIN clauses /\ clauses'[id] = e
         /\ \A i \in DOMAIN clauses : i # id => clauses'[i] = clauses[i]
  <1>1. /\ ClausesOK(clauses') /\ DOMAIN clauses' = DOMAIN clauses /\ clauses'[id] = e
        /\ \A i \in DOMAIN clauses : i # id => clauses'[i] = clauses[i]
    BY PutIs
  <1>2. \A i \in 1 .. Len(m_trail) : True(m_trail[i])
    <2>1. DOMAIN m_trail = 1 .. Len(m_trail)
      BY TrailFacts DEF TrailInv
    <2> QED BY <2>1 DEF True
  <1>3. \A i \in 1 .. Len(m_trail) : LET c == m_justification[var(m_trail[i])].cls IN
          c # 0 /\ c \in DOMAIN clauses /\ Len(clauses[c]) > 3 /\ clauses[c][1] = m_trail[i] =>
            /\ c \in DOMAIN clauses' /\ Len(clauses'[c]) = Len(clauses[c])
            /\ clauses'[c][1] = m_trail[i] /\ Range(clauses'[c]) = Range(clauses[c])
    BY <1>1, <1>2
  <1>4. ReasonsOK(clauses', m_trail, m_justification)
    BY <1>3, KeepReasons DEF ReasonInv
  <1> QED BY <1>1, <1>4

\* Settled at a level, whatever the order of the watches.
LEMMA WatchSettled ==
  ASSUME NEW c, GoodClause(c), Len(c) > 3, NEW e, GoodClause(e), Len(e) = Len(c), Range(e) = Range(c),
         NEW tr, NEW ju, NEW n, NEW b,
         Settled(c, tr, ju, n, b),
         (\A p \in 1 .. b : tr[p] # -c[1] /\ tr[p] # -c[2]) => \A p \in 1 .. b : tr[p] # -e[1] /\ tr[p] # -e[2]
  PROVE  Settled(e, tr, ju, n, b)
  <1>1. Len(c) \in Nat /\ 1 \in 1 .. Len(e) /\ 2 \in 1 .. Len(e)
    BY ClauseFacts
  <1>2. CASE \E i \in 1 .. Len(tr) : tr[i] \in Range(c) /\ LvlIn(ju, tr[i]) <= n
    BY <1>2 DEF Settled
  <1>3. ASSUME NEW i \in 1 .. Len(c), NEW j \in 1 .. Len(c), i # j, Len(c) > 3 => i <= 2 /\ j <= 2,
               \A p \in 1 .. b : tr[p] # -c[i] /\ tr[p] # -c[j]
        PROVE  Settled(e, tr, ju, n, b)
    <2>1. (i = 1 /\ j = 2) \/ (i = 2 /\ j = 1)
      BY <1>1, <1>3
    <2>2. \A p \in 1 .. b : tr[p] # -c[1] /\ tr[p] # -c[2]
      BY <1>3, <2>1
    <2>3. \A p \in 1 .. b : tr[p] # -e[1] /\ tr[p] # -e[2]
      BY <2>2
    <2>4. \E x, y \in 1 .. Len(e) : /\ x # y /\ (Len(e) > 3 => x <= 2 /\ y <= 2)
                                    /\ \A p \in 1 .. b : tr[p] # -e[x] /\ tr[p] # -e[y]
      <3>1. /\ 1 # 2 /\ (Len(e) > 3 => 1 <= 2 /\ 2 <= 2)
        OBVIOUS
      <3> QED BY <1>1, <2>3, <3>1
    <2> QED BY <2>4 DEF Settled
  <1> QED BY <1>2, <1>3 DEF Settled

\* The clause of a visit with the literal that became false in second place.
Front(id) == IF clauses[id][1] = -m_trail[m_qhead] THEN Swap(clauses[id], 1, 2) ELSE clauses[id]
Free(id)  == {i \in 3 .. Len(Front(id)) : ~False(Front(id)[i])}

\* Its first two literals are the watches.
LEMMA FrontIs ==
  ASSUME SearchInv, NEW id \in todo, Len(clauses[id]) > 3
  PROVE  /\ GoodClause(Front(id)) /\ Len(Front(id)) = Len(clauses[id])
         /\ Range(Front(id)) = Range(clauses[id])
         /\ Front(id)[2] = -m_trail[m_qhead] /\ False(Front(id)[2])
         /\ True(clauses[id][1]) => Front(id)[1] = clauses[id][1]
         /\ \/ Front(id)[1] = clauses[id][1] /\ Front(id)[2] = clauses[id][2]
            \/ Front(id)[1] = clauses[id][2] /\ Front(id)[2] = clauses[id][1]
         /\ Front(id)[1] # -m_trail[m_qhead]
  <1> DEFINE l == m_trail[m_qhead]
             c == clauses[id]
             d == Front(id)
  <1>1. /\ GoodClause(c) /\ False(-l) /\ l \in Lits /\ TrailInv
        /\ \E j \in 1 .. IF Len(c) > 3 THEN 2 ELSE Len(c) : c[j] = -l
    BY Visited
  <1>2. Len(c) \in Nat /\ c[1] # c[2] /\ (c[1] = -l \/ c[2] = -l) /\ 1 \in 1 .. Len(c) /\ 2 \in 1 .. Len(c)
        /\ c[1] \in Lits
    <2>1. Len(c) \in Nat /\ c[1] # c[2] /\ Len(c) >= 2 /\ \A i \in 1 .. Len(c) : c[i] \in Lits
      BY <1>1, ClauseFacts
    <2>2. \A j \in 1 .. 2 : j = 1 \/ j = 2
      OBVIOUS
    <2> QED BY <1>1, <2>1, <2>2
  <1>3. CASE c[1] = -l
    <2>1. d = Swap(c, 1, 2)
      BY <1>3 DEF Front
    <2>2. GoodClause(d) /\ Range(d) = Range(c) /\ Len(d) = Len(c) /\ d[1] = c[2] /\ d[2] = c[1]
      <3> HIDE DEF d, c
      <3>1. GoodClause(c) /\ 1 \in 1 .. Len(c) /\ 2 \in 1 .. Len(c)
        BY <1>1, <1>2
      <3>2. /\ GoodClause(Swap(c, 1, 2)) /\ Range(Swap(c, 1, 2)) = Range(c)
            /\ Len(Swap(c, 1, 2)) = Len(c)
            /\ Swap(c, 1, 2)[1] = c[2] /\ Swap(c, 1, 2)[2] = c[1]
        BY <3>1, SwapIs
      <3> QED BY <2>1, <3>2
    <2>3. ~True(c[1])
      BY <1>1, <1>2, <1>3, ValuesAre DEF TrailInv
    <2> QED BY <1>1, <1>2, <1>3, <2>2, <2>3
  <1>4. CASE c[1] # -l
    <2>1. d = c
      BY <1>4 DEF Front
    <2> QED BY <1>1, <1>2, <1>4, <2>1
  <1> QED BY <1>3, <1>4

Reordered(id, e) ==
  /\ ReasonsOK(clauses', m_trail, m_justification)
  /\ ClausesOK(clauses') /\ DOMAIN clauses' = DOMAIN clauses /\ clauses'[id] = e
  /\ \A i \in DOMAIN clauses : i # id => clauses'[i] = clauses[i]
  /\ GoodClause(e) /\ Len(e) = Len(clauses[id]) /\ Range(e) = Range(clauses[id])

\* The watches were watches before, or are not false.
LEMMA SameSettled ==
  ASSUME TrailInv, NEW c, GoodClause(c), Len(c) > 3, NEW e, GoodClause(e), Len(e) = Len(c), Range(e) = Range(c),
         e[1] \in {c[1], c[2]} \/ ~False(e[1]), e[2] \in {c[1], c[2]} \/ ~False(e[2]),
         NEW n, NEW b \in 0 .. Len(m_trail), Settled(c, m_trail, m_justification, n, b)
  PROVE  Settled(e, m_trail, m_justification, n, b)
  <1>1. \A x : ~False(x) => \A p \in 1 .. b : m_trail[p] # -x
    <2>1. Len(m_trail) \in Nat /\ Range(m_trail) = {m_trail[p] : p \in 1 .. Len(m_trail)}
      BY TrailFacts DEF TrailInv
    <2>2. \A x : False(x) <=> -x \in Range(m_trail)
      BY ValuesAre DEF TrailInv
    <2>3. \A p \in 1 .. b : m_trail[p] \in Range(m_trail)
      BY <2>1
    <2> QED BY <2>2, <2>3
  <1>2. (\A p \in 1 .. b : m_trail[p] # -c[1] /\ m_trail[p] # -c[2])
          => \A p \in 1 .. b : m_trail[p] # -e[1] /\ m_trail[p] # -e[2]
    BY <1>1
  <1> QED BY <1>2, WatchSettled

\* A visit that assigns nothing.
LEMMA LongKeep ==
  ASSUME SearchInv, NEW id \in todo, Len(clauses[id]) > 3, UNCHANGED <<m_qhead, Rest>>,
         UNCHANGED <<m_trail, m_justification>>,
         NEW e, Reordered(id, e),
         e[1] \in {clauses[id][1], clauses[id][2]} \/ ~False(e[1]),
         e[2] \in {clauses[id][1], clauses[id][2]} \/ ~False(e[2]),
         \/ /\ todo' = todo \ {id} /\ m_conflict' = m_conflict
            /\ PropInv => Settled(e, m_trail, m_justification, scope_lvl, m_qhead)
         \/ /\ todo' = {} /\ inconsistent'
            /\ ConflictAt(clauses', m_trail, m_conflict', search_lvl)
  PROVE  SearchInv' /\ (PropInv => PropInv')
  <1>1. /\ id \in DOMAIN clauses /\ GoodClause(clauses[id]) /\ ~inconsistent /\ TrailInv
    BY Visited
  <1>2. m_scopes' = m_scopes /\ search_lvl' = search_lvl
    BY RestIs
  <1>3. ReasonInv /\ DecideInv /\ QueueInv
    BY DEF SearchInv
  <1>4. TrailInv' /\ ReasonInv' /\ DecideInv' /\ Grown
    <2>1. Grown
      BY <1>1, GrownIs
    <2> QED BY <1>1, <1>2, <1>3, <2>1 DEF TrailInv, ReasonInv, DecideInv, Reordered
  <1>5. m_conflict' = m_conflict => ~inconsistent'
    BY <1>1 DEF inconsistent
  <1>6. SearchInv'
    BY <1>4, <1>5, VisitInv DEF Reordered
  <1>7. ASSUME PropInv PROVE PropInv'
    <2>1. ASSUME NEW n \in 0 .. scope_lvl - 1
          PROVE  Settled(clauses'[id], m_trail', m_justification', n, m_scopes[n + 1])
      <3>1. Settled(clauses[id], m_trail, m_justification, n, m_scopes[n + 1])
        BY <1>1, <1>7 DEF PropInv
      <3>2. m_scopes[n + 1] \in 0 .. Len(m_trail)
        BY <1>1, <1>3, BoundsAre
      <3> DEFINE b == m_scopes[n + 1]
      <3> HIDE DEF b
      <3>3. Settled(e, m_trail, m_justification, n, b)
        BY <1>1, <3>1, <3>2, SameSettled DEF Reordered, b
      <3> QED BY <3>3 DEF Reordered, b
    <2>2. ~inconsistent' => Settled(clauses'[id], m_trail', m_justification', scope_lvl, m_qhead)
      BY <1>7 DEF Reordered
    <2>3. inconsistent' \/ todo' = todo \ {id}
      OBVIOUS
    <2> QED BY <1>7, <2>1, <2>2, <2>3, VisitProp DEF Reordered
  <1> QED BY <1>6, <1>7

\* The cases of a visit.
VisitLongCases(id) ==
  LET d     == Front(id)
      free  == Free(id)
      tail  == 3 .. Len(d)
      top   == IF lvl(m_trail[m_qhead]) = scope_lvl \/ Highest({d[i] : i \in tail}) <= lvl(m_trail[m_qhead])
               THEN 2 ELSE MaxIndex(d, tail)
      Put(c) == clauses' = [clauses EXCEPT ![id] = c]
  IN  \/ /\ \E q \in Range(d) : True(q)
         /\ todo' = todo \ {id} /\ Keep3 /\ UNCHANGED clauses
      \/ True(d[1]) /\ todo' = todo \ {id} /\ Keep3 /\ Put(d)
      \/ /\ ~True(d[1]) /\ free # {}
         /\ todo' = todo \ {id} /\ Keep3 /\ Put(Swap(d, 2, Min(free)))
      \/ /\ False(d[1]) /\ free = {}
         /\ todo' = {} /\ Put(d)
         /\ set_conflict(0, Just(Highest(Range(d)), id, {}))
      \/ /\ Undef(d[1]) /\ free = {}
         /\ todo' = todo \ {id} /\ Put(Swap(d, 2, top))
         /\ assign_core(d[1], Just(Highest(Range(d) \ {d[1]}), id, {}))

\* They are the cases of VisitLong.
LEMMA VisitLongIs ==
  ASSUME NEW id \in todo, VisitLong(id)
  PROVE  VisitLongCases(id) /\ Len(clauses[id]) > 3 /\ UNCHANGED <<m_qhead, Rest>>
  BY DEF VisitLong, VisitLongCases, Front, Free

\* Put in order, a clause is as good as before.
LEMMA PutReordered ==
  ASSUME SearchInv, NEW id \in todo, Len(clauses[id]) > 3, NEW j \in 2 .. Len(Front(id)),
         clauses' = [clauses EXCEPT ![id] = Swap(Front(id), 2, j)]
  PROVE  Reordered(id, Swap(Front(id), 2, j)) /\ Swap(Front(id), 2, j)[1] = Front(id)[1]
         /\ Swap(Front(id), 2, j)[2] = Front(id)[j]
  <1> DEFINE d == Front(id)
             e == Swap(d, 2, j)
  <1>1. /\ id \in DOMAIN clauses /\ TrailInv /\ ReasonInv /\ ClausesOK(clauses)
    BY Visited DEF SearchInv, StoreInv
  <1>2. /\ GoodClause(d) /\ Len(d) = Len(clauses[id]) /\ Range(d) = Range(clauses[id])
        /\ True(clauses[id][1]) => d[1] = clauses[id][1]
    BY FrontIs
  <1> HIDE DEF d
  <1>3. Len(d) \in Nat /\ 1 \in 1 .. Len(d) /\ 2 \in 1 .. Len(d) /\ j \in 1 .. Len(d) /\ 1 # 2 /\ 1 # j
    <2>1. j \in 2 .. Len(d)
      BY DEF d
    <2> QED BY <1>2, <2>1, ClauseFacts
  <1>4. GoodClause(e) /\ Range(e) = Range(d) /\ Len(e) = Len(d) /\ e[2] = d[j]
        /\ \A k \in 1 .. Len(d) : k # 2 /\ k # j => e[k] = d[k]
    BY <1>2, <1>3, SwapIs
  <1>5. e[1] = d[1]
    BY <1>3, <1>4
  <1>6. clauses' = [clauses EXCEPT ![id] = e]
    BY DEF d
  <1> HIDE DEF e
  <1>7. Reordered(id, e)
    BY <1>1, <1>2, <1>4, <1>5, <1>6, PutReasons DEF Reordered
  <1> QED BY <1>4, <1>5, <1>7 DEF e, d

\* The same without a swap.
LEMMA FrontReordered ==
  ASSUME SearchInv, NEW id \in todo, Len(clauses[id]) > 3,
         clauses' = [clauses EXCEPT ![id] = Front(id)]
  PROVE  Reordered(id, Front(id))
  <1> DEFINE d == Front(id)
  <1>1. /\ id \in DOMAIN clauses /\ TrailInv /\ ReasonInv /\ ClausesOK(clauses)
    BY Visited DEF SearchInv, StoreInv
  <1>2. /\ GoodClause(d) /\ Len(d) = Len(clauses[id]) /\ Range(d) = Range(clauses[id])
        /\ True(clauses[id][1]) => d[1] = clauses[id][1]
    BY FrontIs
  <1>3. clauses' = [clauses EXCEPT ![id] = d]
    OBVIOUS
  <1> HIDE DEF d
  <1>4. Reordered(id, d)
    BY <1>1, <1>2, <1>3, PutReasons DEF Reordered
  <1> QED BY <1>4 DEF d

\* What precedes the last literal falsifies no watch, unless the clause is true.
LEMMA FrontSettled ==
  ASSUME SearchInv, PropInv, NEW id \in todo, Len(clauses[id]) > 3,
         ~ \E l \in Range(clauses[id]) : True(l)
  PROVE  \A p \in 1 .. m_qhead : m_trail[p] # -Front(id)[1]
  <1> DEFINE c == clauses[id]
             d == Front(id)
  <1>1. /\ id \in DOMAIN clauses /\ GoodClause(c) /\ m_qhead \in 1 .. Len(m_trail) /\ TrailInv
        /\ m_trail[m_qhead] \in Lits /\ ~inconsistent
    BY Visited
  <1>2. Settled(c, m_trail, m_justification, scope_lvl, m_qhead - 1)
    <2>1. Done(id) = m_qhead - 1
      BY DEF Done
    <2> QED BY <1>1, <2>1 DEF PropInv
  <1>3. /\ Len(m_trail) \in Nat /\ Range(m_trail) = {m_trail[p] : p \in 1 .. Len(m_trail)}
        /\ \A l : True(l) <=> l \in Range(m_trail)
    BY <1>1, TrailFacts, ValuesAre DEF TrailInv
  <1>4. ~ \E i \in 1 .. Len(m_trail) : m_trail[i] \in Range(c)
    BY <1>3
  <1>5. Len(c) \in Nat /\ Len(c) > 3
    BY <1>1, ClauseFacts
  <1> HIDE DEF c
  <1>6. \A p \in 1 .. m_qhead - 1 : m_trail[p] # -c[1] /\ m_trail[p] # -c[2]
    <2>1. PICK i \in 1 .. Len(c), j \in 1 .. Len(c) :
            /\ i # j /\ (Len(c) > 3 => i <= 2 /\ j <= 2)
            /\ \A p \in 1 .. m_qhead - 1 : m_trail[p] # -c[i] /\ m_trail[p] # -c[j]
      BY <1>2, <1>4 DEF Settled
    <2>2. (i = 1 /\ j = 2) \/ (i = 2 /\ j = 1)
      BY <1>5, <2>1
    <2> QED BY <2>1, <2>2
  <1>7. d[1] = c[1] \/ d[1] = c[2]
    BY FrontIs DEF c
  <1>8. d[1] # -m_trail[m_qhead] /\ d[1] \in Lits
    <2>1. GoodClause(d) /\ d[1] # -m_trail[m_qhead]
      BY FrontIs
    <2> HIDE DEF d
    <2> QED BY <2>1, ClauseFacts
  <1>9. m_trail[m_qhead] # -d[1]
    BY <1>1, <1>8, LitsAre
  <1> HIDE DEF d
  <1> SUFFICES ASSUME NEW p \in 1 .. m_qhead PROVE m_trail[p] # -d[1]
    BY DEF d
  <1>10. p = m_qhead \/ p \in 1 .. m_qhead - 1
    BY <1>1
  <1> QED BY <1>6, <1>7, <1>9, <1>10

\* Two watches that are not false settle a long clause.
LEMMA WatchesSettle ==
  ASSUME NEW e, GoodClause(e), NEW tr, NEW ju, NEW n, NEW b,
         \A p \in 1 .. b : tr[p] # -e[1], \A p \in 1 .. b : tr[p] # -e[2]
  PROVE  Settled(e, tr, ju, n, b)
  <1>1. 1 \in 1 .. Len(e) /\ 2 \in 1 .. Len(e) /\ 1 # 2
    BY ClauseFacts
  <1>2. Len(e) > 3 => 1 <= 2 /\ 2 <= 2
    OBVIOUS
  <1>3. \E x, y \in 1 .. Len(e) : /\ x # y /\ (Len(e) > 3 => x <= 2 /\ y <= 2)
                                  /\ \A p \in 1 .. b : tr[p] # -e[x] /\ tr[p] # -e[y]
    BY <1>1, <1>2
  <1> QED BY <1>3 DEF Settled

\* The negation of a literal that is not false is not on the trail.
LEMMA NotFalse ==
  ASSUME TrailInv, NEW x, ~False(x), NEW b \in 0 .. Len(m_trail)
  PROVE  \A p \in 1 .. b : m_trail[p] # -x
  <1>1. Len(m_trail) \in Nat /\ Range(m_trail) = {m_trail[p] : p \in 1 .. Len(m_trail)}
    BY TrailFacts DEF TrailInv
  <1>2. -x \notin Range(m_trail)
    BY ValuesAre DEF TrailInv
  <1>3. \A p \in 1 .. b : m_trail[p] \in Range(m_trail)
    BY <1>1
  <1> QED BY <1>2, <1>3

\* The clause is true, or has another literal to watch.
LEMMA LongFreeInv ==
  ASSUME SearchInv, NEW id \in todo, Len(clauses[id]) > 3, UNCHANGED <<m_qhead, Rest>>,
         todo' = todo \ {id}, Keep3,
         \/ (\E q \in Range(Front(id)) : True(q)) /\ UNCHANGED clauses
         \/ True(Front(id)[1]) /\ clauses' = [clauses EXCEPT ![id] = Front(id)]
         \/ /\ Free(id) # {}
            /\ clauses' = [clauses EXCEPT ![id] = Swap(Front(id), 2, Min(Free(id)))]
  PROVE  SearchInv' /\ (PropInv => PropInv')
  <1> DEFINE c == clauses[id]
             d == Front(id)
             j == Min(Free(id))
             e == Swap(d, 2, j)
  <1>1. /\ id \in DOMAIN clauses /\ GoodClause(c) /\ TrailInv /\ ClausesOK(clauses) /\ ReasonInv
        /\ m_qhead \in 1 .. Len(m_trail)
    BY Visited DEF SearchInv, StoreInv
  <1>2. /\ GoodClause(d) /\ Len(d) = Len(c) /\ Range(d) = Range(c)
        /\ d[1] \in {c[1], c[2]} /\ d[2] \in {c[1], c[2]}
    BY FrontIs
  <1>3. /\ Len(d) \in Nat /\ Range(d) \subseteq Lits /\ d[1] \in Range(d)
        /\ c[1] \in {c[1], c[2]} /\ c[2] \in {c[1], c[2]}
    <2> HIDE DEF d
    <2> QED BY <1>2, ClauseFacts
  <1>4. UNCHANGED <<m_trail, m_justification>> /\ m_conflict' = m_conflict
    BY DEF Keep3
  <1>5. ASSUME NEW x, Range(x) = Range(c), NEW q \in Range(c), True(q)
        PROVE  Settled(x, m_trail, m_justification, scope_lvl, m_qhead)
    <2>1. q \in Lits /\ q \in Range(x)
      BY <1>2, <1>3, <1>5
    <2> QED BY <1>1, <1>5, <2>1, TrueSettles
  <1>6. CASE (\E q \in Range(d) : True(q)) /\ UNCHANGED clauses
    <2>1. Reordered(id, c)
      BY <1>1, <1>6 DEF Reordered, ReasonInv
    <2>2. Settled(c, m_trail, m_justification, scope_lvl, m_qhead)
      BY <1>2, <1>5, <1>6
    <2> HIDE DEF d
    <2> QED BY <1>3, <1>4, <2>1, <2>2, LongKeep
  <1>7. CASE True(d[1]) /\ clauses' = [clauses EXCEPT ![id] = d]
    <2>1. Reordered(id, d)
      BY <1>7, FrontReordered
    <2>2. Settled(d, m_trail, m_justification, scope_lvl, m_qhead)
      BY <1>2, <1>3, <1>5, <1>7
    <2> HIDE DEF d
    <2> QED BY <1>2, <1>4, <2>1, <2>2, LongKeep
  <1>8. CASE Free(id) # {} /\ clauses' = [clauses EXCEPT ![id] = e]
    <2>1. j \in Free(id) /\ j \in 2 .. Len(d) /\ ~False(d[j])
      <3>1. Free(id) \subseteq Nat
        BY <1>3 DEF Free
      <3>2. j \in Free(id)
        BY <1>8, <3>1, MinIs
      <3>3. j \in 3 .. Len(d) /\ ~False(d[j])
        BY <3>2 DEF Free
      <3> HIDE DEF j, d
      <3> QED BY <1>3, <3>2, <3>3
    <2>2. Reordered(id, e) /\ e[1] = d[1] /\ e[2] = d[j]
      BY <1>8, <2>1, PutReordered
    <2>3. ASSUME PropInv PROVE Settled(e, m_trail, m_justification, scope_lvl, m_qhead)
      <3>1. CASE \E q \in Range(c) : True(q)
        BY <1>5, <2>2, <3>1 DEF Reordered
      <3>2. CASE ~ \E q \in Range(c) : True(q)
        <4>1. \A p \in 1 .. m_qhead : m_trail[p] # -e[1]
          BY <2>2, <2>3, <3>2, FrontSettled
        <4>2. \A p \in 1 .. m_qhead : m_trail[p] # -e[2]
          <5>1. m_qhead \in 0 .. Len(m_trail)
            BY <1>1
          <5> QED BY <1>1, <2>1, <2>2, <5>1, NotFalse
        <4>3. GoodClause(e)
          BY <2>2 DEF Reordered
        <4> HIDE DEF e
        <4> QED BY <4>1, <4>2, <4>3, WatchesSettle
      <3> QED BY <3>1, <3>2
    <2>4. e[1] \in {c[1], c[2]} /\ ~False(e[2])
      BY <1>2, <2>1, <2>2
    <2> HIDE DEF e, d, j
    <2> QED BY <1>4, <2>2, <2>3, <2>4, LongKeep
  <1> QED BY <1>6, <1>7, <1>8

\* Every literal is false.
LEMMA LongConflictInv ==
  ASSUME SearchInv, NEW id \in todo, Len(clauses[id]) > 3, UNCHANGED <<m_qhead, Rest>>,
         False(Front(id)[1]), Free(id) = {}, todo' = {}, clauses' = [clauses EXCEPT ![id] = Front(id)],
         set_conflict(0, Just(Highest(Range(Front(id))), id, {}))
  PROVE  SearchInv' /\ (PropInv => PropInv')
  <1> DEFINE c == clauses[id]
             d == Front(id)
             S == Range(d)
             js == Just(Highest(S), id, {})
  <1>1. /\ id \in DOMAIN clauses /\ GoodClause(c) /\ TrailInv /\ ~inconsistent /\ id \in Nat /\ id # 0
    BY Visited
  <1>2. /\ GoodClause(d) /\ Len(d) = Len(c) /\ Range(d) = Range(c) /\ False(d[2])
        /\ d[1] \in {c[1], c[2]} /\ d[2] \in {c[1], c[2]}
    BY FrontIs
  <1>3. Reordered(id, d)
    BY FrontReordered
  <1>4. S \subseteq Lits /\ S # {} /\ \A k \in S : False(k)
    <2>1. /\ Len(d) \in Nat /\ Range(d) \subseteq Lits /\ d[1] \in Range(d)
          /\ Range(d) = {d[i] : i \in 1 .. Len(d)}
      <3> HIDE DEF d
      <3> QED BY <1>2, ClauseFacts
    <2>2. ASSUME NEW i \in 1 .. Len(d) PROVE False(d[i])
      <3>1. i = 1 \/ i = 2 \/ i \in 3 .. Len(d)
        BY <2>1
      <3>2. \A x \in 3 .. Len(d) : False(d[x])
        BY DEF Free
      <3> QED BY <1>2, <3>1, <3>2
    <2> QED BY <2>1, <2>2
  <1>5. /\ m_trail' = m_trail /\ m_justification' = m_justification
        /\ m_conflict' = [not_l |-> 0, js |-> js]
    BY <1>1 DEF set_conflict
  <1> HIDE DEF d
  <1>6. js \in Justs /\ js.cls = id /\ \A k \in S : k \in Lits /\ -k \in Range(m_trail)
    <2>1. Highest(S) \in Nat /\ js \in Justs /\ \A k \in S : k \in Lits /\ -k \in Range(m_trail)
      <3> HIDE DEF S
      <3> QED BY <1>1, <1>4, FalseReason
    <2>2. js.cls = id
      BY DEF Just
    <2> QED BY <2>1, <2>2
  <1> HIDE DEF js
  <1>7. inconsistent'
    <2>1. m_conflict'.js.cls = id
      BY <1>5, <1>6
    <2>2. NoConflict.js.cls = 0
      BY DEF NoConflict, None, Just
    <2> QED BY <1>1, <2>1, <2>2 DEF inconsistent, NoConflict
  <1>8. ConflictAt(clauses', m_trail, m_conflict', search_lvl)
    <2>1. m_conflict'.not_l = 0 /\ m_conflict'.js = js
      BY <1>5
    <2>2. \A x : ReasonIn(clauses', js, x) = S \ {x}
      BY <1>1, <1>3, <1>6 DEF ReasonIn, Reordered
    <2>3. 0 \notin S
      BY <1>4, LitsAre
    <2>4. S \ {0} # {}
      BY <1>4, <2>3
    <2>5. id \in DOMAIN clauses'
      BY <1>1, <1>3 DEF Reordered
    <2>6. \A k \in ReasonIn(clauses', js, -0) : k \in Lits /\ -k \in Range(m_trail)
      BY <1>6, <2>2
    <2>7. ReasonIn(clauses', js, 0) # {}
      BY <2>2, <2>4
    <2> HIDE DEF S
    <2> QED BY <1>6, <2>1, <2>5, <2>6, <2>7 DEF ConflictAt
  <1> QED BY <1>2, <1>3, <1>5, <1>7, <1>8, LongKeep

TopOf(id) ==
  LET d    == Front(id)
      tail == 3 .. Len(d)
  IN  IF lvl(m_trail[m_qhead]) = scope_lvl \/ Highest({d[i] : i \in tail}) <= lvl(m_trail[m_qhead])
      THEN 2 ELSE MaxIndex(d, tail)

\* The literal put in second place stays, or is of the highest level.
LEMMA TopIs ==
  ASSUME SearchInv, NEW id \in todo, Len(clauses[id]) > 3, Free(id) = {}
  PROVE  /\ TopOf(id) \in 2 .. Len(Front(id))
         /\ TopOf(id) = 2 \/ \A i \in 2 .. Len(Front(id)) : lvl(Front(id)[i]) <= lvl(Front(id)[TopOf(id)])
         /\ \A i \in 2 .. Len(Front(id)) : False(Front(id)[i])
  <1> DEFINE d    == Front(id)
             l    == m_trail[m_qhead]
             tail == 3 .. Len(d)
             T    == {d[i] : i \in tail}
             m    == MaxIndex(d, tail)
  <1>1. TrailOK(m_trail, m_justification) /\ ScopesOK(m_trail, m_justification, m_scopes) /\ l \in Lits
    BY Visited DEF TrailInv
  <1>2. GoodClause(d) /\ Len(d) = Len(clauses[id]) /\ d[2] = -l /\ False(d[2])
    BY FrontIs
  <1>3. \A i \in tail : False(d[i])
    BY DEF Free
  <1>4. TopOf(id) = IF lvl(l) = scope_lvl \/ Highest(T) <= lvl(l) THEN 2 ELSE m
    BY DEF TopOf
  <1> HIDE DEF d, l
  <1>5. Len(d) \in Nat /\ Len(d) > 3 /\ \A i \in 1 .. Len(d) : d[i] \in Lits
    BY <1>2, ClauseFacts
  <1>6. \A i \in 2 .. Len(d) : False(d[i]) /\ (i = 2 \/ i \in tail)
    <2> TAKE i \in 2 .. Len(d)
    <2>1. i = 2 \/ i \in tail
      BY <1>5
    <2> QED BY <1>2, <1>3, <2>1
  <1>7. \A i \in 2 .. Len(d) : d[i] \in Lits /\ var(d[i]) \in Assigned
    <2> TAKE i \in 2 .. Len(d)
    <2>1. d[i] \in Lits
      BY <1>5
    <2> QED BY <1>1, <1>6, <2>1, ValuesAre
  <1>8. tail \subseteq 2 .. Len(d) /\ tail \subseteq Nat /\ tail # {}
    <2>1. 3 \in tail
      BY <1>5
    <2> QED BY <1>5, <2>1
  <1>9. m \in tail /\ \A i \in tail : lvl(d[i]) <= lvl(d[m])
    <2>1. \A i \in tail : d[i] \in Lits /\ var(d[i]) \in Assigned
      BY <1>7, <1>8
    <2> HIDE DEF tail
    <2> QED BY <1>1, <1>8, <2>1, MaxIndexIs
  <1>10. ASSUME ~ (Highest(T) <= lvl(l)) PROVE lvl(d[2]) <= lvl(d[m])
    <2>1. T \subseteq Lits /\ T # {} /\ \A k \in T : var(k) \in Assigned
      BY <1>7, <1>8
    <2>2. \E k \in T : lvl(k) = Highest(T)
      <3> HIDE DEF T
      <3> QED BY <1>1, <2>1, HighestIs
    <2>3. PICK i \in tail : lvl(d[i]) = Highest(T)
      BY <2>2
    <2>4. lvl(d[2]) = lvl(l)
      BY <1>1, <1>2, LevelsAre
    <2>5. 2 \in 2 .. Len(d) /\ m \in 2 .. Len(d) /\ i \in 2 .. Len(d)
      BY <1>5, <1>8, <1>9
    <2>6. scope_lvl \in Nat /\ lvl(d[2]) \in Nat /\ lvl(d[m]) \in Nat /\ lvl(d[i]) \in Nat
      BY <1>1, <1>7, <2>5, LevelsAre
    <2>7. lvl(d[i]) <= lvl(d[m]) /\ ~ (lvl(d[i]) <= lvl(d[2]))
      BY <1>9, <1>10, <2>3, <2>4
    <2> QED BY <2>6, <2>7
  <1>11. CASE lvl(l) = scope_lvl \/ Highest(T) <= lvl(l)
    <2>1. TopOf(id) = 2 /\ 2 \in 2 .. Len(d)
      BY <1>4, <1>5, <1>11
    <2> QED BY <1>6, <2>1 DEF d
  <1>12. CASE ~ (lvl(l) = scope_lvl \/ Highest(T) <= lvl(l))
    <2>1. TopOf(id) = m
      BY <1>4, <1>12
    <2>2. m \in 2 .. Len(d)
      BY <1>8, <1>9
    <2>3. \A i \in 2 .. Len(d) : lvl(d[i]) <= lvl(d[m])
      BY <1>6, <1>9, <1>10, <1>12
    <2> HIDE DEF m, T
    <2> QED BY <1>6, <2>1, <2>2, <2>3 DEF d
  <1> QED BY <1>11, <1>12

\* One literal is left: it is assigned.
LEMMA LongAssignInv ==
  ASSUME SearchInv, NEW id \in todo, Len(clauses[id]) > 3, UNCHANGED <<m_qhead, Rest>>,
         Undef(Front(id)[1]), Free(id) = {}, todo' = todo \ {id},
         clauses' = [clauses EXCEPT ![id] = Swap(Front(id), 2, TopOf(id))],
         assign_core(Front(id)[1], Just(Highest(Range(Front(id)) \ {Front(id)[1]}), id, {}))
  PROVE  SearchInv' /\ (PropInv => PropInv')
  <1> DEFINE c  == clauses[id]
             d  == Front(id)
             t  == TopOf(id)
             e  == Swap(d, 2, t)
             x  == d[1]
             S  == Range(d) \ {x}
             js == Just(Highest(S), id, {})
  <1>1. /\ id \in DOMAIN clauses /\ GoodClause(c) /\ TrailInv /\ ~inconsistent /\ id \in Nat /\ id # 0
        /\ DecideInv /\ QueueInv /\ m_qhead \in 1 .. Len(m_trail)
    BY Visited DEF SearchInv
  <1>2. /\ GoodClause(d) /\ Len(d) = Len(c) /\ Range(d) = Range(c)
        /\ d[1] \in {c[1], c[2]} /\ d[2] \in {c[1], c[2]}
    BY FrontIs
  <1>3. /\ t \in 2 .. Len(d) /\ \A i \in 2 .. Len(d) : False(d[i])
        /\ t = 2 \/ \A i \in 2 .. Len(d) : lvl(d[i]) <= lvl(d[t])
    BY TopIs
  <1>4. Reordered(id, e) /\ e[1] = x /\ e[2] = d[t]
    BY <1>3, PutReordered
  <1>5. assign_core(x, js) /\ Undef(x)
    OBVIOUS
  <1> HIDE DEF d, t
  <1>6. /\ Len(d) \in Nat /\ \A i \in 1 .. Len(d) : d[i] \in Lits /\ d[i] \in Range(d)
        /\ Range(d) = {d[i] : i \in 1 .. Len(d)} /\ Range(d) \subseteq Lits
        /\ \A i, k \in 1 .. Len(d) : d[i] = d[k] => i = k
        /\ Len(d) > 3
    BY <1>2, ClauseFacts
  <1>7. x \in Lits /\ S = {d[i] : i \in 2 .. Len(d)} /\ d[2] \in S
    <2>1. 1 \in 1 .. Len(d) /\ 2 \in 2 .. Len(d) /\ \A i \in 2 .. Len(d) : i \in 1 .. Len(d) /\ i # 1
      BY <1>6
    <2>2. \A i \in 1 .. Len(d) : i = 1 \/ i \in 2 .. Len(d)
      BY <1>6
    <2>3. \A i \in 2 .. Len(d) : d[i] # x
      BY <1>6, <2>1
    <2> QED BY <1>6, <2>1, <2>2, <2>3
  <1>8. S \subseteq Lits /\ S # {} /\ \A k \in S : False(k)
    <2> HIDE DEF S, e, x
    <2>1. \A i \in 2 .. Len(d) : i \in 1 .. Len(d)
      BY <1>6
    <2>2. \A i \in 2 .. Len(d) : d[i] \in Lits /\ False(d[i])
      BY <1>3, <1>6, <2>1
    <2> QED BY <1>7, <2>2
  <1> HIDE DEF e, x
  <1>9. /\ js \in Justs /\ js.lvl <= Len(m_scopes) /\ js.cls = id /\ js.lvl = Highest(S)
        /\ js # None(js.lvl) /\ Highest(S) \in Nat
        /\ \A k \in S : /\ k \in Lits /\ -k \in Range(m_trail) /\ LvlIn(m_justification, k) <= js.lvl
        /\ \E k \in S : LvlIn(m_justification, k) = js.lvl
    <2> HIDE DEF S
    <2>1. /\ js \in Justs /\ Highest(S) \in Nat /\ Highest(S) <= Len(m_scopes)
          /\ \A k \in S : /\ k \in Lits /\ -k \in Range(m_trail)
                          /\ LvlIn(m_justification, k) <= Highest(S)
          /\ \E k \in S : LvlIn(m_justification, k) = Highest(S)
      BY <1>1, <1>8, FalseReason
    <2>2. js.lvl = Highest(S) /\ js.cls = id
      BY DEF Just
    <2>3. \A n : None(n).cls = 0
      BY DEF None, Just
    <2>4. js # None(js.lvl)
      BY <1>1, <2>2, <2>3
    <2> HIDE DEF js
    <2> QED BY <2>1, <2>2, <2>4
  <1> HIDE DEF js
  <1>10. GoodReason(clauses', m_trail, m_justification, x, js)
    <2>1. Range(e) = Range(d) /\ Len(e) > 3 /\ clauses'[id] = e /\ id \in DOMAIN clauses'
      BY <1>1, <1>2, <1>4 DEF Reordered
    <2>2. ReasonIn(clauses', js, x) = S
      BY <1>1, <1>9, <2>1 DEF ReasonIn
    <2> HIDE DEF S
    <2> QED BY <1>4, <1>9, <2>1, <2>2 DEF GoodReason
  <1> HIDE DEF S
  <1>11. m_scopes' = m_scopes /\ search_lvl' = search_lvl /\ search_lvl \in Nat /\ search_lvl <= search_lvl'
    BY RestIs, SearchLvl
  <1>12. TrailInv' /\ ReasonInv' /\ DecideInv'
    <2>1. ReasonsOK(clauses', m_trail, m_justification) /\ search_lvl' \in Nat
      BY <1>4, <1>11 DEF Reordered
    <2> QED BY <1>1, <1>5, <1>7, <1>9, <1>10, <1>11, <2>1, GrowInv
  <1>13. \E y \in Lits, j \in Justs : Undef(y) /\ j.lvl <= Len(m_scopes) /\ assign_core(y, j)
    BY <1>5, <1>7, <1>9
  <1>14. Grown /\ ~inconsistent'
    <2>1. Grown
      BY <1>1, <1>13, GrownIs
    <2>2. m_conflict' = m_conflict
      BY <1>5 DEF assign_core
    <2> QED BY <1>1, <2>1, <2>2 DEF inconsistent
  <1>15. SearchInv'
    BY <1>4, <1>12, <1>14, VisitInv DEF Reordered
  <1>16. /\ TrailOK(m_trail', m_justification') /\ x \in Range(m_trail')
         /\ LvlIn(m_justification', x) = Highest(S)
    <2>1. Extends(m_trail, m_justification, x, js, m_trail', m_justification')
      BY <1>1, <1>5, <1>7, <1>9, Grow
    <2> QED BY <1>9, <2>1 DEF Extends
  <1>17. GoodClause(e) /\ x \in Range(e) /\ Range(e) = Range(c) /\ Len(e) = Len(c)
    <2>1. 1 \in 1 .. Len(d)
      BY <1>6
    <2> QED BY <1>2, <1>4, <1>6, <2>1 DEF Reordered, x
  <1>18. ASSUME NEW n, Highest(S) <= n, NEW b PROVE Settled(e, m_trail', m_justification', n, b)
    BY <1>16, <1>17, <1>18, SettledTrue
  <1>19. ASSUME PropInv PROVE PropInv'
    <2>1. ASSUME NEW n \in 0 .. scope_lvl - 1
          PROVE  Settled(clauses'[id], m_trail', m_justification', n, m_scopes[n + 1])
      <3> DEFINE b == m_scopes[n + 1]
      <3>1. b \in 0 .. Len(m_trail) /\ scope_lvl \in Nat /\ scope_lvl = Len(m_scopes) /\ Len(m_trail) \in Nat
        BY <1>1, BoundsAre
      <3>2. Settled(c, m_trail, m_justification, n, b)
        BY <1>1, <1>19 DEF PropInv
      <3>3. \A p \in 1 .. b : LvlIn(m_justification, m_trail[p]) < n + 1
        <4>1. ScopesOK(m_trail, m_justification, m_scopes) /\ n + 1 \in 1 .. Len(m_scopes)
          BY <1>1, <3>1 DEF TrailInv
        <4> QED BY <4>1 DEF ScopesOK
      <3> HIDE DEF b
      <3>4. CASE t = 2 \/ \A p \in 1 .. b : m_trail[p] # -e[2]
        <4>1. ~False(e[1])
          <5>1. TrailOK(m_trail, m_justification)
            BY <1>1 DEF TrailInv
          <5> QED BY <1>4, <1>5, <1>7, <5>1, ValuesAre
        <4>2. Settled(e, m_trail, m_justification, n, b)
          <5>1. CASE t = 2
            <6>1. e[2] \in {c[1], c[2]}
              BY <1>2, <1>4, <5>1
            <6> HIDE DEF c
            <6>2. GoodClause(c) /\ Len(c) > 3
              BY <1>1, <1>2, <1>6
            <6> QED BY <1>1, <1>17, <3>1, <3>2, <4>1, <6>1, <6>2, SameSettled
          <5>2. CASE \A p \in 1 .. b : m_trail[p] # -e[2]
            <6>1. \A p \in 1 .. b : m_trail[p] # -e[1]
              BY <1>1, <3>1, <4>1, NotFalse
            <6> QED BY <1>17, <5>2, <6>1, WatchesSettle
          <5> QED BY <3>4, <5>1, <5>2
        <4>3. Settled(e, m_trail', m_justification', n, b)
          BY <1>1, <1>5, <1>7, <1>9, <3>1, <4>2, GrowSettled
        <4> QED BY <1>4, <4>3 DEF Reordered, b
      <3>5. ASSUME t # 2, NEW p \in 1 .. b, m_trail[p] = -e[2]
            PROVE  Settled(clauses'[id], m_trail', m_justification', n, b)
        <4>1. lvl(d[t]) < n + 1
          <5>1. lvl(-d[t]) = lvl(d[t])
            <6>1. TrailOK(m_trail, m_justification) /\ ScopesOK(m_trail, m_justification, m_scopes)
              BY <1>1 DEF TrailInv
            <6>2. d[t] \in Lits
              BY <1>3, <1>6
            <6> QED BY <6>1, <6>2, LevelsAre
          <5> QED BY <1>4, <3>3, <3>5, <5>1, LvlIs
        <4>2. \A k \in S : lvl(k) <= lvl(d[t])
          BY <1>3, <1>7, <3>5
        <4>3. PICK k \in S : lvl(k) = Highest(S)
          BY <1>9, LvlIs
        <4>4. lvl(d[t]) \in Nat
          <5>1. d[t] \in Lits /\ False(d[t])
            BY <1>3, <1>6
          <5>2. TrailOK(m_trail, m_justification) /\ ScopesOK(m_trail, m_justification, m_scopes)
            BY <1>1 DEF TrailInv
          <5>3. var(d[t]) \in Assigned
            BY <5>1, <5>2, ValuesAre
          <5> QED BY <5>1, <5>2, <5>3, LevelsAre
        <4>5. Highest(S) <= lvl(d[t])
          BY <4>2, <4>3
        <4>6. Highest(S) <= n
          BY <1>9, <3>1, <4>1, <4>4, <4>5
        <4>7. Settled(e, m_trail', m_justification', n, b)
          BY <1>18, <4>6
        <4> QED BY <1>4, <4>7 DEF Reordered
      <3> QED BY <3>4, <3>5 DEF b
    <2>2. Settled(clauses'[id], m_trail', m_justification', scope_lvl, m_qhead)
      <3>1. Highest(S) <= scope_lvl
        BY <1>9 DEF scope_lvl
      <3>2. Settled(e, m_trail', m_justification', scope_lvl, m_qhead)
        BY <1>18, <3>1
      <3> QED BY <1>4, <3>2 DEF Reordered
    <2> QED BY <1>4, <1>13, <1>19, <2>1, <2>2, VisitProp DEF Reordered
  <1> QED BY <1>15, <1>19

\* A longer clause is visited.
LEMMA VisitLongInv ==
  ASSUME SearchInv, NEW id \in todo, VisitLong(id)
  PROVE  SearchInv' /\ (PropInv => PropInv')
  <1>1. VisitLongCases(id) /\ Len(clauses[id]) > 3 /\ UNCHANGED <<m_qhead, Rest>>
    BY VisitLongIs
  <1>2. \/ /\ todo' = todo \ {id} /\ Keep3
           /\ \/ (\E q \in Range(Front(id)) : True(q)) /\ UNCHANGED clauses
              \/ True(Front(id)[1]) /\ clauses' = [clauses EXCEPT ![id] = Front(id)]
              \/ /\ Free(id) # {}
                 /\ clauses' = [clauses EXCEPT ![id] = Swap(Front(id), 2, Min(Free(id)))]
        \/ /\ False(Front(id)[1]) /\ Free(id) = {} /\ todo' = {}
           /\ clauses' = [clauses EXCEPT ![id] = Front(id)]
           /\ set_conflict(0, Just(Highest(Range(Front(id))), id, {}))
        \/ /\ Undef(Front(id)[1]) /\ Free(id) = {} /\ todo' = todo \ {id}
           /\ clauses' = [clauses EXCEPT ![id] = Swap(Front(id), 2, TopOf(id))]
           /\ assign_core(Front(id)[1], Just(Highest(Range(Front(id)) \ {Front(id)[1]}), id, {}))
    BY <1>1 DEF VisitLongCases, TopOf
  <1> QED BY <1>1, <1>2, LongFreeInv, LongConflictInv, LongAssignInv

-----------------------------------------------------------------------------
(***************************************************************************)
(* A lemma is added.                                                       *)
(***************************************************************************)
\* What is known when a lemma is added.
LEMMA LearnIs ==
  ASSUME SearchInv, Learn
  PROVE  /\ pc = "learn" /\ pc' = "search" /\ m_lemma' = <<>> /\ todo = {} /\ todo' = {}
         /\ UNCHANGED <<m_scopes, m_qhead, m_assumptions, m_user_scope_literals, nvars, toassume, m_core, result>>
         /\ scope_lvl' = scope_lvl /\ search_lvl' = search_lvl
         /\ \A id : Done(id) = m_qhead /\ Done(id)' = m_qhead
         /\ LemmaAt(m_lemma, m_trail, m_justification) /\ (Len(m_lemma) > 1 => ~inconsistent)
         /\ (inconsistent => ConflictAt(clauses, m_trail, m_conflict, search_lvl))
         /\ TrailInv /\ ReasonInv /\ DecideInv /\ QueueInv /\ ClausesOK(clauses) /\ learned \subseteq DOMAIN clauses
  <1>1. /\ pc = "learn" /\ pc' = "search" /\ m_lemma' = <<>>
        /\ UNCHANGED <<m_scopes, m_qhead, todo, m_core, result, user, goal>>
    BY DEF Learn, mk_clause_core
  <1>2. UNCHANGED <<m_assumptions, m_user_scope_literals, nvars, toassume>>
    BY <1>1 DEF user, goal
  <1>3. scope_lvl' = scope_lvl /\ search_lvl' = search_lvl
    BY <1>1, <1>2 DEF scope_lvl, search_lvl, tracking_assumptions
  <1>4. TrailInv /\ ReasonInv /\ DecideInv /\ QueueInv /\ ClausesOK(clauses) /\ learned \subseteq DOMAIN clauses
    BY DEF SearchInv, StoreInv
  <1>5. todo = {}
    BY <1>1 DEF SearchInv, QueueInv, Propagating
  <1>6. \A id : Done(id) = m_qhead /\ Done(id)' = m_qhead
    BY <1>1, <1>5 DEF Done
  <1>7. /\ LemmaAt(m_lemma, m_trail, m_justification) /\ (Len(m_lemma) > 1 => ~inconsistent)
        /\ (inconsistent => ConflictAt(clauses, m_trail, m_conflict, search_lvl))
    BY <1>1 DEF SearchInv, LemmaInv, Pending, ConflictInv
  <1> QED BY <1>1, <1>2, <1>3, <1>4, <1>5, <1>6, <1>7

\* What adding a lemma leaves alone.
LEMMA LearnFrame ==
  ASSUME SearchInv, Learn, StoreInv', TrailInv', ReasonInv', DecideInv', Grown,
         inconsistent' => ConflictAt(clauses', m_trail', m_conflict', search_lvl)
  PROVE  SearchInv'
  <1>1. /\ pc = "learn" /\ pc' = "search" /\ m_lemma' = <<>> /\ todo = {} /\ todo' = {}
        /\ UNCHANGED <<m_scopes, m_qhead, m_assumptions, m_user_scope_literals, nvars, toassume, m_core, result>>
        /\ search_lvl' = search_lvl /\ QueueInv
    BY LearnIs
  <1>2. QueueInv'
    <2>1. m_qhead' \in 0 .. Len(m_trail')
      BY <1>1 DEF QueueInv, Grown
    <2> QED BY <1>1, <2>1 DEF QueueInv
  <1>3. ConflictInv' /\ PhaseInv'
    BY <1>1 DEF ConflictInv, PhaseInv
  <1>4. LemmaInv'
    BY <1>1 DEF LemmaInv, Pending
  <1>5. UserInv'
    BY <1>1 DEF UserInv, SearchInv
  <1> QED BY <1>2, <1>3, <1>4, <1>5 DEF SearchInv

\* Clauses stay, a literal is assigned or is not.
LEMMA LearnKeepProp ==
  ASSUME SearchInv, PropInv, Learn, UNCHANGED clauses, ~inconsistent' => ~inconsistent,
         \/ UNCHANGED <<m_trail, m_justification>>
         \/ \E l \in Lits, js \in Justs : Undef(l) /\ assign_core(l, js)
  PROVE  PropInv'
  <1>1. /\ m_scopes' = m_scopes /\ scope_lvl' = scope_lvl /\ \A id : Done(id) = m_qhead /\ Done(id)' = m_qhead
        /\ TrailInv /\ QueueInv
    BY LearnIs
  <1>2. CASE UNCHANGED <<m_trail, m_justification>>
    BY <1>1, <1>2 DEF PropInv
  <1>3. ASSUME NEW l \in Lits, NEW js \in Justs, Undef(l), assign_core(l, js)
        PROVE  PropInv'
    <2>1. ASSUME NEW id \in DOMAIN clauses
          PROVE  /\ \A n \in 0 .. scope_lvl - 1 :
                     Settled(clauses[id], m_trail', m_justification', n, m_scopes'[n + 1])
                 /\ ~inconsistent => Settled(clauses[id], m_trail', m_justification', scope_lvl, Done(id))
      BY <1>1, <1>3, GrowProp
    <2> QED BY <1>1, <2>1 DEF PropInv
  <1> QED BY <1>2, <1>3

\* A unit: it holds at the base level.
LEMMA LearnUnitInv ==
  ASSUME SearchInv, Learn, NEW l \in Lits, assign(l, None(0)), UNCHANGED <<clauses, learned>>
  PROVE  SearchInv' /\ (PropInv => PropInv')
  <1>1. /\ m_scopes' = m_scopes /\ search_lvl' = search_lvl
        /\ (inconsistent => ConflictAt(clauses, m_trail, m_conflict, search_lvl))
        /\ TrailInv /\ ReasonInv /\ DecideInv /\ StoreInv
    BY LearnIs DEF StoreInv
  <1>2. StoreInv' /\ search_lvl \in Nat /\ TrailOK(m_trail, m_justification)
    BY <1>1, SearchLvl DEF StoreInv, TrailInv
  <1>3. None(0) \in Justs /\ None(0).lvl = 0 /\ GoodReason(clauses', m_trail, m_justification, l, None(0))
    BY NoneGood, JustsAre
  <1>4. Len(m_scopes) \in Nat
    BY <1>1, LevelsAre DEF TrailInv, scope_lvl
  <1>5. CASE Undef(l) /\ assign_core(l, None(0))
    <2>1. m_conflict' = m_conflict
      BY <1>5 DEF assign_core
    <2>2. None(0).lvl <= Len(m_scopes) /\ None(0).lvl <= search_lvl' /\ search_lvl' \in Nat /\ search_lvl <= search_lvl'
      BY <1>1, <1>2, <1>3, <1>4
    <2>3. TrailInv' /\ ReasonInv' /\ DecideInv'
      <3>1. ReasonsOK(clauses', m_trail, m_justification)
        BY <1>1 DEF ReasonInv
      <3> QED BY <1>1, <1>3, <1>5, <2>2, <3>1, GrowInv
    <2>4. Grown
      BY <1>1, <1>3, <1>5, <2>2, GrownIs
    <2>5. inconsistent' => ConflictAt(clauses', m_trail', m_conflict', search_lvl)
      <3> SUFFICES ASSUME inconsistent' PROVE ConflictAt(clauses, m_trail', m_conflict, search_lvl)
        BY <2>1
      <3>1. ConflictAt(clauses, m_trail, m_conflict, search_lvl)
        BY <1>1, <2>1 DEF inconsistent
      <3>2. Range(m_trail) \subseteq Range(m_trail')
        <4>1. Extends(m_trail, m_justification, l, None(0), m_trail', m_justification')
          BY <1>1, <1>3, <1>5, <2>2, Grow
        <4> QED BY <4>1 DEF Extends
      <3>3. search_lvl <= search_lvl
        BY <1>2
      <3> QED BY <1>2, <3>1, <3>2, <3>3, ConflictKept
    <2>6. SearchInv'
      BY <1>2, <2>3, <2>4, <2>5, LearnFrame
    <2>7. ~inconsistent' => ~inconsistent
      BY <2>1 DEF inconsistent
    <2> QED BY <1>3, <1>5, <2>6, <2>7, LearnKeepProp
  <1>6. CASE ~ (Undef(l) /\ assign_core(l, None(0)))
    <2>1. /\ UNCHANGED <<m_trail, m_justification>>
          /\ m_conflict' = m_conflict \/ (False(l) /\ ~inconsistent /\ set_conflict(-l, None(0)))
      BY <1>6 DEF assign, set_conflict
    <2>2. TrailInv' /\ ReasonInv' /\ DecideInv'
      BY <1>1, <2>1 DEF TrailInv, ReasonInv, DecideInv
    <2>3. Grown
      BY <1>1, <2>1, GrownIs
    <2>4. inconsistent' => ConflictAt(clauses', m_trail', m_conflict', search_lvl)
      <3>1. CASE m_conflict' = m_conflict
        BY <1>1, <2>1, <3>1 DEF inconsistent
      <3>2. CASE False(l) /\ ~inconsistent /\ set_conflict(-l, None(0))
        <4>1. 0 <= search_lvl
          BY <1>2
        <4> QED BY <1>2, <3>2, <4>1, NoneConflict
      <3> QED BY <2>1, <3>1, <3>2
    <2>5. SearchInv'
      BY <1>2, <2>2, <2>3, <2>4, LearnFrame
    <2>6. ~inconsistent' => ~inconsistent
      BY <2>1 DEF inconsistent
    <2> QED BY <2>1, <2>5, <2>6, LearnKeepProp
  <1> QED BY <1>5, <1>6

\* A clause with one literal that is not false, and the reason it is for it.
Asserts(e, js, j) ==
  /\ GoodClause(e) /\ Undef(e[1]) /\ \A i \in 2 .. Len(e) : False(e[i])
  /\ js \in Justs /\ js.lvl = Highest(Range(e) \ {e[1]}) /\ js # None(js.lvl)
  /\ j \in 2 .. Len(e) /\ (Len(e) > 3 => j = 2) /\ lvl(e[j]) = js.lvl
  /\ GoodReason(clauses', m_trail, m_justification, e[1], js)

\* The literal that is assigned makes it true, at its level; below that level
\* its watches are not false.
LEMMA AssertsSettled ==
  ASSUME TrailInv, NEW e, NEW js, NEW j, Asserts(e, js, j), assign_core(e[1], js), js.lvl <= Len(m_scopes)
  PROVE  /\ \A n \in 0 .. scope_lvl - 1 : Settled(e, m_trail', m_justification', n, m_scopes[n + 1])
         /\ \A b : Settled(e, m_trail', m_justification', scope_lvl, b)
  <1> DEFINE x == e[1]
             tr == m_trail'
             ju == m_justification'
  <1>1. GoodClause(e) /\ Undef(x) /\ js \in Justs /\ j \in 2 .. Len(e) /\ (Len(e) > 3 => j = 2)
        /\ False(e[j]) /\ lvl(e[j]) = js.lvl
    BY DEF Asserts
  <1>2. /\ Len(e) \in Nat /\ 1 \in 1 .. Len(e) /\ j \in 1 .. Len(e) /\ 1 # j /\ x \in Lits /\ e[j] \in Lits
        /\ x \in Range(e) /\ js.lvl \in Nat
    <2>1. /\ Len(e) \in Nat /\ Len(e) >= 2 /\ \A i \in 1 .. Len(e) : e[i] \in Lits /\ e[i] \in Range(e)
      BY <1>1, ClauseFacts
    <2>2. 1 \in 1 .. Len(e) /\ j \in 1 .. Len(e) /\ 1 # j
      BY <1>1, <2>1
    <2>3. js.lvl \in Nat
      BY <1>1 DEF Justs
    <2> QED BY <2>1, <2>2, <2>3
  <1>3. Extends(m_trail, m_justification, x, js, tr, ju) /\ ScopesOK(tr, ju, m_scopes)
    BY <1>1, <1>2, Grow
  <1>4. TrailOK(tr, ju) /\ x \in Range(tr) /\ LvlIn(ju, x) = js.lvl
    BY <1>3 DEF Extends
  <1>5. scope_lvl \in Nat /\ scope_lvl = Len(m_scopes)
    BY LevelsAre DEF TrailInv, scope_lvl
  <1>6. ASSUME NEW n, js.lvl <= n, NEW b PROVE Settled(e, tr, ju, n, b)
    BY <1>2, <1>4, <1>6, SettledTrue
  <1>7. ASSUME NEW n \in 0 .. scope_lvl - 1, ~ (js.lvl <= n) PROVE Settled(e, tr, ju, n, m_scopes[n + 1])
    <2> DEFINE b == m_scopes[n + 1]
    <2>1. /\ n + 1 \in 1 .. Len(m_scopes) /\ b <= Len(m_trail) /\ b \in Nat /\ Len(m_trail) \in Nat
          /\ \A p \in 1 .. b : LvlIn(m_justification, m_trail[p]) < n + 1
      <3>1. ScopesOK(m_trail, m_justification, m_scopes) /\ n + 1 \in 1 .. Len(m_scopes)
        BY <1>5 DEF TrailInv
      <3>2. Len(m_trail) \in Nat
        BY TrailFacts DEF TrailInv
      <3> QED BY <3>1, <3>2 DEF ScopesOK
    <2> HIDE DEF b
    <2>2. ASSUME NEW p \in 1 .. b PROVE tr[p] # -e[1] /\ tr[p] # -e[j]
      <3>1. p \in 1 .. Len(m_trail) /\ tr[p] = m_trail[p] /\ m_trail[p] \in Range(m_trail)
        <4>1. p \in 1 .. Len(m_trail)
          BY <2>1
        <4>2. tr[p] = m_trail[p]
          BY <1>3, <4>1 DEF Extends
        <4>3. Range(m_trail) = {m_trail[i] : i \in 1 .. Len(m_trail)}
          BY TrailFacts DEF TrailInv
        <4> QED BY <4>1, <4>2, <4>3
      <3>2. -e[1] \notin Range(m_trail)
        BY <1>1, <1>2, ValuesAre DEF TrailInv
      <3>3. LvlIn(m_justification, m_trail[p]) < n + 1
        BY <2>1
      <3>4. LvlIn(m_justification, -e[j]) = js.lvl
        <4>1. lvl(-e[j]) = lvl(e[j])
          BY <1>2, LevelsAre DEF TrailInv
        <4> QED BY <1>1, <4>1, LvlIs
      <3>5. ~ (js.lvl < n + 1)
        BY <1>2, <1>5, <1>7
      <3> QED BY <3>1, <3>2, <3>3, <3>4, <3>5
    <2>3. Len(e) > 3 => 1 <= 2 /\ j <= 2
      BY <1>1, <1>2
    <2>4. Settled(e, tr, ju, n, b)
      BY <1>2, <2>2, <2>3 DEF Settled
    <2> QED BY <2>4 DEF b
  <1>8. js.lvl <= scope_lvl
    BY <1>5
  <1> QED BY <1>6, <1>7, <1>8

\* A lemma is attached, and its first literal assigned.
LEMMA LearnClauseInv ==
  ASSUME SearchInv, Learn, ~inconsistent, NEW e, NEW js, NEW j, Asserts(e, js, j), assign_core(e[1], js),
         \/ UNCHANGED <<clauses, learned>>
         \/ Attach(e) /\ learned' = learned \cup {FreeId}
  PROVE  SearchInv' /\ (PropInv => PropInv')
  <1>1. /\ m_scopes' = m_scopes /\ search_lvl' = search_lvl /\ scope_lvl' = scope_lvl
        /\ \A id : Done(id) = m_qhead /\ Done(id)' = m_qhead
        /\ TrailInv /\ ReasonInv /\ DecideInv /\ QueueInv /\ ClausesOK(clauses) /\ learned \subseteq DOMAIN clauses
    BY LearnIs
  <1>2. search_lvl \in Nat /\ search_lvl <= search_lvl' /\ search_lvl' \in Nat
    BY <1>1, SearchLvl
  <1>3. /\ GoodClause(e) /\ Undef(e[1]) /\ js \in Justs /\ js # None(js.lvl)
        /\ GoodReason(clauses', m_trail, m_justification, e[1], js)
    BY DEF Asserts
  <1>4. e[1] \in Lits /\ js.lvl <= Len(m_scopes)
    <2>1. Len(e) \in Nat /\ Len(e) >= 2 /\ \A i \in 1 .. Len(e) : e[i] \in Lits
      BY <1>3, ClauseFacts
    <2>2. j \in 1 .. Len(e) /\ 1 \in 1 .. Len(e) /\ False(e[j]) /\ lvl(e[j]) = js.lvl
      BY <2>1 DEF Asserts
    <2>3. TrailOK(m_trail, m_justification) /\ ScopesOK(m_trail, m_justification, m_scopes)
      BY <1>1 DEF TrailInv
    <2>4. e[j] \in Lits /\ var(e[j]) \in Assigned
      BY <2>1, <2>2, <2>3, ValuesAre
    <2>5. lvl(e[j]) \in 0 .. scope_lvl
      BY <2>3, <2>4, LevelsAre
    <2> QED BY <2>1, <2>2, <2>5 DEF scope_lvl
  <1>5. m_conflict' = m_conflict /\ ~inconsistent'
    BY DEF assign_core, inconsistent
  <1>6. \E l \in Lits, k \in Justs : Undef(l) /\ k.lvl <= Len(m_scopes) /\ assign_core(l, k)
    BY <1>3, <1>4
  <1>7. Grown
    BY <1>1, <1>6, GrownIs
  <1>8. CASE UNCHANGED <<clauses, learned>>
    <2>1. StoreInv' /\ ReasonsOK(clauses', m_trail, m_justification)
      BY <1>1, <1>8 DEF StoreInv, ReasonInv
    <2>2. TrailInv' /\ ReasonInv' /\ DecideInv'
      BY <1>1, <1>2, <1>3, <1>4, <2>1, GrowInv
    <2>3. SearchInv'
      BY <1>5, <1>7, <2>1, <2>2, LearnFrame
    <2> QED BY <1>6, <1>8, <2>3, LearnKeepProp
  <1>9. CASE Attach(e) /\ learned' = learned \cup {FreeId}
    <2> DEFINE id == FreeId
    <2>1. id \notin DOMAIN clauses /\ id \in Nat \ {0}
      BY <1>1, FreeIdIs
    <2>2. clauses' = Attached(clauses, id, e)
      BY <1>9 DEF Attach, Attached
    <2>3. learned' = learned \cup {id}
      BY <1>9
    <2> HIDE DEF id
    <2>4. /\ ClausesOK(clauses') /\ DOMAIN clauses' = DOMAIN clauses \cup {id}
          /\ clauses'[id] = e /\ \A i \in DOMAIN clauses : clauses'[i] = clauses[i]
      <3>1. LET cl == Attached(clauses, id, e)
            IN  /\ ClausesOK(cl) /\ DOMAIN cl = DOMAIN clauses \cup {id}
                /\ cl[id] = e /\ \A i \in DOMAIN clauses : cl[i] = clauses[i]
        <4>1. ClausesOK(clauses) /\ GoodClause(e)
          BY <1>1, <1>3
        <4> QED BY <2>1, <4>1, AttachedIs
      <3> QED BY <2>2, <3>1
    <2>5. StoreInv'
      BY <1>1, <2>3, <2>4 DEF StoreInv
    <2>6. ReasonsOK(clauses', m_trail, m_justification)
      <3>1. \A i \in 1 .. Len(m_trail) : LET c == m_justification[var(m_trail[i])].cls IN
              c # 0 /\ c \in DOMAIN clauses /\ Len(clauses[c]) > 3 /\ clauses[c][1] = m_trail[i] =>
                /\ c \in DOMAIN clauses' /\ Len(clauses'[c]) = Len(clauses[c])
                /\ clauses'[c][1] = m_trail[i] /\ Range(clauses'[c]) = Range(clauses[c])
        BY <2>4
      <3> QED BY <1>1, <3>1, KeepReasons DEF ReasonInv
    <2>7. TrailInv' /\ ReasonInv' /\ DecideInv'
      BY <1>1, <1>2, <1>3, <1>4, <2>6, GrowInv
    <2>8. SearchInv'
      BY <1>5, <1>7, <2>5, <2>7, LearnFrame
    <2>9. ASSUME PropInv PROVE PropInv'
      <3> SUFFICES ASSUME NEW i \in DOMAIN clauses'
                   PROVE  /\ \A n \in 0 .. scope_lvl - 1 :
                               Settled(clauses'[i], m_trail', m_justification', n, m_scopes[n + 1])
                          /\ Settled(clauses'[i], m_trail', m_justification', scope_lvl, m_qhead)
        BY <1>1 DEF PropInv
      <3>1. CASE i = id
        <4>1. /\ \A n \in 0 .. scope_lvl - 1 : Settled(e, m_trail', m_justification', n, m_scopes[n + 1])
              /\ Settled(e, m_trail', m_justification', scope_lvl, m_qhead)
          BY <1>1, <1>4, AssertsSettled
        <4> QED BY <2>4, <3>1, <4>1
      <3>2. CASE i \in DOMAIN clauses
        <4>1. /\ \A n \in 0 .. scope_lvl - 1 :
                   Settled(clauses[i], m_trail', m_justification', n, m_scopes'[n + 1])
              /\ Settled(clauses[i], m_trail', m_justification', scope_lvl, Done(i))
          BY <1>1, <1>3, <1>4, <2>9, <3>2, GrowProp
        <4> QED BY <1>1, <2>4, <3>2, <4>1
      <3> QED BY <2>4, <3>1, <3>2
    <2> QED BY <2>8, <2>9
  <1> QED BY <1>8, <1>9

\* The lemma of two literals or more.
LEMMA LongLemma ==
  ASSUME SearchInv, Learn, Len(m_lemma) >= 2
  PROVE  /\ GoodClause(m_lemma) /\ Undef(m_lemma[1]) /\ ~inconsistent /\ TrailInv /\ ~at_base_lvl
         /\ \A i \in 2 .. Len(m_lemma) : False(m_lemma[i]) /\ ~Undef(m_lemma[i])
         /\ ClausesOK(clauses) /\ Len(m_lemma) \in Nat
         /\ \A i \in 1 .. Len(m_lemma) : m_lemma[i] \in Lits
  <1> DEFINE c == m_lemma
  <1>1. LemmaAt(c, m_trail, m_justification) /\ (Len(c) > 1 => ~inconsistent) /\ TrailInv /\ ClausesOK(clauses)
    BY LearnIs
  <1>2. c \in Seq(Lits) /\ Injective(c)
    BY <1>1 DEF LemmaAt
  <1>3. Len(c) \in Nat /\ \A i \in 1 .. Len(c) : c[i] \in Lits
    BY <1>2
  <1>4. Len(c) > 1 /\ 2 \in 2 .. Len(c) /\ \A i \in 2 .. Len(c) : i \in 1 .. Len(c)
    BY <1>3
  <1>5. var(c[1]) \notin DOMAIN m_justification /\ \A i \in 2 .. Len(c) : -c[i] \in Range(m_trail) /\ lvl(c[i]) > 0
    BY <1>1, <1>4, LvlIs DEF LemmaAt
  <1> HIDE DEF c
  <1>6. TrailOK(m_trail, m_justification) /\ ScopesOK(m_trail, m_justification, m_scopes)
    BY <1>1 DEF TrailInv
  <1>7. Undef(c[1]) /\ \A i \in 2 .. Len(c) : False(c[i]) /\ ~Undef(c[i]) /\ var(c[i]) \in Assigned
    <2>1. Undef(c[1])
      BY <1>5, <1>6, ValuesAre
    <2>2. ASSUME NEW i \in 2 .. Len(c) PROVE False(c[i]) /\ ~Undef(c[i]) /\ var(c[i]) \in Assigned
      <3>1. c[i] \in Lits /\ False(c[i])
        BY <1>3, <1>4, <1>5, <1>6, ValuesAre
      <3>2. var(c[i]) \in Assigned
        BY <1>6, <3>1, ValuesAre
      <3> QED BY <3>1, <3>2 DEF Undef
    <2> QED BY <2>1, <2>2
  <1>8. ~at_base_lvl
    <2>1. c[2] \in Lits /\ var(c[2]) \in Assigned /\ lvl(c[2]) > 0
      BY <1>3, <1>4, <1>5, <1>7
    <2>2. lvl(c[2]) \in 0 .. scope_lvl /\ scope_lvl \in Nat
      BY <1>6, <2>1, LevelsAre
    <2> QED BY <2>1, <2>2 DEF at_base_lvl
  <1>9. GoodClause(c)
    BY <1>2, <1>3, <1>4 DEF GoodClause, c
  <1> QED BY <1>1, <1>3, <1>4, <1>7, <1>8, <1>9 DEF c

\* The reason a lemma is for its first literal: its literals, or the lemma c.
ReasonFor(e, js, c) ==
  LET S == Range(e) \ {e[1]}
  IN  /\ js = Just(Highest(S), c, IF c = 0 THEN S ELSE {})
      /\ Len(e) > 3 => c # 0
      /\ c # 0 => c \in DOMAIN clauses' /\ clauses'[c] = e /\ Len(e) > 3
                  /\ \A i \in 2 .. Len(e) : lvl(e[i]) <= lvl(e[2])

\* Each kind of lemma asserts its first literal.
LEMMA AssertsIs ==
  ASSUME TrailInv, NEW e, GoodClause(e), Undef(e[1]), \A i \in 2 .. Len(e) : False(e[i]),
         NEW js, NEW c \in Nat, ReasonFor(e, js, c)
  PROVE  \E j : Asserts(e, js, j)
  <1> DEFINE S == Range(e) \ {e[1]}
  <1>0. /\ js = Just(Highest(S), c, IF c = 0 THEN S ELSE {}) /\ (Len(e) > 3 => c # 0)
        /\ c # 0 => c \in DOMAIN clauses' /\ clauses'[c] = e /\ Len(e) > 3
                    /\ \A i \in 2 .. Len(e) : lvl(e[i]) <= lvl(e[2])
    BY DEF ReasonFor
  <1>1. /\ Len(e) \in Nat /\ Len(e) >= 2 /\ \A i \in 1 .. Len(e) : e[i] \in Lits /\ e[i] \in Range(e)
        /\ Range(e) = {e[i] : i \in 1 .. Len(e)} /\ \A i, k \in 1 .. Len(e) : e[i] = e[k] => i = k
    BY ClauseFacts
  <1>2. S = {e[i] : i \in 2 .. Len(e)}
    <2>1. 1 \in 1 .. Len(e) /\ 2 \in 2 .. Len(e) /\ \A i \in 2 .. Len(e) : i \in 1 .. Len(e) /\ i # 1
      BY <1>1
    <2>2. \A i \in 1 .. Len(e) : i = 1 \/ i \in 2 .. Len(e)
      BY <1>1
    <2>3. \A i \in 2 .. Len(e) : e[i] # e[1]
      BY <1>1, <2>1
    <2> QED BY <1>1, <2>1, <2>2, <2>3
  <1>3. S \subseteq Lits /\ S # {} /\ \A k \in S : False(k)
    <2>1. 2 \in 2 .. Len(e) /\ \A i \in 2 .. Len(e) : i \in 1 .. Len(e)
      BY <1>1
    <2> QED BY <1>1, <1>2, <2>1
  <1>4. /\ Highest(S) \in Nat /\ Just(Highest(S), c, S) \in Justs /\ Just(Highest(S), c, {}) \in Justs
        /\ \A n : Just(Highest(S), c, S) # None(n)
        /\ \A k \in S : /\ k \in Lits /\ -k \in Range(m_trail) /\ LvlIn(m_justification, k) <= Highest(S)
        /\ \E k \in S : LvlIn(m_justification, k) = Highest(S)
    <2> HIDE DEF S
    <2> QED BY <1>3, FalseReason
  <1>5. js \in Justs /\ js.lvl = Highest(S) /\ js.cls = c /\ js.lits = IF c = 0 THEN S ELSE {}
    <2> HIDE DEF S
    <2>1. js \in Justs
      BY <1>0, <1>4
    <2> QED BY <1>0, <2>1 DEF Just
  <1>6. js # None(js.lvl)
    <2>1. None(js.lvl).cls = 0 /\ None(js.lvl).lits = {}
      BY DEF None, Just
    <2> QED BY <1>3, <1>5, <2>1
  <1>7. GoodReason(clauses', m_trail, m_justification, e[1], js)
    <2>1. ReasonIn(clauses', js, e[1]) = S
      BY <1>0, <1>5 DEF ReasonIn
    <2> HIDE DEF S
    <2> QED BY <1>0, <1>4, <1>5, <2>1 DEF GoodReason
  <1> HIDE DEF S
  <1>8. PICK j \in 2 .. Len(e) : (Len(e) > 3 /\ c # 0 => j = 2) /\ lvl(e[j]) = Highest(S)
    <2>1. PICK i \in 2 .. Len(e) : lvl(e[i]) = Highest(S)
      BY <1>2, <1>4, LvlIs
    <2>2. CASE c = 0
      BY <2>1, <2>2
    <2>3. CASE c # 0
      <3>1. 2 \in 2 .. Len(e) /\ e[2] \in S
        BY <1>1, <1>2
      <3>2. lvl(e[2]) <= Highest(S) /\ lvl(e[i]) <= lvl(e[2])
        BY <1>0, <1>4, <2>1, <2>3, <3>1, LvlIs
      <3>3. lvl(e[2]) \in Nat
        <4>1. TrailOK(m_trail, m_justification) /\ ScopesOK(m_trail, m_justification, m_scopes)
          BY DEF TrailInv
        <4>2. e[2] \in Lits /\ var(e[2]) \in Assigned
          BY <1>3, <3>1, <4>1, ValuesAre
        <4> QED BY <4>1, <4>2, LevelsAre
      <3>4. lvl(e[2]) = Highest(S)
        BY <1>4, <2>1, <3>2, <3>3
      <3> QED BY <3>1, <3>4
    <2> QED BY <2>2, <2>3
  <1>9. Asserts(e, js, j)
    BY <1>0, <1>5, <1>6, <1>7, <1>8 DEF Asserts, S
  <1> QED BY <1>9

\* A literal that is not assigned gets its value.
LEMMA AssignUndef ==
  ASSUME TrailOK(m_trail, m_justification), NEW l \in Lits, Undef(l), NEW js, assign(l, js)
  PROVE  assign_core(l, js)
  <1>1. ~True(l) /\ ~False(l)
    BY ValuesAre
  <1> QED BY <1>1 DEF assign

\* Its literals in an order e, a lemma is attached or not, and the first assigned.
Asserted(e) ==
  \E js : /\ Range(e) = Range(m_lemma) /\ assign_core(e[1], js) /\ \E j : Asserts(e, js, j)
          /\ js.lits \in {{}, Range(e) \ {e[1]}}
          /\ \/ UNCHANGED <<clauses, learned>>
             \/ Attach(e) /\ learned' = learned \cup {FreeId}

\* What a lemma of two literals does.
LEMMA LearnBinIs ==
  ASSUME SearchInv, Learn, Len(m_lemma) = 2, mk_bin_lemma(m_lemma[1], m_lemma[2])
  PROVE  /\ m_lemma[1] \in Lits /\ m_lemma[2] \in Lits /\ Range(m_lemma) = {m_lemma[1], m_lemma[2]}
         /\ \/ /\ UNCHANGED <<clauses, learned>>
               /\ \/ assign(m_lemma[1], None(0)) /\ IsBinary(m_lemma[1], -m_lemma[2])
                  \/ assign(m_lemma[2], None(0)) /\ IsBinary(m_lemma[2], -m_lemma[1])
            \/ Asserted(m_lemma)
  <1> DEFINE x  == m_lemma[1]
             y  == m_lemma[2]
             js == Just(lvl(y), 0, {y})
  <1>0. Len(m_lemma) >= 2
    OBVIOUS
  <1>1. /\ GoodClause(m_lemma) /\ Undef(x) /\ ~inconsistent /\ TrailInv /\ False(y)
        /\ \A i \in 2 .. Len(m_lemma) : False(m_lemma[i])
    BY <1>0, LongLemma
  <1>2. x \in Lits /\ y \in Lits /\ x # y /\ m_lemma = <<x, y>> /\ Range(m_lemma) = {x, y}
    <2>1. /\ m_lemma \in Seq(Lits) /\ x # y /\ Range(m_lemma) = {m_lemma[i] : i \in 1 .. 2}
      BY <1>1, ClauseFacts DEF GoodClause
    <2>2. x \in Lits /\ y \in Lits /\ m_lemma = <<x, y>>
      BY <2>1
    <2>3. Range(m_lemma) = {x, y}
      <3>1. 1 .. 2 = {1, 2}
        OBVIOUS
      <3> QED BY <2>1, <3>1
    <2> QED BY <2>1, <2>2, <2>3
  <1>3. TrailOK(m_trail, m_justification) /\ ScopesOK(m_trail, m_justification, m_scopes)
    BY <1>1 DEF TrailInv
  <1>4. \/ assign(x, None(0)) /\ IsBinary(x, -y) /\ UNCHANGED <<clauses, learned>>
        \/ assign(y, None(0)) /\ IsBinary(y, -x) /\ UNCHANGED <<clauses, learned>>
        \/ /\ propagate_bin_clause(x, y)
           /\ \/ UNCHANGED <<clauses, learned>>
              \/ Attach(m_lemma) /\ learned' = learned \cup {FreeId}
    <2>1. \/ assign(x, None(0)) /\ IsBinary(x, -y) /\ UNCHANGED <<clauses, learned>>
          \/ assign(y, None(0)) /\ IsBinary(y, -x) /\ UNCHANGED <<clauses, learned>>
          \/ /\ propagate_bin_clause(x, y)
             /\ \/ UNCHANGED <<clauses, learned>>
                \/ Attach(<<x, y>>) /\ learned' = learned \cup {FreeId}
      BY DEF mk_bin_lemma
    <2> HIDE DEF x, y
    <2> QED BY <1>2, <2>1
  <1> HIDE DEF x, y
  <1>7. ASSUME /\ propagate_bin_clause(x, y)
               /\ \/ UNCHANGED <<clauses, learned>>
                  \/ Attach(m_lemma) /\ learned' = learned \cup {FreeId}
        PROVE  Asserted(m_lemma)
    <2>1. ~False(x)
      BY <1>1, <1>2, <1>3, ValuesAre
    <2>2. assign(x, js)
      BY <1>1, <1>7, <2>1 DEF propagate_bin_clause
    <2>3. assign_core(x, js)
      BY <1>1, <1>2, <1>3, <2>2, AssignUndef
    <2>4. ReasonFor(m_lemma, js, 0)
      <3>1. var(y) \in Assigned
        BY <1>1, <1>2, <1>3, ValuesAre
      <3>2. Highest({y}) = lvl(y)
        <4>1. {y} \subseteq Lits /\ {y} # {} /\ \A l \in {y} : var(l) \in Assigned
          BY <1>2, <3>1
        <4>2. \E l \in {y} : lvl(l) = Highest({y})
          BY <1>3, <4>1, HighestIs
        <4> QED BY <4>2
      <3>3. Range(m_lemma) \ {x} = {y}
        BY <1>2
      <3>4. m_lemma[1] = x /\ ~ (Len(m_lemma) > 3)
        BY DEF x
      <3> QED BY <3>2, <3>3, <3>4 DEF ReasonFor
    <2>7. js.lits \in {{}, Range(m_lemma) \ {m_lemma[1]}}
      <3>1. js.lits = {y} /\ Range(m_lemma) \ {x} = {y}
        BY <1>2 DEF Just
      <3> QED BY <3>1 DEF x
    <2> HIDE DEF js
    <2>5. \E j : Asserts(m_lemma, js, j)
      BY <1>1, <2>4, AssertsIs DEF x
    <2>6. assign_core(m_lemma[1], js)
      BY <2>3 DEF x
    <2> QED BY <1>7, <2>5, <2>6, <2>7 DEF Asserted
  <1> QED BY <1>2, <1>4, <1>7 DEF x, y

\* What a lemma of three literals does.
LEMMA LearnTerIs ==
  ASSUME SearchInv, Learn, Len(m_lemma) = 3, mk_ter_lemma(m_lemma)
  PROVE  Asserted(m_lemma)
  <1> DEFINE x    == m_lemma[1]
             open == {i \in 1 .. 3 : ~False(m_lemma[i])}
             S    == Range(m_lemma) \ {x}
             js   == Just(Highest(S), 0, S)
  <1>0. Len(m_lemma) >= 2
    OBVIOUS
  <1>1. /\ GoodClause(m_lemma) /\ Undef(x) /\ ~inconsistent /\ TrailInv /\ ~at_base_lvl
        /\ \A i \in 2 .. Len(m_lemma) : False(m_lemma[i])
    BY <1>0, LongLemma
  <1>2. x \in Lits /\ TrailOK(m_trail, m_justification)
    <2>1. 1 \in 1 .. Len(m_lemma)
      OBVIOUS
    <2> QED BY <1>1, <2>1, ClauseFacts DEF TrailInv
  <1>3. ~False(x)
    BY <1>1, <1>2, ValuesAre
  <1>4. open = {1}
    <2>1. False(m_lemma[2]) /\ False(m_lemma[3])
      BY <1>1
    <2>2. 1 .. 3 = {1, 2, 3}
      OBVIOUS
    <2> QED BY <1>3, <2>1, <2>2
  <1>5. Min(open) = 1 /\ ~ (Cardinality(open) > 1)
    <2>1. Min({1}) = 1
      <3>1. {1} \subseteq Nat /\ {1} # {}
        OBVIOUS
      <3>2. Min({1}) \in {1}
        BY <3>1, MinIs
      <3> QED BY <3>2
    <2>2. Cardinality({1}) = 1
      BY FS_Singleton
    <2> QED BY <1>4, <2>1, <2>2
  <1> DEFINE i == IF open = {} THEN 1 ELSE Min(open)
  <1>6. /\ Attach(m_lemma) /\ learned' = learned \cup {FreeId}
        /\ IF at_base_lvl \/ Cardinality(open) > 1 THEN Keep3
           ELSE assign(m_lemma[i], Just(Highest(Range(m_lemma) \ {m_lemma[i]}), 0, Range(m_lemma) \ {m_lemma[i]}))
    BY DEF mk_ter_lemma
  <1>7. i = 1
    BY <1>5
  <1> HIDE DEF i, open
  <1>8. assign(x, js)
    BY <1>1, <1>5, <1>6, <1>7
  <1>12. js.lits \in {{}, Range(m_lemma) \ {m_lemma[1]}}
    BY DEF Just
  <1> HIDE DEF js
  <1>9. assign_core(x, js)
    BY <1>1, <1>2, <1>8, AssignUndef
  <1>10. ReasonFor(m_lemma, js, 0)
    BY DEF ReasonFor, js
  <1>11. \E j : Asserts(m_lemma, js, j)
    BY <1>1, <1>10, AssertsIs
  <1> QED BY <1>6, <1>9, <1>11, <1>12 DEF Asserted

\* What a longer lemma does.
LEMMA LearnNaryIs ==
  ASSUME SearchInv, Learn, Len(m_lemma) > 3, mk_nary_lemma(m_lemma)
  PROVE  \E e : Asserted(e)
  <1> DEFINE c  == m_lemma
             m  == MaxIndex(c, 2 .. Len(c))
             d  == Swap(c, 2, m)
             js == Just(Highest(Range(d) \ {d[1]}), FreeId, {})
  <1>0. /\ Len(m_lemma) >= 2
    <2>1. LemmaAt(m_lemma, m_trail, m_justification)
      BY LearnIs
    <2>2. Len(m_lemma) \in Nat
      BY <2>1 DEF LemmaAt
    <2> QED BY <2>2
  <1>1. /\ GoodClause(c) /\ Undef(c[1]) /\ ~inconsistent /\ TrailInv /\ ~at_base_lvl
        /\ \A i \in 2 .. Len(c) : False(c[i])
        /\ ClausesOK(clauses) /\ Len(c) \in Nat
        /\ \A i \in 1 .. Len(c) : c[i] \in Lits
    BY <1>0, LongLemma
  <1>2. /\ Attach(d) /\ learned' = learned \cup {FreeId}
        /\ IF False(d[1]) THEN assign(d[2], Just(Highest(Range(d) \ {d[2]}), FreeId, {}))
           ELSE IF False(d[2]) THEN assign(d[1], js) ELSE Keep3
    BY <1>1 DEF mk_nary_lemma
  <1>3. TrailOK(m_trail, m_justification) /\ ScopesOK(m_trail, m_justification, m_scopes)
    BY <1>1 DEF TrailInv
  <1>l. Len(c) > 3
    OBVIOUS
  <1> HIDE DEF c
  <1>4. \A i \in 2 .. Len(c) : c[i] \in Lits /\ var(c[i]) \in Assigned
    <2> TAKE i \in 2 .. Len(c)
    <2>1. i \in 1 .. Len(c)
      BY <1>1
    <2>2. c[i] \in Lits /\ False(c[i])
      BY <1>1, <2>1
    <2> QED BY <1>3, <2>2, ValuesAre
  <1>5. m \in 2 .. Len(c) /\ \A k \in 2 .. Len(c) : lvl(c[k]) <= lvl(c[m])
    <2>1. 2 .. Len(c) \subseteq Nat /\ 2 .. Len(c) # {}
      <3>1. 2 \in 2 .. Len(c)
        BY <1>1, <1>l
      <3> QED BY <1>1, <3>1
    <2> QED BY <1>3, <1>4, <2>1, MaxIndexIs
  <1> HIDE DEF m
  <1>6. /\ 1 \in 1 .. Len(c) /\ 2 \in 1 .. Len(c) /\ m \in 1 .. Len(c) /\ 1 # 2 /\ 1 # m
        /\ \A i \in 2 .. Len(c) : i \in 1 .. Len(c)
    BY <1>1, <1>5, <1>l
  <1>7. /\ GoodClause(d) /\ Range(d) = Range(c) /\ Len(d) = Len(c) /\ d[2] = c[m] /\ d[m] = c[2]
        /\ \A k \in 1 .. Len(c) : k # 2 /\ k # m => d[k] = c[k]
    BY <1>1, <1>6, SwapIs
  <1> HIDE DEF d
  <1>8. d[1] = c[1]
    BY <1>6, <1>7
  <1>9. \A i \in 2 .. Len(d) : False(d[i]) /\ lvl(d[i]) <= lvl(d[2])
    <2> SUFFICES ASSUME NEW i \in 2 .. Len(d) PROVE \E k \in 2 .. Len(c) : d[i] = c[k]
      BY <1>1, <1>5, <1>7
    <2>1. i \in 2 .. Len(c) /\ i \in 1 .. Len(c) /\ 2 \in 2 .. Len(c)
      BY <1>1, <1>6, <1>7, <1>l
    <2> QED BY <1>5, <1>7, <2>1
  <1>10. assign_core(d[1], js) /\ Undef(d[1]) /\ d[1] \in Lits
    <2>1. Undef(d[1]) /\ d[1] \in Lits
      BY <1>1, <1>6, <1>8
    <2>2. ~False(d[1]) /\ False(d[2])
      <3>1. 2 \in 2 .. Len(d)
        BY <1>1, <1>7, <1>l
      <3> QED BY <1>3, <1>9, <2>1, <3>1, ValuesAre
    <2>3. assign(d[1], js)
      BY <1>2, <2>2
    <2> HIDE DEF js
    <2> QED BY <1>3, <2>1, <2>3, AssignUndef
  <1> DEFINE id == FreeId
  <1>11. id \notin DOMAIN clauses /\ id \in Nat \ {0}
    BY <1>1, FreeIdIs
  <1>12. id \in DOMAIN clauses' /\ clauses'[id] = d
    BY <1>2 DEF Attach
  <1>13. ReasonFor(d, js, id)
    <2>1. js = Just(Highest(Range(d) \ {d[1]}), id, IF id = 0 THEN Range(d) \ {d[1]} ELSE {})
      BY <1>11
    <2>2. Len(d) > 3
      BY <1>7, <1>l
    <2> HIDE DEF js, id
    <2> QED BY <1>9, <1>11, <1>12, <2>1, <2>2 DEF ReasonFor
  <1>14. \E j : Asserts(d, js, j)
    <2>1. id \in Nat
      BY <1>11
    <2>2. \A i \in 2 .. Len(d) : False(d[i])
      BY <1>9
    <2> HIDE DEF js, id
    <2> QED BY <1>1, <1>7, <1>10, <1>13, <2>1, <2>2, AssertsIs
  <1>15. js.lits \in {{}, Range(d) \ {d[1]}}
    BY DEF Just
  <1> HIDE DEF js, id
  <1>16. Asserted(d)
    BY <1>2, <1>7, <1>10, <1>14, <1>15 DEF Asserted, c
  <1> QED BY <1>16

\* A lemma is a unit, or resolved with a clause to a unit, or asserts its first literal.
LEMMA LearnCases ==
  ASSUME SearchInv, Learn
  PROVE  \/ /\ UNCHANGED <<clauses, learned>>
            /\ \/ Len(m_lemma) = 1 /\ m_lemma[1] \in Lits /\ assign(m_lemma[1], None(0))
               \/ \E l, k \in Lits : /\ Range(m_lemma) = {l, k} /\ assign(l, None(0)) /\ IsBinary(l, -k)
         \/ ~inconsistent /\ \E e : Asserted(e)
  <1>1. mk_clause_core(m_lemma)
    BY DEF Learn
  <1>2. LemmaAt(m_lemma, m_trail, m_justification) /\ (Len(m_lemma) > 1 => ~inconsistent)
    BY LearnIs
  <1>3. m_lemma \in Seq(Lits) /\ Len(m_lemma) \in Nat
    BY <1>2 DEF LemmaAt
  <1>4. CASE Len(m_lemma) = 1 /\ assign(m_lemma[1], None(0)) /\ UNCHANGED <<clauses, learned>>
    <2>1. m_lemma[1] \in Lits
      BY <1>3, <1>4
    <2> QED BY <1>4, <2>1
  <1>5. CASE Len(m_lemma) = 2 /\ mk_bin_lemma(m_lemma[1], m_lemma[2])
    <2>1. ~inconsistent
      BY <1>2, <1>5
    <2>2. /\ m_lemma[1] \in Lits /\ m_lemma[2] \in Lits /\ Range(m_lemma) = {m_lemma[1], m_lemma[2]}
          /\ \/ /\ UNCHANGED <<clauses, learned>>
                /\ \/ assign(m_lemma[1], None(0)) /\ IsBinary(m_lemma[1], -m_lemma[2])
                   \/ assign(m_lemma[2], None(0)) /\ IsBinary(m_lemma[2], -m_lemma[1])
             \/ Asserted(m_lemma)
      BY <1>5, LearnBinIs
    <2>3. Range(m_lemma) = {m_lemma[2], m_lemma[1]}
      BY <2>2
    <2> QED BY <2>1, <2>2, <2>3
  <1>6. CASE Len(m_lemma) = 3 /\ mk_ter_lemma(m_lemma)
    <2>1. ~inconsistent
      BY <1>2, <1>6
    <2> QED BY <1>6, <2>1, LearnTerIs
  <1>7. CASE Len(m_lemma) > 3 /\ mk_nary_lemma(m_lemma)
    <2>1. ~inconsistent
      BY <1>2, <1>3, <1>7
    <2> QED BY <1>7, <2>1, LearnNaryIs
  <1> QED BY <1>1, <1>4, <1>5, <1>6, <1>7 DEF mk_clause_core

\* A lemma of any length.
LEMMA LearnInv ==
  ASSUME SearchInv, Learn
  PROVE  SearchInv' /\ (PropInv => PropInv')
  <1>1. CASE UNCHANGED <<clauses, learned>> /\ \E l \in Lits : assign(l, None(0))
    BY <1>1, LearnUnitInv
  <1>2. CASE ~inconsistent /\ \E e : Asserted(e)
    <2>1. PICK e, js, j : /\ assign_core(e[1], js) /\ Asserts(e, js, j)
                          /\ \/ UNCHANGED <<clauses, learned>>
                             \/ Attach(e) /\ learned' = learned \cup {FreeId}
      BY <1>2 DEF Asserted
    <2> QED BY <1>2, <2>1, LearnClauseInv
  <1> QED BY <1>1, <1>2, LearnCases

-----------------------------------------------------------------------------
(***************************************************************************)
(* A clause is added between two checks.                                   *)
(***************************************************************************)
\* A clause is attached at an offset that is free.
LEMMA AttachIs ==
  ASSUME ClausesOK(clauses), NEW e, GoodClause(e), Attach(e)
  PROVE  /\ ClausesOK(clauses') /\ DOMAIN clauses' = DOMAIN clauses \cup {FreeId}
         /\ clauses'[FreeId] = e /\ \A i \in DOMAIN clauses : clauses'[i] = clauses[i]
  <1> DEFINE id == FreeId
  <1>1. id \notin DOMAIN clauses /\ id \in Nat \ {0}
    BY FreeIdIs
  <1>2. /\ DOMAIN clauses' = DOMAIN clauses \cup {id} /\ clauses'[id] = e
        /\ \A i \in DOMAIN clauses : clauses'[i] = clauses[i]
    BY <1>1 DEF Attach
  <1> HIDE DEF id
  <1>3. IsFiniteSet(DOMAIN clauses')
    BY <1>2, FS_AddElement DEF ClausesOK
  <1>4. ClausesOK(clauses')
    BY <1>1, <1>2, <1>3 DEF ClausesOK
  <1> QED BY <1>2, <1>4 DEF id

\* A clause is asserted at the base level.
LEMMA mk_clauseInv ==
  ASSUME SearchInv, NEW c \in Extra, mk_clause(c)
  PROVE  SearchInv' /\ (PropInv => PropInv')
  <1> DEFINE all  == c \cup ScopeLits
             open == {l \in all : Undef(l)}
  <1>1. /\ pc = "idle" /\ pc' = pc /\ scope_lvl = 0 /\ result' = "none"
        /\ UNCHANGED <<learned, m_scopes, m_qhead, todo, user, goal, m_lemma, m_core>>
        /\ \/ Keep3 /\ UNCHANGED clauses
           \/ set_conflict(0, None(0)) /\ UNCHANGED clauses
           \/ UNCHANGED clauses /\ \E l \in open : assign_core(l, None(0))
           \/ Cardinality(open) > 1 /\ Attach(Sorted(open)) /\ Keep3
    BY DEF mk_clause, at_base_lvl
  <1>2. /\ TrailInv /\ ReasonInv /\ DecideInv /\ QueueInv /\ ClausesOK(clauses) /\ learned \subseteq DOMAIN clauses
        /\ UserInv /\ LemmaInv
    BY DEF SearchInv, StoreInv
  <1>3. /\ m_scopes' = m_scopes /\ m_qhead' = m_qhead /\ todo' = todo /\ learned' = learned
        /\ m_assumptions' = m_assumptions /\ m_user_scope_literals' = m_user_scope_literals
        /\ toassume' = toassume /\ nvars' = nvars /\ m_lemma' = m_lemma /\ m_core' = m_core
    BY <1>1 DEF user, goal
  <1>4. /\ search_lvl' = search_lvl /\ scope_lvl' = scope_lvl /\ todo = {}
        /\ \A id : Done(id) = m_qhead /\ Done(id)' = m_qhead
    <2>1. todo = {}
      BY <1>1, <1>2 DEF QueueInv, Propagating
    <2> QED BY <1>3, <2>1 DEF search_lvl, scope_lvl, tracking_assumptions, Done
  <1>5. open \subseteq Lits /\ IsFiniteSet(open) /\ \A l \in open : Undef(l)
    <2>1. c \subseteq Lits
      BY SatSolverAssumption, LitsAre
    <2>2. ScopeLits \subseteq Lits
      <3>1. ScopeLits \subseteq Vars
        BY <1>2, NegScopesAre
      <3> QED BY <3>1 DEF Lits
    <2>3. open \subseteq Lits
      BY <2>1, <2>2
    <2> QED BY <2>3, LitsFinite
  <1> HIDE DEF open
  <1>6. LemmaInv' /\ PhaseInv' /\ UserInv'
    <2>1. ~Pending /\ ~Pending' /\ m_lemma = <<>>
      BY <1>1, <1>2 DEF Pending, LemmaInv
    <2> QED BY <1>1, <1>2, <1>3, <2>1 DEF LemmaInv, PhaseInv, UserInv
  <1>7. ASSUME ClausesOK(clauses'), DOMAIN clauses \subseteq DOMAIN clauses', TrailInv', ReasonInv', DecideInv', Grown
        PROVE  SearchInv'
    <2>1. StoreInv'
      BY <1>2, <1>3, <1>7 DEF StoreInv
    <2>2. QueueInv'
      <3>1. m_qhead' \in 0 .. Len(m_trail')
        BY <1>2, <1>3, <1>7 DEF QueueInv, Grown
      <3> QED BY <1>3, <1>4, <3>1 DEF QueueInv
    <2>3. ConflictInv'
      BY <1>1 DEF ConflictInv
    <2> QED BY <1>6, <1>7, <2>1, <2>2, <2>3 DEF SearchInv
  <1>8. \A n \in 0 .. scope_lvl' - 1 : FALSE
    BY <1>1, <1>4
  <1>9. CASE UNCHANGED <<clauses, m_trail, m_justification>>
               /\ (inconsistent' \/ m_conflict' = m_conflict)
    <2>1. TrailInv' /\ ReasonInv' /\ DecideInv' /\ Grown
      <3>1. Grown
        BY <1>2, <1>9, GrownIs
      <3> QED BY <1>2, <1>3, <1>4, <1>9, <3>1 DEF TrailInv, ReasonInv, DecideInv
    <2>2. SearchInv'
      BY <1>2, <1>7, <1>9, <2>1
    <2>3. ~inconsistent' => ~inconsistent
      BY <1>9 DEF inconsistent
    <2>4. PropInv => PropInv'
      BY <1>3, <1>4, <1>9, <2>3 DEF PropInv
    <2> QED BY <2>2, <2>4
  <1>10. ASSUME UNCHANGED clauses, NEW l \in open, assign_core(l, None(0))
         PROVE  SearchInv' /\ (PropInv => PropInv')
    <2>1. l \in Lits /\ Undef(l)
      BY <1>5
    <2>2. None(0) \in Justs /\ None(0).lvl = 0 /\ GoodReason(clauses', m_trail, m_justification, l, None(0))
      BY NoneGood, JustsAre
    <2>3. /\ None(0).lvl <= Len(m_scopes) /\ search_lvl <= search_lvl' /\ search_lvl' \in Nat
          /\ None(0).lvl <= search_lvl'
      <3>1. scope_lvl = Len(m_scopes)
        BY DEF scope_lvl
      <3> QED BY <1>1, <1>4, <2>2, <3>1, SearchLvl
    <2>4. TrailInv' /\ ReasonInv' /\ DecideInv'
      <3>1. ReasonsOK(clauses', m_trail, m_justification)
        BY <1>2, <1>10 DEF ReasonInv
      <3> QED BY <1>2, <1>3, <1>10, <2>1, <2>2, <2>3, <3>1, GrowInv
    <2>5. Grown
      BY <1>2, <1>10, <2>1, <2>2, <2>3, GrownIs
    <2>6. SearchInv'
      BY <1>2, <1>7, <1>10, <2>4, <2>5
    <2>7. inconsistent' <=> inconsistent
      BY <1>10 DEF assign_core, inconsistent
    <2>8. ASSUME PropInv PROVE PropInv'
      <3>1. \A id \in DOMAIN clauses :
              ~inconsistent => Settled(clauses[id], m_trail', m_justification', scope_lvl, Done(id))
        BY <1>2, <1>3, <1>10, <2>1, <2>2, <2>8, GrowProp
      <3> QED BY <1>4, <1>8, <1>10, <2>7, <3>1 DEF PropInv
    <2> QED BY <2>6, <2>8
  <1>11. CASE Cardinality(open) > 1 /\ Attach(Sorted(open)) /\ Keep3
    <2> DEFINE e  == Sorted(open)
               id == FreeId
    <2>1. GoodClause(e) /\ Range(e) = open
      BY <1>5, <1>11, SortedGood
    <2>3. Attach(e)
      BY <1>11
    <2> HIDE DEF id, e
    <2>4. /\ ClausesOK(clauses') /\ DOMAIN clauses' = DOMAIN clauses \cup {id}
          /\ clauses'[id] = e /\ \A i \in DOMAIN clauses : clauses'[i] = clauses[i]
      BY <1>2, <2>1, <2>3, AttachIs DEF id
    <2>5. UNCHANGED <<m_trail, m_justification>> /\ m_conflict' = m_conflict
      BY <1>11 DEF Keep3
    <2>6. TrailInv' /\ DecideInv' /\ Grown
      <3>1. Grown
        BY <1>2, <2>5, GrownIs
      <3> QED BY <1>2, <1>3, <1>4, <2>5, <3>1 DEF TrailInv, DecideInv
    <2>7. ReasonInv'
      <3>1. TrailOK(m_trail, m_justification) /\ ScopesOK(m_trail, m_justification, m_scopes) /\ Len(m_scopes) = 0
        BY <1>1, <1>2 DEF TrailInv, scope_lvl
      <3>2. ReasonsOK(clauses', m_trail, m_justification)
        BY <3>1, AtBase
      <3> QED BY <2>5, <3>2 DEF ReasonInv
    <2>8. SearchInv'
      BY <1>7, <2>4, <2>6, <2>7
    <2>9. ASSUME PropInv PROVE PropInv'
      <3>1. Settled(e, m_trail, m_justification, scope_lvl, m_qhead)
        <4>1. \A i \in 1 .. 2 : e[i] \in open
          <5>1. \A i \in 1 .. Len(e) : e[i] \in Range(e)
            BY <2>1, ClauseFacts
          <5>2. \A i \in 1 .. 2 : i \in 1 .. Len(e)
            BY <2>1, ClauseFacts
          <5> QED BY <2>1, <5>1, <5>2
        <4>2. e[1] \in Lits /\ e[2] \in Lits /\ Undef(e[1]) /\ Undef(e[2])
          BY <1>5, <4>1
        <4>3. ~False(e[1]) /\ ~False(e[2])
          BY <1>2, <4>2, ValuesAre DEF TrailInv
        <4>4. m_qhead \in 0 .. Len(m_trail)
          BY <1>2 DEF QueueInv
        <4>5. \A p \in 1 .. m_qhead : m_trail[p] # -e[1]
          BY <1>2, <4>3, <4>4, NotFalse
        <4>6. \A p \in 1 .. m_qhead : m_trail[p] # -e[2]
          BY <1>2, <4>3, <4>4, NotFalse
        <4> QED BY <2>1, <4>5, <4>6, WatchesSettle
      <3>2. ~inconsistent' => ~inconsistent
        BY <2>5 DEF inconsistent
      <3>3. ASSUME NEW i \in DOMAIN clauses', ~inconsistent'
            PROVE  Settled(clauses'[i], m_trail, m_justification, scope_lvl, m_qhead)
        <4>1. CASE i = id
          BY <2>4, <3>1, <4>1
        <4>2. CASE i \in DOMAIN clauses
          BY <1>4, <2>4, <2>9, <3>2, <3>3, <4>2 DEF PropInv
        <4> QED BY <2>4, <4>1, <4>2
      <3> QED BY <1>4, <1>8, <2>5, <3>3 DEF PropInv
    <2> QED BY <2>8, <2>9
  <1>12. CASE Keep3 /\ UNCHANGED clauses
    BY <1>9, <1>12 DEF Keep3
  <1>13. CASE set_conflict(0, None(0)) /\ UNCHANGED clauses
    <2>1. UNCHANGED <<clauses, m_trail, m_justification>>
          /\ m_conflict' = IF inconsistent THEN m_conflict ELSE [not_l |-> 0, js |-> None(0)]
      BY <1>13 DEF set_conflict
    <2>2. [not_l |-> 0, js |-> None(0)] # NoConflict
      <3>1. None(0).lvl = 0 /\ None(-1).lvl = -1
        BY DEF None, Just
      <3>2. None(0) # None(-1)
        BY <3>1
      <3> QED BY <3>2 DEF NoConflict
    <2>3. inconsistent'
      BY <2>1, <2>2 DEF inconsistent, NoConflict
    <2> QED BY <1>9, <2>1, <2>3
  <1> QED BY <1>1, <1>10, <1>11, <1>12, <1>13

-----------------------------------------------------------------------------
(***************************************************************************)
(* The invariant holds.                                                    *)
(***************************************************************************)
\* The invariant holds of every formula at the start.
LEMMA InitInv ==
  ASSUME Init
  PROVE  SearchInv /\ PropInv
  <1>1. PICK f \in Formulas :
          /\ clauses = [i \in DOMAIN f.clauses |-> Sorted(f.clauses[i])]
          /\ learned = {}
          /\ m_trail = <<>> /\ m_justification = <<>> /\ m_scopes = <<>>
          /\ m_qhead = 0 /\ todo = {} /\ m_conflict = NoConflict
          /\ nvars = NumVars /\ m_user_scope_literals = <<>>
          /\ m_assumptions = <<>> /\ toassume = <<>>
          /\ m_lemma = <<>> /\ m_core = {}
          /\ pc = "idle" /\ result = "none"
    BY DEF Init
  <1>2. f.clauses \in Seq(SUBSET Problem) /\ \A i \in DOMAIN f.clauses : Cardinality(f.clauses[i]) > 1
    BY SatSolverAssumption
  <1>3. /\ DOMAIN clauses = 1 .. Len(f.clauses) /\ Len(f.clauses) \in Nat
        /\ \A i \in DOMAIN clauses : clauses[i] = Sorted(f.clauses[i]) /\ i \in DOMAIN f.clauses
    BY <1>1, <1>2
  <1>4. ClausesOK(clauses)
    <2>1. ASSUME NEW i \in DOMAIN clauses PROVE GoodClause(clauses[i])
      <3>1. f.clauses[i] \subseteq Problem /\ Cardinality(f.clauses[i]) > 1
        BY <1>2, <1>3
      <3>2. f.clauses[i] \subseteq Lits /\ IsFiniteSet(f.clauses[i])
        BY <3>1, LitsAre, LitsFinite
      <3>3. GoodClause(Sorted(f.clauses[i]))
        BY <3>1, <3>2, SortedGood
      <3> QED BY <1>3, <3>3
    <2>2. IsFiniteSet(DOMAIN clauses) /\ DOMAIN clauses \subseteq Nat \ {0}
      <3>1. IsFiniteSet(1 .. Len(f.clauses))
        BY <1>3, FS_Interval
      <3>2. 1 .. Len(f.clauses) \subseteq Nat \ {0}
        BY <1>3
      <3> QED BY <1>3, <3>1, <3>2
    <2> QED BY <2>1, <2>2 DEF ClausesOK
  <1>5. /\ Len(m_trail) = 0 /\ Len(m_scopes) = 0 /\ scope_lvl = 0 /\ m_scopes \in Seq(Nat)
        /\ \A i \in 1 .. Len(m_trail) : FALSE
    BY <1>1 DEF scope_lvl
  <1>6. TrailOK(m_trail, m_justification)
    <2>1. m_trail \in Seq(Lits)
      BY <1>1
    <2>2. m_justification = [v \in {var(m_trail[i]) : i \in 1 .. Len(m_trail)} |-> m_justification[v]]
      <3>1. {var(m_trail[i]) : i \in 1 .. Len(m_trail)} = {}
        BY <1>5
      <3>2. m_justification = [v \in {} |-> m_justification[v]]
        BY <1>1
      <3> QED BY <3>1, <3>2
    <2> QED BY <1>5, <2>1, <2>2 DEF TrailOK
  <1>7. TrailInv
    <2>1. \A k \in 1 .. Len(m_scopes) : FALSE
      BY <1>5
    <2> QED BY <1>5, <1>6, <2>1 DEF TrailInv, ScopesOK
  <1>8. ReasonInv /\ DecideInv /\ StoreInv
    BY <1>1, <1>4, <1>5 DEF ReasonInv, DecideInv, StoreInv, ReasonsOK, DecidedOK
  <1>9. QueueInv /\ ConflictInv /\ LemmaInv /\ PhaseInv
    <2>1. QueueInv
      BY <1>1, <1>5 DEF QueueInv
    <2>2. ConflictInv /\ LemmaInv /\ PhaseInv
      BY <1>1 DEF ConflictInv, LemmaInv, PhaseInv, Pending
    <2> QED BY <2>1, <2>2
  <1>10. UserInv
    <2>1. nvars \in NumVars .. NumVars + MaxPushes
      BY <1>1, SatSolverAssumption
    <2> QED BY <1>1, <2>1 DEF UserInv
  <1>11. PropInv
    <2>1. ASSUME NEW id \in DOMAIN clauses
          PROVE  /\ \A n \in 0 .. scope_lvl - 1 :
                      Settled(clauses[id], m_trail, m_justification, n, m_scopes[n + 1])
                 /\ Settled(clauses[id], m_trail, m_justification, scope_lvl, Done(id))
      <3>1. Done(id) = 0
        BY <1>1 DEF Done
      <3>2. GoodClause(clauses[id])
        BY <1>4 DEF ClausesOK
      <3>3. Settled(clauses[id], m_trail, m_justification, scope_lvl, 0)
        BY <3>2, SettledAtStart
      <3>4. \A n \in 0 .. scope_lvl - 1 : FALSE
        BY <1>5
      <3> QED BY <3>1, <3>3, <3>4
    <2> QED BY <2>1 DEF PropInv
  <1> QED BY <1>7, <1>8, <1>9, <1>10, <1>11 DEF SearchInv

\* And in a step that changes nothing.
LEMMA StutterInv ==
  ASSUME SearchInv, UNCHANGED vars
  PROVE  SearchInv' /\ (PropInv => PropInv')
  <1>1. UNCHANGED <<store, search, user, m_assumptions>>
        /\ pc' = pc /\ m_lemma' = m_lemma /\ toassume' = toassume /\ m_core' = m_core /\ result' = result
    BY DEF vars, goal
  <1>2. /\ m_trail' = m_trail /\ m_justification' = m_justification /\ m_scopes' = m_scopes
        /\ m_conflict' = m_conflict /\ m_assumptions' = m_assumptions
        /\ m_user_scope_literals' = m_user_scope_literals /\ nvars' = nvars
    BY <1>1 DEF search, user
  <1>3. LemmaInv' /\ PhaseInv' /\ UserInv' /\ (Propagating' <=> Propagating)
    BY <1>1, <1>2 DEF SearchInv, LemmaInv, PhaseInv, UserInv, Pending, tracking_assumptions, inconsistent,
                      scope_lvl, Propagating
  <1> QED BY <1>1, <1>3, QuietStep

\* Every step of the solver and of its user keeps it.
LEMMA NextInv ==
  ASSUME SearchInv, [Next]_vars
  PROVE  SearchInv' /\ (PropInv => PropInv')
  <1>1. CASE Search
    <2>1. CASE Dequeue
      BY <2>1, DequeueInv, DequeueProp
    <2>2. ASSUME NEW id \in todo, VisitShort(id) \/ VisitLong(id)
          PROVE  SearchInv' /\ (PropInv => PropInv')
      BY <2>2, VisitShortInv, VisitLongInv
    <2>3. CASE init_assumptions \/ reinit_assumptions
      BY <2>3, OpenInv
    <2>4. CASE Assume
      BY <2>4, AssumeInv, AssumeProp
    <2>5. CASE Assumed \/ Propagated
      BY <2>5, AssumedInv, PropagatedInv
    <2>6. CASE BaseConflict \/ final_check \/ Cancel \/ ConflictIsFinal
      BY <2>6, EndsInv
    <2>7. CASE decide
      BY <2>7, decideInv
    <2>8. CASE do_restart \/ Backtrack
      BY <2>8, ClosedInv
    <2>9. CASE do_gc
      BY <2>9, do_gcInv
    <2>10. CASE learn_lemma_and_backjump
      BY <2>10, BackjumpInv
    <2>11. CASE Learn
      BY <2>11, LearnInv
    <2> QED BY <1>1, <2>1, <2>2, <2>3, <2>4, <2>5, <2>6, <2>7, <2>8, <2>9, <2>10, <2>11 DEF Search
  <1>2. CASE User
    <2>1. ASSUME NEW lits \in Assumptions, check(lits) PROVE SearchInv' /\ (PropInv => PropInv')
      BY <2>1, checkInv
    <2>2. ASSUME NEW c \in Extra, mk_clause(c) PROVE SearchInv' /\ (PropInv => PropInv')
      BY <2>2, mk_clauseInv
    <2>3. CASE BackToBase \/ user_push
      BY <2>3, IdleInv
    <2>4. CASE user_pop
      BY <2>4, user_popInv
    <2> QED BY <1>2, <2>1, <2>2, <2>3, <2>4 DEF User
  <1>3. CASE UNCHANGED vars
    BY <1>3, StutterInv
  <1> QED BY <1>1, <1>2, <1>3 DEF Next

\* The invariant of the search, for every formula and every number of variables,
\* scopes, restarts and deletions: reasons, levels and queue are in order, and
\* every clause is settled at every level (propagate, unassign_vars, do_gc).
THEOREM SearchInvariance == Spec => [](SearchInv /\ PropInv)
  <1>1. Init => SearchInv /\ PropInv
    BY InitInv
  <1>2. SearchInv /\ PropInv /\ [Next]_vars => (SearchInv /\ PropInv)'
    BY NextInv
  <1> QED BY <1>1, <1>2, PTL DEF Spec

\* What the invariant says of types.
LEMMA TypesHold ==
  ASSUME SearchInv
  PROVE  TypeOK
  <1>1. ClausesOK(clauses) /\ learned \subseteq DOMAIN clauses /\ TrailInv /\ QueueInv /\ UserInv
    BY DEF SearchInv, StoreInv
  <1>2. TrailOK(m_trail, m_justification) /\ ScopesOK(m_trail, m_justification, m_scopes)
    BY <1>1 DEF TrailInv
  <1>3. ASSUME NEW id \in DOMAIN clauses PROVE Len(clauses[id]) >= 2 /\ Range(clauses[id]) \subseteq Lits
    <2>1. GoodClause(clauses[id])
      BY <1>1 DEF ClausesOK
    <2> QED BY <2>1, ClauseFacts
  <1>4. /\ Range(m_trail) \subseteq Lits /\ Assigned = VarsOf(Range(m_trail))
        /\ DOMAIN m_justification = {var(m_trail[i]) : i \in 1 .. Len(m_trail)}
    BY <1>2, TrailFacts DEF Assigned
  <1>5. todo \subseteq DOMAIN clauses /\ m_qhead \in 0 .. Len(m_trail)
    BY <1>1 DEF QueueInv, watches
  <1>6. ASSUME NEW v \in Assigned PROVE m_justification[v].lvl \in 0 .. scope_lvl
    <2>1. PICK i \in 1 .. Len(m_trail) : v = var(m_trail[i])
      BY <1>4 DEF Assigned
    <2>2. LvlIn(m_justification, m_trail[i]) <= Len(m_scopes) /\ Len(m_scopes) \in Nat
      BY <1>2 DEF ScopesOK
    <2>3. LvlIn(m_justification, m_trail[i]) \in Nat
      BY <1>2, TrailFacts
    <2> QED BY <2>1, <2>2, <2>3 DEF LvlIn, scope_lvl
  <1>7. m_core \subseteq Lits /\ result \in {"none", "sat", "unsat", "undef"}
    BY <1>1 DEF UserInv
  <1> QED BY <1>1, <1>3, <1>4, <1>5, <1>6, <1>7 DEF TypeOK, ClausesOK

\* What the invariant says of reasons.
LEMMA ReasonsHold ==
  ASSUME SearchInv
  PROVE  ReasonsIntact
  <1>1. TrailInv /\ ReasonInv /\ TypeOK
    BY TypesHold DEF SearchInv
  <1>2. TrailOK(m_trail, m_justification) /\ ScopesOK(m_trail, m_justification, m_scopes)
    BY <1>1 DEF TrailInv
  <1>3. DOMAIN m_trail = 1 .. Len(m_trail) /\ Len(m_trail) \in Nat
        /\ Range(m_trail) = {m_trail[j] : j \in 1 .. Len(m_trail)}
    BY <1>2, TrailFacts
  <1>4. ASSUME NEW i \in DOMAIN m_trail, NEW l, l = m_trail[i], NEW js, js = m_justification[var(l)],
               js # None(js.lvl)
        PROVE  /\ js.cls # 0 => js.cls \in DOMAIN clauses /\ l \in {clauses[js.cls][1], clauses[js.cls][2]}
               /\ js.lvl = Highest(Reason(js, l))
               /\ \A k \in Reason(js, l) : \E j \in 1 .. i - 1 : m_trail[j] = -k
    <2> DEFINE S == Reason(js, l)
    <2>1. /\ js.cls # 0 => js.cls \in DOMAIN clauses /\ clauses[js.cls][1] = l
          /\ \A k \in S : k \in Lits /\ LvlIn(m_justification, k) <= js.lvl /\ \E j \in 1 .. i - 1 : m_trail[j] = -k
          /\ \E k \in S : LvlIn(m_justification, k) = js.lvl
      <3>1. ReasonAt(clauses, m_trail, m_justification, i)
        BY <1>1, <1>3 DEF ReasonInv, ReasonsOK
      <3>2. S = ReasonIn(clauses, js, l)
        BY ReasonIs
      <3> QED BY <1>4, <3>1, <3>2 DEF ReasonAt
    <2>2. js.lvl = Highest(S)
      <3>1. S \subseteq Lits /\ S # {} /\ \A k \in S : var(k) \in Assigned
        <4>1. ASSUME NEW k \in S PROVE k \in Lits /\ var(k) \in Assigned
          <5>1. PICK j \in 1 .. i - 1 : m_trail[j] = -k
            BY <2>1
          <5>2. j \in 1 .. Len(m_trail)
            BY <1>3
          <5>3. k \in Lits /\ -k \in Range(m_trail)
            BY <1>3, <2>1, <5>1, <5>2
          <5>4. False(k)
            BY <1>2, <5>3, ValuesAre
          <5> QED BY <1>2, <5>3, <5>4, ValuesAre
        <4> QED BY <2>1, <4>1
      <3> DEFINE h == Highest(S)
      <3>2. h \in Nat /\ (\A k \in S : lvl(k) <= h) /\ \E k \in S : lvl(k) = h
        <4> HIDE DEF S
        <4> QED BY <1>2, <3>1, HighestIs
      <3>3. (\A k \in S : lvl(k) <= js.lvl) /\ \E k \in S : lvl(k) = js.lvl
        BY <2>1, LvlIs
      <3> HIDE DEF h, S
      <3>4. h <= js.lvl /\ js.lvl <= h
        BY <3>2, <3>3
      <3>5. js.lvl \in Nat
        <4>1. PICK k \in S : lvl(k) = js.lvl
          BY <3>3
        <4> QED BY <1>2, <3>1, <4>1, LevelsAre
      <3>6. js.lvl = h
        BY <3>2, <3>4, <3>5
      <3> QED BY <3>6 DEF h
    <2> QED BY <2>1, <2>2
  <1> QED BY <1>1, <1>4 DEF ReasonsIntact

\* At a fixpoint a clause that is settled has a true literal or two free ones.
LEMMA PropagationHolds ==
  ASSUME SearchInv, PropInv
  PROVE  NoMissedPropagation
  <1> SUFFICES ASSUME Fixpoint, NEW id \in DOMAIN clauses
               PROVE  (\E l \in Range(clauses[id]) : True(l))
                        \/ Cardinality({l \in Range(clauses[id]) : Undef(l)}) > 1
    BY DEF NoMissedPropagation
  <1> DEFINE c == clauses[id]
             U == {l \in Range(c) : Undef(l)}
  <1>1. ~inconsistent /\ todo = {} /\ m_qhead = Len(m_trail)
    BY DEF Fixpoint
  <1>2. GoodClause(c) /\ TrailOK(m_trail, m_justification)
    BY DEF SearchInv, StoreInv, ClausesOK, TrailInv
  <1>3. Settled(c, m_trail, m_justification, scope_lvl, Len(m_trail))
    <2>1. Done(id) = Len(m_trail)
      BY <1>1 DEF Done
    <2> QED BY <1>1, <2>1 DEF PropInv
  <1> HIDE DEF c
  <1>4. /\ Len(c) \in Nat /\ \A i \in 1 .. Len(c) : c[i] \in Lits /\ c[i] \in Range(c)
        /\ IsFiniteSet(Range(c)) /\ \A i, j \in 1 .. Len(c) : c[i] = c[j] => i = j
    BY <1>2, ClauseFacts
  <1>5. Range(m_trail) = {m_trail[i] : i \in 1 .. Len(m_trail)}
    BY <1>2, TrailFacts
  <1>6. CASE \E i \in 1 .. Len(m_trail) : m_trail[i] \in Range(c)
    <2>1. PICK i \in 1 .. Len(m_trail) : m_trail[i] \in Range(c)
      BY <1>6
    <2>2. True(m_trail[i])
      BY <1>2, <1>5, ValuesAre
    <2> QED BY <2>1, <2>2 DEF c
  <1>7. ASSUME NEW i \in 1 .. Len(c), NEW j \in 1 .. Len(c), i # j,
               \A p \in 1 .. Len(m_trail) : m_trail[p] # -c[i] /\ m_trail[p] # -c[j],
               ~ \E p \in 1 .. Len(m_trail) : m_trail[p] \in Range(c)
        PROVE  Cardinality(U) > 1
    <2>1. /\ -c[i] \notin Range(m_trail) /\ -c[j] \notin Range(m_trail)
          /\ c[i] \notin Range(m_trail) /\ c[j] \notin Range(m_trail)
      BY <1>4, <1>5, <1>7
    <2>2. Undef(c[i]) /\ Undef(c[j])
      BY <1>2, <1>4, <2>1, ValuesAre
    <2>3. c[i] \in U /\ c[j] \in U /\ c[i] # c[j]
      BY <1>4, <1>7, <2>2
    <2>4. IsFiniteSet(U)
      BY <1>4, FS_Subset
    <2> HIDE DEF U
    <2> QED BY <2>3, <2>4, One
  <1> QED BY <1>3, <1>6, <1>7 DEF Settled, c

\* The reason of every literal is in the store, watched by the literal, of its
\* level, and false below it on the trail, in every run (resolve_conflict and
\* unsat_core follow reasons after backjumps, moved watches and deletions).
THEOREM ReasonsStayIntact == Spec => []ReasonsIntact
  <1>1. SearchInv /\ PropInv => ReasonsIntact
    BY ReasonsHold
  <1> QED BY <1>1, SearchInvariance, PTL

\* When propagate returns without a conflict, no clause is false or unit, also
\* after literals were put back on the trail by unassign_vars.
THEOREM PropagationComplete == Spec => []NoMissedPropagation
  <1>1. SearchInv /\ PropInv => NoMissedPropagation
    BY PropagationHolds
  <1> QED BY <1>1, SearchInvariance, PTL

==============================================================================
