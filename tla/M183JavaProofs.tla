--------------------------- MODULE M183JavaProofs ---------------------------
(***************************************************************************)
(* The Java program: its invariants, and that it implements Mealy183.      *)
(***************************************************************************)
EXTENDS M183Java, WellFoundedInduction, TLAPS

-----------------------------------------------------------------------------
(***************************************************************************)
(* What Java's remainder by a positive constant returns.                   *)
(***************************************************************************)
LEMMA RemRange ==
  ASSUME NEW a \in Int, NEW b \in Nat \ {0}
  PROVE  /\ Rem(a, b) \in Int
         /\ -b < Rem(a, b) /\ Rem(a, b) < b
         /\ a >= 0 => Rem(a, b) >= 0
         /\ a <= 0 => Rem(a, b) <= 0
<1>1. CASE a >= 0
  <2>1. a % b \in 0 .. b - 1
    BY <1>1
  <2>2. Rem(a, b) = a % b
    BY <1>1 DEF Rem
  <2>3. a <= 0 => a % b <= 0
    <3>1. ASSUME a = 0 PROVE a % b = 0
      BY <3>1
    <3> QED BY <3>1, <1>1, <2>1
  <2> QED BY <2>1, <2>2, <2>3, <1>1
<1>2. CASE a < 0
  <2>1. (-a) % b \in 0 .. b - 1
    BY <1>2
  <2>2. Rem(a, b) = -((-a) % b)
    BY <1>2 DEF Rem
  <2> QED BY <2>1, <2>2, <1>2
<1> QED BY <1>1, <1>2

\* Java's quotient of integers is an integer.
LEMMA QuotInt ==
  ASSUME NEW a \in Int, NEW b \in Nat \ {0}
  PROVE  Quot(a, b) \in Int
BY DEF Quot

(***************************************************************************)
(* The remainder of what is left of zero is not positive, however the      *)
(* remainder inside it comes out: the formulas of m3 and m8.               *)
(***************************************************************************)
LEMMA ShiftedRem ==
  ASSUME NEW x \in Int, NEW c \in Nat \ {0}, NEW d \in Nat, c <= d
  PROVE  /\ Rem((Rem(x, c) - d) * 5, c) \in Int
         /\ -c < Rem((Rem(x, c) - d) * 5, c)
         /\ Rem((Rem(x, c) - d) * 5, c) <= 0
<1> DEFINE r == Rem(x, c)
           y == (r - d) * 5
<1>1. r \in Int /\ r < c
  BY RemRange
<1> HIDE DEF r
<1>2. y \in Int /\ y <= 0
  BY <1>1
<1> HIDE DEF y
<1>3. Rem(y, c) \in Int /\ -c < Rem(y, c) /\ Rem(y, c) <= 0
  BY <1>2, RemRange
<1> QED BY <1>3 DEF y, r

(***************************************************************************)
(* The product in calculateOutputm3.                                       *)
(***************************************************************************)
LEMMA NegativeProduct ==
  ASSUME NEW x \in Int, NEW y \in Int, -163 <= x, x <= -19, -80 <= y, y <= -31
  PROVE  x * y \in Int /\ 589 <= x * y /\ x * y <= 13040
<1>1. (-19 - x) * (-31 - y) >= 0
  OBVIOUS
<1>2. (x + 163) * (-y) >= 0
  OBVIOUS
<1>3. 163 * (y + 80) >= 0
  OBVIOUS
<1> QED BY <1>1, <1>2, <1>3

-----------------------------------------------------------------------------
(***************************************************************************)
(* Two regions have no fields in common, and the range of a2108127495 and  *)
(* the letter in a1745113960 say which region the fields are in.           *)
(***************************************************************************)
LEMMA RegionUnique ==
  ASSUME TypeOK, NEW k \in Locs, NEW l \in Locs, InRegion(k), InRegion(l)
  PROVE  k = l
BY DEF TypeOK, Locs, InRegion, Range1, Range2, Range3, Range4

\* The tests calculateOutput makes before a call put the fields in that method's region.
LEMMA RegionByTest ==
  ASSUME TypeOK, NeverStranded
  PROVE  /\ Range1 => InRegion("m1")
         /\ Range2 /\ a1745113960 = "e" => InRegion("m2")
         /\ Range2 /\ a1745113960 = "g" => InRegion("m3")
         /\ Range2 /\ a1745113960 = "h" => InRegion("m4")
         /\ Range2 /\ a1745113960 = "i" => InRegion("m5")
         /\ Range3 /\ a1745113960 = "g" => InRegion("m6")
         /\ Range3 /\ a1745113960 = "h" => InRegion("m7")
         /\ Range4 => InRegion("m8")
BY DEF TypeOK, NeverStranded, Locs, InRegion, Range1, Range2, Range3, Range4

\* locOf names the region the fields are in.
LEMMA LocOfRegion ==
  ASSUME TypeOK, NEW l \in Locs, InRegion(l)
  PROVE  locOf = l
BY RegionUnique DEF locOf

(***************************************************************************)
(* The inputs each state of Mealy183 accepts.                              *)
(***************************************************************************)
LEMMA AcceptsTable ==
  ASSUME NEW i
  PROVE  /\ Mealy!Accepts("m1", i) => i = "usr2_ai1_VoidReply"
         /\ Mealy!Accepts("m2", i) => i \in {"usr4_ni1_ne1", "ai1_ce2"}
         /\ Mealy!Accepts("m3", i) => i = "usr4_ai1_VoidReply"
         /\ Mealy!Accepts("m4", i) => i \in {"ai1_ce2", "ai1_ce1", "usr4_ni1_ne1"}
         /\ Mealy!Accepts("m5", i) => i = "usr2_ai1_VoidReply"
         /\ Mealy!Accepts("m6", i) => i \in {"usr4_ni1_ne1", "usr4_ai1_VoidReply"}
         /\ Mealy!Accepts("m7", i) => i \in {"usr4_ni1_ne1", "usr4_ai1_VoidReply"}
         /\ Mealy!Accepts("m8", i) => i = "usr4_ai1_VoidReply"
BY DEF Mealy!Accepts, Mealy!Trans, Mealy!T

\* The table of Mealy183 relates states, inputs and outputs.
LEMMA TransTypes ==
  ASSUME NEW t \in Mealy!Trans
  PROVE  /\ t.from \in Locs /\ t.to \in Locs
         /\ t.in \in Inputs /\ t.out \in Mealy!Outputs
BY DEF Mealy!Trans, Mealy!T, Locs, Inputs, Mealy!Outputs

-----------------------------------------------------------------------------
(***************************************************************************)
(* What a method called in its own region does: it takes a transition of   *)
(* the Mealy machine, or it does nothing because the state it stands for   *)
(* does not accept the input.                                              *)
(***************************************************************************)
Takes(t) ==
  /\ input = t.in
  /\ InRegion(t.from)
  /\ InRegion(t.to)'
  /\ printed' = Append(printed, t.out)

Outcome(l) ==
  \/ /\ cf' = FALSE
     /\ OperandRange'
     /\ \E t \in Mealy!Trans : Takes(t)
  \/ /\ Idle
     /\ ~ Mealy!Accepts(l, input)

\* calculateOutputm1 in its own region.
LEMMA Method1 ==
  ASSUME TypeOK, NeverStranded, OperandRange, cf, Range1,
         calculateOutputm1
  PROVE  Outcome("m1")
<1>1. InRegion("m1")
  BY RegionByTest
<1>2. /\ a422009172 \in Int /\ -68 <= a422009172 /\ a422009172 <= 198
      /\ a2108127495 \in Int /\ -26125 <= a2108127495 /\ a2108127495 <= -164
      /\ a1522448132 \in Int /\ -80 <= a1522448132 /\ a1522448132 <= 173
  BY DEF TypeOK, OperandRange, Range1
<1>3. CASE input = "usr2_ai1_VoidReply"
  <2>1. /\ a1745113960' = "h"
        /\ a2108127495' = Rem(Rem(a2108127495 * a1522448132, 14999), 72) - 91 + 1
        /\ UNCHANGED <<a422009172, a1522448132>>
        /\ cf' = FALSE /\ printed' = Append(printed, "ai1_VoidReply")
    BY <1>3 DEF calculateOutputm1, Fires, Emit, Idle, fields
  <2>2. a2108127495 * a1522448132 \in Int
    BY <1>2
  <2>3. /\ Rem(Rem(a2108127495 * a1522448132, 14999), 72) \in Int
        /\ -71 <= Rem(Rem(a2108127495 * a1522448132, 14999), 72)
        /\ Rem(Rem(a2108127495 * a1522448132, 14999), 72) <= 71
    BY <2>2, RemRange, SMTT(30)
  <2>4. OperandRange' /\ InRegion("m4")'
    BY <1>1, <1>2, <2>1, <2>3 DEF OperandRange, InRegion, Range1, Range2, Range3, Range4
  <2>5. Takes(Mealy!T("m1", "usr2_ai1_VoidReply", "ai1_VoidReply", "m4"))
    BY <1>1, <1>3, <2>1, <2>4 DEF Takes, Mealy!T
  <2> QED BY <2>1, <2>4, <2>5 DEF Outcome, Mealy!Trans
<1>4. CASE input \notin {"usr2_ai1_VoidReply"}
  <2>1. Idle
    BY <1>4 DEF calculateOutputm1, Fires
  <2> QED BY <2>1, <1>4, AcceptsTable DEF Outcome
<1> QED BY <1>3, <1>4

\* calculateOutputm2 in its own region.
LEMMA Method2 ==
  ASSUME TypeOK, NeverStranded, OperandRange, cf, Range2, a1745113960 = "e",
         calculateOutputm2
  PROVE  Outcome("m2")
<1>1. InRegion("m2")
  BY RegionByTest
<1>2. /\ a422009172 \in Int /\ -68 <= a422009172 /\ a422009172 <= 198
      /\ a2108127495 \in Int /\ -163 <= a2108127495 /\ a2108127495 <= -19
      /\ a1522448132 \in Int /\ -80 <= a1522448132 /\ a1522448132 <= 173
  BY DEF TypeOK, OperandRange, Range2
<1>3. CASE input = "usr4_ni1_ne1"
  <2>1. /\ UNCHANGED <<a422009172, a2108127495, a1522448132, a1745113960>>
        /\ cf' = FALSE /\ printed' = Append(printed, "ni1_ne1")
    BY <1>3 DEF calculateOutputm2, Fires, Emit, Idle, fields
  <2>2. OperandRange' /\ InRegion("m2")'
    BY <1>1, <1>2, <2>1 DEF OperandRange, InRegion, Range1, Range2, Range3, Range4
  <2>3. Takes(Mealy!T("m2", "usr4_ni1_ne1", "ni1_ne1", "m2"))
    BY <1>1, <1>3, <2>1, <2>2 DEF Takes, Mealy!T
  <2> QED BY <2>1, <2>2, <2>3 DEF Outcome, Mealy!Trans
<1>4. CASE input = "ai1_ce2"
  <2>1. /\ a1745113960' = "h"
        /\ a2108127495' = Rem(a2108127495, 59) + 98 - 4 - 42
        /\ UNCHANGED <<a422009172, a1522448132>>
        /\ cf' = FALSE /\ printed' = Append(printed, "usr4_ai1_ce2")
    BY <1>4 DEF calculateOutputm2, Fires, Emit, Idle, fields
  <2>2. /\ Rem(a2108127495, 59) \in Int
        /\ -58 <= Rem(a2108127495, 59) /\ Rem(a2108127495, 59) <= 0
    BY <1>2, RemRange
  <2>3. OperandRange' /\ InRegion("m7")'
    BY <1>1, <1>2, <2>1, <2>2 DEF OperandRange, InRegion, Range1, Range2, Range3, Range4
  <2>4. Takes(Mealy!T("m2", "ai1_ce2", "usr4_ai1_ce2", "m7"))
    BY <1>1, <1>4, <2>1, <2>3 DEF Takes, Mealy!T
  <2> QED BY <2>1, <2>3, <2>4 DEF Outcome, Mealy!Trans
<1>5. CASE input \notin {"usr4_ni1_ne1", "ai1_ce2"}
  <2>1. Idle
    BY <1>5 DEF calculateOutputm2, Fires
  <2> QED BY <2>1, <1>5, AcceptsTable DEF Outcome
<1> QED BY <1>3, <1>4, <1>5

\* calculateOutputm3 in its own region.
LEMMA Method3 ==
  ASSUME TypeOK, NeverStranded, OperandRange, cf, Range2, a1745113960 = "g",
         calculateOutputm3
  PROVE  Outcome("m3")
<1>1. InRegion("m3")
  BY RegionByTest
<1>2. /\ a422009172 \in Int /\ -68 <= a422009172 /\ a422009172 <= 198
      /\ a2108127495 \in Int /\ -163 <= a2108127495 /\ a2108127495 <= -19
      /\ a1522448132 \in Int /\ -80 <= a1522448132 /\ a1522448132 <= 173
  BY DEF TypeOK, OperandRange, Range2
<1>3. CASE input = "usr4_ai1_VoidReply"
  <2> DEFINE p  == a2108127495 * a1522448132'
             sq == a2108127495 * a2108127495
             c  == Rem((Rem(sq, 50) - 75) * 5, 50)
  <2>1. /\ a1522448132' = c - 31
        /\ a2108127495' = p - 22476 - 3649
        /\ UNCHANGED <<a422009172, a1745113960>>
        /\ cf' = FALSE /\ printed' = Append(printed, "usr2_ai1_ce4")
    BY <1>3 DEF calculateOutputm3, Fires, Emit, Idle, fields
  <2>2. sq \in Int
    BY <1>2
  <2> HIDE DEF sq
  <2>3. /\ c \in Int
        /\ -49 <= c /\ c <= 0
    BY <2>2, ShiftedRem
  <2> HIDE DEF c
  <2>4. /\ a1522448132' \in Int
        /\ -80 <= a1522448132' /\ a1522448132' <= -31
    BY <2>1, <2>3
  <2>5. /\ p \in Int
        /\ 589 <= p /\ p <= 13040
    <3> DEFINE x == a2108127495
               y == a1522448132'
    <3>1. /\ x \in Int /\ -163 <= x /\ x <= -19
          /\ y \in Int /\ -80 <= y /\ y <= -31
      BY <1>2, <2>4
    <3> HIDE DEF x, y
    <3>2. x * y \in Int /\ 589 <= x * y /\ x * y <= 13040
      BY <3>1, NegativeProduct
    <3> QED BY <3>2 DEF x, y
  <2> HIDE DEF p
  <2>6. OperandRange' /\ InRegion("m1")'
    BY <1>1, <1>2, <2>1, <2>3, <2>4, <2>5 DEF OperandRange, InRegion, Range1, Range2, Range3, Range4
  <2>7. Takes(Mealy!T("m3", "usr4_ai1_VoidReply", "usr2_ai1_ce4", "m1"))
    BY <1>1, <1>3, <2>1, <2>6 DEF Takes, Mealy!T
  <2> QED BY <2>1, <2>6, <2>7 DEF Outcome, Mealy!Trans
<1>4. CASE input \notin {"usr4_ai1_VoidReply"}
  <2>1. Idle
    BY <1>4 DEF calculateOutputm3, Fires
  <2> QED BY <2>1, <1>4, AcceptsTable DEF Outcome
<1> QED BY <1>3, <1>4

\* calculateOutputm4 in its own region.
LEMMA Method4 ==
  ASSUME TypeOK, NeverStranded, OperandRange, cf, Range2, a1745113960 = "h",
         calculateOutputm4
  PROVE  Outcome("m4")
<1>1. InRegion("m4")
  BY RegionByTest
<1>2. /\ a422009172 \in Int /\ -68 <= a422009172 /\ a422009172 <= 198
      /\ a2108127495 \in Int /\ -163 <= a2108127495 /\ a2108127495 <= -19
      /\ a1522448132 \in Int /\ -80 <= a1522448132 /\ a1522448132 <= 173
  BY DEF TypeOK, OperandRange, Range2
<1>3. CASE input = "ai1_ce2"
  <2>1. /\ UNCHANGED <<a422009172, a2108127495, a1522448132, a1745113960>>
        /\ cf' = FALSE /\ printed' = Append(printed, "ai1_VoidReply")
    BY <1>3 DEF calculateOutputm4, Fires, Emit, Idle, fields
  <2>2. OperandRange' /\ InRegion("m4")'
    BY <1>1, <1>2, <2>1 DEF OperandRange, InRegion, Range1, Range2, Range3, Range4
  <2>3. Takes(Mealy!T("m4", "ai1_ce2", "ai1_VoidReply", "m4"))
    BY <1>1, <1>3, <2>1, <2>2 DEF Takes, Mealy!T
  <2> QED BY <2>1, <2>2, <2>3 DEF Outcome, Mealy!Trans
<1>4. CASE input = "ai1_ce1"
  <2>1. /\ a1745113960' = "g"
        /\ a2108127495' = Rem(a2108127495 + 7243 + 1395, 59) + 16
        /\ UNCHANGED <<a422009172, a1522448132>>
        /\ cf' = FALSE /\ printed' = Append(printed, "usr4_ai1_ce1")
    BY <1>4 DEF calculateOutputm4, Fires, Emit, Idle, fields
  <2>2. /\ Rem(a2108127495 + 7243 + 1395, 59) \in Int
        /\ 0 <= Rem(a2108127495 + 7243 + 1395, 59) /\ Rem(a2108127495 + 7243 + 1395, 59) <= 58
    BY <1>2, RemRange
  <2>3. OperandRange' /\ InRegion("m6")'
    BY <1>1, <1>2, <2>1, <2>2 DEF OperandRange, InRegion, Range1, Range2, Range3, Range4
  <2>4. Takes(Mealy!T("m4", "ai1_ce1", "usr4_ai1_ce1", "m6"))
    BY <1>1, <1>4, <2>1, <2>3 DEF Takes, Mealy!T
  <2> QED BY <2>1, <2>3, <2>4 DEF Outcome, Mealy!Trans
<1>5. CASE input = "usr4_ni1_ne1"
  <2>1. /\ a1745113960' = "i"
        /\ UNCHANGED <<a422009172, a2108127495, a1522448132>>
        /\ cf' = FALSE /\ printed' = Append(printed, "usr2_ai1_ce4")
    BY <1>5 DEF calculateOutputm4, Fires, Emit, Idle, fields
  <2>2. OperandRange' /\ InRegion("m5")'
    BY <1>1, <1>2, <2>1 DEF OperandRange, InRegion, Range1, Range2, Range3, Range4
  <2>3. Takes(Mealy!T("m4", "usr4_ni1_ne1", "usr2_ai1_ce4", "m5"))
    BY <1>1, <1>5, <2>1, <2>2 DEF Takes, Mealy!T
  <2> QED BY <2>1, <2>2, <2>3 DEF Outcome, Mealy!Trans
<1>6. CASE input \notin {"ai1_ce2", "ai1_ce1", "usr4_ni1_ne1"}
  <2>1. Idle
    BY <1>6 DEF calculateOutputm4, Fires
  <2> QED BY <2>1, <1>6, AcceptsTable DEF Outcome
<1> QED BY <1>3, <1>4, <1>5, <1>6

\* calculateOutputm5 in its own region.
LEMMA Method5 ==
  ASSUME TypeOK, NeverStranded, OperandRange, cf, Range2, a1745113960 = "i",
         calculateOutputm5
  PROVE  Outcome("m5")
<1>1. InRegion("m5")
  BY RegionByTest
<1>2. /\ a422009172 \in Int /\ -68 <= a422009172 /\ a422009172 <= 198
      /\ a2108127495 \in Int /\ -163 <= a2108127495 /\ a2108127495 <= -19
      /\ a1522448132 \in Int /\ -80 <= a1522448132 /\ a1522448132 <= 173
  BY DEF TypeOK, OperandRange, Range2
<1>3. CASE input = "usr2_ai1_VoidReply"
  <2>1. /\ a1745113960' = "h"
        /\ UNCHANGED <<a422009172, a2108127495, a1522448132>>
        /\ cf' = FALSE /\ printed' = Append(printed, "none")
    BY <1>3 DEF calculateOutputm5, Fires, Emit, Idle, fields
  <2>2. OperandRange' /\ InRegion("m4")'
    BY <1>1, <1>2, <2>1 DEF OperandRange, InRegion, Range1, Range2, Range3, Range4
  <2>3. Takes(Mealy!T("m5", "usr2_ai1_VoidReply", "none", "m4"))
    BY <1>1, <1>3, <2>1, <2>2 DEF Takes, Mealy!T
  <2> QED BY <2>1, <2>2, <2>3 DEF Outcome, Mealy!Trans
<1>4. CASE input \notin {"usr2_ai1_VoidReply"}
  <2>1. Idle
    BY <1>4 DEF calculateOutputm5, Fires
  <2> QED BY <2>1, <1>4, AcceptsTable DEF Outcome
<1> QED BY <1>3, <1>4

\* calculateOutputm6 in its own region.
LEMMA Method6 ==
  ASSUME TypeOK, NeverStranded, OperandRange, cf, Range3, a1745113960 = "g",
         calculateOutputm6
  PROVE  Outcome("m6")
<1>1. InRegion("m6")
  BY RegionByTest
<1>2. /\ a422009172 \in Int /\ -68 <= a422009172 /\ a422009172 <= 198
      /\ a2108127495 \in Int /\ -18 <= a2108127495 /\ a2108127495 <= 100
      /\ a1522448132 \in Int /\ -80 <= a1522448132 /\ a1522448132 <= 173
  BY DEF TypeOK, OperandRange, Range3
<1>3. CASE input = "usr4_ni1_ne1"
  <2> DEFINE sq == a2108127495' * a2108127495'
             r  == Rem(sq, 14999)
  <2>1. /\ a2108127495' = (a2108127495 + 13863) * 2
        /\ a422009172' = Rem(r - 1380, 47) + 150 + 23887 - 23885
        /\ UNCHANGED <<a1522448132, a1745113960>>
        /\ cf' = FALSE /\ printed' = Append(printed, "none")
    BY <1>3 DEF calculateOutputm6, Fires, Emit, Idle, fields
  <2>2. /\ a2108127495' \in Int
        /\ 27690 <= a2108127495' /\ a2108127495' <= 27926
    BY <1>2, <2>1
  <2>3. sq \in Int
    BY <2>2
  <2> HIDE DEF sq
  <2>4. r \in Int
    BY <2>3, RemRange
  <2> HIDE DEF r
  <2>5. /\ Rem(r - 1380, 47) \in Int
        /\ -46 <= Rem(r - 1380, 47) /\ Rem(r - 1380, 47) <= 46
    BY <2>4, RemRange
  <2>6. OperandRange' /\ InRegion("m8")'
    BY <1>1, <1>2, <2>1, <2>2, <2>5 DEF OperandRange, InRegion, Range1, Range2, Range3, Range4
  <2>7. Takes(Mealy!T("m6", "usr4_ni1_ne1", "none", "m8"))
    BY <1>1, <1>3, <2>1, <2>6 DEF Takes, Mealy!T
  <2> QED BY <2>1, <2>6, <2>7 DEF Outcome, Mealy!Trans
<1>4. CASE input = "usr4_ai1_VoidReply"
  <2>1. /\ a1745113960' = "e"
        /\ a2108127495' = a2108127495 - 139 - 4 + 5
        /\ UNCHANGED <<a422009172, a1522448132>>
        /\ cf' = FALSE /\ printed' = Append(printed, "ai1_VoidReply")
    BY <1>4 DEF calculateOutputm6, Fires, Emit, Idle, fields
  <2>2. OperandRange' /\ InRegion("m2")'
    BY <1>1, <1>2, <2>1 DEF OperandRange, InRegion, Range1, Range2, Range3, Range4
  <2>3. Takes(Mealy!T("m6", "usr4_ai1_VoidReply", "ai1_VoidReply", "m2"))
    BY <1>1, <1>4, <2>1, <2>2 DEF Takes, Mealy!T
  <2> QED BY <2>1, <2>2, <2>3 DEF Outcome, Mealy!Trans
<1>5. CASE input \notin {"usr4_ni1_ne1", "usr4_ai1_VoidReply"}
  <2>1. Idle
    BY <1>5 DEF calculateOutputm6, Fires
  <2> QED BY <2>1, <1>5, AcceptsTable DEF Outcome
<1> QED BY <1>3, <1>4, <1>5

\* calculateOutputm7 in its own region.
LEMMA Method7 ==
  ASSUME TypeOK, NeverStranded, OperandRange, cf, Range3, a1745113960 = "h",
         calculateOutputm7
  PROVE  Outcome("m7")
<1>1. InRegion("m7")
  BY RegionByTest
<1>2. /\ a422009172 \in Int /\ -68 <= a422009172 /\ a422009172 <= 198
      /\ a2108127495 \in Int /\ -18 <= a2108127495 /\ a2108127495 <= 100
      /\ a1522448132 \in Int /\ -80 <= a1522448132 /\ a1522448132 <= 173
  BY DEF TypeOK, OperandRange, Range3
<1>3. CASE input = "usr4_ni1_ne1"
  <2>1. /\ a1745113960' = "g"
        /\ a2108127495' = a2108127495 - 128 + 3384 - 4504 + 1107
        /\ UNCHANGED <<a422009172, a1522448132>>
        /\ cf' = FALSE /\ printed' = Append(printed, "none")
    BY <1>3 DEF calculateOutputm7, Fires, Emit, Idle, fields
  <2>2. OperandRange' /\ InRegion("m3")'
    BY <1>1, <1>2, <2>1 DEF OperandRange, InRegion, Range1, Range2, Range3, Range4
  <2>3. Takes(Mealy!T("m7", "usr4_ni1_ne1", "none", "m3"))
    BY <1>1, <1>3, <2>1, <2>2 DEF Takes, Mealy!T
  <2> QED BY <2>1, <2>2, <2>3 DEF Outcome, Mealy!Trans
<1>4. CASE input = "usr4_ai1_VoidReply"
  <2>1. /\ a2108127495' = Rem((a2108127495 - 22339 + 35662) * 2, 72) - 149
        /\ UNCHANGED <<a422009172, a1522448132, a1745113960>>
        /\ cf' = FALSE /\ printed' = Append(printed, "ai1_VoidReply")
    BY <1>4 DEF calculateOutputm7, Fires, Emit, Idle, fields
  <2>2. /\ Rem((a2108127495 - 22339 + 35662) * 2, 72) \in Int
        /\ 0 <= Rem((a2108127495 - 22339 + 35662) * 2, 72)
        /\ Rem((a2108127495 - 22339 + 35662) * 2, 72) <= 71
    BY <1>2, RemRange
  <2>3. OperandRange' /\ InRegion("m4")'
    BY <1>1, <1>2, <2>1, <2>2 DEF OperandRange, InRegion, Range1, Range2, Range3, Range4
  <2>4. Takes(Mealy!T("m7", "usr4_ai1_VoidReply", "ai1_VoidReply", "m4"))
    BY <1>1, <1>4, <2>1, <2>3 DEF Takes, Mealy!T
  <2> QED BY <2>1, <2>3, <2>4 DEF Outcome, Mealy!Trans
<1>5. CASE input \notin {"usr4_ni1_ne1", "usr4_ai1_VoidReply"}
  <2>1. Idle
    BY <1>5 DEF calculateOutputm7, Fires
  <2> QED BY <2>1, <1>5, AcceptsTable DEF Outcome
<1> QED BY <1>3, <1>4, <1>5

\* calculateOutputm8 in its own region.
LEMMA Method8 ==
  ASSUME TypeOK, NeverStranded, OperandRange, cf, Range4,
         calculateOutputm8
  PROVE  Outcome("m8")
<1>1. InRegion("m8")
  BY RegionByTest
<1>2. /\ a422009172 \in Int /\ -68 <= a422009172 /\ a422009172 <= 198
      /\ a2108127495 \in Int /\ 101 <= a2108127495 /\ a2108127495 <= 27926
      /\ a1522448132 \in Int /\ -80 <= a1522448132 /\ a1522448132 <= 173
  BY DEF TypeOK, OperandRange, Range4
<1>3. CASE input = "usr4_ai1_VoidReply"
  <2> DEFINE p == a2108127495 * a422009172
             q == Quot(Rem(p, 14999), 5)
  <2>1. /\ a1745113960' = "e"
        /\ a2108127495' = Rem((Rem(q, 72) - 156) * 5, 72) - 65
        /\ UNCHANGED <<a422009172, a1522448132>>
        /\ cf' = FALSE /\ printed' = Append(printed, "ni1_ne1__ai1_VoidReply")
    BY <1>3 DEF calculateOutputm8, Fires, Emit, Idle, fields
  <2>2. p \in Int
    BY <1>2
  <2> HIDE DEF p
  <2>3. q \in Int
    BY <2>2, RemRange, QuotInt
  <2> HIDE DEF q
  <2>4. /\ Rem((Rem(q, 72) - 156) * 5, 72) \in Int
        /\ -71 <= Rem((Rem(q, 72) - 156) * 5, 72) /\ Rem((Rem(q, 72) - 156) * 5, 72) <= 0
    BY <2>3, ShiftedRem
  <2>5. OperandRange' /\ InRegion("m2")'
    BY <1>1, <1>2, <2>1, <2>4 DEF OperandRange, InRegion, Range1, Range2, Range3, Range4
  <2>6. Takes(Mealy!T("m8", "usr4_ai1_VoidReply", "ni1_ne1__ai1_VoidReply", "m2"))
    BY <1>1, <1>3, <2>1, <2>5 DEF Takes, Mealy!T
  <2> QED BY <2>1, <2>5, <2>6 DEF Outcome, Mealy!Trans
<1>4. CASE input \notin {"usr4_ai1_VoidReply"}
  <2>1. Idle
    BY <1>4 DEF calculateOutputm8, Fires
  <2> QED BY <2>1, <1>4, AcceptsTable DEF Outcome
<1> QED BY <1>3, <1>4

-----------------------------------------------------------------------------
(***************************************************************************)
(* What a test of the cascade with the call behind it does, wherever the   *)
(* fields are: the method of region l takes a transition, or nothing       *)
(* happens, and then not because an accepted input was overlooked.         *)
(***************************************************************************)
CallOutcome(l) ==
  \/ /\ Idle
     /\ cf => ~ InRegion(l) \/ ~ Mealy!Accepts(l, input)
  \/ /\ cf /\ cf' = FALSE
     /\ OperandRange'
     /\ \E t \in Mealy!Trans : Takes(t)

\* calculateOutputm1 .. m8, called where calculateOutput calls them, have such an outcome.
LEMMA Calls ==
  ASSUME IInv
  PROVE  /\ Call1 => CallOutcome("m1")
         /\ Call2 => CallOutcome("m2")
         /\ Call3 => CallOutcome("m3")
         /\ Call4 => CallOutcome("m4")
         /\ Call5 => CallOutcome("m5")
         /\ Call6 => CallOutcome("m6")
         /\ Call7 => CallOutcome("m7")
         /\ Call8 => CallOutcome("m8")
<1>1. ASSUME Call1 PROVE CallOutcome("m1")
  <2>1. CASE ~ cf
    BY <1>1, <2>1 DEF Call1, Call, CallOutcome
  <2>2. CASE cf
    <3>1. Range1
      BY <1>1, <2>2 DEF IInv, CascadeMeetsRegion, Call1, Call
    <3>2. \/ Idle /\ ~ InRegion("m1")
          \/ calculateOutputm1
      BY <1>1, <2>2 DEF Call1, Call, InRegion
    <3>3. calculateOutputm1 => Outcome("m1")
      BY <2>2, <3>1, Method1 DEF IInv
    <3> QED BY <2>2, <3>2, <3>3 DEF CallOutcome, Outcome
  <2> QED BY <2>1, <2>2
<1>2. ASSUME Call2 PROVE CallOutcome("m2")
  <2>1. CASE ~ cf
    BY <1>2, <2>1 DEF Call2, Call, CallOutcome
  <2>2. CASE cf
    <3>1. Range2
      BY <1>2, <2>2 DEF IInv, CascadeMeetsRegion, Call2, Call
    <3>2. \/ Idle /\ ~ InRegion("m2")
          \/ calculateOutputm2 /\ a1745113960 = "e"
      BY <1>2, <2>2 DEF Call2, Call, InRegion
    <3>3. calculateOutputm2 /\ a1745113960 = "e" => Outcome("m2")
      BY <2>2, <3>1, Method2 DEF IInv
    <3> QED BY <2>2, <3>2, <3>3 DEF CallOutcome, Outcome
  <2> QED BY <2>1, <2>2
<1>3. ASSUME Call3 PROVE CallOutcome("m3")
  <2>1. CASE ~ cf
    BY <1>3, <2>1 DEF Call3, Call, CallOutcome
  <2>2. CASE cf
    <3>1. Range2
      BY <1>3, <2>2 DEF IInv, CascadeMeetsRegion, Call3, Call
    <3>2. \/ Idle /\ ~ InRegion("m3")
          \/ calculateOutputm3 /\ a1745113960 = "g"
      BY <1>3, <2>2 DEF Call3, Call, InRegion
    <3>3. calculateOutputm3 /\ a1745113960 = "g" => Outcome("m3")
      BY <2>2, <3>1, Method3 DEF IInv
    <3> QED BY <2>2, <3>2, <3>3 DEF CallOutcome, Outcome
  <2> QED BY <2>1, <2>2
<1>4. ASSUME Call4 PROVE CallOutcome("m4")
  <2>1. CASE ~ cf
    BY <1>4, <2>1 DEF Call4, Call, CallOutcome
  <2>2. CASE cf
    <3>1. Range2
      BY <1>4, <2>2 DEF IInv, CascadeMeetsRegion, Call4, Call
    <3>2. \/ Idle /\ ~ InRegion("m4")
          \/ calculateOutputm4 /\ a1745113960 = "h"
      BY <1>4, <2>2 DEF Call4, Call, InRegion
    <3>3. calculateOutputm4 /\ a1745113960 = "h" => Outcome("m4")
      BY <2>2, <3>1, Method4 DEF IInv
    <3> QED BY <2>2, <3>2, <3>3 DEF CallOutcome, Outcome
  <2> QED BY <2>1, <2>2
<1>5. ASSUME Call5 PROVE CallOutcome("m5")
  <2>1. CASE ~ cf
    BY <1>5, <2>1 DEF Call5, Call, CallOutcome
  <2>2. CASE cf
    <3>1. Range2
      BY <1>5, <2>2 DEF IInv, CascadeMeetsRegion, Call5, Call
    <3>2. \/ Idle /\ ~ InRegion("m5")
          \/ calculateOutputm5 /\ a1745113960 = "i"
      BY <1>5, <2>2 DEF Call5, Call, InRegion
    <3>3. calculateOutputm5 /\ a1745113960 = "i" => Outcome("m5")
      BY <2>2, <3>1, Method5 DEF IInv
    <3> QED BY <2>2, <3>2, <3>3 DEF CallOutcome, Outcome
  <2> QED BY <2>1, <2>2
<1>6. ASSUME Call6 PROVE CallOutcome("m6")
  <2>1. CASE ~ cf
    BY <1>6, <2>1 DEF Call6, Call, CallOutcome
  <2>2. CASE cf
    <3>1. Range3
      BY <1>6, <2>2 DEF IInv, CascadeMeetsRegion, Call6, Call
    <3>2. \/ Idle /\ ~ InRegion("m6")
          \/ calculateOutputm6 /\ a1745113960 = "g"
      BY <1>6, <2>2 DEF Call6, Call, InRegion
    <3>3. calculateOutputm6 /\ a1745113960 = "g" => Outcome("m6")
      BY <2>2, <3>1, Method6 DEF IInv
    <3> QED BY <2>2, <3>2, <3>3 DEF CallOutcome, Outcome
  <2> QED BY <2>1, <2>2
<1>7. ASSUME Call7 PROVE CallOutcome("m7")
  <2>1. CASE ~ cf
    BY <1>7, <2>1 DEF Call7, Call, CallOutcome
  <2>2. CASE cf
    <3>1. Range3
      BY <1>7, <2>2 DEF IInv, CascadeMeetsRegion, Call7, Call
    <3>2. \/ Idle /\ ~ InRegion("m7")
          \/ calculateOutputm7 /\ a1745113960 = "h"
      BY <1>7, <2>2 DEF Call7, Call, InRegion
    <3>3. calculateOutputm7 /\ a1745113960 = "h" => Outcome("m7")
      BY <2>2, <3>1, Method7 DEF IInv
    <3> QED BY <2>2, <3>2, <3>3 DEF CallOutcome, Outcome
  <2> QED BY <2>1, <2>2
<1>8. ASSUME Call8 PROVE CallOutcome("m8")
  <2>1. CASE ~ cf
    BY <1>8, <2>1 DEF Call8, Call, CallOutcome
  <2>2. CASE cf
    <3>1. Range4
      BY <1>8, <2>2 DEF IInv, CascadeMeetsRegion, Call8, Call
    <3>2. \/ Idle /\ ~ InRegion("m8")
          \/ calculateOutputm8
      BY <1>8, <2>2 DEF Call8, Call, InRegion
    <3>3. calculateOutputm8 => Outcome("m8")
      BY <2>2, <3>1, Method8 DEF IInv
    <3> QED BY <2>2, <3>2, <3>3 DEF CallOutcome, Outcome
  <2> QED BY <2>1, <2>2
<1> QED BY <1>1, <1>2, <1>3, <1>4, <1>5, <1>6, <1>7, <1>8

(***************************************************************************)
(* A step from one test of the cascade to the next: it takes a transition, *)
(* or it changes nothing and leaves no region behind that accepts the      *)
(* input.                                                                  *)
(***************************************************************************)
Cascade == PCs \ {"main", "crashed"}

StepOutcome ==
  \/ /\ Idle
     /\ cf => \A k \in Pending(pc) \ Pending(pc') :
                InRegion(k) => ~ Mealy!Accepts(k, input)
  \/ /\ cf /\ cf' = FALSE
     /\ OperandRange'
     /\ \E t \in Mealy!Trans : Takes(t)

CascadeMoves ==
  /\ pc \in Cascade /\ pc' \in Cascade
  /\ UNCHANGED input
  /\ StepOutcome
  /\ cf => /\ pc' = "m1" => Range1
           /\ pc' \in {"m2", "m3", "m4", "m5"} => Range2
           /\ pc' \in {"m6", "m7"} => Range3
           /\ pc' = "m8" => Range4

\* Every block of the cascade in calculateOutput keeps the invariant.
LEMMA CascadeKeepsInvariant ==
  ASSUME IInv, CascadeMoves
  PROVE  IInv'
<1>1. CASE /\ Idle
           /\ cf => \A k \in Pending(pc) \ Pending(pc') :
                      InRegion(k) => ~ Mealy!Accepts(k, input)
  <2>1. TypeOK' /\ OperandRange'
    BY <1>1 DEF IInv, TypeOK, OperandRange, Idle, fields, CascadeMoves, Cascade
  <2>2. \A k : InRegion(k)' <=> InRegion(k)
    BY <1>1 DEF InRegion, Range1, Range2, Range3, Range4, Idle, fields
  <2>3. NeverStranded'
    BY <2>2 DEF IInv, NeverStranded
  <2>4. CascadeMeetsRegion'
    <3>1. CASE ~ cf
      BY <3>1, <1>1 DEF IInv, CascadeMeetsRegion, Idle, CascadeMoves, Cascade
    <3>2. CASE cf
      <4>1. cf' /\ printed' = <<>>
        BY <3>2, <1>1 DEF IInv, CascadeMeetsRegion, Idle, CascadeMoves, Cascade
      <4>2. /\ pc' = "m1" => Range1'
            /\ pc' \in {"m2", "m3", "m4", "m5"} => Range2'
            /\ pc' \in {"m6", "m7"} => Range3'
            /\ pc' = "m8" => Range4'
        BY <3>2, <1>1 DEF CascadeMoves, Range1, Range2, Range3, Range4, Idle, fields
      <4>3. ASSUME NEW k \in Locs, InRegion(k)', k \notin Pending(pc')
            PROVE  ~ Mealy!Accepts(k, input')
        <5>1. InRegion(k)
          BY <4>3, <2>2
        <5>2. CASE k \in Pending(pc)
          BY <4>3, <5>1, <5>2, <3>2, <1>1 DEF CascadeMoves
        <5>3. CASE k \notin Pending(pc)
          BY <5>1, <5>3, <3>2 DEF IInv, CascadeMeetsRegion, CascadeMoves, Cascade
        <5> QED BY <5>2, <5>3
      <4> QED BY <4>1, <4>2, <4>3 DEF CascadeMeetsRegion
    <3> QED BY <3>1, <3>2 DEF IInv, TypeOK
  <2> QED BY <2>1, <2>3, <2>4 DEF IInv
<1>2. CASE /\ cf /\ cf' = FALSE
           /\ OperandRange'
           /\ \E t \in Mealy!Trans : Takes(t)
  <2>1. PICK t \in Mealy!Trans : Takes(t)
    BY <1>2
  <2>2. t.to \in Locs /\ t.out \in Mealy!Outputs
    BY TransTypes
  <2>3. NeverStranded'
    BY <2>1, <2>2 DEF Takes, NeverStranded
  <2>4. printed = <<>>
    BY <1>2 DEF IInv, CascadeMeetsRegion, CascadeMoves, Cascade
  <2>5. printed' = <<t.out>>
    BY <2>1, <2>4 DEF Takes
  <2>6. CascadeMeetsRegion'
    BY <1>2, <2>5 DEF CascadeMeetsRegion
  <2>7. TypeOK'
    <3>1. printed' \in Seq(Mealy!Outputs \cup {Rejected})
      BY <2>2, <2>5
    <3>2. a1745113960' \in {"e", "g", "h", "i"}
      BY <2>1 DEF Takes, InRegion
    <3>3. a422009172' \in Int /\ a2108127495' \in Int /\ a1522448132' \in Int
      BY <1>2 DEF OperandRange
    <3> QED BY <3>1, <3>2, <3>3, <1>2 DEF IInv, TypeOK, CascadeMoves, Cascade
  <2> QED BY <1>2, <2>3, <2>6, <2>7 DEF IInv
<1> QED BY <1>1, <1>2 DEF CascadeMoves, StepOutcome

(***************************************************************************)
(* Every step of calculateOutput but the last is such a step.              *)
(***************************************************************************)
LEMMA CascadeActions ==
  ASSUME IInv,
         \/ EnterRange1 \/ EnterRange2 \/ EnterRange3 \/ EnterRange4
         \/ Call1 \/ Call2 \/ Call3 \/ Call4 \/ Call5 \/ Call6 \/ Call7 \/ Call8
  PROVE  CascadeMoves
<1> USE DEF CascadeMoves, Cascade, PCs
<1>1. CASE EnterRange1
  BY <1>1 DEF EnterRange1, Enter, StepOutcome, Idle, Pending, Locs, InRegion
<1>2. CASE EnterRange2
  BY <1>2 DEF EnterRange2, Enter, StepOutcome, Idle, Pending, Locs, InRegion
<1>3. CASE EnterRange3
  BY <1>3 DEF EnterRange3, Enter, StepOutcome, Idle, Pending, Locs, InRegion
<1>4. CASE EnterRange4
  BY <1>4 DEF EnterRange4, Enter, StepOutcome, Idle, Pending, Locs, InRegion
<1>5. CASE Call1
  <2>1. Pending(pc) \ Pending(pc') \subseteq {"m1"}
    BY <1>5 DEF Call1, Call, Pending, Locs
  <2>2. StepOutcome
    BY <1>5, <2>1, Calls DEF CallOutcome, StepOutcome
  <2> QED BY <1>5, <2>2 DEF Call1, Call
<1>6. CASE Call2
  <2>1. Pending(pc) \ Pending(pc') \subseteq {"m2"}
    BY <1>6 DEF Call2, Call, Pending, Locs
  <2>2. StepOutcome
    BY <1>6, <2>1, Calls DEF CallOutcome, StepOutcome
  <2> QED BY <1>6, <2>2 DEF Call2, Call, IInv, CascadeMeetsRegion
<1>7. CASE Call3
  <2>1. Pending(pc) \ Pending(pc') \subseteq {"m3"}
    BY <1>7 DEF Call3, Call, Pending, Locs
  <2>2. StepOutcome
    BY <1>7, <2>1, Calls DEF CallOutcome, StepOutcome
  <2> QED BY <1>7, <2>2 DEF Call3, Call, IInv, CascadeMeetsRegion
<1>8. CASE Call4
  <2>1. Pending(pc) \ Pending(pc') \subseteq {"m4"}
    BY <1>8 DEF Call4, Call, Pending, Locs
  <2>2. StepOutcome
    BY <1>8, <2>1, Calls DEF CallOutcome, StepOutcome
  <2> QED BY <1>8, <2>2 DEF Call4, Call, IInv, CascadeMeetsRegion
<1>9. CASE Call5
  <2>1. Pending(pc) \ Pending(pc') \subseteq {"m5"}
    BY <1>9 DEF Call5, Call, Pending, Locs
  <2>2. StepOutcome
    BY <1>9, <2>1, Calls DEF CallOutcome, StepOutcome
  <2> QED BY <1>9, <2>2 DEF Call5, Call
<1>10. CASE Call6
  <2>1. Pending(pc) \ Pending(pc') \subseteq {"m6"}
    BY <1>10 DEF Call6, Call, Pending, Locs
  <2>2. StepOutcome
    BY <1>10, <2>1, Calls DEF CallOutcome, StepOutcome
  <2> QED BY <1>10, <2>2 DEF Call6, Call, IInv, CascadeMeetsRegion
<1>11. CASE Call7
  <2>1. Pending(pc) \ Pending(pc') \subseteq {"m7"}
    BY <1>11 DEF Call7, Call, Pending, Locs
  <2>2. StepOutcome
    BY <1>11, <2>1, Calls DEF CallOutcome, StepOutcome
  <2> QED BY <1>11, <2>2 DEF Call7, Call
<1>12. CASE Call8
  <2>1. Pending(pc) \ Pending(pc') \subseteq {"m8"}
    BY <1>12 DEF Call8, Call, Pending, Locs
  <2>2. StepOutcome
    BY <1>12, <2>1, Calls DEF CallOutcome, StepOutcome
  <2> QED BY <1>12, <2>2 DEF Call8, Call
<1> QED BY <1>1, <1>2, <1>3, <1>4, <1>5, <1>6, <1>7, <1>8, <1>9, <1>10, <1>11, <1>12

\* The field initialisers establish the invariant.
LEMMA InitIInv == Init => IInv
<1> SUFFICES ASSUME Init PROVE IInv
  OBVIOUS
<1>1. TypeOK
  <2>1. <<>> \in Seq(Mealy!Outputs \cup {Rejected})
    OBVIOUS
  <2> QED BY <2>1 DEF Init, TypeOK, PCs
<1>2. InRegion("m4")
  BY DEF Init, InRegion, Range2
<1>3. NeverStranded
  BY <1>2 DEF NeverStranded, Locs
<1> QED BY <1>1, <1>3 DEF Init, IInv, OperandRange, CascadeMeetsRegion

\* Every step of main and calculateOutput keeps the invariant.
LEMMA NextIInv == IInv /\ [Next]_vars => IInv'
<1> SUFFICES ASSUME IInv, [Next]_vars PROVE IInv'
  OBVIOUS
<1>1. ASSUME NEW i \in Inputs \cup {Other}, ReadInput(i) PROVE IInv'
  <2>1. UNCHANGED fields /\ input' = i /\ printed' = <<>> /\ cf' = TRUE
    BY <1>1 DEF ReadInput
  <2>2. pc' = "r1"
    BY <1>1 DEF ReadInput, Inputs
  <2>3. TypeOK' /\ OperandRange'
    <3>1. <<>> \in Seq(Mealy!Outputs \cup {Rejected})
      OBVIOUS
    <3> QED BY <2>1, <2>2, <3>1 DEF IInv, TypeOK, OperandRange, fields, PCs
  <2>4. \A k : InRegion(k)' <=> InRegion(k)
    BY <2>1 DEF InRegion, Range1, Range2, Range3, Range4, fields
  <2>5. NeverStranded'
    BY <2>4 DEF IInv, NeverStranded
  <2>6. CascadeMeetsRegion'
    BY <2>1, <2>2 DEF CascadeMeetsRegion, Pending
  <2> QED BY <2>3, <2>5, <2>6 DEF IInv
<1>2. CASE \/ ReadEndOfInput \/ CheckFired \/ UNCHANGED vars
  <2>1. UNCHANGED fields
    BY <1>2 DEF ReadEndOfInput, CheckFired, vars, fields
  <2>2. TypeOK' /\ OperandRange'
    <3>1. printed' \in Seq(Mealy!Outputs \cup {Rejected})
      BY <1>2 DEF ReadEndOfInput, CheckFired, vars, IInv, TypeOK
    <3> QED BY <1>2, <2>1, <3>1 DEF ReadEndOfInput, CheckFired, vars, fields,
                                    IInv, TypeOK, OperandRange, PCs
  <2>3. \A k : InRegion(k)' <=> InRegion(k)
    BY <2>1 DEF InRegion, Range1, Range2, Range3, Range4, fields
  <2>4. NeverStranded'
    BY <2>3 DEF IInv, NeverStranded
  <2>5. CASE ReadEndOfInput \/ CheckFired
    <3>1. CascadeMeetsRegion'
      BY <2>5 DEF ReadEndOfInput, CheckFired, CascadeMeetsRegion
    <3> QED BY <2>2, <2>4, <3>1 DEF IInv
  <2>6. CASE UNCHANGED vars
    <3>1. CascadeMeetsRegion'
      BY <2>3, <2>6 DEF vars, IInv, CascadeMeetsRegion, Range1, Range2, Range3, Range4
    <3> QED BY <2>2, <2>4, <3>1 DEF IInv
  <2> QED BY <1>2, <2>5, <2>6
<1>3. CASE \/ EnterRange1 \/ EnterRange2 \/ EnterRange3 \/ EnterRange4
           \/ Call1 \/ Call2 \/ Call3 \/ Call4 \/ Call5 \/ Call6 \/ Call7 \/ Call8
  BY <1>3, CascadeActions, CascadeKeepsInvariant
<1> QED BY <1>1, <1>2, <1>3 DEF Next, calculateOutput

(***************************************************************************)
(* The invariants the runs check hold of every execution, whatever the     *)
(* input and however long it is: types, the eight regions, the range of    *)
(* the operands and the place of the cascade.                              *)
(***************************************************************************)
THEOREM Invariance == Spec => []IInv
<1>1. Init => IInv
  BY InitIInv
<1>2. IInv /\ [Next]_vars => IInv'
  BY NextIInv
<1> QED BY <1>1, <1>2, PTL DEF Spec

-----------------------------------------------------------------------------
(***************************************************************************)
(* The refinement, step by step.                                           *)
(***************************************************************************)
LEMMA LocOfRegionNext ==
  ASSUME TypeOK', NEW l \in Locs, InRegion(l)'
  PROVE  locOf' = l
<1>1. ASSUME NEW k \in Locs, InRegion(k)' PROVE k = l
  BY <1>1 DEF TypeOK, Locs, InRegion, Range1, Range2, Range3, Range4
<1> QED BY <1>1 DEF locOf

\* Fields that do not change stay in their region.
LEMMA LocOfUnchanged ==
  ASSUME UNCHANGED fields
  PROVE  locOf' = locOf
<1>1. \A k : InRegion(k)' <=> InRegion(k)
  BY DEF InRegion, Range1, Range2, Range3, Range4, fields
<1> QED BY <1>1 DEF locOf

\* A block of the cascade is an answer of the Mealy machine, its refusal, or invisible.
LEMMA CascadeRefines ==
  ASSUME IInv, IInv', CascadeMoves
  PROVE  [Mealy!Next]_(Mealy!vars)
<1>1. CASE Idle
  <2>1. UNCHANGED <<locOf, phaseOf, input, printed>>
    BY <1>1, LocOfUnchanged DEF Idle, CascadeMoves, Cascade, phaseOf
  <2> QED BY <2>1 DEF Mealy!vars
<1>2. CASE cf /\ \E t \in Mealy!Trans : Takes(t)
  <2>1. PICK t \in Mealy!Trans : Takes(t)
    BY <1>2
  <2>2. locOf = t.from /\ locOf' = t.to
    BY <2>1, TransTypes, LocOfRegion, LocOfRegionNext DEF Takes, IInv
  <2>3. printed = <<>>
    BY <1>2 DEF IInv, CascadeMeetsRegion, CascadeMoves, Cascade
  <2>4. printed' = <<t.out>>
    BY <2>1, <2>3 DEF Takes
  <2>5. phaseOf = "busy" /\ phaseOf' = "ready"
    BY <2>3, <2>4 DEF phaseOf, CascadeMoves, Cascade
  <2>6. Mealy!Answer
    BY <2>1, <2>2, <2>4, <2>5 DEF Mealy!Answer, Mealy!Takes, Takes, CascadeMoves
  <2> QED BY <2>6 DEF Mealy!Next
<1> QED BY <1>1, <1>2 DEF CascadeMoves, StepOutcome

\* Every step of the program is a step of the Mealy machine, or invisible.
LEMMA NextRefines ==
  ASSUME IInv, IInv', [Next]_vars
  PROVE  [Mealy!Next]_(Mealy!vars)
<1>1. ASSUME NEW i \in Inputs \cup {Other}, ReadInput(i)
      PROVE  Mealy!Next
  <2>1. pc' = "r1"
    BY <1>1 DEF ReadInput, Inputs
  <2>2. phaseOf = "ready" /\ phaseOf' = "busy"
    BY <1>1, <2>1 DEF ReadInput, phaseOf
  <2>3. Mealy!Read(i)
    BY <1>1, <2>2, LocOfUnchanged DEF ReadInput, Mealy!Read
  <2> QED BY <2>3 DEF Mealy!Next, Mealy!Inputs, Mealy!Other, Inputs, Other
<1>2. CASE ReadEndOfInput
  <2>1. phaseOf = "ready" /\ phaseOf' = "stopped"
    BY <1>2 DEF ReadEndOfInput, phaseOf
  <2>2. Mealy!Stop
    BY <1>2, <2>1, LocOfUnchanged DEF ReadEndOfInput, Mealy!Stop
  <2> QED BY <2>2 DEF Mealy!Next
<1>3. CASE CheckFired
  <2>1. UNCHANGED <<input, locOf>>
    BY <1>3, LocOfUnchanged DEF CheckFired
  <2>2. CASE ~ cf
    <3>1. phaseOf = "ready" /\ phaseOf' = "ready"
      BY <1>3, <2>2 DEF CheckFired, IInv, CascadeMeetsRegion, phaseOf
    <3> QED BY <1>3, <2>1, <2>2, <3>1 DEF CheckFired, Mealy!vars
  <2>3. CASE cf
    <3>1. printed = <<>> /\ printed' = <<Rejected>>
      BY <1>3, <2>3 DEF CheckFired, IInv, CascadeMeetsRegion
    <3>2. phaseOf = "busy" /\ phaseOf' = "ready"
      BY <1>3, <3>1 DEF CheckFired, phaseOf
    <3>3. PICK l \in Locs : InRegion(l)
      BY DEF IInv, NeverStranded
    <3>4. ~ Mealy!Accepts(l, input)
      BY <1>3, <2>3, <3>3 DEF CheckFired, IInv, CascadeMeetsRegion, Pending
    <3>5. locOf = l
      BY <3>3, LocOfRegion DEF IInv
    <3>6. Mealy!Reject
      BY <2>1, <3>1, <3>2, <3>4, <3>5 DEF Mealy!Reject, Mealy!Rejected, Rejected
    <3> QED BY <3>6 DEF Mealy!Next
  <2> QED BY <2>2, <2>3
<1>4. CASE \/ EnterRange1 \/ EnterRange2 \/ EnterRange3 \/ EnterRange4
           \/ Call1 \/ Call2 \/ Call3 \/ Call4 \/ Call5 \/ Call6 \/ Call7 \/ Call8
  BY <1>4, CascadeActions, CascadeRefines
<1>5. CASE UNCHANGED vars
  <2>1. UNCHANGED <<locOf, phaseOf, input, printed>>
    BY <1>5, LocOfUnchanged DEF vars, fields, phaseOf
  <2> QED BY <2>1 DEF Mealy!vars
<1> QED BY <1>1, <1>2, <1>3, <1>4, <1>5 DEF Next, calculateOutput

(***************************************************************************)
(* The Java program implements the Mealy machine: one line of output per   *)
(* input, the answer of the state the fields stand for.                    *)
(***************************************************************************)
THEOREM Refinement == Spec => ImplementsMealy
<1>1. Init => Mealy!Init
  <2> SUFFICES ASSUME Init PROVE Mealy!Init
    OBVIOUS
  <2>1. InRegion("m4")
    BY DEF Init, InRegion, Range2
  <2>2. locOf = "m4"
    BY <2>1, InitIInv, LocOfRegion DEF IInv, Locs
  <2> QED BY <2>2 DEF Init, Mealy!Init, Mealy!Other, Other, phaseOf
<1>2. IInv /\ IInv' /\ [Next]_vars => [Mealy!Next]_(Mealy!vars)
  BY NextRefines
<1> QED BY <1>1, <1>2, InitIInv, NextIInv, PTL DEF Spec, ImplementsMealy, Mealy!Spec

-----------------------------------------------------------------------------
(***************************************************************************)
(* The values the methods compute on the way to the ones they assign, for  *)
(* the methods that multiply fields; every other intermediate value is a   *)
(* remainder of these or within a few thousand of a field.                 *)
(***************************************************************************)
Fits(x) == -2147483648 <= x /\ x <= 2147483647

ProductsFit ==
  /\ InRegion("m1") => Fits(a2108127495 * a1522448132)
  /\ InRegion("m3") =>
       /\ Fits(a2108127495 * a2108127495)
       /\ \A y \in Int : -80 <= y /\ y <= -31 => Fits(a2108127495 * y - 22476 - 3649)
  /\ InRegion("m6") => Fits(((a2108127495 + 13863) * 2) * ((a2108127495 + 13863) * 2))
  /\ InRegion("m8") => Fits(a2108127495 * a422009172)

\* The product of two bounded operands is bounded by the product of the bounds.
LEMMA BoundedProduct ==
  ASSUME NEW x \in Int, NEW y \in Int, -30000 <= x, x <= 30000, -30000 <= y, y <= 30000
  PROVE  -900000000 <= x * y /\ x * y <= 900000000
<1>1. (30000 - x) * (30000 + y) >= 0 /\ (30000 + x) * (30000 - y) >= 0
  OBVIOUS
<1>2. (30000 - x) * (30000 - y) >= 0 /\ (30000 + x) * (30000 + y) >= 0
  OBVIOUS
<1> QED BY <1>1, <1>2

(***************************************************************************)
(* No multiplication of the program overflows a Java int in any reachable  *)
(* state, so that the unbounded arithmetic of the model is the program's.  *)
(***************************************************************************)
THEOREM NoOverflow == Spec => []ProductsFit
<1>1. ASSUME IInv PROVE ProductsFit
  <2>1. /\ a422009172 \in Int /\ -68 <= a422009172 /\ a422009172 <= 198
        /\ a2108127495 \in Int /\ -26125 <= a2108127495 /\ a2108127495 <= 27926
        /\ a1522448132 \in Int /\ -80 <= a1522448132 /\ a1522448132 <= 173
    BY <1>1 DEF IInv, OperandRange
  <2> DEFINE A == a422009172
             B == a2108127495
             C == a1522448132
  <2>2. /\ A \in Int /\ -30000 <= A /\ A <= 30000
        /\ B \in Int /\ -30000 <= B /\ B <= 30000
        /\ C \in Int /\ -30000 <= C /\ C <= 30000
    BY <2>1
  <2>3. InRegion("m6") =>
          (B + 13863) * 2 \in Int /\ -30000 <= (B + 13863) * 2 /\ (B + 13863) * 2 <= 30000
    BY <2>1 DEF InRegion, Range3
  <2> HIDE DEF A, B, C
  <2>4. Fits(B * C) /\ Fits(B * B) /\ Fits(B * A)
    BY <2>2, BoundedProduct DEF Fits
  <2>5. ASSUME NEW y \in Int, -80 <= y, y <= -31
        PROVE  Fits(B * y - 22476 - 3649)
    BY <2>2, <2>5, BoundedProduct DEF Fits
  <2>6. ASSUME InRegion("m6")
        PROVE  Fits(((B + 13863) * 2) * ((B + 13863) * 2))
    <3> DEFINE z == (B + 13863) * 2
    <3>1. z \in Int /\ -30000 <= z /\ z <= 30000
      BY <2>3, <2>6
    <3> HIDE DEF z
    <3>2. Fits(z * z)
      BY <3>1, BoundedProduct DEF Fits
    <3> QED BY <3>2 DEF z
  <2> QED BY <2>4, <2>5, <2>6 DEF ProductsFit, A, B, C
<1> QED BY <1>1, InitIInv, NextIInv, PTL DEF Spec

-----------------------------------------------------------------------------
(***************************************************************************)
(* Three-address code.  The instrumented copies compute the expressions of *)
(* the methods above instruction by instruction; what their proofs         *)
(* (Instrumented183Proofs, Redo183Proofs) share is stated here, in terms   *)
(* of this program's Rem and Quot.  Chain is a recursive function; that it *)
(* has a value after each instruction is proved first, by induction on     *)
(* their number; for the lengths the programs have it then unfolds.        *)
(***************************************************************************)
TA == INSTANCE ThreeAddress183

\* g holds the value before the first instruction and after each of the first m.
Carries(g, v, ops, m) ==
  g[0] = v /\ \A n \in 1 .. m : g[n] = TA!Apply(g[n - 1], ops[n])

\* A set of numbers closed under successor up to n reaches n.
LEMMA Climbs ==
  ASSUME NEW n \in Nat, NEW S, 0 \in S, \A m \in 0 .. n - 1 : m \in S => m + 1 \in S
  PROVE  n \in S
  <1> SUFFICES ASSUME n \notin S PROVE FALSE
    OBVIOUS
  <1> DEFINE U == {m \in 0 .. n : m \notin S}
  <1>1. U \subseteq Nat /\ n \in U
    OBVIOUS
  <1> HIDE DEF U
  <1>2. PICK y \in U : \A z \in U : ~(<<z, y>> \in OpToRel(<, Nat))
    BY <1>1, NatLessThanWellFounded, WFMin
  <1>3. \A z \in U : ~(z < y)
    BY <1>1, <1>2 DEF OpToRel
  <1>4. y \in 0 .. n /\ y \notin S /\ y # 0
    BY <1>2 DEF U
  <1>5. y - 1 \in 0 .. n - 1 /\ y - 1 \in 0 .. n /\ y - 1 < y /\ y - 1 + 1 = y
    BY <1>4
  <1>6. y - 1 \in S
    BY <1>3, <1>5 DEF U
  <1> QED BY <1>4, <1>5, <1>6

\* There is such a function for every number of instructions.
LEMMA CarriesExists ==
  ASSUME NEW v, NEW ops, NEW n \in Nat
  PROVE  \E g : Carries(g, v, ops, n)
  <1> DEFINE S == {m \in 0 .. n : \E g : Carries(g, v, ops, m)}
  <1>1. 0 \in S
    <2> DEFINE g == [k \in {0} |-> v]
    <2>1. g[0] = v
      OBVIOUS
    <2>2. Carries(g, v, ops, 0)
      BY <2>1 DEF Carries
    <2> QED BY <2>2
  <1>2. ASSUME NEW m \in 0 .. n - 1, m \in S PROVE m + 1 \in S
    <2>1. PICK g : Carries(g, v, ops, m)
      BY <1>2
    <2> DEFINE f == [k \in 0 .. m + 1 |->
                       IF k \in 0 .. m THEN g[k] ELSE TA!Apply(g[m], ops[m + 1])]
    <2>2. m \in 0 .. m /\ m + 1 \notin 0 .. m /\ 0 \in 0 .. m /\ m + 1 \in 0 .. n
      OBVIOUS
    <2>3. /\ \A k \in 0 .. m : f[k] = g[k]
          /\ f[m + 1] = TA!Apply(g[m], ops[m + 1])
      BY <2>2
    <2> HIDE DEF f
    <2>4. f[0] = v
      BY <2>1, <2>2, <2>3 DEF Carries
    <2>5. ASSUME NEW k \in 1 .. m + 1 PROVE f[k] = TA!Apply(f[k - 1], ops[k])
      <3>1. CASE k = m + 1
        <4>1. k - 1 = m
          BY <3>1
        <4> QED BY <2>2, <2>3, <3>1, <4>1
      <3>2. CASE k # m + 1
        <4>1. k \in 1 .. m /\ k \in 0 .. m /\ k - 1 \in 0 .. m
          BY <3>2
        <4> QED BY <2>1, <2>3, <4>1 DEF Carries
      <3> QED BY <3>1, <3>2
    <2>6. Carries(f, v, ops, m + 1)
      BY <2>4, <2>5 DEF Carries
    <2> QED BY <2>2, <2>6
  <1>3. n \in S
    <2> HIDE DEF S
    <2> QED BY <1>1, <1>2, Climbs
  <1> QED BY <1>3

\* Chain is the value such a function has after the last one.
LEMMA ChainCarries ==
  ASSUME NEW v, NEW ops, Len(ops) \in Nat
  PROVE  \E g : Carries(g, v, ops, Len(ops)) /\ TA!Chain(v, ops) = g[Len(ops)]
  <1> DEFINE n == Len(ops)
             Eq(f) == f = [k \in 0 .. n |-> IF k = 0 THEN v ELSE TA!Apply(f[k - 1], ops[k])]
             c == CHOOSE f : Eq(f)
  <1>1. PICK g : Carries(g, v, ops, n)
    BY CarriesExists
  <1> DEFINE h == [k \in 0 .. n |-> g[k]]
  <1>2. Eq(h)
    <2>1. ASSUME NEW k \in 0 .. n
          PROVE  h[k] = IF k = 0 THEN v ELSE TA!Apply(h[k - 1], ops[k])
      <3>1. CASE k = 0
        BY <1>1, <3>1 DEF Carries
      <3>2. CASE k # 0
        <4>1. k \in 1 .. n /\ k - 1 \in 0 .. n
          BY <3>2
        <4>2. h[k] = g[k] /\ h[k - 1] = g[k - 1]
          BY <4>1
        <4> HIDE DEF h
        <4> QED BY <1>1, <3>2, <4>1, <4>2 DEF Carries
      <3> QED BY <3>1, <3>2
    <2>2. h = [k \in 0 .. n |-> h[k]]
      OBVIOUS
    <2> HIDE DEF h
    <2> QED BY <2>1, <2>2
  <1>3. Eq(c)
    <2> HIDE DEF Eq, h
    <2> QED BY <1>2
  <1>4. TA!Chain(v, ops) = c[n]
    BY DEF TA!Chain
  <1> HIDE DEF c
  <1>5. c[0] = v
    BY <1>3
  <1>6. ASSUME NEW k \in 1 .. n PROVE c[k] = TA!Apply(c[k - 1], ops[k])
    <2>1. k \in 0 .. n /\ k # 0
      OBVIOUS
    <2> QED BY <1>3, <2>1
  <1> QED BY <1>4, <1>5, <1>6 DEF Carries

\* Chain unfolded, for two to seven instructions.
LEMMA Chain2 ==
  ASSUME NEW v, NEW a, NEW b
  PROVE  TA!Chain(v, <<a, b>>) =
           TA!Apply(TA!Apply(v, a), b)
  <1> DEFINE ops == <<a, b>>
  <1>1. ops[1] = a /\ ops[2] = b
    OBVIOUS
  <1>2. Len(ops) = 2
    OBVIOUS
  <1> HIDE DEF ops
  <1>3. PICK g : Carries(g, v, ops, 2) /\ TA!Chain(v, ops) = g[2]
    BY <1>2, ChainCarries, 2 \in Nat
  <1>4. g[0] = v /\ \A n \in 1 .. 2 : g[n] = TA!Apply(g[n - 1], ops[n])
    BY <1>3 DEF Carries
  <1>5. g[1] = TA!Apply(g[0], ops[1])
    BY <1>4
  <1>6. g[2] = TA!Apply(g[1], ops[2])
    BY <1>4
  <1>7. TA!Chain(v, ops) = TA!Apply(TA!Apply(v, a), b)
    BY <1>1, <1>3, <1>4, <1>5, <1>6
  <1> QED BY <1>7 DEF ops

LEMMA Chain3 ==
  ASSUME NEW v, NEW a, NEW b, NEW c
  PROVE  TA!Chain(v, <<a, b, c>>) =
           TA!Apply(TA!Apply(TA!Apply(v, a), b), c)
  <1> DEFINE ops == <<a, b, c>>
  <1>1. ops[1] = a /\ ops[2] = b /\ ops[3] = c
    OBVIOUS
  <1>2. Len(ops) = 3
    OBVIOUS
  <1> HIDE DEF ops
  <1>3. PICK g : Carries(g, v, ops, 3) /\ TA!Chain(v, ops) = g[3]
    BY <1>2, ChainCarries, 3 \in Nat
  <1>4. g[0] = v /\ \A n \in 1 .. 3 : g[n] = TA!Apply(g[n - 1], ops[n])
    BY <1>3 DEF Carries
  <1>5. g[1] = TA!Apply(g[0], ops[1])
    BY <1>4
  <1>6. g[2] = TA!Apply(g[1], ops[2])
    BY <1>4
  <1>7. g[3] = TA!Apply(g[2], ops[3])
    BY <1>4
  <1>8. TA!Chain(v, ops) = TA!Apply(TA!Apply(TA!Apply(v, a), b), c)
    BY <1>1, <1>3, <1>4, <1>5, <1>6, <1>7
  <1> QED BY <1>8 DEF ops

LEMMA Chain4 ==
  ASSUME NEW v, NEW a, NEW b, NEW c, NEW d
  PROVE  TA!Chain(v, <<a, b, c, d>>) =
           TA!Apply(TA!Apply(TA!Apply(TA!Apply(v, a), b), c), d)
  <1> DEFINE ops == <<a, b, c, d>>
  <1>1. ops[1] = a /\ ops[2] = b /\ ops[3] = c /\ ops[4] = d
    OBVIOUS
  <1>2. Len(ops) = 4
    OBVIOUS
  <1> HIDE DEF ops
  <1>3. PICK g : Carries(g, v, ops, 4) /\ TA!Chain(v, ops) = g[4]
    BY <1>2, ChainCarries, 4 \in Nat
  <1>4. g[0] = v /\ \A n \in 1 .. 4 : g[n] = TA!Apply(g[n - 1], ops[n])
    BY <1>3 DEF Carries
  <1>5. g[1] = TA!Apply(g[0], ops[1])
    BY <1>4
  <1>6. g[2] = TA!Apply(g[1], ops[2])
    BY <1>4
  <1>7. g[3] = TA!Apply(g[2], ops[3])
    BY <1>4
  <1>8. g[4] = TA!Apply(g[3], ops[4])
    BY <1>4
  <1>9. TA!Chain(v, ops) = TA!Apply(TA!Apply(TA!Apply(TA!Apply(v, a), b), c), d)
    BY <1>1, <1>3, <1>4, <1>5, <1>6, <1>7, <1>8
  <1> QED BY <1>9 DEF ops

LEMMA Chain5 ==
  ASSUME NEW v, NEW a, NEW b, NEW c, NEW d, NEW e
  PROVE  TA!Chain(v, <<a, b, c, d, e>>) =
           TA!Apply(TA!Apply(TA!Apply(TA!Apply(TA!Apply(v, a), b), c), d), e)
  <1> DEFINE ops == <<a, b, c, d, e>>
  <1>1. ops[1] = a /\ ops[2] = b /\ ops[3] = c /\ ops[4] = d /\ ops[5] = e
    OBVIOUS
  <1>2. Len(ops) = 5
    OBVIOUS
  <1> HIDE DEF ops
  <1>3. PICK g : Carries(g, v, ops, 5) /\ TA!Chain(v, ops) = g[5]
    BY <1>2, ChainCarries, 5 \in Nat
  <1>4. g[0] = v /\ \A n \in 1 .. 5 : g[n] = TA!Apply(g[n - 1], ops[n])
    BY <1>3 DEF Carries
  <1>5. g[1] = TA!Apply(g[0], ops[1])
    BY <1>4
  <1>6. g[2] = TA!Apply(g[1], ops[2])
    BY <1>4
  <1>7. g[3] = TA!Apply(g[2], ops[3])
    BY <1>4
  <1>8. g[4] = TA!Apply(g[3], ops[4])
    BY <1>4
  <1>9. g[5] = TA!Apply(g[4], ops[5])
    BY <1>4
  <1>10. TA!Chain(v, ops) = TA!Apply(TA!Apply(TA!Apply(TA!Apply(TA!Apply(v, a), b), c), d), e)
    BY <1>1, <1>3, <1>4, <1>5, <1>6, <1>7, <1>8, <1>9
  <1> QED BY <1>10 DEF ops

LEMMA Chain6 ==
  ASSUME NEW v, NEW a, NEW b, NEW c, NEW d, NEW e, NEW f
  PROVE  TA!Chain(v, <<a, b, c, d, e, f>>) =
           TA!Apply(TA!Apply(TA!Apply(TA!Apply(TA!Apply(TA!Apply(v, a), b), c), d), e), f)
  <1> DEFINE ops == <<a, b, c, d, e, f>>
  <1>1. ops[1] = a /\ ops[2] = b /\ ops[3] = c /\ ops[4] = d /\ ops[5] = e /\ ops[6] = f
    OBVIOUS
  <1>2. Len(ops) = 6
    OBVIOUS
  <1> HIDE DEF ops
  <1>3. PICK g : Carries(g, v, ops, 6) /\ TA!Chain(v, ops) = g[6]
    BY <1>2, ChainCarries, 6 \in Nat
  <1>4. g[0] = v /\ \A n \in 1 .. 6 : g[n] = TA!Apply(g[n - 1], ops[n])
    BY <1>3 DEF Carries
  <1>5. g[1] = TA!Apply(g[0], ops[1])
    BY <1>4
  <1>6. g[2] = TA!Apply(g[1], ops[2])
    BY <1>4
  <1>7. g[3] = TA!Apply(g[2], ops[3])
    BY <1>4
  <1>8. g[4] = TA!Apply(g[3], ops[4])
    BY <1>4
  <1>9. g[5] = TA!Apply(g[4], ops[5])
    BY <1>4
  <1>10. g[6] = TA!Apply(g[5], ops[6])
    BY <1>4
  <1>11. TA!Chain(v, ops) = TA!Apply(TA!Apply(TA!Apply(TA!Apply(TA!Apply(TA!Apply(v, a), b), c), d), e), f)
    BY <1>1, <1>3, <1>4, <1>5, <1>6, <1>7, <1>8, <1>9, <1>10
  <1> QED BY <1>11 DEF ops

LEMMA Chain7 ==
  ASSUME NEW v, NEW a, NEW b, NEW c, NEW d, NEW e, NEW f, NEW h
  PROVE  TA!Chain(v, <<a, b, c, d, e, f, h>>) =
           TA!Apply(TA!Apply(TA!Apply(TA!Apply(TA!Apply(TA!Apply(TA!Apply(v, a), b), c), d), e), f), h)
  <1> DEFINE ops == <<a, b, c, d, e, f, h>>
  <1>1. ops[1] = a /\ ops[2] = b /\ ops[3] = c /\ ops[4] = d /\ ops[5] = e /\ ops[6] = f /\ ops[7] = h
    OBVIOUS
  <1>2. Len(ops) = 7
    OBVIOUS
  <1> HIDE DEF ops
  <1>3. PICK g : Carries(g, v, ops, 7) /\ TA!Chain(v, ops) = g[7]
    BY <1>2, ChainCarries, 7 \in Nat
  <1>4. g[0] = v /\ \A n \in 1 .. 7 : g[n] = TA!Apply(g[n - 1], ops[n])
    BY <1>3 DEF Carries
  <1>5. g[1] = TA!Apply(g[0], ops[1])
    BY <1>4
  <1>6. g[2] = TA!Apply(g[1], ops[2])
    BY <1>4
  <1>7. g[3] = TA!Apply(g[2], ops[3])
    BY <1>4
  <1>8. g[4] = TA!Apply(g[3], ops[4])
    BY <1>4
  <1>9. g[5] = TA!Apply(g[4], ops[5])
    BY <1>4
  <1>10. g[6] = TA!Apply(g[5], ops[6])
    BY <1>4
  <1>11. g[7] = TA!Apply(g[6], ops[7])
    BY <1>4
  <1>12. TA!Chain(v, ops) = TA!Apply(TA!Apply(TA!Apply(TA!Apply(TA!Apply(TA!Apply(TA!Apply(v, a), b), c), d), e), f), h)
    BY <1>1, <1>3, <1>4, <1>5, <1>6, <1>7, <1>8, <1>9, <1>10, <1>11
  <1> QED BY <1>12 DEF ops

\* What one instruction computes.
LEMMA Instructions ==
  ASSUME NEW v, NEW k
  PROVE  /\ TA!Apply(v, TA!Op("Add", k)) = v + k
         /\ TA!Apply(v, TA!Op("Del", k)) = v - k
         /\ TA!Apply(v, TA!Op("Mul", k)) = v * k
         /\ TA!Apply(v, TA!Op("Div", k)) = Quot(v, k)
         /\ TA!Apply(v, TA!Op("Mod", k)) = Rem(v, k)
  <1>1. TA!Quot(v, k) = Quot(v, k) /\ TA!Rem(v, k) = Rem(v, k)
    BY DEF TA!Quot, TA!Rem, Quot, Rem
  <1>2. TA!Apply(v, TA!Op("Div", k)) = TA!Quot(v, k) /\ TA!Apply(v, TA!Op("Mod", k)) = TA!Rem(v, k)
    BY DEF TA!Apply, TA!Op
  <1>3. /\ TA!Apply(v, TA!Op("Add", k)) = v + k
        /\ TA!Apply(v, TA!Op("Del", k)) = v - k
        /\ TA!Apply(v, TA!Op("Mul", k)) = v * k
    BY DEF TA!Apply, TA!Op
  <1> QED BY <1>1, <1>2, <1>3

\* Remainders and quotients are integers.
LEMMA RoundedInt ==
  ASSUME NEW v \in Int, NEW k \in Nat \ {0}
  PROVE  Rem(v, k) \in Int /\ Quot(v, k) \in Int
  BY DEF Rem, Quot

=============================================================================
