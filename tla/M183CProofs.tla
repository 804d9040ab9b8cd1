---------------------------- MODULE M183CProofs -----------------------------
(***************************************************************************)
(* The C program: its invariants, and that it implements Mealy183, the     *)
(* machine the Java program implements (M183JavaProofs).  The argument is  *)
(* the same; the fields, the regions and every formula are others.         *)
(***************************************************************************)
EXTENDS M183C, TLAPS

-----------------------------------------------------------------------------
\* The signs of products, a square among them.
LEMMA ProductSigns ==
  ASSUME NEW x \in Int, NEW y \in Int
  PROVE  /\ x * y \in Int
         /\ x * x >= 0
         /\ x >= 0 /\ y >= 0 => x * y >= 0
         /\ x <= 0 /\ y >= 0 => x * y <= 0
OBVIOUS

\* The product in calculate_outputm2, where both factors are bounded.
LEMMA ShiftedProduct ==
  ASSUME NEW x \in Int, NEW y \in Int, -79 <= x, x <= 132, 68 <= y, y <= 115
  PROVE  x * y \in Int /\ -9085 <= x * y /\ x * y <= 15180
<1>1. (132 - x) * y >= 0 /\ (x + 79) * y >= 0
  OBVIOUS
<1> QED BY <1>1

\* The square in calculate_outputm4.
LEMMA SmallSquare ==
  ASSUME NEW x \in Int, -79 <= x, x <= 132
  PROVE  x * x \in Int /\ 0 <= x * x /\ x * x <= 17424
<1>1. (132 - x) * (132 + x) >= 0
  OBVIOUS
<1> QED BY <1>1, ProductSigns

(***************************************************************************)
(* The alphabet mapping, code by code.                                     *)
(***************************************************************************)
LEMMA CodeNames ==
  /\ NameOf(55) = "ai1_ce1" /\ NameOf(56) = "usr4_ai1_VoidReply"
  /\ NameOf(57) = "usr4_ni1_ne1" /\ NameOf(58) = "ai1_ce2"
  /\ NameOf(59) = "usr2_ai1_VoidReply" /\ NameOf(OtherIn) = "other"
  /\ NameOf(60) = "none" /\ NameOf(61) = "usr4_ai1_ce2" /\ NameOf(62) = "usr4_ai1_ce1"
  /\ NameOf(63) = "usr2_ai1_ce4" /\ NameOf(64) = "ai1_VoidReply"
  /\ NameOf(65) = "ni1_ne1" /\ NameOf(66) = "ni1_ne1__ai1_VoidReply"
  /\ NameOf(Invalid) = "Invalid input"
BY DEF NameOf, OtherIn, Invalid

\* No two inputs have the same name.
LEMMA CodeOf ==
  ASSUME input \in inputs \cup {OtherIn}
  PROVE  /\ NameOf(input) = "ai1_ce1" => input = 55
         /\ NameOf(input) = "usr4_ai1_VoidReply" => input = 56
         /\ NameOf(input) = "usr4_ni1_ne1" => input = 57
         /\ NameOf(input) = "ai1_ce2" => input = 58
         /\ NameOf(input) = "usr2_ai1_VoidReply" => input = 59
<1>1. input \in {55, 56, 57, 58, 59, OtherIn}
  BY DEF inputs
<1> QED BY <1>1, CodeNames, Zenon

-----------------------------------------------------------------------------
(***************************************************************************)
(* Two regions have no fields in common.                                   *)
(***************************************************************************)
LEMMA RegionUnique ==
  ASSUME TypeOK, NEW k \in Locs, NEW l \in Locs, InRegion(k), InRegion(l)
  PROVE  k = l
BY DEF TypeOK, Locs, InRegion, Range1, Range2, Range3, Range4

\* locOf names the region the fields are in.
LEMMA LocOfRegion ==
  ASSUME TypeOK, NEW l \in Locs, InRegion(l)
  PROVE  locOf = l
BY RegionUnique DEF locOf

(***************************************************************************)
(* The codes that the states of Mealy183 accept.                           *)
(***************************************************************************)
LEMMA AcceptsTable ==
  ASSUME input \in inputs \cup {OtherIn}
  PROVE  /\ Mealy!Accepts("m1", NameOf(input)) => input = 59
         /\ Mealy!Accepts("m2", NameOf(input)) => input \in {57, 58}
         /\ Mealy!Accepts("m3", NameOf(input)) => input = 56
         /\ Mealy!Accepts("m4", NameOf(input)) => input \in {55, 57, 58}
         /\ Mealy!Accepts("m5", NameOf(input)) => input = 59
         /\ Mealy!Accepts("m6", NameOf(input)) => input \in {56, 57}
         /\ Mealy!Accepts("m7", NameOf(input)) => input \in {56, 57}
         /\ Mealy!Accepts("m8", NameOf(input)) => input = 56
<1>1. ASSUME NEW i
      PROVE  /\ Mealy!Accepts("m1", i) => i = "usr2_ai1_VoidReply"
             /\ Mealy!Accepts("m2", i) => i \in {"usr4_ni1_ne1", "ai1_ce2"}
             /\ Mealy!Accepts("m3", i) => i = "usr4_ai1_VoidReply"
             /\ Mealy!Accepts("m4", i) => i \in {"ai1_ce2", "ai1_ce1", "usr4_ni1_ne1"}
             /\ Mealy!Accepts("m5", i) => i = "usr2_ai1_VoidReply"
             /\ Mealy!Accepts("m6", i) => i \in {"usr4_ni1_ne1", "usr4_ai1_VoidReply"}
             /\ Mealy!Accepts("m7", i) => i \in {"usr4_ni1_ne1", "usr4_ai1_VoidReply"}
             /\ Mealy!Accepts("m8", i) => i = "usr4_ai1_VoidReply"
  BY DEF Mealy!Accepts, Mealy!Trans, Mealy!T
<1> QED BY <1>1, CodeOf

\* The table of Mealy183 relates states, inputs and outputs.
LEMMA TransTypes ==
  ASSUME NEW t \in Mealy!Trans
  PROVE  t.from \in Locs /\ t.to \in Locs
BY DEF Mealy!Trans, Mealy!T, Locs

-----------------------------------------------------------------------------
(***************************************************************************)
(* What a function called in its own region does: it takes a transition of *)
(* the Mealy machine, or it does nothing because the state it stands for   *)
(* does not accept the code.                                               *)
(***************************************************************************)
Takes(t) ==
  /\ NameOf(input) = t.in
  /\ InRegion(t.from)
  /\ InRegion(t.to)'
  /\ \E o \in 60 .. 66 : printed' = Append(printed, o) /\ NameOf(o) = t.out

FieldsFit == OperandRange /\ a553774011 \in {2, 4, 7, 9}

Outcome(l) ==
  \/ /\ cf' = 0
     /\ FieldsFit'
     /\ \E t \in Mealy!Trans : Takes(t)
  \/ /\ Idle
     /\ ~ Mealy!Accepts(l, NameOf(input))

\* calculate_outputm1 in its own region.
LEMMA Function1 ==
  ASSUME TypeOK, OperandRange, cf = 1, Range1, 308 < a355441369,
         calculate_outputm1
  PROVE  Outcome("m7")
<1> DEFINE x == a1504052271
           y == a355441369
<1>1. InRegion("m7")
  BY DEF InRegion
<1>2. /\ x \in Int /\ -2468 <= x /\ x <= -80
      /\ y \in Int /\ 309 <= y /\ y <= 29823
      /\ a553774011 \in {2, 4, 7, 9}
  BY DEF TypeOK, OperandRange, Range1
<1>3. CASE input = 56
  <2> DEFINE p == y * x
             q == Rem(p, 14999)
             r == Rem(q, 95)
             s == (r + 212 - 3724) * 5
             t == Rem(s, 95)
             y1 == t + 250
             u == x * y1
             v == Rem(u, 14999)
             w == Rem(v, 12)
             x1 == w + 146 + 26865 - 26866
  <2>1. /\ a1504052271' = x1 /\ a355441369' = y1 /\ a553774011' = a553774011
        /\ cf' = 0 /\ printed' = Append(printed, 64)
    BY <1>3 DEF calculate_outputm1, Fires, Emit, Idle, fields
  <2> HIDE DEF x, y
  <2>2. p \in Int
    BY <1>2, ProductSigns
  <2> HIDE DEF p
  <2>3. q \in Int
    BY <2>2 DEF Rem
  <2> HIDE DEF q
  <2>4. r \in Int /\ r <= 94
    BY <2>3 DEF Rem
  <2> HIDE DEF r
  <2>5. s \in Int /\ s <= 0
    BY <2>4
  <2> HIDE DEF s
  <2>6. t \in Int /\ -94 <= t /\ t <= 0
    BY <2>5 DEF Rem
  <2> HIDE DEF t
  <2>7. y1 \in Int /\ 156 <= y1 /\ y1 <= 250
    BY <2>6
  <2> HIDE DEF y1
  <2>8. u \in Int
    BY <1>2, <2>7, ProductSigns
  <2> HIDE DEF u
  <2>9. v \in Int
    BY <2>8 DEF Rem
  <2> HIDE DEF v
  <2>10. w \in Int /\ -11 <= w /\ w <= 11
    BY <2>9 DEF Rem
  <2> HIDE DEF w
  <2>11. x1 \in Int /\ 134 <= x1 /\ x1 <= 156
    BY <2>10
  <2> HIDE DEF x1
  <2>12. FieldsFit' /\ InRegion("m4")'
    BY <1>1, <1>2, <2>1, <2>7, <2>11
    DEF FieldsFit, OperandRange, InRegion, Range1, Range2, Range3, Range4
  <2>13. Takes(Mealy!T("m7", "usr4_ai1_VoidReply", "ai1_VoidReply", "m4"))
    <3>1. NameOf(input) = "usr4_ai1_VoidReply"
      BY <1>3, CodeNames
    <3>2. NameOf(64) = "ai1_VoidReply"
      BY CodeNames
    <3>3. 64 \in 60 .. 66
      OBVIOUS
    <3> QED BY <1>1, <2>1, <2>12, <3>1, <3>2, <3>3 DEF Takes, Mealy!T
  <2> QED BY <2>1, <2>12, <2>13 DEF Outcome, Mealy!Trans
<1>4. CASE input = 57
  <2> DEFINE p == x * y
             q == Rem(p, 14999)
             r == Rem(q, 105)
             x1 == r + 27 - 4968 + 11739 - 6772
  <2>1. /\ a1504052271' = x1 /\ a355441369' = y /\ a553774011' = 7
        /\ cf' = 0 /\ printed' = Append(printed, 60)
    BY <1>4 DEF calculate_outputm1, Fires, Emit, Idle, fields
  <2> HIDE DEF x, y
  <2>2. p \in Int
    BY <1>2, ProductSigns
  <2> HIDE DEF p
  <2>3. q \in Int
    BY <2>2 DEF Rem
  <2> HIDE DEF q
  <2>4. r \in Int /\ -104 <= r /\ r <= 104
    BY <2>3 DEF Rem
  <2> HIDE DEF r
  <2>5. x1 \in Int /\ -78 <= x1 /\ x1 <= 130
    BY <2>4
  <2> HIDE DEF x1
  <2>6. FieldsFit' /\ InRegion("m3")'
    BY <1>1, <1>2, <2>1, <2>5
    DEF FieldsFit, OperandRange, InRegion, Range1, Range2, Range3, Range4, x, y
  <2>7. Takes(Mealy!T("m7", "usr4_ni1_ne1", "none", "m3"))
    <3>1. NameOf(input) = "usr4_ni1_ne1"
      BY <1>4, CodeNames
    <3>2. NameOf(60) = "none"
      BY CodeNames
    <3>3. 60 \in 60 .. 66
      OBVIOUS
    <3> QED BY <1>1, <2>1, <2>6, <3>1, <3>2, <3>3 DEF Takes, Mealy!T
  <2> QED BY <2>1, <2>6, <2>7 DEF Outcome, Mealy!Trans
<1>5. CASE input \notin {56, 57}
  <2>1. Idle
    BY <1>5 DEF calculate_outputm1, Fires
  <2> QED BY <2>1, <1>5, AcceptsTable DEF Outcome, TypeOK
<1> QED BY <1>3, <1>4, <1>5

\* calculate_outputm2 in its own region.
LEMMA Function2 ==
  ASSUME TypeOK, OperandRange, cf = 1, Range2, a553774011 = 2,
         calculate_outputm2
  PROVE  Outcome("m6")
<1> DEFINE x == a1504052271
           y == a355441369
<1>1. InRegion("m6")
  BY DEF InRegion
<1>2. /\ x \in Int /\ -79 <= x /\ x <= 132
      /\ y \in Int /\ 27 <= y /\ y <= 29823
      /\ a553774011 \in {2, 4, 7, 9}
  BY DEF TypeOK, OperandRange, Range2
<1>3. CASE input = 57
  <2>1. /\ a1504052271' = x /\ a355441369' = y /\ a553774011' = 9
        /\ cf' = 0 /\ printed' = Append(printed, 60)
    BY <1>3 DEF calculate_outputm2, Fires, Emit, Idle, fields
  <2>2. FieldsFit' /\ InRegion("m8")'
    BY <1>1, <1>2, <2>1
    DEF FieldsFit, OperandRange, InRegion, Range1, Range2, Range3, Range4
  <2>3. Takes(Mealy!T("m6", "usr4_ni1_ne1", "none", "m8"))
    <3>1. NameOf(input) = "usr4_ni1_ne1"
      BY <1>3, CodeNames
    <3>2. NameOf(60) = "none"
      BY CodeNames
    <3>3. 60 \in 60 .. 66
      OBVIOUS
    <3> QED BY <1>1, <2>1, <2>2, <3>1, <3>2, <3>3 DEF Takes, Mealy!T
  <2> QED BY <2>1, <2>2, <2>3 DEF Outcome, Mealy!Trans
<1>4. CASE input = 56
  <2> DEFINE p == x * x
             q == Rem(p, 48)
             y1 == q + 68
             r == x * y1
             x1 == r + 12704 + 528 + 896
  <2>1. /\ a1504052271' = x1 /\ a355441369' = y1 /\ a553774011' = a553774011
        /\ cf' = 0 /\ printed' = Append(printed, 64)
    BY <1>4 DEF calculate_outputm2, Fires, Emit, Idle, fields
  <2> HIDE DEF x, y
  <2>2. p \in Int /\ p >= 0
    BY <1>2, ProductSigns
  <2> HIDE DEF p
  <2>3. q \in Int /\ 0 <= q /\ q <= 47
    BY <2>2 DEF Rem
  <2> HIDE DEF q
  <2>4. y1 \in Int /\ 68 <= y1 /\ y1 <= 115
    BY <2>3
  <2> HIDE DEF y1
  <2>5. r \in Int /\ -9085 <= r /\ r <= 15180
    BY <1>2, <2>4, ShiftedProduct
  <2> HIDE DEF r
  <2>6. x1 \in Int /\ 5043 <= x1 /\ x1 <= 29308
    BY <2>5
  <2> HIDE DEF x1
  <2>7. FieldsFit' /\ InRegion("m2")'
    BY <1>1, <1>2, <2>1, <2>4, <2>6
    DEF FieldsFit, OperandRange, InRegion, Range1, Range2, Range3, Range4
  <2>8. Takes(Mealy!T("m6", "usr4_ai1_VoidReply", "ai1_VoidReply", "m2"))
    <3>1. NameOf(input) = "usr4_ai1_VoidReply"
      BY <1>4, CodeNames
    <3>2. NameOf(64) = "ai1_VoidReply"
      BY CodeNames
    <3>3. 64 \in 60 .. 66
      OBVIOUS
    <3> QED BY <1>1, <2>1, <2>7, <3>1, <3>2, <3>3 DEF Takes, Mealy!T
  <2> QED BY <2>1, <2>7, <2>8 DEF Outcome, Mealy!Trans
<1>5. CASE input \notin {57, 56}
  <2>1. Idle
    BY <1>5 DEF calculate_outputm2, Fires
  <2> QED BY <2>1, <1>5, AcceptsTable DEF Outcome, TypeOK
<1> QED BY <1>3, <1>4, <1>5

\* calculate_outputm3 in its own region.
LEMMA Function3 ==
  ASSUME TypeOK, OperandRange, cf = 1, Range2, a553774011 = 4,
         calculate_outputm3
  PROVE  Outcome("m5")
<1> DEFINE x == a1504052271
           y == a355441369
<1>1. InRegion("m5")
  BY DEF InRegion
<1>2. /\ x \in Int /\ -79 <= x /\ x <= 132
      /\ y \in Int /\ 27 <= y /\ y <= 29823
      /\ a553774011 \in {2, 4, 7, 9}
  BY DEF TypeOK, OperandRange, Range2
<1>3. CASE input = 59
  <2> DEFINE p == Rem(x, 12)
             x1 == p + 146 - 18935 + 18934
             q == x1 * x1
             r == Quot(q, 5)
             s == Rem(r, 95)
             y1 == s + 164 - 33
  <2>1. /\ a1504052271' = x1 /\ a355441369' = y1 /\ a553774011' = a553774011
        /\ cf' = 0 /\ printed' = Append(printed, 60)
    BY <1>3 DEF calculate_outputm3, Fires, Emit, Idle, fields
  <2> HIDE DEF x, y
  <2>2. p \in Int /\ -11 <= p /\ p <= 11
    BY <1>2 DEF Rem
  <2> HIDE DEF p
  <2>3. x1 \in Int /\ 134 <= x1 /\ x1 <= 156
    BY <2>2
  <2> HIDE DEF x1
  <2>4. q \in Int /\ q >= 0
    BY <2>3, ProductSigns
  <2> HIDE DEF q
  <2>5. r \in Int /\ r >= 0
    BY <2>4 DEF Quot
  <2> HIDE DEF r
  <2>6. s \in Int /\ 0 <= s /\ s <= 94
    BY <2>5 DEF Rem
  <2> HIDE DEF s
  <2>7. y1 \in Int /\ 131 <= y1 /\ y1 <= 225
    BY <2>6
  <2> HIDE DEF y1
  <2>8. FieldsFit' /\ InRegion("m4")'
    BY <1>1, <1>2, <2>1, <2>3, <2>7
    DEF FieldsFit, OperandRange, InRegion, Range1, Range2, Range3, Range4
  <2>9. Takes(Mealy!T("m5", "usr2_ai1_VoidReply", "none", "m4"))
    <3>1. NameOf(input) = "usr2_ai1_VoidReply"
      BY <1>3, CodeNames
    <3>2. NameOf(60) = "none"
      BY CodeNames
    <3>3. 60 \in 60 .. 66
      OBVIOUS
    <3> QED BY <1>1, <2>1, <2>8, <3>1, <3>2, <3>3 DEF Takes, Mealy!T
  <2> QED BY <2>1, <2>8, <2>9 DEF Outcome, Mealy!Trans
<1>4. CASE input \notin {59}
  <2>1. Idle
    BY <1>4 DEF calculate_outputm3, Fires
  <2> QED BY <2>1, <1>4, AcceptsTable DEF Outcome, TypeOK
<1> QED BY <1>3, <1>4

\* calculate_outputm4 in its own region.
LEMMA Function4 ==
  ASSUME TypeOK, OperandRange, cf = 1, Range2, a553774011 = 7,
         calculate_outputm4
  PROVE  Outcome("m3")
<1> DEFINE x == a1504052271
           y == a355441369
<1>1. InRegion("m3")
  BY DEF InRegion
<1>2. /\ x \in Int /\ -79 <= x /\ x <= 132
      /\ y \in Int /\ 27 <= y /\ y <= 29823
      /\ a553774011 \in {2, 4, 7, 9}
  BY DEF TypeOK, OperandRange, Range2
<1>3. CASE input = 56
  <2> DEFINE p == x * x
             y1 == p + 10765 + 1445 + 189
             q == x * y1
             r == Rem(q, 14999)
             s == Quot(r - 8929, 5)
             t == s * 5
             u == Rem(t, 12)
             x1 == u + 145
  <2>1. /\ a1504052271' = x1 /\ a355441369' = y1 /\ a553774011' = a553774011
        /\ cf' = 0 /\ printed' = Append(printed, 63)
    BY <1>3 DEF calculate_outputm4, Fires, Emit, Idle, fields
  <2> HIDE DEF x, y
  <2>2. p \in Int /\ 0 <= p /\ p <= 17424
    BY <1>2, SmallSquare
  <2> HIDE DEF p
  <2>3. y1 \in Int /\ 12399 <= y1 /\ y1 <= 29823
    BY <2>2
  <2> HIDE DEF y1
  <2>4. q \in Int
    BY <1>2, <2>3, ProductSigns
  <2> HIDE DEF q
  <2>5. r \in Int
    BY <2>4 DEF Rem
  <2> HIDE DEF r
  <2>6. s \in Int
    BY <2>5 DEF Quot
  <2> HIDE DEF s
  <2>7. t \in Int
    BY <2>6
  <2> HIDE DEF t
  <2>8. u \in Int /\ -11 <= u /\ u <= 11
    BY <2>7 DEF Rem
  <2> HIDE DEF u
  <2>9. x1 \in Int /\ 134 <= x1 /\ x1 <= 156
    BY <2>8
  <2> HIDE DEF x1
  <2>10. FieldsFit' /\ InRegion("m1")'
    BY <1>1, <1>2, <2>1, <2>3, <2>9
    DEF FieldsFit, OperandRange, InRegion, Range1, Range2, Range3, Range4
  <2>11. Takes(Mealy!T("m3", "usr4_ai1_VoidReply", "usr2_ai1_ce4", "m1"))
    <3>1. NameOf(input) = "usr4_ai1_VoidReply"
      BY <1>3, CodeNames
    <3>2. NameOf(63) = "usr2_ai1_ce4"
      BY CodeNames
    <3>3. 63 \in 60 .. 66
      OBVIOUS
    <3> QED BY <1>1, <2>1, <2>10, <3>1, <3>2, <3>3 DEF Takes, Mealy!T
  <2> QED BY <2>1, <2>10, <2>11 DEF Outcome, Mealy!Trans
<1>4. CASE input \notin {56}
  <2>1. Idle
    BY <1>4 DEF calculate_outputm4, Fires
  <2> QED BY <2>1, <1>4, AcceptsTable DEF Outcome, TypeOK
<1> QED BY <1>3, <1>4

\* calculate_outputm5 in its own region.
LEMMA Function5 ==
  ASSUME TypeOK, OperandRange, cf = 1, Range2, a553774011 = 9,
         calculate_outputm5
  PROVE  Outcome("m8")
<1> DEFINE x == a1504052271
           y == a355441369
<1>1. InRegion("m8")
  BY DEF InRegion
<1>2. /\ x \in Int /\ -79 <= x /\ x <= 132
      /\ y \in Int /\ 27 <= y /\ y <= 29823
      /\ a553774011 \in {2, 4, 7, 9}
  BY DEF TypeOK, OperandRange, Range2
<1>3. CASE input = 56
  <2> DEFINE p == (x + 9836) * 10
             q == Quot(p, 9)
             x1 == Quot(q, 5)
             r == x1 * x1
             s == Rem(r, 14999)
             t == Rem(s, 48)
             u == (t + 50) * 9
             v == Quot(u, 10)
             y1 == v - 18
  <2>1. /\ a1504052271' = x1 /\ a355441369' = y1 /\ a553774011' = a553774011
        /\ cf' = 0 /\ printed' = Append(printed, 66)
    BY <1>3 DEF calculate_outputm5, Fires, Emit, Idle, fields
  <2> HIDE DEF x, y
  <2>2. p \in Int /\ 97570 <= p /\ p <= 99680
    BY <1>2
  <2> HIDE DEF p
  <2>3. q \in Int /\ 10841 <= q /\ q <= 11075
    BY <2>2 DEF Quot
  <2> HIDE DEF q
  <2>4. x1 \in Int /\ 2168 <= x1 /\ x1 <= 2215
    BY <2>3 DEF Quot
  <2> HIDE DEF x1
  <2>5. r \in Int /\ r >= 0
    BY <2>4, ProductSigns
  <2> HIDE DEF r
  <2>6. s \in Int /\ s >= 0
    BY <2>5 DEF Rem
  <2> HIDE DEF s
  <2>7. t \in Int /\ 0 <= t /\ t <= 47
    BY <2>6 DEF Rem
  <2> HIDE DEF t
  <2>8. u \in Int /\ 450 <= u /\ u <= 873
    BY <2>7
  <2> HIDE DEF u
  <2>9. v \in Int /\ 45 <= v /\ v <= 87
    BY <2>8 DEF Quot
  <2> HIDE DEF v
  <2>10. y1 \in Int /\ 27 <= y1 /\ y1 <= 69
    BY <2>9
  <2> HIDE DEF y1
  <2>11. FieldsFit' /\ InRegion("m2")'
    BY <1>1, <1>2, <2>1, <2>4, <2>10
    DEF FieldsFit, OperandRange, InRegion, Range1, Range2, Range3, Range4
  <2>12. Takes(Mealy!T("m8", "usr4_ai1_VoidReply", "ni1_ne1__ai1_VoidReply", "m2"))
    <3>1. NameOf(input) = "usr4_ai1_VoidReply"
      BY <1>3, CodeNames
    <3>2. NameOf(66) = "ni1_ne1__ai1_VoidReply"
      BY CodeNames
    <3>3. 66 \in 60 .. 66
      OBVIOUS
    <3> QED BY <1>1, <2>1, <2>11, <3>1, <3>2, <3>3 DEF Takes, Mealy!T
  <2> QED BY <2>1, <2>11, <2>12 DEF Outcome, Mealy!Trans
<1>4. CASE input \notin {56}
  <2>1. Idle
    BY <1>4 DEF calculate_outputm5, Fires
  <2> QED BY <2>1, <1>4, AcceptsTable DEF Outcome, TypeOK
<1> QED BY <1>3, <1>4

\* calculate_outputm6 in its own region.
LEMMA Function6 ==
  ASSUME TypeOK, OperandRange, cf = 1, Range3, 116 < a355441369, 308 >= a355441369,
         calculate_outputm6
  PROVE  Outcome("m4")
<1> DEFINE x == a1504052271
           y == a355441369
<1>1. InRegion("m4")
  BY DEF InRegion
<1>2. /\ x \in Int /\ 133 <= x /\ x <= 158
      /\ y \in Int /\ 117 <= y /\ y <= 308
      /\ a553774011 \in {2, 4, 7, 9}
  BY DEF TypeOK, OperandRange, Range3
<1>3. CASE input = 57
  <2> DEFINE p == x * y
             q == Rem(p, 14999)
             r == Rem(q, 105)
             s == r - 14
             t == Quot(s, 5)
             x1 == t - 24176 + 24226
  <2>1. /\ a1504052271' = x1 /\ a355441369' = y /\ a553774011' = 4
        /\ cf' = 0 /\ printed' = Append(printed, 63)
    BY <1>3 DEF calculate_outputm6, Fires, Emit, Idle, fields
  <2> HIDE DEF x, y
  <2>2. p \in Int /\ p >= 0
    BY <1>2, ProductSigns
  <2> HIDE DEF p
  <2>3. q \in Int /\ q >= 0
    BY <2>2 DEF Rem
  <2> HIDE DEF q
  <2>4. r \in Int /\ 0 <= r /\ r <= 104
    BY <2>3 DEF Rem
  <2> HIDE DEF r
  <2>5. s \in Int /\ -14 <= s /\ s <= 90
    BY <2>4
  <2> HIDE DEF s
  <2>6. t \in Int /\ -2 <= t /\ t <= 18
    BY <2>5 DEF Quot
  <2> HIDE DEF t
  <2>7. x1 \in Int /\ 48 <= x1 /\ x1 <= 68
    BY <2>6
  <2> HIDE DEF x1
  <2>8. FieldsFit' /\ InRegion("m5")'
    BY <1>1, <1>2, <2>1, <2>7
    DEF FieldsFit, OperandRange, InRegion, Range1, Range2, Range3, Range4, x, y
  <2>9. Takes(Mealy!T("m4", "usr4_ni1_ne1", "usr2_ai1_ce4", "m5"))
    <3>1. NameOf(input) = "usr4_ni1_ne1"
      BY <1>3, CodeNames
    <3>2. NameOf(63) = "usr2_ai1_ce4"
      BY CodeNames
    <3>3. 63 \in 60 .. 66
      OBVIOUS
    <3> QED BY <1>1, <2>1, <2>8, <3>1, <3>2, <3>3 DEF Takes, Mealy!T
  <2> QED BY <2>1, <2>8, <2>9 DEF Outcome, Mealy!Trans
<1>4. CASE input = 58
  <2>1. /\ a1504052271' = x /\ a355441369' = y /\ a553774011' = a553774011
        /\ cf' = 0 /\ printed' = Append(printed, 64)
    BY <1>4 DEF calculate_outputm6, Fires, Emit, Idle, fields
  <2>2. FieldsFit' /\ InRegion("m4")'
    BY <1>1, <1>2, <2>1
    DEF FieldsFit, OperandRange, InRegion, Range1, Range2, Range3, Range4
  <2>3. Takes(Mealy!T("m4", "ai1_ce2", "ai1_VoidReply", "m4"))
    <3>1. NameOf(input) = "ai1_ce2"
      BY <1>4, CodeNames
    <3>2. NameOf(64) = "ai1_VoidReply"
      BY CodeNames
    <3>3. 64 \in 60 .. 66
      OBVIOUS
    <3> QED BY <1>1, <2>1, <2>2, <3>1, <3>2, <3>3 DEF Takes, Mealy!T
  <2> QED BY <2>1, <2>2, <2>3 DEF Outcome, Mealy!Trans
<1>5. CASE input = 55
  <2> DEFINE p == x * y
             q == Rem(p, 14999)
             r == Rem(q, 105)
             s == r + 4
             t == Quot(s, 5)
             x1 == t + 5260 - 5306
  <2>1. /\ a1504052271' = x1 /\ a355441369' = y /\ a553774011' = 2
        /\ cf' = 0 /\ printed' = Append(printed, 62)
    BY <1>5 DEF calculate_outputm6, Fires, Emit, Idle, fields
  <2> HIDE DEF x, y
  <2>2. p \in Int /\ p >= 0
    BY <1>2, ProductSigns
  <2> HIDE DEF p
  <2>3. q \in Int /\ q >= 0
    BY <2>2 DEF Rem
  <2> HIDE DEF q
  <2>4. r \in Int /\ 0 <= r /\ r <= 104
    BY <2>3 DEF Rem
  <2> HIDE DEF r
  <2>5. s \in Int /\ 4 <= s /\ s <= 108
    BY <2>4
  <2> HIDE DEF s
  <2>6. t \in Int /\ 0 <= t /\ t <= 21
    BY <2>5 DEF Quot
  <2> HIDE DEF t
  <2>7. x1 \in Int /\ -46 <= x1 /\ x1 <= -25
    BY <2>6
  <2> HIDE DEF x1
  <2>8. FieldsFit' /\ InRegion("m6")'
    BY <1>1, <1>2, <2>1, <2>7
    DEF FieldsFit, OperandRange, InRegion, Range1, Range2, Range3, Range4, x, y
  <2>9. Takes(Mealy!T("m4", "ai1_ce1", "usr4_ai1_ce1", "m6"))
    <3>1. NameOf(input) = "ai1_ce1"
      BY <1>5, CodeNames
    <3>2. NameOf(62) = "usr4_ai1_ce1"
      BY CodeNames
    <3>3. 62 \in 60 .. 66
      OBVIOUS
    <3> QED BY <1>1, <2>1, <2>8, <3>1, <3>2, <3>3 DEF Takes, Mealy!T
  <2> QED BY <2>1, <2>8, <2>9 DEF Outcome, Mealy!Trans
<1>6. CASE input \notin {57, 58, 55}
  <2>1. Idle
    BY <1>6 DEF calculate_outputm6, Fires
  <2> QED BY <2>1, <1>6, AcceptsTable DEF Outcome, TypeOK
<1> QED BY <1>3, <1>4, <1>5, <1>6

\* calculate_outputm7 in its own region.
LEMMA Function7 ==
  ASSUME TypeOK, OperandRange, cf = 1, Range3, 308 < a355441369,
         calculate_outputm7
  PROVE  Outcome("m1")
<1> DEFINE x == a1504052271
           y == a355441369
<1>1. InRegion("m1")
  BY DEF InRegion
<1>2. /\ x \in Int /\ 133 <= x /\ x <= 158
      /\ y \in Int /\ 309 <= y /\ y <= 29823
      /\ a553774011 \in {2, 4, 7, 9}
  BY DEF TypeOK, OperandRange, Range3
<1>3. CASE input = 59
  <2> DEFINE p == y * x
             q == Rem(p, 14999)
             r == Rem(q, 95)
             s == (r + 212) * 5
             t == Rem(s, 95)
             y1 == t + 169
  <2>1. /\ a1504052271' = x /\ a355441369' = y1 /\ a553774011' = a553774011
        /\ cf' = 0 /\ printed' = Append(printed, 64)
    BY <1>3 DEF calculate_outputm7, Fires, Emit, Idle, fields
  <2> HIDE DEF x, y
  <2>2. p \in Int
    BY <1>2, ProductSigns
  <2> HIDE DEF p
  <2>3. q \in Int
    BY <2>2 DEF Rem
  <2> HIDE DEF q
  <2>4. r \in Int /\ r >= -94
    BY <2>3 DEF Rem
  <2> HIDE DEF r
  <2>5. s \in Int /\ s >= 0
    BY <2>4
  <2> HIDE DEF s
  <2>6. t \in Int /\ 0 <= t /\ t <= 94
    BY <2>5 DEF Rem
  <2> HIDE DEF t
  <2>7. y1 \in Int /\ 169 <= y1 /\ y1 <= 263
    BY <2>6
  <2> HIDE DEF y1
  <2>8. FieldsFit' /\ InRegion("m4")'
    BY <1>1, <1>2, <2>1, <2>7
    DEF FieldsFit, OperandRange, InRegion, Range1, Range2, Range3, Range4, x, y
  <2>9. Takes(Mealy!T("m1", "usr2_ai1_VoidReply", "ai1_VoidReply", "m4"))
    <3>1. NameOf(input) = "usr2_ai1_VoidReply"
      BY <1>3, CodeNames
    <3>2. NameOf(64) = "ai1_VoidReply"
      BY CodeNames
    <3>3. 64 \in 60 .. 66
      OBVIOUS
    <3> QED BY <1>1, <2>1, <2>8, <3>1, <3>2, <3>3 DEF Takes, Mealy!T
  <2> QED BY <2>1, <2>8, <2>9 DEF Outcome, Mealy!Trans
<1>4. CASE input \notin {59}
  <2>1. Idle
    BY <1>4 DEF calculate_outputm7, Fires
  <2> QED BY <2>1, <1>4, AcceptsTable DEF Outcome, TypeOK
<1> QED BY <1>3, <1>4

\* calculate_outputm8 in its own region.
LEMMA Function8 ==
  ASSUME TypeOK, OperandRange, cf = 1, Range4, 19 < a355441369, 116 >= a355441369,
         calculate_outputm8
  PROVE  Outcome("m2")
<1> DEFINE x == a1504052271
           y == a355441369
<1>1. InRegion("m2")
  BY DEF InRegion
<1>2. /\ x \in Int /\ 159 <= x /\ x <= 29308
      /\ y \in Int /\ 27 <= y /\ y <= 116
      /\ a553774011 \in {2, 4, 7, 9}
  BY DEF TypeOK, OperandRange, Range4
<1>3. CASE input = 57
  <2>1. /\ a1504052271' = x /\ a355441369' = y /\ a553774011' = a553774011
        /\ cf' = 0 /\ printed' = Append(printed, 65)
    BY <1>3 DEF calculate_outputm8, Fires, Emit, Idle, fields
  <2>2. FieldsFit' /\ InRegion("m2")'
    BY <1>1, <1>2, <2>1
    DEF FieldsFit, OperandRange, InRegion, Range1, Range2, Range3, Range4
  <2>3. Takes(Mealy!T("m2", "usr4_ni1_ne1", "ni1_ne1", "m2"))
    <3>1. NameOf(input) = "usr4_ni1_ne1"
      BY <1>3, CodeNames
    <3>2. NameOf(65) = "ni1_ne1"
      BY CodeNames
    <3>3. 65 \in 60 .. 66
      OBVIOUS
    <3> QED BY <1>1, <2>1, <2>2, <3>1, <3>2, <3>3 DEF Takes, Mealy!T
  <2> QED BY <2>1, <2>2, <2>3 DEF Outcome, Mealy!Trans
<1>4. CASE input = 58
  <2> DEFINE p == x * y
             q == Rem(p, 14999)
             r == (q - 19076) * 10
             s == Quot(r, 9)
             t == (s + 29218) * (-1)
             x1 == Quot(t, 10)
             u == y * x1
             v == Rem(u, 14999)
             y1 == v + 17432 - 12283 + 19411
  <2>1. /\ a1504052271' = x1 /\ a355441369' = y1 /\ a553774011' = a553774011
        /\ cf' = 0 /\ printed' = Append(printed, 61)
    BY <1>4 DEF calculate_outputm8, Fires, Emit, Idle, fields
  <2> HIDE DEF x, y
  <2>2. p \in Int /\ p >= 0
    BY <1>2, ProductSigns
  <2> HIDE DEF p
  <2>3. q \in Int /\ 0 <= q /\ q <= 14998
    BY <2>2 DEF Rem
  <2> HIDE DEF q
  <2>4. r \in Int /\ -190760 <= r /\ r <= -40780
    BY <2>3
  <2> HIDE DEF r
  <2>5. s \in Int /\ -21195 <= s /\ s <= -4531
    BY <2>4 DEF Quot
  <2> HIDE DEF s
  <2>6. t \in Int /\ -24687 <= t /\ t <= -8023
    BY <2>5
  <2> HIDE DEF t
  <2>7. x1 \in Int /\ -2468 <= x1 /\ x1 <= -802
    BY <2>6 DEF Quot
  <2> HIDE DEF x1
  <2>8. u \in Int /\ u <= 0
    BY <1>2, <2>7, ProductSigns
  <2> HIDE DEF u
  <2>9. v \in Int /\ -14998 <= v /\ v <= 0
    BY <2>8 DEF Rem
  <2> HIDE DEF v
  <2>10. y1 \in Int /\ 9562 <= y1 /\ y1 <= 24560
    BY <2>9
  <2> HIDE DEF y1
  <2>11. FieldsFit' /\ InRegion("m7")'
    BY <1>1, <1>2, <2>1, <2>7, <2>10
    DEF FieldsFit, OperandRange, InRegion, Range1, Range2, Range3, Range4
  <2>12. Takes(Mealy!T("m2", "ai1_ce2", "usr4_ai1_ce2", "m7"))
    <3>1. NameOf(input) = "ai1_ce2"
      BY <1>4, CodeNames
    <3>2. NameOf(61) = "usr4_ai1_ce2"
      BY CodeNames
    <3>3. 61 \in 60 .. 66
      OBVIOUS
    <3> QED BY <1>1, <2>1, <2>11, <3>1, <3>2, <3>3 DEF Takes, Mealy!T
  <2> QED BY <2>1, <2>11, <2>12 DEF Outcome, Mealy!Trans
<1>5. CASE input \notin {57, 58}
  <2>1. Idle
    BY <1>5 DEF calculate_outputm8, Fires
  <2> QED BY <2>1, <1>5, AcceptsTable DEF Outcome, TypeOK
<1> QED BY <1>3, <1>4, <1>5

-----------------------------------------------------------------------------
(***************************************************************************)
(* What a test of the cascade with the call behind it does, wherever the   *)
(* fields are: the function of region l takes a transition, or nothing     *)
(* happens, and then not because an accepted code was overlooked.          *)
(***************************************************************************)
CallOutcome(l) ==
  \/ /\ Idle
     /\ cf = 1 => ~ InRegion(l) \/ ~ Mealy!Accepts(l, NameOf(input))
  \/ /\ cf = 1 /\ cf' = 0
     /\ FieldsFit'
     /\ \E t \in Mealy!Trans : Takes(t)

\* calculate_outputm1 .. m8, called where calculate_output calls them, have such an outcome.
LEMMA Calls ==
  ASSUME IInv
  PROVE  /\ Call1 => CallOutcome("m7")
         /\ Call2 => CallOutcome("m6")
         /\ Call3 => CallOutcome("m5")
         /\ Call4 => CallOutcome("m3")
         /\ Call5 => CallOutcome("m8")
         /\ Call6 => CallOutcome("m4")
         /\ Call7 => CallOutcome("m1")
         /\ Call8 => CallOutcome("m2")
<1>1. ASSUME Call1 PROVE CallOutcome("m7")
  <2>1. CASE cf # 1
    BY <1>1, <2>1 DEF Call1, Call, CallOutcome
  <2>2. CASE cf = 1
    <3>1. Range1
      BY <1>1, <2>2 DEF IInv, CascadeMeetsRegion, Call1, Call
    <3>2. \/ Idle /\ ~ InRegion("m7")
          \/ calculate_outputm1 /\ 308 < a355441369
      BY <1>1, <2>2 DEF Call1, Call, InRegion
    <3>3. ASSUME calculate_outputm1, 308 < a355441369 PROVE Outcome("m7")
      BY <2>2, <3>1, <3>3, Function1 DEF IInv
    <3> QED BY <2>2, <3>2, <3>3 DEF CallOutcome, Outcome
  <2> QED BY <2>1, <2>2
<1>2. ASSUME Call2 PROVE CallOutcome("m6")
  <2>1. CASE cf # 1
    BY <1>2, <2>1 DEF Call2, Call, CallOutcome
  <2>2. CASE cf = 1
    <3>1. Range2
      BY <1>2, <2>2 DEF IInv, CascadeMeetsRegion, Call2, Call
    <3>2. \/ Idle /\ ~ InRegion("m6")
          \/ calculate_outputm2 /\ a553774011 = 2
      BY <1>2, <2>2 DEF Call2, Call, InRegion
    <3>3. ASSUME calculate_outputm2, a553774011 = 2 PROVE Outcome("m6")
      BY <2>2, <3>1, <3>3, Function2 DEF IInv
    <3> QED BY <2>2, <3>2, <3>3 DEF CallOutcome, Outcome
  <2> QED BY <2>1, <2>2
<1>3. ASSUME Call3 PROVE CallOutcome("m5")
  <2>1. CASE cf # 1
    BY <1>3, <2>1 DEF Call3, Call, CallOutcome
  <2>2. CASE cf = 1
    <3>1. Range2
      BY <1>3, <2>2 DEF IInv, CascadeMeetsRegion, Call3, Call
    <3>2. \/ Idle /\ ~ InRegion("m5")
          \/ calculate_outputm3 /\ a553774011 = 4
      BY <1>3, <2>2 DEF Call3, Call, InRegion
    <3>3. ASSUME calculate_outputm3, a553774011 = 4 PROVE Outcome("m5")
      BY <2>2, <3>1, <3>3, Function3 DEF IInv
    <3> QED BY <2>2, <3>2, <3>3 DEF CallOutcome, Outcome
  <2> QED BY <2>1, <2>2
<1>4. ASSUME Call4 PROVE CallOutcome("m3")
  <2>1. CASE cf # 1
    BY <1>4, <2>1 DEF Call4, Call, CallOutcome
  <2>2. CASE cf = 1
    <3>1. Range2
      BY <1>4, <2>2 DEF IInv, CascadeMeetsRegion, Call4, Call
    <3>2. \/ Idle /\ ~ InRegion("m3")
          \/ calculate_outputm4 /\ a553774011 = 7
      BY <1>4, <2>2 DEF Call4, Call, InRegion
    <3>3. ASSUME calculate_outputm4, a553774011 = 7 PROVE Outcome("m3")
      BY <2>2, <3>1, <3>3, Function4 DEF IInv
    <3> QED BY <2>2, <3>2, <3>3 DEF CallOutcome, Outcome
  <2> QED BY <2>1, <2>2
<1>5. ASSUME Call5 PROVE CallOutcome("m8")
  <2>1. CASE cf # 1
    BY <1>5, <2>1 DEF Call5, Call, CallOutcome
  <2>2. CASE cf = 1
    <3>1. Range2
      BY <1>5, <2>2 DEF IInv, CascadeMeetsRegion, Call5, Call
    <3>2. \/ Idle /\ ~ InRegion("m8")
          \/ calculate_outputm5 /\ a553774011 = 9
      BY <1>5, <2>2 DEF Call5, Call, InRegion
    <3>3. ASSUME calculate_outputm5, a553774011 = 9 PROVE Outcome("m8")
      BY <2>2, <3>1, <3>3, Function5 DEF IInv
    <3> QED BY <2>2, <3>2, <3>3 DEF CallOutcome, Outcome
  <2> QED BY <2>1, <2>2
<1>6. ASSUME Call6 PROVE CallOutcome("m4")
  <2>1. CASE cf # 1
    BY <1>6, <2>1 DEF Call6, Call, CallOutcome
  <2>2. CASE cf = 1
    <3>1. Range3
      BY <1>6, <2>2 DEF IInv, CascadeMeetsRegion, Call6, Call
    <3>2. \/ Idle /\ ~ InRegion("m4")
          \/ calculate_outputm6 /\ 116 < a355441369 /\ 308 >= a355441369
      BY <1>6, <2>2 DEF Call6, Call, InRegion
    <3>3. ASSUME calculate_outputm6, 116 < a355441369, 308 >= a355441369 PROVE Outcome("m4")
      BY <2>2, <3>1, <3>3, Function6 DEF IInv
    <3> QED BY <2>2, <3>2, <3>3 DEF CallOutcome, Outcome
  <2> QED BY <2>1, <2>2
<1>7. ASSUME Call7 PROVE CallOutcome("m1")
  <2>1. CASE cf # 1
    BY <1>7, <2>1 DEF Call7, Call, CallOutcome
  <2>2. CASE cf = 1
    <3>1. Range3
      BY <1>7, <2>2 DEF IInv, CascadeMeetsRegion, Call7, Call
    <3>2. \/ Idle /\ ~ InRegion("m1")
          \/ calculate_outputm7 /\ 308 < a355441369
      BY <1>7, <2>2 DEF Call7, Call, InRegion
    <3>3. ASSUME calculate_outputm7, 308 < a355441369 PROVE Outcome("m1")
      BY <2>2, <3>1, <3>3, Function7 DEF IInv
    <3> QED BY <2>2, <3>2, <3>3 DEF CallOutcome, Outcome
  <2> QED BY <2>1, <2>2
<1>8. ASSUME Call8 PROVE CallOutcome("m2")
  <2>1. CASE cf # 1
    BY <1>8, <2>1 DEF Call8, Call, CallOutcome
  <2>2. CASE cf = 1
    <3>1. Range4
      BY <1>8, <2>2 DEF IInv, CascadeMeetsRegion, Call8, Call
    <3>2. \/ Idle /\ ~ InRegion("m2")
          \/ calculate_outputm8 /\ 19 < a355441369 /\ 116 >= a355441369
      BY <1>8, <2>2 DEF Call8, Call, InRegion
    <3>3. ASSUME calculate_outputm8, 19 < a355441369, 116 >= a355441369 PROVE Outcome("m2")
      BY <2>2, <3>1, <3>3, Function8 DEF IInv
    <3> QED BY <2>2, <3>2, <3>3 DEF CallOutcome, Outcome
  <2> QED BY <2>1, <2>2
<1> QED BY <1>1, <1>2, <1>3, <1>4, <1>5, <1>6, <1>7, <1>8

(***************************************************************************)
(* A step from one test of the cascade to the next: it takes a transition, *)
(* or it changes nothing and leaves no region behind that accepts the      *)
(* code.                                                                   *)
(***************************************************************************)
Cascade == PCs \ {"main", "test", "returned"}

StepOutcome ==
  \/ /\ Idle
     /\ cf = 1 => \A k \in Pending(pc) \ Pending(pc') :
                    InRegion(k) => ~ Mealy!Accepts(k, NameOf(input))
  \/ /\ cf = 1 /\ cf' = 0
     /\ FieldsFit'
     /\ \E t \in Mealy!Trans : Takes(t)

CascadeMoves ==
  /\ pc \in Cascade /\ pc' \in Cascade
  /\ UNCHANGED <<stdin, input>>
  /\ StepOutcome
  /\ cf = 1 => /\ pc' = "m1" => Range1
               /\ pc' \in {"m2", "m3", "m4", "m5"} => Range2
               /\ pc' \in {"m6", "m7"} => Range3
               /\ pc' = "m8" => Range4

\* Every block of the cascade in calculate_output keeps the invariant.
LEMMA CascadeKeepsInvariant ==
  ASSUME IInv, CascadeMoves
  PROVE  IInv'
<1>1. CASE /\ Idle
           /\ cf = 1 => \A k \in Pending(pc) \ Pending(pc') :
                          InRegion(k) => ~ Mealy!Accepts(k, NameOf(input))
  <2>1. TypeOK' /\ OperandRange'
    BY <1>1 DEF IInv, TypeOK, OperandRange, Idle, fields, CascadeMoves, Cascade
  <2>2. \A k : InRegion(k)' <=> InRegion(k)
    BY <1>1 DEF InRegion, Range1, Range2, Range3, Range4, Idle, fields
  <2>3. NeverStranded'
    BY <2>2 DEF IInv, NeverStranded
  <2>4. CascadeMeetsRegion'
    <3>1. CASE cf = 0
      BY <3>1, <1>1 DEF IInv, CascadeMeetsRegion, Idle, CascadeMoves, Cascade
    <3>2. CASE cf = 1
      <4>1. cf' = 1 /\ printed' = <<>>
        BY <3>2, <1>1 DEF IInv, CascadeMeetsRegion, Idle, CascadeMoves, Cascade
      <4>2. /\ pc' = "m1" => Range1'
            /\ pc' \in {"m2", "m3", "m4", "m5"} => Range2'
            /\ pc' \in {"m6", "m7"} => Range3'
            /\ pc' = "m8" => Range4'
        BY <3>2, <1>1 DEF CascadeMoves, Range1, Range2, Range3, Range4, Idle, fields
      <4>3. ASSUME NEW k \in Locs, InRegion(k)', k \notin Pending(pc')
            PROVE  ~ Mealy!Accepts(k, NameOf(input'))
        <5>1. InRegion(k)
          BY <4>3, <2>2
        <5>2. CASE k \in Pending(pc)
          BY <4>3, <5>1, <5>2, <3>2, <1>1 DEF CascadeMoves
        <5>3. CASE k \notin Pending(pc)
          BY <5>1, <5>3, <3>2 DEF IInv, CascadeMeetsRegion, CascadeMoves, Cascade
        <5> QED BY <5>2, <5>3
      <4> QED BY <4>1, <4>2, <4>3 DEF CascadeMeetsRegion
    <3> QED BY <3>1, <3>2 DEF IInv, TypeOK
  <2> QED BY <2>1, <2>3, <2>4 DEF IInv
<1>2. CASE /\ cf = 1 /\ cf' = 0
           /\ FieldsFit'
           /\ \E t \in Mealy!Trans : Takes(t)
  <2>1. PICK t \in Mealy!Trans : Takes(t)
    BY <1>2
  <2>2. NeverStranded'
    BY <2>1, TransTypes DEF Takes, NeverStranded
  <2>3. printed = <<>>
    BY <1>2 DEF IInv, CascadeMeetsRegion, CascadeMoves, Cascade
  <2>4. PICK o \in 60 .. 66 : printed' = <<o>>
    BY <2>1, <2>3 DEF Takes
  <2>5. Len(printed') = 1 /\ printed' \in Seq((60 .. 66) \cup {Invalid})
    BY <2>4
  <2>6. CascadeMeetsRegion'
    BY <1>2, <2>5 DEF CascadeMeetsRegion, CascadeMoves, Cascade
  <2>7. TypeOK'
    <3>1. pc' \in PCs /\ stdin' \in {"open", "stuck"} /\ input' \in inputs \cup {OtherIn}
      BY DEF IInv, TypeOK, CascadeMoves, Cascade
    <3>2. a1504052271' \in Int /\ a355441369' \in Int /\ a553774011' \in {2, 4, 7, 9}
      BY <1>2 DEF FieldsFit, OperandRange
    <3> QED BY <1>2, <2>5, <3>1, <3>2 DEF TypeOK
  <2> QED BY <1>2, <2>2, <2>6, <2>7 DEF IInv, FieldsFit
<1> QED BY <1>1, <1>2 DEF CascadeMoves, StepOutcome

(***************************************************************************)
(* Every step of calculate_output but the last is such a step.             *)
(***************************************************************************)
LEMMA CascadeActions ==
  ASSUME IInv,
         \/ EnterRange1 \/ EnterRange2 \/ EnterRange3 \/ EnterRange4
         \/ Call1 \/ Call2 \/ Call3 \/ Call4 \/ Call5 \/ Call6 \/ Call7 \/ Call8
  PROVE  CascadeMoves
<1> USE DEF CascadeMoves, Cascade, PCs
<1>1. CASE EnterRange1
  BY <1>1 DEF EnterRange1, Enter, StepOutcome, Idle, Pending, Locs, InRegion
<1>2. CASE EnterRange2
  BY <1>2 DEF EnterRange2, Enter, StepOutcome, Idle, Pending, Locs, InRegion
<1>3. CASE EnterRange3
  BY <1>3 DEF EnterRange3, Enter, StepOutcome, Idle, Pending, Locs, InRegion
<1>4. CASE EnterRange4
  BY <1>4 DEF EnterRange4, Enter, StepOutcome, Idle, Pending, Locs, InRegion
<1>5. CASE Call1
  <2>1. Pending(pc) \ Pending(pc') \subseteq {"m7"}
    BY <1>5 DEF Call1, Call, Pending, Locs
  <2>2. StepOutcome
    BY <1>5, <2>1, Calls DEF CallOutcome, StepOutcome
  <2> QED BY <1>5, <2>2 DEF Call1, Call
<1>6. CASE Call2
  <2>1. Pending(pc) \ Pending(pc') \subseteq {"m6"}
    BY <1>6 DEF Call2, Call, Pending, Locs
  <2>2. StepOutcome
    BY <1>6, <2>1, Calls DEF CallOutcome, StepOutcome
  <2> QED BY <1>6, <2>2 DEF Call2, Call, IInv, CascadeMeetsRegion
<1>7. CASE Call3
  <2>1. Pending(pc) \ Pending(pc') \subseteq {"m5"}
    BY <1>7 DEF Call3, Call, Pending, Locs
  <2>2. StepOutcome
    BY <1>7, <2>1, Calls DEF CallOutcome, StepOutcome
  <2> QED BY <1>7, <2>2 DEF Call3, Call, IInv, CascadeMeetsRegion
<1>8. CASE Call4
  <2>1. Pending(pc) \ Pending(pc') \subseteq {"m3"}
    BY <1>8 DEF Call4, Call, Pending, Locs
  <2>2. StepOutcome
    BY <1>8, <2>1, Calls DEF CallOutcome, StepOutcome
  <2> QED BY <1>8, <2>2 DEF Call4, Call, IInv, CascadeMeetsRegion
<1>9. CASE Call5
  <2>1. Pending(pc) \ Pending(pc') \subseteq {"m8"}
    BY <1>9 DEF Call5, Call, Pending, Locs
  <2>2. StepOutcome
    BY <1>9, <2>1, Calls DEF CallOutcome, StepOutcome
  <2> QED BY <1>9, <2>2 DEF Call5, Call
<1>10. CASE Call6
  <2>1. Pending(pc) \ Pending(pc') \subseteq {"m4"}
    BY <1>10 DEF Call6, Call, Pending, Locs
  <2>2. StepOutcome
    BY <1>10, <2>1, Calls DEF CallOutcome, StepOutcome
  <2> QED BY <1>10, <2>2 DEF Call6, Call, IInv, CascadeMeetsRegion
<1>11. CASE Call7
  <2>1. Pending(pc) \ Pending(pc') \subseteq {"m1"}
    BY <1>11 DEF Call7, Call, Pending, Locs
  <2>2. StepOutcome
    BY <1>11, <2>1, Calls DEF CallOutcome, StepOutcome
  <2> QED BY <1>11, <2>2 DEF Call7, Call
<1>12. CASE Call8
  <2>1. Pending(pc) \ Pending(pc') \subseteq {"m2"}
    BY <1>12 DEF Call8, Call, Pending, Locs
  <2>2. StepOutcome
    BY <1>12, <2>1, Calls DEF CallOutcome, StepOutcome
  <2> QED BY <1>12, <2>2 DEF Call8, Call
<1> QED BY <1>1, <1>2, <1>3, <1>4, <1>5, <1>6, <1>7, <1>8, <1>9, <1>10, <1>11, <1>12

\* The initialisers of the globals establish the invariant.
LEMMA InitIInv == Init => IInv
<1> SUFFICES ASSUME Init PROVE IInv
  OBVIOUS
<1>1. TypeOK
  <2>1. <<>> \in Seq((60 .. 66) \cup {Invalid})
    OBVIOUS
  <2> QED BY <2>1 DEF Init, TypeOK, PCs
<1>2. InRegion("m4")
  BY DEF Init, InRegion, Range3
<1>3. NeverStranded
  BY <1>2 DEF NeverStranded, Locs
<1> QED BY <1>1, <1>3 DEF Init, IInv, OperandRange, CascadeMeetsRegion

\* A step that leaves the fields alone, outside the blocks of the cascade.
LEMMA FieldsKept ==
  ASSUME IInv, UNCHANGED fields
  PROVE  OperandRange' /\ NeverStranded' /\ \A k : InRegion(k)' <=> InRegion(k)
<1>1. \A k : InRegion(k)' <=> InRegion(k)
  BY DEF InRegion, Range1, Range2, Range3, Range4, fields
<1>2. NeverStranded'
  BY <1>1 DEF IInv, NeverStranded
<1> QED BY <1>1, <1>2 DEF IInv, OperandRange, fields

\* Reading a code, of scanf or what is left in the variable, keeps the invariant.
LEMMA ScanKeeps ==
  ASSUME IInv, input' \in inputs \cup {OtherIn}, stdin' \in {"open", "stuck"},
         printed' = <<>>, pc' = "test", UNCHANGED <<cf, fields>>
  PROVE  IInv'
<1>1. <<>> \in Seq((60 .. 66) \cup {Invalid})
  OBVIOUS
<1>2. TypeOK'
  BY <1>1 DEF IInv, TypeOK, PCs, fields
<1>3. CascadeMeetsRegion'
  BY DEF CascadeMeetsRegion
<1> QED BY <1>2, <1>3, FieldsKept DEF IInv

\* Every step of main and calculate_output keeps the invariant.
LEMMA NextIInv == IInv /\ [Next]_vars => IInv'
<1> SUFFICES ASSUME IInv, [Next]_vars PROVE IInv'
  OBVIOUS
<1>1. ASSUME NEW i \in inputs \cup {OtherIn}, ScanNumber(i) PROVE IInv'
  BY <1>1, ScanKeeps DEF ScanNumber, IInv, TypeOK
<1>2. CASE ScanNothing
  BY <1>2, ScanKeeps DEF ScanNothing
<1>3. CASE TestInput
  <2>1. UNCHANGED <<stdin, input, fields, printed>> /\ pc = "test"
    BY <1>3 DEF TestInput
  <2>2. printed' = <<>>
    BY <2>1 DEF IInv, CascadeMeetsRegion
  <2>3. \/ cf' = 1 /\ pc' = "r1"
        \/ cf' = cf /\ pc' = "returned"
    BY <1>3 DEF TestInput
  <2>4. TypeOK'
    BY <2>1, <2>3 DEF IInv, TypeOK, PCs, fields
  <2>5. CascadeMeetsRegion'
    BY <2>2, <2>3 DEF CascadeMeetsRegion, Pending
  <2> QED BY <2>1, <2>4, <2>5, FieldsKept DEF IInv
<1>4. CASE CheckFired
  <2>1. UNCHANGED <<stdin, input, cf, fields>> /\ pc' = "main"
    BY <1>4 DEF CheckFired
  <2>2. printed' \in Seq((60 .. 66) \cup {Invalid})
    BY <1>4 DEF CheckFired, IInv, TypeOK
  <2>3. TypeOK'
    BY <2>1, <2>2 DEF IInv, TypeOK, PCs, fields
  <2>4. CascadeMeetsRegion'
    BY <2>1 DEF CascadeMeetsRegion
  <2> QED BY <2>1, <2>3, <2>4, FieldsKept DEF IInv
<1>5. CASE \/ EnterRange1 \/ EnterRange2 \/ EnterRange3 \/ EnterRange4
           \/ Call1 \/ Call2 \/ Call3 \/ Call4 \/ Call5 \/ Call6 \/ Call7 \/ Call8
  BY <1>5, CascadeActions, CascadeKeepsInvariant
<1>6. CASE UNCHANGED vars
  <2>1. UNCHANGED fields
    BY <1>6 DEF vars, fields
  <2>2. TypeOK'
    BY <1>6 DEF vars, IInv, TypeOK
  <2>3. CascadeMeetsRegion'
    BY <1>6, <2>1, FieldsKept DEF vars, IInv, CascadeMeetsRegion,
                                  Range1, Range2, Range3, Range4
  <2> QED BY <2>1, <2>2, <2>3, FieldsKept DEF IInv
<1> QED BY <1>1, <1>2, <1>3, <1>4, <1>5, <1>6 DEF Next, main, calculate_output

(***************************************************************************)
(* The invariant the run checks holds of every execution of the C program, *)
(* whatever is on stdin and whatever a failed scanf leaves in its place:   *)
(* types, the eight regions, the range of the operands and the place of    *)
(* the cascade.                                                            *)
(***************************************************************************)
THEOREM Invariance == Spec => []IInv
<1>1. Init => IInv
  BY InitIInv
<1>2. IInv /\ [Next]_vars => IInv'
  BY NextIInv
<1> QED BY <1>1, <1>2, PTL DEF Spec

-----------------------------------------------------------------------------
(***************************************************************************)
(* The refinement, step by step.                                           *)
(***************************************************************************)
LEMMA LocOfRegionNext ==
  ASSUME TypeOK', NEW l \in Locs, InRegion(l)'
  PROVE  locOf' = l
<1>1. ASSUME NEW k \in Locs, InRegion(k)' PROVE k = l
  BY <1>1 DEF TypeOK, Locs, InRegion, Range1, Range2, Range3, Range4
<1> QED BY <1>1 DEF locOf

\* Fields that do not change stay in their region.
LEMMA LocOfUnchanged ==
  ASSUME UNCHANGED fields
  PROVE  locOf' = locOf
<1>1. \A k : InRegion(k)' <=> InRegion(k)
  BY DEF InRegion, Range1, Range2, Range3, Range4, fields
<1> QED BY <1>1 DEF locOf

\* What the caller sees of one line of output.
LEMMA ReplyOfOne ==
  ASSUME NEW o, printed' = <<o>>
  PROVE  replyOf' = <<NameOf(o)>>
BY DEF replyOf

\* A block of the cascade is an answer of the Mealy machine, its refusal, or invisible.
LEMMA CascadeRefines ==
  ASSUME IInv, IInv', CascadeMoves
  PROVE  [Mealy!Next]_(Mealy!vars)
<1>1. CASE Idle
  <2>1. UNCHANGED <<locOf, phaseOf, replyOf, NameOf(input)>>
    BY <1>1, LocOfUnchanged DEF Idle, CascadeMoves, Cascade, phaseOf, replyOf
  <2> QED BY <2>1 DEF Mealy!vars
<1>2. CASE cf = 1 /\ \E t \in Mealy!Trans : Takes(t)
  <2>1. PICK t \in Mealy!Trans : Takes(t)
    BY <1>2
  <2>2. locOf = t.from /\ locOf' = t.to
    BY <2>1, TransTypes, LocOfRegion, LocOfRegionNext DEF Takes, IInv
  <2>3. printed = <<>>
    BY <1>2 DEF IInv, CascadeMeetsRegion, CascadeMoves, Cascade
  <2>4. PICK o \in 60 .. 66 : printed' = <<o>> /\ NameOf(o) = t.out
    BY <2>1, <2>3 DEF Takes
  <2>5. replyOf' = <<t.out>>
    BY <2>4, ReplyOfOne
  <2>6. phaseOf = "busy" /\ phaseOf' = "ready"
    BY <2>3, <2>4 DEF phaseOf, CascadeMoves, Cascade
  <2>7. NameOf(input) = t.in /\ NameOf(input)' = NameOf(input)
    BY <2>1 DEF Takes, CascadeMoves
  <2>8. Mealy!Answer
    BY <2>2, <2>5, <2>6, <2>7 DEF Mealy!Answer, Mealy!Takes
  <2> QED BY <2>8 DEF Mealy!Next
<1> QED BY <1>1, <1>2 DEF CascadeMoves, StepOutcome

\* A code that is read is one of the five inputs or none of them.
LEMMA NameOfCode ==
  ASSUME NEW i \in inputs \cup {OtherIn}
  PROVE  NameOf(i) \in Mealy!Inputs \cup {Mealy!Other}
<1>1. i \in {55, 56, 57, 58, 59, OtherIn}
  BY DEF inputs
<1>2. CASE i = 55
  <2>1. NameOf(i) = "ai1_ce1"
    BY <1>2, CodeNames, ZenonT(30)
  <2> QED BY <2>1 DEF Mealy!Inputs, Mealy!Other
<1>3. CASE i = 56
  <2>1. NameOf(i) = "usr4_ai1_VoidReply"
    BY <1>3, CodeNames
  <2> QED BY <2>1 DEF Mealy!Inputs, Mealy!Other
<1>4. CASE i = 57
  <2>1. NameOf(i) = "usr4_ni1_ne1"
    BY <1>4, CodeNames
  <2> QED BY <2>1 DEF Mealy!Inputs, Mealy!Other
<1>5. CASE i = 58
  <2>1. NameOf(i) = "ai1_ce2"
    BY <1>5, CodeNames
  <2> QED BY <2>1 DEF Mealy!Inputs, Mealy!Other
<1>6. CASE i = 59
  <2>1. NameOf(i) = "usr2_ai1_VoidReply"
    BY <1>6, CodeNames
  <2> QED BY <2>1 DEF Mealy!Inputs, Mealy!Other
<1>7. CASE i = OtherIn
  <2>1. NameOf(i) = "other"
    BY <1>7, CodeNames
  <2> QED BY <2>1 DEF Mealy!Inputs, Mealy!Other
<1> QED BY <1>1, <1>2, <1>3, <1>4, <1>5, <1>6, <1>7

\* Reading a code is the Mealy machine's Read.
LEMMA ScanRefines ==
  ASSUME pc = "main", input' \in inputs \cup {OtherIn}, printed' = <<>>,
         pc' = "test", UNCHANGED fields
  PROVE  Mealy!Next
<1>1. phaseOf = "ready" /\ phaseOf' = "busy"
  BY DEF phaseOf
<1>2. replyOf' = <<>>
  BY DEF replyOf
<1>3. PICK i \in inputs \cup {OtherIn} : input' = i
  OBVIOUS
<1>4. Mealy!Read(NameOf(i))
  BY <1>1, <1>2, <1>3, LocOfUnchanged DEF Mealy!Read
<1> QED BY <1>4, NameOfCode DEF Mealy!Next

\* Every step of the program is a step of the Mealy machine, or invisible.
LEMMA NextRefines ==
  ASSUME IInv, IInv', [Next]_vars
  PROVE  [Mealy!Next]_(Mealy!vars)
<1>1. ASSUME NEW i \in inputs \cup {OtherIn}, ScanNumber(i)
      PROVE  Mealy!Next
  BY <1>1, ScanRefines DEF ScanNumber
<1>2. CASE ScanNothing
  BY <1>2, ScanRefines DEF ScanNothing
<1>3. CASE TestInput
  <2>1. /\ pc = "test" /\ printed = <<>>
        /\ UNCHANGED <<locOf, replyOf, NameOf(input), printed>>
    BY <1>3, LocOfUnchanged DEF TestInput, IInv, CascadeMeetsRegion, replyOf
  <2>2. phaseOf = "busy"
    BY <2>1 DEF phaseOf
  <2>3. CASE pc' = "r1"
    <3>1. phaseOf' = "busy"
      BY <2>1, <2>3 DEF phaseOf
    <3> QED BY <2>1, <2>2, <3>1 DEF Mealy!vars
  <2>4. CASE pc' = "returned"
    <3>1. phaseOf' = "stopped"
      BY <2>4 DEF phaseOf
    <3>2. input = OtherIn
      BY <1>3, <2>4 DEF TestInput, IInv, TypeOK
    <3>3. NameOf(input) = Mealy!Other
      BY <3>2, CodeNames DEF Mealy!Other
    <3>4. Mealy!Stop
      BY <2>1, <2>2, <3>1, <3>3 DEF Mealy!Stop
    <3> QED BY <3>4 DEF Mealy!Next
  <2> QED BY <1>3, <2>3, <2>4 DEF TestInput
<1>4. CASE CheckFired
  <2>1. UNCHANGED <<locOf, NameOf(input)>>
    BY <1>4, LocOfUnchanged DEF CheckFired
  <2>2. CASE cf # 1
    <3>1. printed' = printed /\ Len(printed) = 1
      BY <1>4, <2>2 DEF CheckFired, IInv, CascadeMeetsRegion
    <3>2. phaseOf = "ready" /\ phaseOf' = "ready"
      BY <1>4, <3>1 DEF CheckFired, phaseOf
    <3>3. replyOf' = replyOf
      BY <3>1 DEF replyOf
    <3> QED BY <2>1, <3>2, <3>3 DEF Mealy!vars
  <2>3. CASE cf = 1
    <3>1. printed = <<>> /\ printed' = <<Invalid>>
      BY <1>4, <2>3 DEF CheckFired, IInv, CascadeMeetsRegion
    <3>2. phaseOf = "busy" /\ phaseOf' = "ready"
      BY <1>4, <3>1 DEF CheckFired, phaseOf
    <3>3. PICK l \in Locs : InRegion(l)
      BY DEF IInv, NeverStranded
    <3>4. ~ Mealy!Accepts(l, NameOf(input))
      BY <1>4, <2>3, <3>3 DEF CheckFired, IInv, CascadeMeetsRegion, Pending
    <3>5. locOf = l
      BY <3>3, LocOfRegion DEF IInv
    <3>6. replyOf' = <<Mealy!Rejected>>
      BY <3>1, ReplyOfOne, CodeNames, ZenonT(30) DEF Mealy!Rejected
    <3>7. Mealy!Reject
      BY <2>1, <3>2, <3>4, <3>5, <3>6 DEF Mealy!Reject
    <3> QED BY <3>7 DEF Mealy!Next
  <2> QED BY <2>2, <2>3
<1>5. CASE \/ EnterRange1 \/ EnterRange2 \/ EnterRange3 \/ EnterRange4
           \/ Call1 \/ Call2 \/ Call3 \/ Call4 \/ Call5 \/ Call6 \/ Call7 \/ Call8
  BY <1>5, CascadeActions, CascadeRefines
<1>6. CASE UNCHANGED vars
  <2>1. UNCHANGED <<locOf, phaseOf, replyOf, NameOf(input)>>
    BY <1>6, LocOfUnchanged DEF vars, fields, phaseOf, replyOf
  <2> QED BY <2>1 DEF Mealy!vars
<1> QED BY <1>1, <1>2, <1>3, <1>4, <1>5, <1>6 DEF Next, main, calculate_output

(***************************************************************************)
(* The C program implements the Mealy machine that the Java program        *)
(* implements, up to the alphabet mapping: one line of output per code,    *)
(* the answer of the state its globals stand for.                          *)
(***************************************************************************)
THEOREM Refinement == Spec => ImplementsMealy
<1>1. Init => Mealy!Init
  <2> SUFFICES ASSUME Init PROVE Mealy!Init
    OBVIOUS
  <2>1. InRegion("m4")
    BY DEF Init, InRegion, Range3
  <2>2. locOf = "m4"
    BY <2>1, InitIInv, LocOfRegion DEF IInv, Locs
  <2>3. NameOf(input) = Mealy!Other
    BY CodeNames DEF Init, Mealy!Other
  <2>4. replyOf = <<>> /\ phaseOf = "ready"
    BY DEF Init, replyOf, phaseOf
  <2> QED BY <2>2, <2>3, <2>4 DEF Mealy!Init
<1>2. IInv /\ IInv' /\ [Next]_vars => [Mealy!Next]_(Mealy!vars)
  BY NextRefines
<1> QED BY <1>1, <1>2, InitIInv, NextIInv, PTL DEF Spec, ImplementsMealy, Mealy!Spec

-----------------------------------------------------------------------------
(***************************************************************************)
(* The products in the eight functions are of two globals, each before or  *)
(* after its assignment; the other intermediate values are a remainder or  *)
(* a quotient of these, or a few thousand away from a global, times ten at *)
(* most.                                                                   *)
(***************************************************************************)
Fits(x) == -2147483648 <= x /\ x <= 2147483647

ProductsFit ==
  \A v, w \in {a1504052271, a355441369, a1504052271', a355441369'} : Fits(v * w)

\* The product of two bounded operands is bounded by the product of the bounds.
LEMMA BoundedProduct ==
  ASSUME NEW v \in Int, NEW w \in Int, -30000 <= v, v <= 30000, -30000 <= w, w <= 30000
  PROVE  -900000000 <= v * w /\ v * w <= 900000000
<1>1. (30000 - v) * (30000 + w) >= 0 /\ (30000 + v) * (30000 - w) >= 0
  OBVIOUS
<1>2. (30000 - v) * (30000 - w) >= 0 /\ (30000 + v) * (30000 + w) >= 0
  OBVIOUS
<1> QED BY <1>1, <1>2

(***************************************************************************)
(* No multiplication of the C program overflows an int, which would be     *)
(* undefined behaviour: the unbounded arithmetic of the model is its own.  *)
(***************************************************************************)
THEOREM NoOverflow == Spec => [][ProductsFit]_vars
<1>1. ASSUME IInv, IInv' PROVE ProductsFit
  <2> SUFFICES ASSUME NEW v \in {a1504052271, a355441369, a1504052271', a355441369'},
                      NEW w \in {a1504052271, a355441369, a1504052271', a355441369'}
               PROVE  Fits(v * w)
    BY DEF ProductsFit
  <2>1. /\ v \in Int /\ -30000 <= v /\ v <= 30000
        /\ w \in Int /\ -30000 <= w /\ w <= 30000
    BY <1>1 DEF IInv, OperandRange
  <2>2. v * w \in Int
    BY <2>1
  <2>3. -900000000 <= v * w /\ v * w <= 900000000
    BY <2>1, BoundedProduct
  <2> QED BY <2>2, <2>3 DEF Fits
<1>2. Init => IInv
  BY InitIInv
<1>3. IInv /\ [Next]_vars => IInv'
  BY NextIInv
<1> QED BY <1>1, <1>2, <1>3, PTL DEF Spec

=============================================================================
