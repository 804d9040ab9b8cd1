---------------------------- MODULE Redo183Proofs ----------------------------
(***************************************************************************)
(* The reworked instrumentation: its code computes what the original does, *)
(* what the misplaced brace leaves of the machine, and what the depth of   *)
(* an input says about it, for inputs of any number.                       *)
(*                                                                         *)
(* The fields are those of the original program, so the results on its     *)
(* methods apply once a method here is known to compute the same.          *)
(***************************************************************************)
EXTENDS Redo183, TLAPS

J == INSTANCE M183JavaProofs

-----------------------------------------------------------------------------
(***************************************************************************)
(* Three-address code, by way of the lemmas that M183JavaProofs has on it. *)
(***************************************************************************)
LEMMA SameRounding ==
  \A v, k : Rem(v, k) = J!TA!Rem(v, k) /\ Quot(v, k) = J!TA!Quot(v, k)
  BY DEF Rem, Quot, J!TA!Rem, J!TA!Quot

LEMMA SameApply ==
  \A v, op : Apply(v, op) = J!TA!Apply(v, op)
  BY SameRounding, Zenon DEF Apply, J!TA!Apply

LEMMA SameChain ==
  ASSUME NEW v, NEW ops
  PROVE  Chain(v, ops) = J!TA!Chain(v, ops)
  <1> DEFINE Eq(f)  == f = [k \in 0 .. Len(ops) |->
                              IF k = 0 THEN v ELSE Apply(f[k - 1], ops[k])]
             JEq(f) == f = [k \in 0 .. Len(ops) |->
                              IF k = 0 THEN v ELSE J!TA!Apply(f[k - 1], ops[k])]
  <1>1. \A f : Eq(f) <=> JEq(f)
    BY SameApply
  <1>2. Chain(v, ops) = (CHOOSE f : Eq(f))[Len(ops)]
    BY DEF Chain
  <1>3. J!TA!Chain(v, ops) = (CHOOSE f : JEq(f))[Len(ops)]
    BY DEF J!TA!Chain
  <1> HIDE DEF Eq, JEq
  <1>4. (CHOOSE f : Eq(f)) = CHOOSE f : JEq(f)
    BY <1>1, Zenon
  <1> QED BY <1>2, <1>3, <1>4, Zenon

LEMMA SameOp ==
  \A f, c : Op(f, c) = J!TA!Op(f, c)
  BY DEF Op, J!TA!Op

\* The chains of the methods, as the expressions they replaced.
LEMMA Value1 ==
  ASSUME NEW p \in Int
  PROVE  LET ops == <<Op("Mod", 14999), Op("Mod", 72), Op("Del", 91),
                 Op("Del", -1), Op("Mul", 1)>>
         IN  /\ Chain(p, ops) \in Int
             /\ Chain(p, ops) = J!Rem(J!Rem(p, 14999), 72) - 91 + 1
  <1> DEFINE ops == <<Op("Mod", 14999), Op("Mod", 72), Op("Del", 91),
                      Op("Del", -1), Op("Mul", 1)>>
             w1 == J!Rem(p, 14999)
             w2 == J!Rem(w1, 72)
             w3 == w2 - 91
             w4 == w3 - (-1)
             w5 == w4 * 1
  <1>1. Chain(p, ops) = w5
    BY J!Chain5, J!Instructions, SameChain, SameOp
  <1> HIDE DEF ops
  <1>2. w1 \in Int
    BY J!RoundedInt
  <1> HIDE DEF w1
  <1>3. w2 \in Int
    BY <1>2, J!RoundedInt
  <1> HIDE DEF w2
  <1>4. w3 \in Int
    BY <1>3
  <1> HIDE DEF w3
  <1>5. w4 \in Int
    BY <1>4
  <1> HIDE DEF w4
  <1>6. w5 \in Int
    BY <1>5
  <1> HIDE DEF w5
  <1>7. w5 = J!Rem(J!Rem(p, 14999), 72) - 91 + 1
    BY <1>2, <1>3, <1>4, <1>5, <1>6 DEF w1, w2, w3, w4, w5
  <1> QED BY <1>1, <1>6, <1>7 DEF ops

LEMMA Value2 ==
  ASSUME NEW p \in Int
  PROVE  LET ops == <<Op("Mod", 59), Op("Del", -98), Op("Del", 4), Op("Add", -42)>>
         IN  /\ Chain(p, ops) \in Int
             /\ Chain(p, ops) = J!Rem(p, 59) + 98 - 4 - 42
  <1> DEFINE ops == <<Op("Mod", 59), Op("Del", -98), Op("Del", 4), Op("Add", -42)>>
             w1 == J!Rem(p, 59)
             w2 == w1 - (-98)
             w3 == w2 - 4
             w4 == w3 + (-42)
  <1>1. Chain(p, ops) = w4
    BY J!Chain4, J!Instructions, SameChain, SameOp
  <1> HIDE DEF ops
  <1>2. w1 \in Int
    BY J!RoundedInt
  <1> HIDE DEF w1
  <1>3. w2 \in Int
    BY <1>2
  <1> HIDE DEF w2
  <1>4. w3 \in Int
    BY <1>3
  <1> HIDE DEF w3
  <1>5. w4 \in Int
    BY <1>4
  <1> HIDE DEF w4
  <1>6. w4 = J!Rem(p, 59) + 98 - 4 - 42
    BY <1>2, <1>3, <1>4, <1>5 DEF w1, w2, w3, w4
  <1> QED BY <1>1, <1>5, <1>6 DEF ops

LEMMA Value3C ==
  ASSUME NEW p \in Int
  PROVE  LET ops == <<Op("Mod", 50), Op("Del", 75), Op("Mul", 5), Op("Mod", 50),
                 Op("Add", -31)>>
         IN  /\ Chain(p, ops) \in Int
             /\ Chain(p, ops) = J!Rem((J!Rem(p, 50) - 75) * 5, 50) - 31
  <1> DEFINE ops == <<Op("Mod", 50), Op("Del", 75), Op("Mul", 5), Op("Mod", 50),
                      Op("Add", -31)>>
             w1 == J!Rem(p, 50)
             w2 == w1 - 75
             w3 == w2 * 5
             w4 == J!Rem(w3, 50)
             w5 == w4 + (-31)
  <1>1. Chain(p, ops) = w5
    BY J!Chain5, J!Instructions, SameChain, SameOp
  <1> HIDE DEF ops
  <1>2. w1 \in Int
    BY J!RoundedInt
  <1> HIDE DEF w1
  <1>3. w2 \in Int
    BY <1>2
  <1> HIDE DEF w2
  <1>4. w3 \in Int
    BY <1>3
  <1> HIDE DEF w3
  <1>5. w4 \in Int
    BY <1>4, J!RoundedInt
  <1> HIDE DEF w4
  <1>6. w5 \in Int
    BY <1>5
  <1> HIDE DEF w5
  <1>7. w5 = J!Rem((J!Rem(p, 50) - 75) * 5, 50) - 31
    BY <1>2, <1>3, <1>4, <1>5, <1>6 DEF w1, w2, w3, w4, w5
  <1> QED BY <1>1, <1>6, <1>7 DEF ops

LEMMA Value3B ==
  ASSUME NEW p \in Int
  PROVE  LET ops == <<Op("Del", 22476), Op("Mul", 1), Op("Add", -3649)>>
         IN  /\ Chain(p, ops) \in Int
             /\ Chain(p, ops) = p - 22476 - 3649
  <1> DEFINE ops == <<Op("Del", 22476), Op("Mul", 1), Op("Add", -3649)>>
             w1 == p - 22476
             w2 == w1 * 1
             w3 == w2 + (-3649)
  <1>1. Chain(p, ops) = w3
    BY J!Chain3, J!Instructions, SameChain, SameOp
  <1> HIDE DEF ops
  <1>2. w1 \in Int
    OBVIOUS
  <1> HIDE DEF w1
  <1>3. w2 \in Int
    BY <1>2
  <1> HIDE DEF w2
  <1>4. w3 \in Int
    BY <1>3
  <1> HIDE DEF w3
  <1>5. w3 = p - 22476 - 3649
    BY <1>2, <1>3, <1>4 DEF w1, w2, w3
  <1> QED BY <1>1, <1>4, <1>5 DEF ops

LEMMA Value4 ==
  ASSUME NEW p \in Int
  PROVE  LET ops == <<Op("Del", -7243), Op("Del", -1395), Op("Mod", 59),
                 Op("Del", -16)>>
         IN  /\ Chain(p, ops) \in Int
             /\ Chain(p, ops) = J!Rem(p + 7243 + 1395, 59) + 16
  <1> DEFINE ops == <<Op("Del", -7243), Op("Del", -1395), Op("Mod", 59),
                      Op("Del", -16)>>
             w1 == p - (-7243)
             w2 == w1 - (-1395)
             w3 == J!Rem(w2, 59)
             w4 == w3 - (-16)
  <1>1. Chain(p, ops) = w4
    BY J!Chain4, J!Instructions, SameChain, SameOp
  <1> HIDE DEF ops
  <1>2. w1 \in Int
    OBVIOUS
  <1> HIDE DEF w1
  <1>3. w2 \in Int
    BY <1>2
  <1> HIDE DEF w2
  <1>4. w3 \in Int
    BY <1>3, J!RoundedInt
  <1> HIDE DEF w3
  <1>5. w4 \in Int
    BY <1>4
  <1> HIDE DEF w4
  <1>6. w4 = J!Rem(p + 7243 + 1395, 59) + 16
    BY <1>2, <1>3, <1>4, <1>5 DEF w1, w2, w3, w4
  <1> QED BY <1>1, <1>5, <1>6 DEF ops

LEMMA Value6B ==
  ASSUME NEW p \in Int
  PROVE  LET ops == <<Op("Add", 13863), Op("Mul", 2), Op("Mul", 1)>>
         IN  /\ Chain(p, ops) \in Int
             /\ Chain(p, ops) = (p + 13863) * 2
  <1> DEFINE ops == <<Op("Add", 13863), Op("Mul", 2), Op("Mul", 1)>>
             w1 == p + 13863
             w2 == w1 * 2
             w3 == w2 * 1
  <1>1. Chain(p, ops) = w3
    BY J!Chain3, J!Instructions, SameChain, SameOp
  <1> HIDE DEF ops
  <1>2. w1 \in Int
    OBVIOUS
  <1> HIDE DEF w1
  <1>3. w2 \in Int
    BY <1>2
  <1> HIDE DEF w2
  <1>4. w3 \in Int
    BY <1>3
  <1> HIDE DEF w3
  <1>5. w3 = (p + 13863) * 2
    BY <1>2, <1>3, <1>4 DEF w1, w2, w3
  <1> QED BY <1>1, <1>4, <1>5 DEF ops

LEMMA Value6A ==
  ASSUME NEW p \in Int
  PROVE  LET ops == <<Op("Mod", 14999), Op("Add", -1380), Op("Mod", 47),
                 Op("Del", -150), Op("Add", 23887), Op("Add", -23885)>>
         IN  /\ Chain(p, ops) \in Int
             /\ Chain(p, ops) = J!Rem(J!Rem(p, 14999) - 1380, 47) + 150 + 23887 - 23885
  <1> DEFINE ops == <<Op("Mod", 14999), Op("Add", -1380), Op("Mod", 47),
                      Op("Del", -150), Op("Add", 23887), Op("Add", -23885)>>
             w1 == J!Rem(p, 14999)
             w2 == w1 + (-1380)
             w3 == J!Rem(w2, 47)
             w4 == w3 - (-150)
             w5 == w4 + 23887
             w6 == w5 + (-23885)
  <1>1. Chain(p, ops) = w6
    BY J!Chain6, J!Instructions, SameChain, SameOp
  <1> HIDE DEF ops
  <1>2. w1 \in Int
    BY J!RoundedInt
  <1> HIDE DEF w1
  <1>3. w2 \in Int
    BY <1>2
  <1> HIDE DEF w2
  <1>4. w3 \in Int
    BY <1>3, J!RoundedInt
  <1> HIDE DEF w3
  <1>5. w4 \in Int
    BY <1>4
  <1> HIDE DEF w4
  <1>6. w5 \in Int
    BY <1>5
  <1> HIDE DEF w5
  <1>7. w6 \in Int
    BY <1>6
  <1> HIDE DEF w6
  <1>8. w6 = J!Rem(J!Rem(p, 14999) - 1380, 47) + 150 + 23887 - 23885
    BY <1>2, <1>3, <1>4, <1>5, <1>6, <1>7 DEF w1, w2, w3, w4, w5, w6
  <1> QED BY <1>1, <1>7, <1>8 DEF ops

LEMMA Value6E ==
  ASSUME NEW p \in Int
  PROVE  LET ops == <<Op("Add", -139), Op("Add", -4), Op("Add", 5)>>
         IN  /\ Chain(p, ops) \in Int
             /\ Chain(p, ops) = p - 139 - 4 + 5
  <1> DEFINE ops == <<Op("Add", -139), Op("Add", -4), Op("Add", 5)>>
             w1 == p + (-139)
             w2 == w1 + (-4)
             w3 == w2 + 5
  <1>1. Chain(p, ops) = w3
    BY J!Chain3, J!Instructions, SameChain, SameOp
  <1> HIDE DEF ops
  <1>2. w1 \in Int
    OBVIOUS
  <1> HIDE DEF w1
  <1>3. w2 \in Int
    BY <1>2
  <1> HIDE DEF w2
  <1>4. w3 \in Int
    BY <1>3
  <1> HIDE DEF w3
  <1>5. w3 = p - 139 - 4 + 5
    BY <1>2, <1>3, <1>4 DEF w1, w2, w3
  <1> QED BY <1>1, <1>4, <1>5 DEF ops

LEMMA Value7G ==
  ASSUME NEW p \in Int
  PROVE  LET ops == <<Op("Del", 128), Op("Del", -3384), Op("Del", 4504),
                 Op("Del", -1107)>>
         IN  /\ Chain(p, ops) \in Int
             /\ Chain(p, ops) = p - 128 + 3384 - 4504 + 1107
  <1> DEFINE ops == <<Op("Del", 128), Op("Del", -3384), Op("Del", 4504),
                      Op("Del", -1107)>>
             w1 == p - 128
             w2 == w1 - (-3384)
             w3 == w2 - 4504
             w4 == w3 - (-1107)
  <1>1. Chain(p, ops) = w4
    BY J!Chain4, J!Instructions, SameChain, SameOp
  <1> HIDE DEF ops
  <1>2. w1 \in Int
    OBVIOUS
  <1> HIDE DEF w1
  <1>3. w2 \in Int
    BY <1>2
  <1> HIDE DEF w2
  <1>4. w3 \in Int
    BY <1>3
  <1> HIDE DEF w3
  <1>5. w4 \in Int
    BY <1>4
  <1> HIDE DEF w4
  <1>6. w4 = p - 128 + 3384 - 4504 + 1107
    BY <1>2, <1>3, <1>4, <1>5 DEF w1, w2, w3, w4
  <1> QED BY <1>1, <1>5, <1>6 DEF ops

LEMMA Value7H ==
  ASSUME NEW p \in Int
  PROVE  LET ops == <<Op("Del", 22339), Op("Del", -35662), Op("Mul", 2),
                 Op("Mod", 72), Op("Del", 149)>>
         IN  /\ Chain(p, ops) \in Int
             /\ Chain(p, ops) = J!Rem((p - 22339 + 35662) * 2, 72) - 149
  <1> DEFINE ops == <<Op("Del", 22339), Op("Del", -35662), Op("Mul", 2),
                      Op("Mod", 72), Op("Del", 149)>>
             w1 == p - 22339
             w2 == w1 - (-35662)
             w3 == w2 * 2
             w4 == J!Rem(w3, 72)
             w5 == w4 - 149
  <1>1. Chain(p, ops) = w5
    BY J!Chain5, J!Instructions, SameChain, SameOp
  <1> HIDE DEF ops
  <1>2. w1 \in Int
    OBVIOUS
  <1> HIDE DEF w1
  <1>3. w2 \in Int
    BY <1>2
  <1> HIDE DEF w2
  <1>4. w3 \in Int
    BY <1>3
  <1> HIDE DEF w3
  <1>5. w4 \in Int
    BY <1>4, J!RoundedInt
  <1> HIDE DEF w4
  <1>6. w5 \in Int
    BY <1>5
  <1> HIDE DEF w5
  <1>7. w5 = J!Rem((p - 22339 + 35662) * 2, 72) - 149
    BY <1>2, <1>3, <1>4, <1>5, <1>6 DEF w1, w2, w3, w4, w5
  <1> QED BY <1>1, <1>6, <1>7 DEF ops

-----------------------------------------------------------------------------
(***************************************************************************)
(* Each method computes what the method of the original program computes.  *)
(***************************************************************************)
Called == A \in Int /\ B \in Int /\ C \in Int /\ cf = TRUE /\ printed = <<>>

\* How a block of the original program fires here.
LEMMA OriginalFires ==
  ASSUME Called
  PROVE  /\ \A i : J!Fires(i) <=> On(i)
         /\ \A out : Emit(out) => J!Emit(out)
         /\ Refuse => J!Idle
  <1>1. \A out : Append(printed, out) = <<out>>
    BY DEF Called
  <1>2. \A i : J!Fires(i) <=> On(i)
    BY DEF Called, J!Fires, On
  <1>3. \A out : Emit(out) => J!Emit(out)
    BY <1>1 DEF Emit, J!Emit, myAssign, MyBool3
  <1>4. Refuse => J!Idle
    BY DEF Refuse, J!Idle, fields, J!fields
  <1> QED BY <1>2, <1>3, <1>4

LEMMA Same1 ==
  ASSUME Called, calculateOutputm1
  PROVE  J!calculateOutputm1
  <1>1. CASE On("usr2_ai1_VoidReply")
    <2> DEFINE p == B * C
    <2>1. p \in Int
      BY DEF Called
    <2>2. /\ Emit("ai1_VoidReply") /\ a1745113960' = "h"
          /\ a2108127495' = Chain(p, <<Op("Mod", 14999), Op("Mod", 72), Op("Del", 91),
                                       Op("Del", -1), Op("Mul", 1)>>)
          /\ UNCHANGED <<a422009172, a1522448132>>
      BY <1>1 DEF calculateOutputm1
    <2> HIDE DEF p
    <2>3. a2108127495' = J!Rem(J!Rem(p, 14999), 72) - 91 + 1
      BY <2>1, <2>2, Value1
    <2> QED BY <1>1, <2>2, <2>3, OriginalFires DEF p, B, C, J!calculateOutputm1
  <1>2. CASE ~ On("usr2_ai1_VoidReply")
    BY <1>2, OriginalFires DEF calculateOutputm1, J!calculateOutputm1
  <1> QED BY <1>1, <1>2

LEMMA Same2 ==
  ASSUME Called, calculateOutputm2
  PROVE  J!calculateOutputm2
  <1>1. CASE On("usr4_ni1_ne1")
    BY <1>1, OriginalFires DEF calculateOutputm2, On, J!calculateOutputm2, fields, J!fields
  <1>2. CASE On("ai1_ce2")
    <2>1. B \in Int
      BY DEF Called
    <2>2. /\ Emit("usr4_ai1_ce2") /\ a1745113960' = "h"
          /\ a2108127495' = Chain(B, <<Op("Mod", 59), Op("Del", -98), Op("Del", 4), Op("Add", -42)>>)
          /\ UNCHANGED <<a422009172, a1522448132>>
      BY <1>2 DEF calculateOutputm2, On
    <2>3. a2108127495' = J!Rem(B, 59) + 98 - 4 - 42
      BY <2>1, <2>2, Value2
    <2> QED BY <1>2, <2>2, <2>3, OriginalFires DEF B, J!calculateOutputm2
  <1>3. CASE ~ (On("usr4_ni1_ne1") \/ On("ai1_ce2"))
    BY <1>3, OriginalFires DEF calculateOutputm2, J!calculateOutputm2
  <1> QED BY <1>1, <1>2, <1>3

LEMMA Same3 ==
  ASSUME Called, calculateOutputm3
  PROVE  J!calculateOutputm3
  <1>1. CASE On("usr4_ai1_VoidReply")
    <2> DEFINE s == B * B
               c == a1522448132'
               p == B * c
    <2>1. s \in Int
      BY DEF Called
    <2>2. /\ Emit("usr2_ai1_ce4")
          /\ c = Chain(s, <<Op("Mod", 50), Op("Del", 75), Op("Mul", 5),
                            Op("Mod", 50), Op("Add", -31)>>)
          /\ a2108127495' = Chain(p, <<Op("Del", 22476), Op("Mul", 1), Op("Add", -3649)>>)
          /\ UNCHANGED <<a422009172, a1745113960>>
      BY <1>1 DEF calculateOutputm3
    <2> HIDE DEF s, c
    <2>3. c \in Int /\ c = J!Rem((J!Rem(s, 50) - 75) * 5, 50) - 31
      BY <2>1, <2>2, Value3C
    <2>4. p \in Int
      BY <2>3 DEF Called
    <2> HIDE DEF p
    <2>5. a2108127495' = p - 22476 - 3649
      BY <2>2, <2>4, Value3B
    <2> QED BY <1>1, <2>2, <2>3, <2>5, OriginalFires DEF s, c, p, B, J!calculateOutputm3
  <1>2. CASE ~ On("usr4_ai1_VoidReply")
    BY <1>2, OriginalFires DEF calculateOutputm3, J!calculateOutputm3
  <1> QED BY <1>1, <1>2

LEMMA Same4 ==
  ASSUME Called, calculateOutputm4
  PROVE  J!calculateOutputm4
  <1>1. CASE On("ai1_ce2")
    BY <1>1, OriginalFires DEF calculateOutputm4, On, J!calculateOutputm4, fields, J!fields
  <1>2. CASE On("ai1_ce1")
    <2>1. B \in Int
      BY DEF Called
    <2>2. /\ Emit("usr4_ai1_ce1") /\ a1745113960' = "g"
          /\ a2108127495' = Chain(B, <<Op("Del", -7243), Op("Del", -1395), Op("Mod", 59),
                                       Op("Del", -16)>>)
          /\ UNCHANGED <<a422009172, a1522448132>>
      BY <1>2 DEF calculateOutputm4, On
    <2>3. a2108127495' = J!Rem(B + 7243 + 1395, 59) + 16
      BY <2>1, <2>2, Value4
    <2> QED BY <1>2, <2>2, <2>3, OriginalFires DEF B, J!calculateOutputm4
  <1>3. CASE On("usr4_ni1_ne1")
    BY <1>3, OriginalFires DEF calculateOutputm4, On, J!calculateOutputm4
  <1>4. CASE ~ (On("ai1_ce2") \/ On("ai1_ce1") \/ On("usr4_ni1_ne1"))
    BY <1>4, OriginalFires DEF calculateOutputm4, J!calculateOutputm4
  <1> QED BY <1>1, <1>2, <1>3, <1>4

LEMMA Same5 ==
  ASSUME Called, calculateOutputm5
  PROVE  J!calculateOutputm5
  BY OriginalFires DEF calculateOutputm5, J!calculateOutputm5

LEMMA Same6 ==
  ASSUME Called, calculateOutputm6
  PROVE  J!calculateOutputm6
  <1>1. CASE On("usr4_ni1_ne1")
    <2> DEFINE b == a2108127495'
               p == b * b
    <2>1. B \in Int
      BY DEF Called
    <2>2. /\ Emit("none")
          /\ b = Chain(B, <<Op("Add", 13863), Op("Mul", 2), Op("Mul", 1)>>)
          /\ a422009172' = Chain(p, <<Op("Mod", 14999), Op("Add", -1380), Op("Mod", 47),
                                      Op("Del", -150), Op("Add", 23887), Op("Add", -23885)>>)
          /\ UNCHANGED <<a1522448132, a1745113960>>
      BY <1>1 DEF calculateOutputm6, On
    <2> HIDE DEF b
    <2>3. b \in Int /\ b = (B + 13863) * 2
      BY <2>1, <2>2, Value6B
    <2>4. p \in Int
      BY <2>3
    <2> HIDE DEF p
    <2>5. a422009172' = J!Rem(J!Rem(p, 14999) - 1380, 47) + 150 + 23887 - 23885
      BY <2>2, <2>4, Value6A
    <2> QED BY <1>1, <2>2, <2>3, <2>5, OriginalFires DEF b, p, B, J!calculateOutputm6
  <1>2. CASE On("usr4_ai1_VoidReply")
    <2>1. B \in Int
      BY DEF Called
    <2>2. /\ Emit("ai1_VoidReply") /\ a1745113960' = "e"
          /\ a2108127495' = Chain(B, <<Op("Add", -139), Op("Add", -4), Op("Add", 5)>>)
          /\ UNCHANGED <<a422009172, a1522448132>>
      BY <1>2 DEF calculateOutputm6, On
    <2>3. a2108127495' = B - 139 - 4 + 5
      BY <2>1, <2>2, Value6E
    <2> QED BY <1>2, <2>2, <2>3, OriginalFires DEF B, J!calculateOutputm6
  <1>3. CASE ~ (On("usr4_ni1_ne1") \/ On("usr4_ai1_VoidReply"))
    BY <1>3, OriginalFires DEF calculateOutputm6, J!calculateOutputm6
  <1> QED BY <1>1, <1>2, <1>3

LEMMA Same7 ==
  ASSUME Called, calculateOutputm7
  PROVE  J!calculateOutputm7
  <1>1. B \in Int
    BY DEF Called
  <1>2. CASE On("usr4_ni1_ne1")
    <2>1. /\ Emit("none") /\ a1745113960' = "g"
          /\ a2108127495' = Chain(B, <<Op("Del", 128), Op("Del", -3384), Op("Del", 4504),
                                       Op("Del", -1107)>>)
          /\ UNCHANGED <<a422009172, a1522448132>>
      BY <1>2 DEF calculateOutputm7, On
    <2>2. a2108127495' = B - 128 + 3384 - 4504 + 1107
      BY <1>1, <2>1, Value7G
    <2> QED BY <1>2, <2>1, <2>2, OriginalFires DEF B, J!calculateOutputm7
  <1>3. CASE On("usr4_ai1_VoidReply")
    <2>1. /\ Emit("ai1_VoidReply")
          /\ a2108127495' = Chain(B, <<Op("Del", 22339), Op("Del", -35662), Op("Mul", 2),
                                       Op("Mod", 72), Op("Del", 149)>>)
          /\ UNCHANGED <<a422009172, a1522448132, a1745113960>>
      BY <1>3 DEF calculateOutputm7, On
    <2>2. a2108127495' = J!Rem((B - 22339 + 35662) * 2, 72) - 149
      BY <1>1, <2>1, Value7H
    <2> QED BY <1>3, <2>1, <2>2, OriginalFires DEF B, J!calculateOutputm7
  <1>4. CASE ~ (On("usr4_ni1_ne1") \/ On("usr4_ai1_VoidReply"))
    BY <1>4, OriginalFires DEF calculateOutputm7, J!calculateOutputm7
  <1> QED BY <1>2, <1>3, <1>4

-----------------------------------------------------------------------------
(***************************************************************************)
(* The inductive invariant.  While nothing was printed the fields are      *)
(* where the input found them, and the region they are in is either ahead  *)
(* of the cascade or has refused the input; depth tells which.             *)
(***************************************************************************)
Entered(p) == IF p \in {"r1", "r2", "r3"} THEN 0 ELSE 1

Met(l) == ~ Accepts(l, input) /\ depth = 2

Unanswered ==
  /\ cf /\ printed = <<>>
  /\ pc = "m1" => J!Range1
  /\ pc \in {"m2", "m3", "m4", "m5"} => J!Range2
  /\ pc \in {"m6", "m7", "r4", "check"} => J!Range3
  /\ \A l \in Locs : J!InRegion(l) =>
       IF l \in J!Pending(pc) THEN depth = Entered(pc) ELSE Met(l)

Answered == ~ cf /\ printed # <<>> /\ depth = 3

Over ==
  \/ printed # <<>> /\ depth = 3
  \/ /\ printed = <<>>
     /\ \A l \in Locs : J!InRegion(l) => depth = IF l = "m8" THEN 0 ELSE 2

Placed ==
  /\ pc \notin {"m8", "crashed"}
  /\ pc = "main" /\ input # Other => Over
  /\ pc # "main" => Unanswered \/ Answered

RedoInv == TypeOK /\ J!NeverStranded /\ J!OperandRange /\ Placed

-----------------------------------------------------------------------------
(***************************************************************************)
(* Tables, types and regions through the instances.                        *)
(***************************************************************************)
LEMMA Tables ==
  /\ Mealy!Trans = Trans /\ J!Mealy!Trans = Trans
  /\ J!Mealy!Outputs = Outputs /\ J!Rejected = Rejected /\ J!Inputs = Inputs
  /\ J!Other = Other /\ J!Locs = Locs
  BY DEF Mealy!Trans, J!Mealy!Trans, Trans, Mealy!T, J!Mealy!T, T, J!Mealy!Outputs, Outputs,
         J!Rejected, Rejected, J!Inputs, Inputs, J!Other, Other, J!Locs, Locs

LEMMA SameAccepts ==
  \A l, i : /\ J!Mealy!Accepts(l, i) <=> Accepts(l, i)
            /\ Mealy!Accepts(l, i) <=> Accepts(l, i)
  BY Tables DEF J!Mealy!Accepts, Mealy!Accepts, Accepts

LEMMA TransTypes ==
  ASSUME NEW t \in Trans
  PROVE  /\ t.from \in Locs /\ t.to \in Locs /\ t.out \in Outputs
         /\ t.out # Rejected /\ Accepts(t.from, t.in)
  <1>1. Accepts(t.from, t.in)
    BY DEF Accepts
  <1>2. t.from \in Locs /\ t.to \in Locs /\ t.out \in Outputs
    BY DEF Trans, T, Locs, Outputs
  <1>3. Rejected \notin Outputs
    BY Zenon DEF Rejected, Outputs
  <1> QED BY <1>1, <1>2, <1>3

\* The original is the same program through both instances of it.
LEMMA SameOriginal ==
  /\ J!calculateOutputm1 => Original!calculateOutputm1
  /\ J!calculateOutputm2 => Original!calculateOutputm2
  /\ J!calculateOutputm3 => Original!calculateOutputm3
  /\ J!calculateOutputm4 => Original!calculateOutputm4
  /\ J!calculateOutputm5 => Original!calculateOutputm5
  /\ J!calculateOutputm6 => Original!calculateOutputm6
  /\ J!calculateOutputm7 => Original!calculateOutputm7
  <1> USE DEF Original!Fires, J!Fires, Original!Emit, J!Emit, Original!Idle, J!Idle,
              Original!fields, J!fields, Original!Rem, J!Rem
  <1>1. J!calculateOutputm1 => Original!calculateOutputm1
    BY DEF Original!calculateOutputm1, J!calculateOutputm1
  <1>2. J!calculateOutputm2 => Original!calculateOutputm2
    BY DEF Original!calculateOutputm2, J!calculateOutputm2
  <1>3. J!calculateOutputm3 => Original!calculateOutputm3
    BY DEF Original!calculateOutputm3, J!calculateOutputm3
  <1>4. J!calculateOutputm4 => Original!calculateOutputm4
    BY DEF Original!calculateOutputm4, J!calculateOutputm4
  <1>5. J!calculateOutputm5 => Original!calculateOutputm5
    BY DEF Original!calculateOutputm5, J!calculateOutputm5
  <1>6. J!calculateOutputm6 => Original!calculateOutputm6
    BY DEF Original!calculateOutputm6, J!calculateOutputm6
  <1>7. J!calculateOutputm7 => Original!calculateOutputm7
    BY DEF Original!calculateOutputm7, J!calculateOutputm7
  <1> QED BY <1>1, <1>2, <1>3, <1>4, <1>5, <1>6, <1>7

LEMMA SamePCs == J!PCs = Original!PCs
  BY DEF J!PCs, Original!PCs

LEMMA OriginalTypeOK ==
  ASSUME TypeOK
  PROVE  J!TypeOK
  <1>1. printed \in Seq(Outputs \cup {Rejected})
    <2>1. CASE printed = <<>>
      BY <2>1
    <2>2. ASSUME NEW o \in Outputs \cup {Rejected}, printed = <<o>>
          PROVE  printed \in Seq(Outputs \cup {Rejected})
      BY <2>2
    <2> QED BY <2>1, <2>2 DEF TypeOK
  <1>2. printed \in Seq(J!Mealy!Outputs \cup {J!Rejected})
    BY <1>1, Tables
  <1>3. input \in J!Inputs \cup {J!Other}
    BY Tables DEF TypeOK
  <1>4. cf \in BOOLEAN
    BY DEF TypeOK
  <1>5. pc \in J!PCs
    BY SamePCs DEF TypeOK
  <1>6. /\ a422009172 \in Int /\ a2108127495 \in Int /\ a1522448132 \in Int
        /\ a1745113960 \in {"e", "g", "h", "i"}
    BY DEF TypeOK, A, B, C
  <1> QED BY <1>2, <1>3, <1>4, <1>5, <1>6 DEF J!TypeOK

LEMMA SameLocOf == locOf = J!locOf /\ locOf' = J!locOf'
  BY DEF locOf, Original!locOf, J!locOf, Original!Locs, J!Locs, Original!InRegion, J!InRegion,
         Original!Range1, Original!Range2, Original!Range3, Original!Range4,
         J!Range1, J!Range2, J!Range3, J!Range4

LEMMA LocOfRegion ==
  ASSUME TypeOK, NEW l \in Locs, J!InRegion(l)
  PROVE  locOf = l
  BY OriginalTypeOK, SameLocOf, Tables, J!LocOfRegion

LEMMA LocOfRegionNext ==
  ASSUME B' \in Int, NEW l \in Locs, J!InRegion(l)'
  PROVE  locOf' = l
  <1>1. ASSUME NEW k \in Locs, J!InRegion(k)' PROVE k = l
    BY <1>1 DEF B, Locs, J!InRegion, J!Range1, J!Range2, J!Range3, J!Range4
  <1> QED BY <1>1, SameLocOf, Tables DEF J!locOf

\* Fields that do not change stay in their region.
LEMMA RegionKept ==
  ASSUME UNCHANGED fields
  PROVE  /\ \A l : J!InRegion(l)' <=> J!InRegion(l)
         /\ J!Range1' <=> J!Range1
         /\ J!Range2' <=> J!Range2
         /\ J!Range3' <=> J!Range3
         /\ J!NeverStranded' <=> J!NeverStranded
         /\ J!OperandRange' <=> J!OperandRange
         /\ locOf' = locOf
  <1>1. \A l : J!InRegion(l)' <=> J!InRegion(l)
    BY DEF fields, J!InRegion, J!Range1, J!Range2, J!Range3, J!Range4
  <1>2. J!NeverStranded' <=> J!NeverStranded
    BY <1>1 DEF J!NeverStranded
  <1>3. locOf' = locOf
    BY <1>1, SameLocOf DEF J!locOf
  <1> QED BY <1>1, <1>2, <1>3 DEF fields, J!Range1, J!Range2, J!Range3, J!OperandRange

\* The one region the fields are in.
LEMMA SomeRegion ==
  ASSUME RedoInv
  PROVE  \E l \in Locs : J!InRegion(l) /\ locOf = l
  BY LocOfRegion, Tables DEF RedoInv, J!NeverStranded

-----------------------------------------------------------------------------
(***************************************************************************)
(* What a test of the cascade with the call behind it does before anything *)
(* was printed: the method of region l answers as the original would, or   *)
(* refuses, or the fields are in another region and it is not called.      *)
(***************************************************************************)
Replied ==
  /\ cf' = FALSE /\ depth' = 3
  /\ J!OperandRange'
  /\ \E t \in Trans : /\ input = t.in /\ J!InRegion(t.from) /\ J!InRegion(t.to)'
                      /\ printed' = <<t.out>>
  /\ Originally

Refused(l) ==
  /\ Refuse /\ depth' = 2
  /\ J!InRegion(l) /\ ~ Accepts(l, input)

Passed(l) == Refuse /\ UNCHANGED depth /\ ~ J!InRegion(l)

\* A method called in its own region, whose test counted for depth already.
LEMMA OutcomeMeans ==
  ASSUME RedoInv, Called, depth = 1, NEW l \in Locs, J!InRegion(l), J!Outcome(l), Deeper(1),
         cf' = FALSE => Originally
  PROVE  Replied \/ Refused(l)
  <1>1. CASE /\ cf' = FALSE
             /\ J!OperandRange'
             /\ \E t \in J!Mealy!Trans : J!Takes(t)
    <2>1. PICK t \in Trans : J!Takes(t)
      BY <1>1, Tables
    <2>2. printed' = <<t.out>>
      BY <2>1 DEF Called, J!Takes
    <2>3. depth' = 3
      BY <1>1 DEF Deeper
    <2> QED BY <1>1, <2>1, <2>2, <2>3 DEF Replied, J!Takes
  <1>2. CASE J!Idle /\ ~ J!Mealy!Accepts(l, input)
    <2>1. Refuse /\ cf' = TRUE
      BY <1>2 DEF J!Idle, Refuse, fields, J!fields, Called
    <2>2. depth' = 2
      BY <2>1 DEF Deeper
    <2> QED BY <1>2, <2>1, <2>2, SameAccepts DEF Refused
  <1> QED BY <1>1, <1>2 DEF J!Outcome

\* What holds where a call is reached and nothing was printed yet.
LEMMA Reached ==
  ASSUME RedoInv, cf, pc # "main"
  PROVE  /\ Unanswered /\ Called
         /\ J!TypeOK /\ J!NeverStranded /\ J!OperandRange
         /\ \A l \in Locs : J!InRegion(l) /\ l \in J!Pending(pc) => depth = Entered(pc)
  <1>1. Unanswered
    BY DEF RedoInv, Placed, Answered
  <1>2. Called
    <2>1. cf \in BOOLEAN
      BY DEF RedoInv, TypeOK
    <2>2. cf = TRUE
      BY <2>1
    <2> QED BY <1>1, <2>2 DEF RedoInv, TypeOK, Unanswered, Called
  <1> QED BY <1>1, <1>2, OriginalTypeOK DEF RedoInv, Unanswered

LEMMA Meets1 ==
  ASSUME RedoInv, cf, Call1
  PROVE  Replied \/ Refused("m1") \/ Passed("m1")
  <1>1. pc = "m1" /\ pc # "main"
    BY DEF Call1, Call
  <1>2. J!Range1
    BY <1>1, Reached DEF Unanswered
  <1>3. CASE ~ (-83 < C /\ 18 >= C)
    <2>1. Refuse /\ UNCHANGED depth
      BY <1>3 DEF Call1, Call, Refuse
    <2>2. ~ J!InRegion("m1")
      BY <1>3 DEF J!InRegion, C
    <2> QED BY <2>1, <2>2 DEF Passed
  <1>4. CASE -83 < C /\ 18 >= C
    <2>1. calculateOutputm1 /\ Deeper(1)
      BY <1>4 DEF Call1, Call
    <2>2. J!calculateOutputm1
      BY <1>1, <2>1, Reached, Same1
    <2>3. J!InRegion("m1")
      BY <1>1, <1>2, <1>4, Reached, J!RegionByTest
    <2>4. depth = 1
      BY <1>1, <2>3, Reached DEF Entered, J!Pending, J!Locs, Locs
    <2>5. J!Outcome("m1")
      BY <1>1, <1>2, <1>4, <2>2, Reached, J!Method1
    <2>6. Original!calculateOutputm1
      BY <2>2, SameOriginal
    <2>7. locOf = "m1"
      BY <2>3, LocOfRegion DEF RedoInv, Locs
    <2>8. Originally
      BY <2>6, <2>7 DEF Originally
    <2> QED BY <1>1, <2>1, <2>3, <2>4, <2>5, <2>8, Reached, OutcomeMeans DEF Locs
  <1> QED BY <1>3, <1>4

LEMMA Meets2 ==
  ASSUME RedoInv, cf, Call2
  PROVE  Replied \/ Refused("m2") \/ Passed("m2")
  <1>1. pc = "m2" /\ pc # "main"
    BY DEF Call2, Call
  <1>2. J!Range2
    BY <1>1, Reached DEF Unanswered
  <1>3. CASE ~ (a1745113960 = "e")
    <2>1. Refuse /\ UNCHANGED depth
      BY <1>3 DEF Call2, Call, Refuse
    <2>2. ~ J!InRegion("m2")
      BY <1>3 DEF J!InRegion, C
    <2> QED BY <2>1, <2>2 DEF Passed
  <1>4. CASE a1745113960 = "e"
    <2>1. calculateOutputm2 /\ Deeper(1)
      BY <1>4 DEF Call2, Call
    <2>2. J!calculateOutputm2
      BY <1>1, <2>1, Reached, Same2
    <2>3. J!InRegion("m2")
      BY <1>1, <1>2, <1>4, Reached, J!RegionByTest
    <2>4. depth = 1
      BY <1>1, <2>3, Reached DEF Entered, J!Pending, J!Locs, Locs
    <2>5. J!Outcome("m2")
      BY <1>1, <1>2, <1>4, <2>2, Reached, J!Method2
    <2>6. Original!calculateOutputm2
      BY <2>2, SameOriginal
    <2>7. locOf = "m2"
      BY <2>3, LocOfRegion DEF RedoInv, Locs
    <2>8. Originally
      BY <2>6, <2>7 DEF Originally
    <2> QED BY <1>1, <2>1, <2>3, <2>4, <2>5, <2>8, Reached, OutcomeMeans DEF Locs
  <1> QED BY <1>3, <1>4

LEMMA Meets3 ==
  ASSUME RedoInv, cf, Call3
  PROVE  Replied \/ Refused("m3") \/ Passed("m3")
  <1>1. pc = "m3" /\ pc # "main"
    BY DEF Call3, Call
  <1>2. J!Range2
    BY <1>1, Reached DEF Unanswered
  <1>3. CASE ~ (a1745113960 = "g")
    <2>1. Refuse /\ UNCHANGED depth
      BY <1>3 DEF Call3, Call, Refuse
    <2>2. ~ J!InRegion("m3")
      BY <1>3 DEF J!InRegion, C
    <2> QED BY <2>1, <2>2 DEF Passed
  <1>4. CASE a1745113960 = "g"
    <2>1. calculateOutputm3 /\ Deeper(1)
      BY <1>4 DEF Call3, Call
    <2>2. J!calculateOutputm3
      BY <1>1, <2>1, Reached, Same3
    <2>3. J!InRegion("m3")
      BY <1>1, <1>2, <1>4, Reached, J!RegionByTest
    <2>4. depth = 1
      BY <1>1, <2>3, Reached DEF Entered, J!Pending, J!Locs, Locs
    <2>5. J!Outcome("m3")
      BY <1>1, <1>2, <1>4, <2>2, Reached, J!Method3
    <2>6. Original!calculateOutputm3
      BY <2>2, SameOriginal
    <2>7. locOf = "m3"
      BY <2>3, LocOfRegion DEF RedoInv, Locs
    <2>8. Originally
      BY <2>6, <2>7 DEF Originally
    <2> QED BY <1>1, <2>1, <2>3, <2>4, <2>5, <2>8, Reached, OutcomeMeans DEF Locs
  <1> QED BY <1>3, <1>4

LEMMA Meets4 ==
  ASSUME RedoInv, cf, Call4
  PROVE  Replied \/ Refused("m4") \/ Passed("m4")
  <1>1. pc = "m4" /\ pc # "main"
    BY DEF Call4, Call
  <1>2. J!Range2
    BY <1>1, Reached DEF Unanswered
  <1>3. CASE ~ (a1745113960 = "h")
    <2>1. Refuse /\ UNCHANGED depth
      BY <1>3 DEF Call4, Call, Refuse
    <2>2. ~ J!InRegion("m4")
      BY <1>3 DEF J!InRegion, C
    <2> QED BY <2>1, <2>2 DEF Passed
  <1>4. CASE a1745113960 = "h"
    <2>1. calculateOutputm4 /\ Deeper(1)
      BY <1>4 DEF Call4, Call
    <2>2. J!calculateOutputm4
      BY <1>1, <2>1, Reached, Same4
    <2>3. J!InRegion("m4")
      BY <1>1, <1>2, <1>4, Reached, J!RegionByTest
    <2>4. depth = 1
      BY <1>1, <2>3, Reached DEF Entered, J!Pending, J!Locs, Locs
    <2>5. J!Outcome("m4")
      BY <1>1, <1>2, <1>4, <2>2, Reached, J!Method4
    <2>6. Original!calculateOutputm4
      BY <2>2, SameOriginal
    <2>7. locOf = "m4"
      BY <2>3, LocOfRegion DEF RedoInv, Locs
    <2>8. Originally
      BY <2>6, <2>7 DEF Originally
    <2> QED BY <1>1, <2>1, <2>3, <2>4, <2>5, <2>8, Reached, OutcomeMeans DEF Locs
  <1> QED BY <1>3, <1>4

LEMMA Meets5 ==
  ASSUME RedoInv, cf, Call5
  PROVE  Replied \/ Refused("m5") \/ Passed("m5")
  <1>1. pc = "m5" /\ pc # "main"
    BY DEF Call5, Call
  <1>2. J!Range2
    BY <1>1, Reached DEF Unanswered
  <1>3. CASE ~ (a1745113960 = "i")
    <2>1. Refuse /\ UNCHANGED depth
      BY <1>3 DEF Call5, Call, Refuse
    <2>2. ~ J!InRegion("m5")
      BY <1>3 DEF J!InRegion, C
    <2> QED BY <2>1, <2>2 DEF Passed
  <1>4. CASE a1745113960 = "i"
    <2>1. calculateOutputm5 /\ Deeper(1)
      BY <1>4 DEF Call5, Call
    <2>2. J!calculateOutputm5
      BY <1>1, <2>1, Reached, Same5
    <2>3. J!InRegion("m5")
      BY <1>1, <1>2, <1>4, Reached, J!RegionByTest
    <2>4. depth = 1
      BY <1>1, <2>3, Reached DEF Entered, J!Pending, J!Locs, Locs
    <2>5. J!Outcome("m5")
      BY <1>1, <1>2, <1>4, <2>2, Reached, J!Method5
    <2>6. Original!calculateOutputm5
      BY <2>2, SameOriginal
    <2>7. locOf = "m5"
      BY <2>3, LocOfRegion DEF RedoInv, Locs
    <2>8. Originally
      BY <2>6, <2>7 DEF Originally
    <2> QED BY <1>1, <2>1, <2>3, <2>4, <2>5, <2>8, Reached, OutcomeMeans DEF Locs
  <1> QED BY <1>3, <1>4

LEMMA Meets6 ==
  ASSUME RedoInv, cf, Call6
  PROVE  Replied \/ Refused("m6") \/ Passed("m6")
  <1>1. pc = "m6" /\ pc # "main"
    BY DEF Call6, Call
  <1>2. J!Range3
    BY <1>1, Reached DEF Unanswered
  <1>3. CASE ~ (a1745113960 = "g")
    <2>1. Refuse /\ UNCHANGED depth
      BY <1>3 DEF Call6, Call, Refuse
    <2>2. ~ J!InRegion("m6")
      BY <1>3 DEF J!InRegion, C
    <2> QED BY <2>1, <2>2 DEF Passed
  <1>4. CASE a1745113960 = "g"
    <2>1. calculateOutputm6 /\ Deeper(1)
      BY <1>4 DEF Call6, Call
    <2>2. J!calculateOutputm6
      BY <1>1, <2>1, Reached, Same6
    <2>3. J!InRegion("m6")
      BY <1>1, <1>2, <1>4, Reached, J!RegionByTest
    <2>4. depth = 1
      BY <1>1, <2>3, Reached DEF Entered, J!Pending, J!Locs, Locs
    <2>5. J!Outcome("m6")
      BY <1>1, <1>2, <1>4, <2>2, Reached, J!Method6
    <2>6. Original!calculateOutputm6
      BY <2>2, SameOriginal
    <2>7. locOf = "m6"
      BY <2>3, LocOfRegion DEF RedoInv, Locs
    <2>8. Originally
      BY <2>6, <2>7 DEF Originally
    <2> QED BY <1>1, <2>1, <2>3, <2>4, <2>5, <2>8, Reached, OutcomeMeans DEF Locs
  <1> QED BY <1>3, <1>4

LEMMA Meets7 ==
  ASSUME RedoInv, cf, Call7
  PROVE  Replied \/ Refused("m7") \/ Passed("m7")
  <1>1. pc = "m7" /\ pc # "main"
    BY DEF Call7, Call
  <1>2. J!Range3
    BY <1>1, Reached DEF Unanswered
  <1>3. CASE ~ (a1745113960 = "h")
    <2>1. Refuse /\ UNCHANGED depth
      BY <1>3 DEF Call7, Call, Refuse
    <2>2. ~ J!InRegion("m7")
      BY <1>3 DEF J!InRegion, C
    <2> QED BY <2>1, <2>2 DEF Passed
  <1>4. CASE a1745113960 = "h"
    <2>1. calculateOutputm7 /\ Deeper(1)
      BY <1>4 DEF Call7, Call
    <2>2. J!calculateOutputm7
      BY <1>1, <2>1, Reached, Same7
    <2>3. J!InRegion("m7")
      BY <1>1, <1>2, <1>4, Reached, J!RegionByTest
    <2>4. depth = 1
      BY <1>1, <2>3, Reached DEF Entered, J!Pending, J!Locs, Locs
    <2>5. J!Outcome("m7")
      BY <1>1, <1>2, <1>4, <2>2, Reached, J!Method7
    <2>6. Original!calculateOutputm7
      BY <2>2, SameOriginal
    <2>7. locOf = "m7"
      BY <2>3, LocOfRegion DEF RedoInv, Locs
    <2>8. Originally
      BY <2>6, <2>7 DEF Originally
    <2> QED BY <1>1, <2>1, <2>3, <2>4, <2>5, <2>8, Reached, OutcomeMeans DEF Locs
  <1> QED BY <1>3, <1>4

-----------------------------------------------------------------------------
(***************************************************************************)
(* The invariant is kept: by an answer, by a step that leaves an input     *)
(* unanswered, and by a step behind the answer.                            *)
(***************************************************************************)
Tests == Original!PCs \ {"main", "m8", "crashed"}

LEMMA ReplyKeeps ==
  ASSUME RedoInv, Replied, pc' \in Tests, UNCHANGED input
  PROVE  RedoInv'
  <1>1. PICK t \in Trans : J!InRegion(t.to)' /\ printed' = <<t.out>>
    BY DEF Replied
  <1>2. t.to \in Locs /\ t.out \in Outputs
    BY TransTypes
  <1>3. J!NeverStranded'
    BY <1>1, <1>2, Tables DEF J!NeverStranded
  <1>4. TypeOK'
    <2>1. a1745113960' \in {"e", "g", "h", "i"}
      BY <1>1 DEF J!InRegion
    <2>2. A' \in Int /\ B' \in Int /\ C' \in Int
      BY DEF Replied, J!OperandRange, A, B, C
    <2>3. printed' \in {<<>>} \cup {<<o>> : o \in Outputs \cup {Rejected}}
      BY <1>1, <1>2
    <2>4. depth' \in 0 .. 3
      BY DEF Replied
    <2>5. cf' \in BOOLEAN
      BY DEF Replied
    <2> QED BY <2>1, <2>2, <2>3, <2>4, <2>5 DEF RedoInv, TypeOK, Tests
  <1>5. Placed'
    <2>1. printed' # <<>>
      BY <1>1
    <2>2. Answered'
      BY <2>1 DEF Answered, Replied
    <2> QED BY <2>2 DEF Placed, Tests
  <1> QED BY <1>3, <1>4, <1>5 DEF RedoInv, Replied

LEMMA UnansweredKeeps ==
  ASSUME RedoInv, Unanswered, Refuse, UNCHANGED input, pc' \in Tests,
         pc' = "m1" => J!Range1,
         pc' \in {"m2", "m3", "m4", "m5"} => J!Range2,
         pc' \in {"m6", "m7", "r4", "check"} => J!Range3,
         \A l \in Locs : J!InRegion(l) =>
           IF l \in J!Pending(pc') THEN depth' = Entered(pc')
                                   ELSE ~ Accepts(l, input) /\ depth' = 2
  PROVE  RedoInv'
  <1>1. UNCHANGED fields /\ UNCHANGED <<cf, printed>>
    BY DEF Refuse
  <1>2. J!NeverStranded' /\ J!OperandRange'
    BY <1>1, RegionKept DEF RedoInv
  <1>3. depth' \in 0 .. 3
    BY SomeRegion DEF Entered
  <1>4. TypeOK'
    <2>1. A' = A /\ B' = B /\ C' = C /\ a1745113960' = a1745113960
      BY <1>1 DEF fields, A, B, C
    <2> QED BY <1>1, <1>3, <2>1 DEF RedoInv, TypeOK, Tests
  <1>5. Unanswered'
    <2>1. ASSUME NEW l \in Locs, J!InRegion(l)'
          PROVE  (IF l \in J!Pending(pc) THEN depth = Entered(pc) ELSE Met(l))'
      <3>1. J!InRegion(l)
        BY <1>1, <2>1, RegionKept
      <3>2. IF l \in J!Pending(pc)' THEN depth' = Entered(pc)'
                                    ELSE ~ Accepts(l, input) /\ depth' = 2
        BY <3>1 DEF J!Pending, J!Locs, Entered
      <3> QED BY <3>2 DEF Met, Accepts
    <2> QED BY <1>1, <2>1, RegionKept DEF Unanswered
  <1>6. Placed'
    BY <1>5 DEF Placed, Tests
  <1> QED BY <1>2, <1>4, <1>6 DEF RedoInv

LEMMA AnsweredKeeps ==
  ASSUME RedoInv, ~ cf, pc # "main", UNCHANGED <<input, cf, fields, printed, depth>>,
         pc' \in Tests \cup {"main"}
  PROVE  RedoInv'
  <1>1. Answered
    BY DEF RedoInv, Placed, Unanswered
  <1>2. J!NeverStranded' /\ J!OperandRange'
    BY RegionKept DEF RedoInv
  <1>3. TypeOK'
    <2>1. A' = A /\ B' = B /\ C' = C /\ a1745113960' = a1745113960
      BY DEF fields, A, B, C
    <2>2. pc' \in Original!PCs
      BY DEF Tests, Original!PCs
    <2> QED BY <2>1, <2>2 DEF RedoInv, TypeOK
  <1>4. Placed'
    <2>1. Answered' /\ Over'
      BY <1>1 DEF Answered, Over
    <2> QED BY <2>1 DEF Placed, Tests
  <1> QED BY <1>2, <1>3, <1>4 DEF RedoInv

\* A call, whatever becomes of the input there.
LEMMA CallKeeps ==
  ASSUME RedoInv,
         Call1 \/ Call2 \/ Call3 \/ Call4 \/ Call5 \/ Call6 \/ Call7
  PROVE  RedoInv'
  <1> DEFINE Left(l) == Refused(l) \/ Passed(l)
  <1>1. pc # "main" /\ pc' \in Tests /\ UNCHANGED input
    BY DEF Call1, Call2, Call3, Call4, Call5, Call6, Call7, Call, Tests, Original!PCs
  <1>2. CASE ~ cf
    <2>1. UNCHANGED <<cf, fields, printed, depth>>
      BY <1>2 DEF Call1, Call2, Call3, Call4, Call5, Call6, Call7, Call
    <2> QED BY <1>1, <1>2, <2>1, AnsweredKeeps
  <1>3. CASE cf /\ Replied
    BY <1>1, <1>3, ReplyKeeps
  <1>4. CASE cf /\ ~ Replied
    <2>1. Unanswered
      BY <1>1, <1>4, Reached
    <2>2. \A k, l \in Locs : J!InRegion(k) /\ J!InRegion(l) => k = l
      BY LocOfRegion DEF RedoInv
    <2> USE DEF Refused, Passed
    <2>3. CASE Call1
      <3>1. pc = "m1" /\ pc' = "r2"
        BY <2>3 DEF Call1, Call
      <3>2. Left("m1")
        BY <1>4, <2>3, Meets1
      <3>3. J!InRegion("m1")
        BY <1>1, <1>4, <2>1, <3>1, Reached, J!RegionByTest DEF Unanswered
      <3>4. ASSUME NEW l \in Locs, J!InRegion(l)
            PROVE  IF l \in J!Pending(pc') THEN depth' = Entered(pc')
                                           ELSE ~ Accepts(l, input) /\ depth' = 2
        <4>1. l = "m1" /\ Refused("m1")
          BY <2>2, <3>2, <3>3, <3>4 DEF Locs
        <4>2. "m1" \notin J!Pending("r2")
          BY DEF J!Pending, J!Locs
        <4> QED BY <3>1, <4>1, <4>2
      <3> QED BY <1>1, <2>1, <3>1, <3>2, <3>4, UnansweredKeeps DEF Unanswered
    <2>4. CASE Call2
      <3>1. pc = "m2" /\ pc' = "m3"
        BY <2>4 DEF Call2, Call
      <3>2. Left("m2")
        BY <1>4, <2>4, Meets2
      <3>3. ASSUME NEW l \in Locs, J!InRegion(l)
            PROVE  IF l \in J!Pending(pc') THEN depth' = Entered(pc')
                                           ELSE ~ Accepts(l, input) /\ depth' = 2
        BY <2>1, <2>2, <3>1, <3>2, <3>3
        DEF Unanswered, Met, Entered, J!Pending, J!Locs, Locs, J!InRegion,
            J!Range1, J!Range2, J!Range3, J!Range4
      <3> QED BY <1>1, <2>1, <3>1, <3>2, <3>3, UnansweredKeeps DEF Unanswered
    <2>5. CASE Call3
      <3>1. pc = "m3" /\ pc' = "m4"
        BY <2>5 DEF Call3, Call
      <3>2. Left("m3")
        BY <1>4, <2>5, Meets3
      <3>3. ASSUME NEW l \in Locs, J!InRegion(l)
            PROVE  IF l \in J!Pending(pc') THEN depth' = Entered(pc')
                                           ELSE ~ Accepts(l, input) /\ depth' = 2
        BY <2>1, <2>2, <3>1, <3>2, <3>3
        DEF Unanswered, Met, Entered, J!Pending, J!Locs, Locs, J!InRegion,
            J!Range1, J!Range2, J!Range3, J!Range4
      <3> QED BY <1>1, <2>1, <3>1, <3>2, <3>3, UnansweredKeeps DEF Unanswered
    <2>6. CASE Call4
      <3>1. pc = "m4" /\ pc' = "m5"
        BY <2>6 DEF Call4, Call
      <3>2. Left("m4")
        BY <1>4, <2>6, Meets4
      <3>3. ASSUME NEW l \in Locs, J!InRegion(l)
            PROVE  IF l \in J!Pending(pc') THEN depth' = Entered(pc')
                                           ELSE ~ Accepts(l, input) /\ depth' = 2
        BY <2>1, <2>2, <3>1, <3>2, <3>3
        DEF Unanswered, Met, Entered, J!Pending, J!Locs, Locs, J!InRegion,
            J!Range1, J!Range2, J!Range3, J!Range4
      <3> QED BY <1>1, <2>1, <3>1, <3>2, <3>3, UnansweredKeeps DEF Unanswered
    <2>7. CASE Call5
      <3>1. pc = "m5" /\ pc' = "r3"
        BY <2>7 DEF Call5, Call
      <3>2. Left("m5")
        BY <1>4, <2>7, Meets5
      <3>3. ASSUME NEW l \in Locs, J!InRegion(l)
            PROVE  IF l \in J!Pending(pc') THEN depth' = Entered(pc')
                                           ELSE ~ Accepts(l, input) /\ depth' = 2
        BY <2>1, <2>2, <3>1, <3>2, <3>3
        DEF Unanswered, Met, Entered, J!Pending, J!Locs, Locs, J!InRegion,
            J!Range1, J!Range2, J!Range3, J!Range4
      <3> QED BY <1>1, <2>1, <3>1, <3>2, <3>3, UnansweredKeeps DEF Unanswered
    <2>8. CASE Call6
      <3>1. pc = "m6" /\ pc' = "m7"
        BY <2>8 DEF Call6, Call
      <3>2. Left("m6")
        BY <1>4, <2>8, Meets6
      <3>3. ASSUME NEW l \in Locs, J!InRegion(l)
            PROVE  IF l \in J!Pending(pc') THEN depth' = Entered(pc')
                                           ELSE ~ Accepts(l, input) /\ depth' = 2
        BY <2>1, <2>2, <3>1, <3>2, <3>3
        DEF Unanswered, Met, Entered, J!Pending, J!Locs, Locs, J!InRegion,
            J!Range1, J!Range2, J!Range3, J!Range4
      <3> QED BY <1>1, <2>1, <3>1, <3>2, <3>3, UnansweredKeeps DEF Unanswered
    <2>9. CASE Call7
      <3>1. pc = "m7" /\ pc' = "r4"
        BY <2>9 DEF Call7, Call
      <3>2. Left("m7")
        BY <1>4, <2>9, Meets7
      <3>3. ASSUME NEW l \in Locs, J!InRegion(l)
            PROVE  IF l \in J!Pending(pc') THEN depth' = Entered(pc')
                                           ELSE ~ Accepts(l, input) /\ depth' = 2
        BY <2>1, <2>2, <3>1, <3>2, <3>3
        DEF Unanswered, Met, Entered, J!Pending, J!Locs, Locs, J!InRegion,
            J!Range1, J!Range2, J!Range3, J!Range4
      <3> QED BY <1>1, <2>1, <3>1, <3>2, <3>3, UnansweredKeeps DEF Unanswered
    <2> QED BY <2>3, <2>4, <2>5, <2>6, <2>7, <2>8, <2>9
  <1> QED BY <1>2, <1>3, <1>4

\* At a range test the input is met by the range its fields are in.
LEMMA Enter12Keeps ==
  ASSUME RedoInv, EnterRange1 \/ EnterRange2
  PROVE  RedoInv'
  <1>1. pc # "main" /\ pc' \in Tests /\ UNCHANGED <<input, cf, fields, printed>>
    BY DEF EnterRange1, EnterRange2, Enter, Tests, Original!PCs
  <1>2. CASE ~ cf
    <2>1. UNCHANGED depth
      BY <1>2 DEF EnterRange1, EnterRange2, Enter
    <2> QED BY <1>1, <1>2, <2>1, AnsweredKeeps
  <1>3. CASE cf
    <2>1. Unanswered /\ Refuse /\ B \in Int /\ depth \in Int
      BY <1>1, <1>3, Reached DEF Refuse, RedoInv, TypeOK
    <2>2. CASE EnterRange1
      <3>1. /\ pc = "r1"
            /\ \/ pc' = "m1" /\ J!Range1 /\ depth' = depth + 1
               \/ pc' = "r2" /\ ~ J!Range1 /\ depth' = depth
        BY <1>3, <2>2 DEF EnterRange1, Enter, J!Range1, B
      <3>2. \A l \in Locs : depth = 0 \/ ~ J!InRegion(l)
        BY <2>1, <3>1 DEF Unanswered, J!Pending, J!Locs, Locs, Entered
      <3>3. ASSUME NEW l \in Locs, J!InRegion(l)
            PROVE  IF l \in J!Pending(pc') THEN depth' = Entered(pc')
                                           ELSE ~ Accepts(l, input) /\ depth' = 2
        BY <3>1, <3>2, <3>3 DEF Entered, J!Pending, J!Locs, Locs, J!InRegion
      <3> QED BY <1>1, <2>1, <3>1, <3>3, UnansweredKeeps
    <2>3. CASE EnterRange2
      <3>1. /\ pc = "r2"
            /\ \/ pc' = "m2" /\ J!Range2 /\ depth' = depth + 1
               \/ pc' = "r3" /\ ~ J!Range2 /\ depth' = depth
        BY <1>3, <2>3 DEF EnterRange2, Enter, J!Range2, B
      <3>2. ASSUME NEW l \in Locs, J!InRegion(l)
            PROVE  IF l = "m1" THEN Met(l) ELSE depth = 0
        BY <2>1, <3>1, <3>2 DEF Unanswered, J!Pending, J!Locs, Locs, Entered
      <3>3. ASSUME NEW l \in Locs, J!InRegion(l)
            PROVE  IF l \in J!Pending(pc') THEN depth' = Entered(pc')
                                           ELSE ~ Accepts(l, input) /\ depth' = 2
        <4>1. l \in {"m1", "m2", "m3", "m4", "m5", "m6", "m7", "m8"}
          BY DEF Locs
        <4>2. CASE pc' = "m2" /\ J!Range2 /\ depth' = depth + 1
          <5>1. l # "m1"
            BY <2>1, <3>3, <4>2 DEF J!InRegion, J!Range1, J!Range2, B
          <5> QED BY <3>2, <3>3, <4>1, <4>2, <5>1 DEF Entered, J!Pending, J!Locs
        <4>3. CASE pc' = "r3" /\ ~ J!Range2 /\ depth' = depth
          <5>1. l \in {"m1", "m6", "m7", "m8"}
            BY <3>3, <4>1, <4>3 DEF J!InRegion
          <5> QED BY <3>2, <3>3, <4>3, <5>1 DEF Entered, J!Pending, J!Locs, Met
        <4> QED BY <3>1, <4>2, <4>3
      <3> QED BY <1>1, <2>1, <3>1, <3>3, UnansweredKeeps
    <2> QED BY <2>2, <2>3
  <1> QED BY <1>2, <1>3

(***************************************************************************)
(* At the third range calculateOutput is left: with an input m6 and m7 do  *)
(* not see, that its own method refused, or that m8 never meets.           *)
(***************************************************************************)
LEMMA LeavesInSilence ==
  ASSUME RedoInv, cf, EnterRange3, pc' = "main", NEW l \in Locs, J!InRegion(l)
  PROVE  /\ l \notin {"m6", "m7"} /\ UNCHANGED depth
         /\ l = "m8" => depth = 0
         /\ l # "m8" => depth = 2 /\ ~ Accepts(l, input)
  <1>1. pc = "r3" /\ ~ J!Range3 /\ UNCHANGED depth
    BY DEF EnterRange3, Enter, J!Range3, B
  <1>2. Unanswered
    BY <1>1, Reached
  <1>3. l \notin {"m6", "m7"}
    BY <1>1 DEF J!InRegion
  <1>4. IF l \in {"m6", "m7", "m8"} THEN depth = 0 ELSE Met(l)
    BY <1>1, <1>2 DEF Unanswered, J!Pending, Entered
  <1> QED BY <1>1, <1>3, <1>4 DEF Met

LEMMA Enter3Keeps ==
  ASSUME RedoInv, EnterRange3
  PROVE  RedoInv'
  <1>1. pc = "r3" /\ pc' \in {"m6", "main"} /\ UNCHANGED <<input, cf, fields, printed>>
    BY DEF EnterRange3, Enter
  <1>2. CASE ~ cf
    <2>1. UNCHANGED depth
      BY <1>2 DEF EnterRange3, Enter
    <2> QED BY <1>1, <1>2, <2>1, AnsweredKeeps DEF Tests, Original!PCs
  <1>3. Refuse
    BY <1>1 DEF Refuse
  <1>4. CASE cf /\ pc' = "m6"
    <2>1. Unanswered /\ J!Range3 /\ depth' = depth + 1
      BY <1>1, <1>4, Reached DEF EnterRange3, Enter, J!Range3, B
    <2>2. B \in Int
      BY DEF RedoInv, TypeOK
    <2>3. ASSUME NEW l \in Locs, J!InRegion(l)
          PROVE  IF l \in J!Pending(pc') THEN depth' = Entered(pc')
                                         ELSE ~ Accepts(l, input) /\ depth' = 2
      <3>1. l \in {"m6", "m7"}
        BY <2>1, <2>2, <2>3 DEF Locs, J!InRegion, J!Range1, J!Range2, J!Range3, J!Range4, B
      <3>2. depth = 0
        BY <1>1, <2>1, <2>3, <3>1 DEF Unanswered, J!Pending, Entered
      <3> QED BY <1>4, <2>1, <3>1, <3>2 DEF J!Pending, Entered
    <2>4. pc' \in Tests
      BY <1>4 DEF Tests, Original!PCs
    <2> QED BY <1>1, <1>3, <1>4, <2>1, <2>3, <2>4, UnansweredKeeps
  <1>5. CASE cf /\ pc' = "main"
    <2>1. PICK l \in Locs : J!InRegion(l)
      BY SomeRegion
    <2>2. Unanswered /\ UNCHANGED depth
      BY <1>1, <1>5, <2>1, Reached, LeavesInSilence
    <2>3. J!NeverStranded' /\ J!OperandRange'
      BY <1>1, RegionKept DEF RedoInv
    <2>4. TypeOK'
      <3>1. A' = A /\ B' = B /\ C' = C /\ a1745113960' = a1745113960
        BY <1>1 DEF fields, A, B, C
      <3>2. pc' \in Original!PCs
        BY <1>5 DEF Original!PCs
      <3> QED BY <1>1, <2>2, <3>1, <3>2 DEF RedoInv, TypeOK
    <2>5. Over'
      <3>1. ASSUME NEW k \in Locs, J!InRegion(k)'
            PROVE  depth' = IF k = "m8" THEN 0 ELSE 2
        <4>1. J!InRegion(k)
          BY <1>1, <3>1, RegionKept
        <4> QED BY <1>5, <2>2, <4>1, LeavesInSilence
      <3>2. printed' = <<>>
        BY <1>1, <2>2 DEF Unanswered
      <3> QED BY <3>1, <3>2 DEF Over
    <2>6. Placed'
      BY <1>5, <2>5 DEF Placed
    <2> QED BY <2>3, <2>4, <2>6 DEF RedoInv
  <1> QED BY <1>1, <1>2, <1>4, <1>5

\* Inside the block of the third range the test for the fourth never holds.
LEMMA Range4Idle ==
  ASSUME RedoInv, Range4Block
  PROVE  UNCHANGED <<input, cf, fields, printed, depth>>
  <1>1. pc = "r4" /\ B \in Int
    BY DEF Range4Block, RedoInv, TypeOK
  <1>2. CASE cf
    <2>1. ~ (100 < B)
      BY <1>1, <1>2, Reached DEF Unanswered, J!Range3, B
    <2> QED BY <2>1 DEF Range4Block
  <1> QED BY <1>2 DEF Range4Block

LEMMA Range4Keeps ==
  ASSUME RedoInv, Range4Block
  PROVE  RedoInv'
  <1>1. pc = "r4" /\ pc' = "check" /\ UNCHANGED <<input, cf, fields, printed, depth>>
    BY Range4Idle DEF Range4Block
  <1>2. pc' \in Tests
    BY <1>1 DEF Tests, Original!PCs
  <1>3. CASE ~ cf
    BY <1>1, <1>2, <1>3, AnsweredKeeps
  <1>4. CASE cf
    <2>1. Unanswered /\ Refuse
      BY <1>1, <1>4, Reached DEF Refuse
    <2>2. ASSUME NEW l \in Locs, J!InRegion(l)
          PROVE  IF l \in J!Pending(pc') THEN depth' = Entered(pc')
                                         ELSE ~ Accepts(l, input) /\ depth' = 2
      <3>1. l # "m8"
        <4>1. B \in Int
          BY DEF RedoInv, TypeOK
        <4> QED BY <1>1, <2>1, <2>2, <4>1 DEF Unanswered, J!InRegion, J!Range3, J!Range4, B
      <3>2. Met(l)
        BY <1>1, <2>1, <2>2, <3>1 DEF Unanswered, J!Pending
      <3>3. l \notin J!Pending(pc')
        BY <1>1 DEF J!Pending
      <3> QED BY <1>1, <3>2, <3>3 DEF Met
    <2> QED BY <1>1, <1>2, <2>1, <2>2, UnansweredKeeps DEF Unanswered
  <1> QED BY <1>3, <1>4

\* if(cf) throw, which only an input refused in m6 or m7 reaches.
LEMMA CheckReached ==
  ASSUME RedoInv, cf, CheckFired
  PROVE  /\ printed = <<>> /\ depth = 2
         /\ locOf \in {"m6", "m7"} /\ ~ Accepts(locOf, input)
  <1>1. pc = "check"
    BY DEF CheckFired
  <1>2. Unanswered /\ J!Range3 /\ B \in Int
    BY <1>1, Reached DEF Unanswered, RedoInv, TypeOK
  <1>3. PICK l \in Locs : J!InRegion(l) /\ locOf = l
    BY SomeRegion
  <1>4. l \in {"m6", "m7"}
    BY <1>2, <1>3 DEF Locs, J!InRegion, J!Range1, J!Range2, J!Range3, J!Range4, B
  <1>5. Met(l)
    BY <1>1, <1>2, <1>3 DEF Unanswered, J!Pending
  <1> QED BY <1>2, <1>3, <1>4, <1>5 DEF Unanswered, Met

LEMMA CheckKeeps ==
  ASSUME RedoInv, CheckFired
  PROVE  RedoInv'
  <1>1. pc = "check" /\ pc' = "main" /\ UNCHANGED <<input, cf, fields>>
    BY DEF CheckFired
  <1>2. CASE ~ cf
    <2>1. UNCHANGED <<printed, depth>>
      BY <1>2 DEF CheckFired
    <2> QED BY <1>1, <1>2, <2>1, AnsweredKeeps
  <1>3. CASE cf
    <2>1. printed = <<>> /\ depth = 2
      BY <1>3, CheckReached
    <2>2. printed' = <<Rejected>> /\ depth' = 3
      BY <1>3, <2>1 DEF CheckFired
    <2>3. J!NeverStranded' /\ J!OperandRange'
      BY <1>1, RegionKept DEF RedoInv
    <2>4. TypeOK'
      <3>1. A' = A /\ B' = B /\ C' = C /\ a1745113960' = a1745113960
        BY <1>1 DEF fields, A, B, C
      <3>2. pc' \in Original!PCs
        BY <1>1 DEF Original!PCs
      <3>3. printed' \in {<<>>} \cup {<<o>> : o \in Outputs \cup {Rejected}}
        BY <2>2
      <3>4. depth' \in 0 .. 3
        BY <2>2
      <3> QED BY <1>1, <3>1, <3>2, <3>3, <3>4 DEF RedoInv, TypeOK
    <2>5. Placed'
      <3>1. printed' # <<>>
        BY <2>2
      <3> QED BY <1>1, <2>2, <3>1 DEF Placed, Over
    <2> QED BY <2>3, <2>4, <2>5 DEF RedoInv
  <1> QED BY <1>2, <1>3

LEMMA ReadKeeps ==
  ASSUME RedoInv, NEW i \in Inputs, ReadInput(i)
  PROVE  RedoInv'
  <1>1. /\ pc' = "r1" /\ input' = i /\ printed' = <<>> /\ depth' = 0 /\ UNCHANGED fields
        /\ cf' = TRUE
    BY DEF ReadInput, MyBool2
  <1>2. J!NeverStranded' /\ J!OperandRange'
    BY <1>1, RegionKept DEF RedoInv
  <1>3. TypeOK'
    <2>1. A' = A /\ B' = B /\ C' = C /\ a1745113960' = a1745113960
      BY <1>1 DEF fields, A, B, C
    <2>2. pc' \in Original!PCs
      BY <1>1 DEF Original!PCs
    <2>3. cf' \in BOOLEAN
      BY <1>1
    <2> QED BY <1>1, <2>1, <2>2, <2>3 DEF RedoInv, TypeOK
  <1>4. Unanswered'
    BY <1>1 DEF Unanswered, J!Pending, J!Locs, Locs, Entered
  <1>5. Placed'
    BY <1>1, <1>4 DEF Placed
  <1> QED BY <1>2, <1>3, <1>5 DEF RedoInv

LEMMA ResetKeeps ==
  ASSUME RedoInv, reset
  PROVE  RedoInv'
  <1>1. /\ pc' = "main" /\ input' = Other /\ printed' = <<>> /\ depth' = 0
        /\ a422009172' = -68 /\ a2108127495' = -44 /\ a1522448132' = 173 /\ a1745113960' = "h"
        /\ cf' = TRUE
    BY DEF reset, MyBool2
  <1>2. J!InRegion("m4")' /\ J!OperandRange'
    BY <1>1 DEF J!InRegion, J!Range2, J!OperandRange
  <1>3. J!NeverStranded'
    BY <1>2 DEF J!NeverStranded, J!Locs
  <1>4. TypeOK'
    <2>1. cf' \in BOOLEAN
      BY <1>1
    <2>2. pc' \in Original!PCs
      BY <1>1 DEF Original!PCs
    <2> QED BY <1>1, <2>1, <2>2 DEF TypeOK, A, B, C
  <1>5. Placed'
    BY <1>1 DEF Placed
  <1> QED BY <1>2, <1>3, <1>4, <1>5 DEF RedoInv

LEMMA InitRedoInv == Init => RedoInv
  <1> SUFFICES ASSUME Init PROVE RedoInv
    OBVIOUS
  <1>1. /\ pc = "main" /\ input = Other /\ printed = <<>> /\ depth = 0
        /\ a422009172 = -68 /\ a2108127495 = -44 /\ a1522448132 = 173 /\ a1745113960 = "h"
        /\ cf = FALSE
    BY DEF Init, Start, myAssign, MyBool3
  <1>2. J!InRegion("m4") /\ J!OperandRange
    BY <1>1 DEF J!InRegion, J!Range2, J!OperandRange
  <1>3. J!NeverStranded
    BY <1>2 DEF J!NeverStranded, J!Locs
  <1>4. TypeOK
    <2>1. cf \in BOOLEAN
      BY <1>1
    <2>2. pc \in Original!PCs
      BY <1>1 DEF Original!PCs
    <2> QED BY <1>1, <2>1, <2>2 DEF TypeOK, A, B, C
  <1>5. Placed
    BY <1>1 DEF Placed
  <1> QED BY <1>2, <1>3, <1>4, <1>5 DEF RedoInv

LEMMA NextRedoInv == RedoInv /\ [Next]_vars => RedoInv'
  <1> SUFFICES ASSUME RedoInv, [Next]_vars PROVE RedoInv'
    OBVIOUS
  <1>1. CASE calculateOutput
    BY <1>1, CallKeeps, Enter12Keeps, Enter3Keeps, Range4Keeps, CheckKeeps DEF calculateOutput
  <1>2. CASE reset
    BY <1>2, ResetKeeps
  <1>3. ASSUME NEW i \in Inputs, ReadInput(i) PROVE RedoInv'
    BY <1>3, ReadKeeps
  <1>4. CASE UNCHANGED vars
    <2>1. UNCHANGED fields /\ UNCHANGED <<pc, input, cf, printed, depth>>
      BY <1>4 DEF vars, fields
    <2>2. J!NeverStranded' /\ J!OperandRange'
      BY <2>1, RegionKept DEF RedoInv
    <2>3. TypeOK'
      <3>1. A' = A /\ B' = B /\ C' = C /\ a1745113960' = a1745113960
        BY <2>1 DEF fields, A, B, C
      <3> QED BY <2>1, <3>1 DEF RedoInv, TypeOK
    <2>4. Placed'
      <3>1. Over' <=> Over
        BY <2>1, RegionKept DEF Over
      <3>2. Answered' <=> Answered
        BY <2>1 DEF Answered
      <3>3. Unanswered' <=> Unanswered
        BY <2>1, RegionKept DEF Unanswered, Met, J!Pending, Entered
      <3> QED BY <2>1, <3>1, <3>2, <3>3 DEF RedoInv, Placed
    <2> QED BY <2>2, <2>3, <2>4 DEF RedoInv
  <1> QED BY <1>1, <1>2, <1>3, <1>4 DEF Next

(***************************************************************************)
(* However many inputs and resets there are, the fields stay in one of the *)
(* eight regions, and depth tells at every test of calculateOutput whether *)
(* the input was answered, refused by its method, or is still ahead of it. *)
(***************************************************************************)
THEOREM RedoInvariance == Spec => []RedoInv
<1>1. Init => RedoInv
  BY InitRedoInv
<1>2. RedoInv /\ [Next]_vars => RedoInv'
  BY NextRedoInv
<1> QED BY <1>1, <1>2, PTL DEF Spec

(***************************************************************************)
(* The depth main reports: three where something was printed, two where    *)
(* the input was refused in silence, none in m8.                           *)
(***************************************************************************)
THEOREM DepthTells == Spec => []DepthTellsOutcome
<1>1. ASSUME RedoInv PROVE DepthTellsOutcome
  <2>1. TypeOK
    BY <1>1 DEF RedoInv
  <2>2. ASSUME pc = "main", input # Other
        PROVE  /\ depth = 3 <=> printed # <<>>
               /\ depth = 2 <=> printed = <<>> /\ locOf # "m8"
               /\ depth = 0 <=> printed = <<>> /\ locOf = "m8"
    <3>1. Over
      BY <1>1, <2>2 DEF RedoInv, Placed
    <3>2. PICK l \in Locs : J!InRegion(l) /\ locOf = l
      BY <1>1, SomeRegion
    <3> QED BY <3>1, <3>2 DEF Over
  <2> QED BY <2>1, <2>2 DEF DepthTellsOutcome
<1> QED BY <1>1, RedoInvariance, PTL

-----------------------------------------------------------------------------
(***************************************************************************)
(* What a step of calculateOutput looks like from outside.                 *)
(***************************************************************************)
LEMMA CallOutcomes ==
  ASSUME RedoInv, Call1 \/ Call2 \/ Call3 \/ Call4 \/ Call5 \/ Call6 \/ Call7
  PROVE  /\ pc # "main" /\ pc' # "main" /\ UNCHANGED input
         /\ \/ UNCHANGED <<fields, printed>>
            \/ cf /\ Replied
  <1>1. pc # "main" /\ pc' # "main" /\ UNCHANGED input
    BY DEF Call1, Call2, Call3, Call4, Call5, Call6, Call7, Call
  <1>2. CASE ~ cf
    BY <1>1, <1>2 DEF Call1, Call2, Call3, Call4, Call5, Call6, Call7, Call
  <1>3. CASE cf
    <2>1. Replied \/ Refuse
      BY <1>3, Meets1, Meets2, Meets3, Meets4, Meets5, Meets6, Meets7 DEF Refused, Passed
    <2> QED BY <1>1, <1>3, <2>1 DEF Refuse
  <1> QED BY <1>2, <1>3

(***************************************************************************)
(* The rewritten three-address code is right: where an input is answered,  *)
(* the fields change as the method of src/m183_LTL_CTL.java changes them.  *)
(***************************************************************************)
THEOREM RedoComputesOriginal == Spec => ComputesOriginal
<1>1. ASSUME RedoInv, Next, printed = <<>>, printed' # <<>>, printed' # <<Rejected>>
      PROVE  Originally
  <2>1. CASE Call1 \/ Call2 \/ Call3 \/ Call4 \/ Call5 \/ Call6 \/ Call7
    BY <1>1, <2>1, CallOutcomes DEF Replied
  <2>2. CASE EnterRange1 \/ EnterRange2 \/ EnterRange3
    BY <1>1, <2>2 DEF EnterRange1, EnterRange2, EnterRange3, Enter
  <2>3. CASE Range4Block
    BY <1>1, <2>3, Range4Idle
  <2>4. CASE CheckFired
    BY <1>1, <2>4 DEF CheckFired
  <2>5. CASE reset
    BY <1>1, <2>5 DEF reset
  <2>6. ASSUME NEW i \in Inputs, ReadInput(i) PROVE FALSE
    BY <1>1, <2>6 DEF ReadInput
  <2> QED BY <1>1, <2>1, <2>2, <2>3, <2>4, <2>5, <2>6 DEF Next, calculateOutput
<1>2. RedoInv /\ [Next]_vars =>
        [printed = <<>> /\ printed' # <<>> /\ printed' # <<Rejected>> => Originally]_vars
  BY <1>1
<1> QED BY <1>2, RedoInvariance, PTL DEF Spec, ComputesOriginal

-----------------------------------------------------------------------------
(***************************************************************************)
(* What the misplaced brace leaves of the machine, step by step.           *)
(***************************************************************************)
WhatIsLeft ==
  \/ \E i \in Inputs : Mealy!Read(i)
  \/ locOf # "m8" /\ Mealy!Answer
  \/ locOf \in {"m6", "m7"} /\ Mealy!Reject
  \/ Silent
  \/ Restarted

LEMMA CallLeft ==
  ASSUME RedoInv, RedoInv', Call1 \/ Call2 \/ Call3 \/ Call4 \/ Call5 \/ Call6 \/ Call7
  PROVE  [WhatIsLeft]_(Mealy!vars)
  <1>1. pc # "main" /\ pc' # "main" /\ UNCHANGED input
    BY CallOutcomes
  <1>2. CASE UNCHANGED <<fields, printed>>
    <2>1. locOf' = locOf
      BY <1>2, RegionKept
    <2> QED BY <1>1, <1>2, <2>1 DEF Mealy!vars, phaseOf
  <1>3. CASE cf /\ Replied
    <2>1. PICK t \in Trans : /\ input = t.in /\ J!InRegion(t.from) /\ J!InRegion(t.to)'
                             /\ printed' = <<t.out>>
      BY <1>3 DEF Replied
    <2>2. locOf = t.from /\ locOf' = t.to
      BY <2>1, TransTypes, LocOfRegion, LocOfRegionNext DEF RedoInv, TypeOK
    <2>3. Unanswered /\ printed = <<>>
      BY <1>1, <1>3, Reached DEF Unanswered
    <2>4. phaseOf = "busy" /\ phaseOf' = "ready"
      BY <1>1, <2>1, <2>3 DEF phaseOf
    <2>5. Mealy!Answer
      BY <1>1, <2>1, <2>2, <2>4, Tables DEF Mealy!Answer, Mealy!Takes
    <2>6. locOf # "m8"
      <3>1. B \in Int
        BY DEF RedoInv, TypeOK
      <3>2. pc \in {"m1", "m2", "m3", "m4", "m5", "m6", "m7"}
        BY DEF Call1, Call2, Call3, Call4, Call5, Call6, Call7, Call
      <3>3. ~ J!Range4
        BY <2>3, <3>1, <3>2 DEF Unanswered, J!Range1, J!Range2, J!Range3, J!Range4, B
      <3> QED BY <2>1, <2>2, <3>3 DEF J!InRegion
    <2> QED BY <2>5, <2>6 DEF WhatIsLeft
  <1> QED BY <1>2, <1>3, CallOutcomes

LEMMA StepLeft ==
  ASSUME RedoInv, RedoInv', [Next]_vars
  PROVE  [WhatIsLeft]_(Mealy!vars)
  <1>1. CASE Call1 \/ Call2 \/ Call3 \/ Call4 \/ Call5 \/ Call6 \/ Call7
    BY <1>1, CallLeft
  <1>2. CASE EnterRange1 \/ EnterRange2
    <2>1. pc # "main" /\ pc' # "main" /\ UNCHANGED <<input, cf, fields, printed>>
      BY <1>2 DEF EnterRange1, EnterRange2, Enter
    <2> QED BY <2>1, RegionKept DEF Mealy!vars, phaseOf
  <1>3. CASE EnterRange3
    <2>1. /\ pc = "r3" /\ pc' \in {"m6", "main"} /\ UNCHANGED <<input, cf, fields, printed>>
          /\ locOf' = locOf
      BY <1>3, RegionKept DEF EnterRange3, Enter
    <2>2. CASE cf /\ pc' = "main"
      <3>1. PICK l \in Locs : J!InRegion(l) /\ locOf = l
        BY SomeRegion
      <3>2. locOf = "m8" \/ (~ Accepts(locOf, input) /\ locOf \notin {"m6", "m7"})
        BY <1>3, <2>2, <3>1, LeavesInSilence
      <3>3. printed = <<>>
        BY <2>1, <2>2, Reached DEF Unanswered
      <3>4. Silent
        BY <2>1, <2>2, <3>2, <3>3 DEF Silent, phaseOf
      <3> QED BY <3>4 DEF WhatIsLeft
    <2>3. CASE ~ cf
      <3>1. printed # <<>>
        BY <2>1, <2>3 DEF RedoInv, Placed, Unanswered, Answered
      <3> QED BY <2>1, <3>1 DEF Mealy!vars, phaseOf
    <2>4. CASE pc' = "m6"
      BY <2>1, <2>4 DEF Mealy!vars, phaseOf
    <2> QED BY <2>1, <2>2, <2>3, <2>4
  <1>4. CASE Range4Block
    <2>1. pc # "main" /\ pc' # "main" /\ UNCHANGED <<input, cf, fields, printed>>
      BY <1>4, Range4Idle DEF Range4Block
    <2> QED BY <2>1, RegionKept DEF Mealy!vars, phaseOf
  <1>5. CASE CheckFired
    <2>1. pc = "check" /\ pc' = "main" /\ UNCHANGED <<input, cf, fields>> /\ locOf' = locOf
      BY <1>5, RegionKept DEF CheckFired
    <2>2. CASE ~ cf
      <3>1. printed # <<>> /\ UNCHANGED printed
        BY <1>5, <2>1, <2>2 DEF CheckFired, RedoInv, Placed, Unanswered, Answered
      <3> QED BY <2>1, <3>1 DEF Mealy!vars, phaseOf
    <2>3. CASE cf
      <3>1. printed = <<>> /\ locOf \in {"m6", "m7"} /\ ~ Accepts(locOf, input)
        BY <1>5, <2>3, CheckReached
      <3>2. printed' = <<Rejected>>
        BY <1>5, <2>3, <3>1 DEF CheckFired
      <3>3. phaseOf = "busy" /\ phaseOf' = "ready"
        BY <2>1, <3>1 DEF phaseOf
      <3>4. Rejected = Mealy!Rejected
        BY Zenon DEF Rejected, Mealy!Rejected
      <3>5. Mealy!Reject
        BY <2>1, <3>1, <3>2, <3>3, <3>4, SameAccepts DEF Mealy!Reject
      <3> QED BY <3>1, <3>5 DEF WhatIsLeft
    <2> QED BY <2>2, <2>3
  <1>6. CASE reset
    <2>1. /\ pc = "main" /\ pc' = "main"
          /\ a2108127495' = -44 /\ a1745113960' = "h"
      BY <1>6 DEF reset
    <2>2. J!InRegion("m4")' /\ B' \in Int
      BY <2>1 DEF J!InRegion, J!Range2, B
    <2>3. locOf' = "m4"
      BY <2>2, LocOfRegionNext DEF Locs
    <2> QED BY <2>1, <2>3 DEF WhatIsLeft, Restarted, phaseOf
  <1>7. ASSUME NEW i \in Inputs, ReadInput(i)
        PROVE  WhatIsLeft
    <2>1. /\ pc = "main" /\ pc' = "r1" /\ input' = i /\ printed' = <<>>
          /\ UNCHANGED fields /\ locOf' = locOf
      BY <1>7, RegionKept DEF ReadInput
    <2>2. phaseOf = "ready" /\ phaseOf' = "busy"
      BY <2>1 DEF phaseOf
    <2>3. Mealy!Read(i)
      BY <2>1, <2>2 DEF Mealy!Read
    <2> QED BY <2>3 DEF WhatIsLeft
  <1>8. CASE UNCHANGED vars
    <2>1. UNCHANGED fields /\ UNCHANGED <<pc, input, printed>>
      BY <1>8 DEF vars, fields
    <2> QED BY <2>1, RegionKept DEF Mealy!vars, phaseOf
  <1> QED BY <1>1, <1>2, <1>3, <1>4, <1>5, <1>6, <1>7, <1>8 DEF Next, calculateOutput

(***************************************************************************)
(* Seven states of the machine answer as they should, m6 and m7 report     *)
(* what they refuse, every other refusal is silent, and m8 does nothing    *)
(* until the next reset.                                                   *)
(***************************************************************************)
THEOREM RedoRefines == Spec => ImplementsWhatIsLeft
<1>1. Init => Mealy!Init
  <2> SUFFICES ASSUME Init PROVE Mealy!Init
    OBVIOUS
  <2>1. J!InRegion("m4")
    BY DEF Init, Start, J!InRegion, J!Range2
  <2>2. locOf = "m4"
    BY <2>1, InitRedoInv, LocOfRegion DEF RedoInv, Locs
  <2> QED BY <2>2 DEF Init, Mealy!Init, Mealy!Other, Other, phaseOf
<1>2. RedoInv /\ RedoInv' /\ [Next]_vars => [WhatIsLeft]_(Mealy!vars)
  BY StepLeft
<1> QED BY <1>1, <1>2, RedoInvariance, PTL DEF Spec, ImplementsWhatIsLeft, WhatIsLeft

=============================================================================
