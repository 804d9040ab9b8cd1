------------------------ MODULE Instrumented183Proofs ------------------------
(***************************************************************************)
(* The instrumented program, for runs of any number and any length: what   *)
(* reset leaves behind (Reuse183), that the three-address code of class I  *)
(* changes the fields as the methods of src/m183_LTL_CTL.java do, and what *)
(* the recorded branches tell (BranchDistance183).                         *)
(*                                                                         *)
(* The results of M183JavaProofs are used through an instance of it: once  *)
(* a block of the instrumented program is known to be the original method, *)
(* what that method does in its region need not be shown again.            *)
(***************************************************************************)
EXTENDS Reuse183, BranchDistance183, FiniteSetTheorems, SequenceTheorems, TLAPS

\* The original, where calculateOutput begins while an input is processed.
head == IF phase = "busy" THEN "r1" ELSE "main"

J == INSTANCE M183JavaProofs WITH
       pc <- head, printed <- reply, cf <- (phase = "busy"),
       a422009172 <- A.val, a2108127495 <- B.val,
       a1522448132 <- C.val, a1745113960 <- a1745113960.val

-----------------------------------------------------------------------------
(***************************************************************************)
(* Three-address code, by way of the lemmas that M183JavaProofs has on it. *)
(***************************************************************************)
LEMMA SameRounding ==
  \A v, k : Rem(v, k) = J!TA!Rem(v, k) /\ Quot(v, k) = J!TA!Quot(v, k)
  BY DEF Rem, Quot, J!TA!Rem, J!TA!Quot

LEMMA SameApply ==
  \A v, op : Apply(v, op) = J!TA!Apply(v, op)
  BY SameRounding, Zenon DEF Apply, J!TA!Apply

LEMMA SameChain ==
  ASSUME NEW v, NEW ops
  PROVE  Chain(v, ops) = J!TA!Chain(v, ops)
  <1> DEFINE Eq(f)  == f = [k \in 0 .. Len(ops) |->
                              IF k = 0 THEN v ELSE Apply(f[k - 1], ops[k])]
             JEq(f) == f = [k \in 0 .. Len(ops) |->
                              IF k = 0 THEN v ELSE J!TA!Apply(f[k - 1], ops[k])]
  <1>1. \A f : Eq(f) <=> JEq(f)
    BY SameApply
  <1>2. Chain(v, ops) = (CHOOSE f : Eq(f))[Len(ops)]
    BY DEF Chain
  <1>3. J!TA!Chain(v, ops) = (CHOOSE f : JEq(f))[Len(ops)]
    BY DEF J!TA!Chain
  <1> HIDE DEF Eq, JEq
  <1>4. (CHOOSE f : Eq(f)) = CHOOSE f : JEq(f)
    BY <1>1, Zenon
  <1> QED BY <1>2, <1>3, <1>4, Zenon

LEMMA Chain2 ==
  ASSUME NEW v, NEW a, NEW b
  PROVE  Chain(v, <<a, b>>) =
           Apply(Apply(v, a), b)
  BY J!Chain2, SameChain, SameApply

LEMMA Chain3 ==
  ASSUME NEW v, NEW a, NEW b, NEW c
  PROVE  Chain(v, <<a, b, c>>) =
           Apply(Apply(Apply(v, a), b), c)
  BY J!Chain3, SameChain, SameApply

LEMMA Chain4 ==
  ASSUME NEW v, NEW a, NEW b, NEW c, NEW d
  PROVE  Chain(v, <<a, b, c, d>>) =
           Apply(Apply(Apply(Apply(v, a), b), c), d)
  BY J!Chain4, SameChain, SameApply

LEMMA Chain5 ==
  ASSUME NEW v, NEW a, NEW b, NEW c, NEW d, NEW e
  PROVE  Chain(v, <<a, b, c, d, e>>) =
           Apply(Apply(Apply(Apply(Apply(v, a), b), c), d), e)
  BY J!Chain5, SameChain, SameApply

LEMMA Chain6 ==
  ASSUME NEW v, NEW a, NEW b, NEW c, NEW d, NEW e, NEW f
  PROVE  Chain(v, <<a, b, c, d, e, f>>) =
           Apply(Apply(Apply(Apply(Apply(Apply(v, a), b), c), d), e), f)
  BY J!Chain6, SameChain, SameApply

LEMMA Chain7 ==
  ASSUME NEW v, NEW a, NEW b, NEW c, NEW d, NEW e, NEW f, NEW h
  PROVE  Chain(v, <<a, b, c, d, e, f, h>>) =
           Apply(Apply(Apply(Apply(Apply(Apply(Apply(v, a), b), c), d), e), f), h)
  BY J!Chain7, SameChain, SameApply

\* What one instruction computes.
LEMMA Instructions ==
  ASSUME NEW v, NEW k
  PROVE  /\ Apply(v, Op("Add", k)) = v + k
         /\ Apply(v, Op("Del", k)) = v - k
         /\ Apply(v, Op("Mul", k)) = v * k
         /\ Apply(v, Op("Div", k)) = Quot(v, k)
         /\ Apply(v, Op("Mod", k)) = Rem(v, k)
  BY DEF Apply, Op

LEMMA RoundedInt ==
  ASSUME NEW v \in Int, NEW k \in Nat \ {0}
  PROVE  Rem(v, k) \in Int /\ Quot(v, k) \in Int
  BY DEF Rem, Quot

\* The chains of the eight methods, as the expressions they replaced.
LEMMA Value1 ==
  ASSUME NEW p \in Int
  PROVE  /\ Chain(p, Code1) \in Int
         /\ Chain(p, Code1) = Rem(Rem(p, 14999), 72) - 91 + 1
  <1> DEFINE w1 == Rem(p, 14999)
             w2 == Rem(w1, 72)
             w3 == w2 - 91
             w4 == w3 - (-1)
             w5 == w4 * 1
  <1>1. Chain(p, Code1) = w5
    BY Chain5, Instructions DEF Code1
  <1>2. w1 \in Int
    BY RoundedInt
  <1> HIDE DEF w1
  <1>3. w2 \in Int
    BY <1>2, RoundedInt
  <1> HIDE DEF w2
  <1>4. w3 \in Int
    BY <1>3
  <1> HIDE DEF w3
  <1>5. w4 \in Int
    BY <1>4
  <1> HIDE DEF w4
  <1>6. w5 \in Int
    BY <1>5
  <1> HIDE DEF w5
  <1>7. w5 = Rem(Rem(p, 14999), 72) - 91 + 1
    BY <1>2, <1>3, <1>4, <1>5, <1>6 DEF w1, w2, w3, w4, w5
  <1> QED BY <1>1, <1>6, <1>7

LEMMA Value2 ==
  ASSUME NEW p \in Int
  PROVE  /\ Chain(p, Code2) \in Int
         /\ Chain(p, Code2) = p + 98 - 4 - 42
  <1> DEFINE w1 == p - (-98)
             w2 == w1 - 4
             w3 == w2 + (-42)
  <1>1. Chain(p, Code2) = w3
    BY Chain3, Instructions DEF Code2
  <1>2. w1 \in Int
    OBVIOUS
  <1> HIDE DEF w1
  <1>3. w2 \in Int
    BY <1>2
  <1> HIDE DEF w2
  <1>4. w3 \in Int
    BY <1>3
  <1> HIDE DEF w3
  <1>5. w3 = p + 98 - 4 - 42
    BY <1>2, <1>3, <1>4 DEF w1, w2, w3
  <1> QED BY <1>1, <1>4, <1>5

LEMMA Value3C ==
  ASSUME NEW p \in Int
  PROVE  /\ Chain(p, Code3C) \in Int
         /\ Chain(p, Code3C) = Rem((Rem(p, 50) - 75) * 5, 50) - 31
  <1> DEFINE w1 == Rem(p, 50)
             w2 == w1 - 75
             w3 == w2 * 5
             w4 == Rem(w3, 50)
             w5 == w4 + (-31)
  <1>1. Chain(p, Code3C) = w5
    BY Chain5, Instructions DEF Code3C
  <1>2. w1 \in Int
    BY RoundedInt
  <1> HIDE DEF w1
  <1>3. w2 \in Int
    BY <1>2
  <1> HIDE DEF w2
  <1>4. w3 \in Int
    BY <1>3
  <1> HIDE DEF w3
  <1>5. w4 \in Int
    BY <1>4, RoundedInt
  <1> HIDE DEF w4
  <1>6. w5 \in Int
    BY <1>5
  <1> HIDE DEF w5
  <1>7. w5 = Rem((Rem(p, 50) - 75) * 5, 50) - 31
    BY <1>2, <1>3, <1>4, <1>5, <1>6 DEF w1, w2, w3, w4, w5
  <1> QED BY <1>1, <1>6, <1>7

LEMMA Value3B ==
  ASSUME NEW p \in Int
  PROVE  /\ Chain(p, Code3B) \in Int
         /\ Chain(p, Code3B) = p - 22476 - 3649
  <1> DEFINE w1 == p - 22476
             w2 == w1 * 1
             w3 == w2 + (-3649)
  <1>1. Chain(p, Code3B) = w3
    BY Chain3, Instructions DEF Code3B
  <1>2. w1 \in Int
    OBVIOUS
  <1> HIDE DEF w1
  <1>3. w2 \in Int
    BY <1>2
  <1> HIDE DEF w2
  <1>4. w3 \in Int
    BY <1>3
  <1> HIDE DEF w3
  <1>5. w3 = p - 22476 - 3649
    BY <1>2, <1>3, <1>4 DEF w1, w2, w3
  <1> QED BY <1>1, <1>4, <1>5

LEMMA Value4 ==
  ASSUME NEW p \in Int
  PROVE  /\ Chain(p, Code4) \in Int
         /\ Chain(p, Code4) = Rem(p + 1395, 59) + 16
  <1> DEFINE w1 == p - (-1395)
             w2 == Rem(w1, 59)
             w3 == w2 - (-16)
  <1>1. Chain(p, Code4) = w3
    BY Chain3, Instructions DEF Code4
  <1>2. w1 \in Int
    OBVIOUS
  <1> HIDE DEF w1
  <1>3. w2 \in Int
    BY <1>2, RoundedInt
  <1> HIDE DEF w2
  <1>4. w3 \in Int
    BY <1>3
  <1> HIDE DEF w3
  <1>5. w3 = Rem(p + 1395, 59) + 16
    BY <1>2, <1>3, <1>4 DEF w1, w2, w3
  <1> QED BY <1>1, <1>4, <1>5

LEMMA Value6B ==
  ASSUME NEW p \in Int
  PROVE  /\ Chain(p, Code6B) \in Int
         /\ Chain(p, Code6B) = p * 2
  <1> DEFINE w1 == p * 2
             w2 == w1 * 1
  <1>1. Chain(p, Code6B) = w2
    BY Chain2, Instructions DEF Code6B
  <1>2. w1 \in Int
    OBVIOUS
  <1> HIDE DEF w1
  <1>3. w2 \in Int
    BY <1>2
  <1> HIDE DEF w2
  <1>4. w2 = p * 2
    BY <1>2, <1>3 DEF w1, w2
  <1> QED BY <1>1, <1>3, <1>4

LEMMA Value6A ==
  ASSUME NEW p \in Int
  PROVE  /\ Chain(p, Code6A) \in Int
         /\ Chain(p, Code6A) = Rem(Rem(p, 14999) - 1380, 47) + 150 + 23887 - 23885
  <1> DEFINE w1 == Rem(p, 14999)
             w2 == w1 + (-1380)
             w3 == Rem(w2, 47)
             w4 == w3 - (-150)
             w5 == w4 + 23887
             w6 == w5 + (-23885)
  <1>1. Chain(p, Code6A) = w6
    BY Chain6, Instructions DEF Code6A
  <1>2. w1 \in Int
    BY RoundedInt
  <1> HIDE DEF w1
  <1>3. w2 \in Int
    BY <1>2
  <1> HIDE DEF w2
  <1>4. w3 \in Int
    BY <1>3, RoundedInt
  <1> HIDE DEF w3
  <1>5. w4 \in Int
    BY <1>4
  <1> HIDE DEF w4
  <1>6. w5 \in Int
    BY <1>5
  <1> HIDE DEF w5
  <1>7. w6 \in Int
    BY <1>6
  <1> HIDE DEF w6
  <1>8. w6 = Rem(Rem(p, 14999) - 1380, 47) + 150 + 23887 - 23885
    BY <1>2, <1>3, <1>4, <1>5, <1>6, <1>7 DEF w1, w2, w3, w4, w5, w6
  <1> QED BY <1>1, <1>7, <1>8

LEMMA Value6E ==
  ASSUME NEW p \in Int
  PROVE  /\ Chain(p, Code6E) \in Int
         /\ Chain(p, Code6E) = p - 4 + 5
  <1> DEFINE w1 == p + (-4)
             w2 == w1 + 5
  <1>1. Chain(p, Code6E) = w2
    BY Chain2, Instructions DEF Code6E
  <1>2. w1 \in Int
    OBVIOUS
  <1> HIDE DEF w1
  <1>3. w2 \in Int
    BY <1>2
  <1> HIDE DEF w2
  <1>4. w2 = p - 4 + 5
    BY <1>2, <1>3 DEF w1, w2
  <1> QED BY <1>1, <1>3, <1>4

LEMMA Value7G ==
  ASSUME NEW p \in Int
  PROVE  /\ Chain(p, Code7G) \in Int
         /\ Chain(p, Code7G) = p + 3384 - 4504 + 1107
  <1> DEFINE w1 == p - (-3384)
             w2 == w1 - 4504
             w3 == w2 - (-1107)
  <1>1. Chain(p, Code7G) = w3
    BY Chain3, Instructions DEF Code7G
  <1>2. w1 \in Int
    OBVIOUS
  <1> HIDE DEF w1
  <1>3. w2 \in Int
    BY <1>2
  <1> HIDE DEF w2
  <1>4. w3 \in Int
    BY <1>3
  <1> HIDE DEF w3
  <1>5. w3 = p + 3384 - 4504 + 1107
    BY <1>2, <1>3, <1>4 DEF w1, w2, w3
  <1> QED BY <1>1, <1>4, <1>5

LEMMA Value7H ==
  ASSUME NEW p \in Int
  PROVE  /\ Chain(p, Code7H) \in Int
         /\ Chain(p, Code7H) = Rem((p + 35662) * 2, 72) - 149
  <1> DEFINE w1 == p - (-35662)
             w2 == w1 * 2
             w3 == Rem(w2, 72)
             w4 == w3 - 149
  <1>1. Chain(p, Code7H) = w4
    BY Chain4, Instructions DEF Code7H
  <1>2. w1 \in Int
    OBVIOUS
  <1> HIDE DEF w1
  <1>3. w2 \in Int
    BY <1>2
  <1> HIDE DEF w2
  <1>4. w3 \in Int
    BY <1>3, RoundedInt
  <1> HIDE DEF w3
  <1>5. w4 \in Int
    BY <1>4
  <1> HIDE DEF w4
  <1>6. w4 = Rem((p + 35662) * 2, 72) - 149
    BY <1>2, <1>3, <1>4, <1>5 DEF w1, w2, w3, w4
  <1> QED BY <1>1, <1>5, <1>6

LEMMA Value8 ==
  ASSUME NEW p \in Int
  PROVE  /\ Chain(p, Code8) \in Int
         /\ Chain(p, Code8) = Rem((Rem(Quot(Rem(p, 14999), 5), 72) - 156) * 5, 72) - 65
  <1> DEFINE w1 == Rem(p, 14999)
             w2 == Quot(w1, 5)
             w3 == Rem(w2, 72)
             w4 == w3 + (-156)
             w5 == w4 * 5
             w6 == Rem(w5, 72)
             w7 == w6 + (-65)
  <1>1. Chain(p, Code8) = w7
    BY Chain7, Instructions DEF Code8
  <1>2. w1 \in Int
    BY RoundedInt
  <1> HIDE DEF w1
  <1>3. w2 \in Int
    BY <1>2, RoundedInt
  <1> HIDE DEF w2
  <1>4. w3 \in Int
    BY <1>3, RoundedInt
  <1> HIDE DEF w3
  <1>5. w4 \in Int
    BY <1>4
  <1> HIDE DEF w4
  <1>6. w5 \in Int
    BY <1>5
  <1> HIDE DEF w5
  <1>7. w6 \in Int
    BY <1>6, RoundedInt
  <1> HIDE DEF w6
  <1>8. w7 \in Int
    BY <1>7
  <1> HIDE DEF w7
  <1>9. w7 = Rem((Rem(Quot(Rem(p, 14999), 5), 72) - 156) * 5, 72) - 65
    BY <1>2, <1>3, <1>4, <1>5, <1>6, <1>7, <1>8 DEF w1, w2, w3, w4, w5, w6, w7
  <1> QED BY <1>1, <1>8, <1>9

-----------------------------------------------------------------------------
(***************************************************************************)
(* A block of three-address code, and the fields of the original program.  *)
(***************************************************************************)
LEMMA BlockFields ==
  ASSUME NEW v, NEW v1, NEW first, NEW ops
  PROVE  /\ Block(v, v1, first, ops).res.val = Chain(v1, ops)
         /\ Block(v, v1, first, ops).res.flow =
              FlowsAfter(v, first, Len(ops) + 1)[Len(ops) + 1]
         /\ Block(v, v1, first, ops).var = FlowsAfter(v, first, Len(ops) + 1)
  BY DEF Block, My

LEMMA Rounding ==
  \A v, k : Rem(v, k) = Original!Rem(v, k) /\ Quot(v, k) = Original!Quot(v, k)
  BY DEF Rem, Quot, Original!Rem, Original!Quot

\* The values of the integers, and what may be printed before an answer.
Calculating ==
  /\ A.val \in Int /\ B.val \in Int /\ C.val \in Int
  /\ phase = "busy" /\ phase' = "ready" /\ reply = <<>>

\* How a block of the original program fires here.
LEMMA OriginalFires ==
  ASSUME Calculating
  PROVE  /\ \A i : Original!Fires(i) <=> input = i
         /\ \A out : Original!Emit(out) <=> reply' = <<out>>
  <1>1. \A out : Append(reply, out) = <<out>>
    BY DEF Calculating
  <1>2. (phase = "busy")' = FALSE
    BY DEF Calculating
  <1> QED BY <1>1, <1>2 DEF Calculating, Original!Fires, Original!Emit

(***************************************************************************)
(* Each method of the instrumented program, where it answers, does to the  *)
(* values what the method of the original does to its fields.              *)
(***************************************************************************)
LEMMA Originally1 ==
  ASSUME Calculating, CalculateOutputm1
  PROVE  Original!calculateOutputm1
  <1>0. A.val \in Int /\ B.val \in Int /\ C.val \in Int
    BY DEF Calculating
  <1>1. CASE input = "usr2_ai1_VoidReply"
    <2> DEFINE p == B.val * C.val
    <2>0. /\ Emit("ai1_VoidReply", FALSE)
          /\ a1745113960' = My("h", TRUE)
          /\ a2108127495' = Block(var, B.val * C.val, Forced, Code1).res
          /\ UNCHANGED <<a422009172, a1522448132>>
      BY <1>0, <1>1 DEF CalculateOutputm1, On, Emit, My, Raised
    <2>1. p \in Int
      BY DEF Calculating
    <2>2. PICK q : B' = Block(var, p, q, Code1).res
      BY <2>0 DEF B
    <2> HIDE DEF p
    <2>3. B'.val = Chain(p, Code1)
      BY <2>2, BlockFields
    <2>4. B'.val = Rem(Rem(p, 14999), 72) - 91 + 1
      BY <2>1, <2>3, Value1
    <2> QED BY <1>1, <2>0, <2>1, <2>4, OriginalFires, Rounding
            DEF p, Emit, My, A, B, C, Original!calculateOutputm1, Original!fields
  <1>2. input \in {"usr2_ai1_VoidReply"}
    BY DEF CalculateOutputm1, On, Emit, My, Raised, Missed
  <1> QED BY <1>1, <1>2

LEMMA Originally2 ==
  ASSUME Calculating, CalculateOutputm2
  PROVE  Original!calculateOutputm2
  <1>0. A.val \in Int /\ B.val \in Int /\ C.val \in Int
    BY DEF Calculating
  <1>1. CASE input = "usr4_ni1_ne1"
    <2>1. /\ Emit("ni1_ne1", TRUE)
          /\ UNCHANGED <<a422009172, a2108127495, a1522448132, a1745113960, var>>
      BY <1>0, <1>1 DEF CalculateOutputm2, On, Emit
    <2> QED
      BY <1>1, <2>1, OriginalFires
      DEF Emit, My, A, B, C, Original!calculateOutputm2, Original!fields
  <1>2. CASE input = "ai1_ce2"
    <2> DEFINE p == Rem(B.val, 59)
    <2>0. /\ Emit("usr4_ai1_ce2", FALSE)
          /\ a1745113960' = My("h", FALSE)
          /\ a2108127495' = Block(var, Rem(B.val, 59), Raised(var, B, My(59, FALSE)), Code2).res
          /\ UNCHANGED <<a422009172, a1522448132>>
      BY <1>0, <1>2 DEF CalculateOutputm2, On, Emit, My, Raised
    <2>1. p \in Int
      <3>1. B.val \in Int
        BY DEF Calculating
      <3> QED BY <3>1, RoundedInt
    <2>2. PICK q : B' = Block(var, p, q, Code2).res
      BY <2>0 DEF B
    <2> HIDE DEF p
    <2>3. B'.val = Chain(p, Code2)
      BY <2>2, BlockFields
    <2>4. B'.val = p + 98 - 4 - 42
      BY <2>1, <2>3, Value2
    <2> QED BY <1>2, <2>0, <2>1, <2>4, OriginalFires, Rounding
            DEF p, Emit, My, A, B, C, Original!calculateOutputm2, Original!fields
  <1>3. input \in {"usr4_ni1_ne1", "ai1_ce2"}
    BY DEF CalculateOutputm2, On, Emit, My, Raised, Missed
  <1> QED BY <1>1, <1>2, <1>3

LEMMA Originally3 ==
  ASSUME Calculating, CalculateOutputm3
  PROVE  Original!calculateOutputm3
  <1>0. A.val \in Int /\ B.val \in Int /\ C.val \in Int
    BY DEF Calculating
  <1> DEFINE c == Block(var, B.val * B.val, Forced, Code3C)
             p == B.val * c.res.val
  <1>1. /\ On("usr4_ai1_VoidReply") /\ Emit("usr2_ai1_ce4", FALSE)
        /\ a1522448132' = c.res
        /\ a2108127495' = Block(c.var, p, Raised(c.var, B, c.res), Code3B).res
        /\ UNCHANGED <<a422009172, a1745113960>>
    BY DEF CalculateOutputm3
  <1>2. c.res.val = Chain(B.val * B.val, Code3C)
    BY BlockFields
  <1> HIDE DEF c
  <1>3. B.val * B.val \in Int
    BY DEF Calculating
  <1>4. c.res.val \in Int /\ c.res.val = Rem((Rem(B.val * B.val, 50) - 75) * 5, 50) - 31
    BY <1>2, <1>3, Value3C
  <1>5. p \in Int
    BY <1>4 DEF Calculating
  <1> HIDE DEF p
  <1>6. B'.val = p - 22476 - 3649
    <2>1. PICK v, q : B' = Block(v, p, q, Code3B).res
      BY <1>1 DEF B
    <2>2. B'.val = Chain(p, Code3B)
      BY <2>1, BlockFields
    <2> QED BY <1>5, <2>2, Value3B
  <1> QED BY <1>1, <1>4, <1>6, OriginalFires, Rounding
          DEF p, On, Emit, A, B, C, Original!calculateOutputm3

LEMMA Originally4 ==
  ASSUME Calculating, CalculateOutputm4
  PROVE  Original!calculateOutputm4
  <1>0. A.val \in Int /\ B.val \in Int /\ C.val \in Int
    BY DEF Calculating
  <1>1. CASE input = "ai1_ce2"
    <2>1. /\ Emit("ai1_VoidReply", TRUE)
          /\ UNCHANGED <<a422009172, a2108127495, a1522448132, a1745113960, var>>
      BY <1>0, <1>1 DEF CalculateOutputm4, On, Emit
    <2> QED
      BY <1>1, <2>1, OriginalFires
      DEF Emit, My, A, B, C, Original!calculateOutputm4, Original!fields
  <1>2. CASE input = "ai1_ce1"
    <2> DEFINE p == B.val + 7243
    <2>0. /\ Emit("usr4_ai1_ce1", TRUE)
          /\ a1745113960' = My("g", TRUE)
          /\ a2108127495' = Block(var, B.val + 7243, Missed(var), Code4).res
          /\ UNCHANGED <<a422009172, a1522448132>>
      BY <1>0, <1>2 DEF CalculateOutputm4, On, Emit, My, Raised
    <2>1. p \in Int
      BY DEF Calculating
    <2>2. PICK q : B' = Block(var, p, q, Code4).res
      BY <2>0 DEF B
    <2> HIDE DEF p
    <2>3. B'.val = Chain(p, Code4)
      BY <2>2, BlockFields
    <2>4. B'.val = Rem(p + 1395, 59) + 16
      BY <2>1, <2>3, Value4
    <2> QED BY <1>2, <2>0, <2>1, <2>4, OriginalFires, Rounding
            DEF p, Emit, My, A, B, C, Original!calculateOutputm4, Original!fields
  <1>3. CASE input = "usr4_ni1_ne1"
    <2>1. /\ Emit("usr2_ai1_ce4", TRUE)
          /\ a1745113960' = My("i", TRUE)
          /\ UNCHANGED <<a422009172, a2108127495, a1522448132, var>>
      BY <1>0, <1>3 DEF CalculateOutputm4, On, Emit
    <2> QED
      BY <1>3, <2>1, OriginalFires
      DEF Emit, My, A, B, C, Original!calculateOutputm4, Original!fields
  <1>4. input \in {"ai1_ce2", "ai1_ce1", "usr4_ni1_ne1"}
    BY DEF CalculateOutputm4, On, Emit, My, Raised, Missed
  <1> QED BY <1>1, <1>2, <1>3, <1>4

LEMMA Originally5 ==
  ASSUME Calculating, CalculateOutputm5
  PROVE  Original!calculateOutputm5
  <1>0. A.val \in Int /\ B.val \in Int /\ C.val \in Int
    BY DEF Calculating
  <1>1. CASE input = "usr2_ai1_VoidReply"
    <2>1. /\ Emit("none", TRUE)
          /\ a1745113960' = My("h", TRUE)
          /\ UNCHANGED <<a422009172, a2108127495, a1522448132, var>>
      BY <1>0, <1>1 DEF CalculateOutputm5, On, Emit
    <2> QED
      BY <1>1, <2>1, OriginalFires
      DEF Emit, My, A, B, C, Original!calculateOutputm5, Original!fields
  <1>2. input \in {"usr2_ai1_VoidReply"}
    BY DEF CalculateOutputm5, On, Emit, My, Raised, Missed
  <1> QED BY <1>1, <1>2

LEMMA Originally6 ==
  ASSUME Calculating, CalculateOutputm6
  PROVE  Original!calculateOutputm6
  <1>0. A.val \in Int /\ B.val \in Int /\ C.val \in Int
    BY DEF Calculating
  <1>1. CASE input = "usr4_ni1_ne1"
    <2> DEFINE b == Block(var, B.val + 13863, Forced, Code6B)
               p == b.res.val * b.res.val
               a == Block(b.var, p, Raised(b.var, b.res, b.res), Code6A)
    <2>0. /\ Emit("none", TRUE)
          /\ a2108127495' = b.res
          /\ a422009172' = a.res
          /\ UNCHANGED <<a1522448132, a1745113960>>
      BY <1>0, <1>1 DEF CalculateOutputm6, On, Emit
    <2>1. B.val + 13863 \in Int
      BY DEF Calculating
    <2>2. b.res.val = Chain(B.val + 13863, Code6B)
      BY BlockFields
    <2> HIDE DEF b
    <2>3. b.res.val \in Int /\ b.res.val = (B.val + 13863) * 2
      BY <2>1, <2>2, Value6B
    <2>4. p \in Int
      BY <2>3
    <2> HIDE DEF p
    <2>5. A'.val = Rem(Rem(p, 14999) - 1380, 47) + 150 + 23887 - 23885
      <3>1. PICK v, q : A' = Block(v, p, q, Code6A).res
        BY <2>0 DEF A
      <3>2. A'.val = Chain(p, Code6A)
        BY <3>1, BlockFields
      <3> QED BY <2>4, <3>2, Value6A
    <2> QED BY <1>1, <2>0, <2>3, <2>5, OriginalFires, Rounding
            DEF p, Emit, A, B, C, Original!calculateOutputm6
  <1>2. CASE input = "usr4_ai1_VoidReply"
    <2> DEFINE p == B.val - 139
    <2>0. /\ Emit("ai1_VoidReply", TRUE)
          /\ a1745113960' = My("e", TRUE)
          /\ a2108127495' = Block(var, B.val - 139, Raised(var, B, My(-139, FALSE)), Code6E).res
          /\ UNCHANGED <<a422009172, a1522448132>>
      BY <1>0, <1>2 DEF CalculateOutputm6, On, Emit, My, Raised
    <2>1. p \in Int
      BY DEF Calculating
    <2>2. PICK q : B' = Block(var, p, q, Code6E).res
      BY <2>0 DEF B
    <2> HIDE DEF p
    <2>3. B'.val = Chain(p, Code6E)
      BY <2>2, BlockFields
    <2>4. B'.val = p - 4 + 5
      BY <2>1, <2>3, Value6E
    <2> QED BY <1>2, <2>0, <2>1, <2>4, OriginalFires, Rounding
            DEF p, Emit, My, A, B, C, Original!calculateOutputm6, Original!fields
  <1>3. input \in {"usr4_ni1_ne1", "usr4_ai1_VoidReply"}
    BY DEF CalculateOutputm6, On, Emit, My, Raised, Missed
  <1> QED BY <1>1, <1>2, <1>3

LEMMA Originally7 ==
  ASSUME Calculating, CalculateOutputm7
  PROVE  Original!calculateOutputm7
  <1>0. A.val \in Int /\ B.val \in Int /\ C.val \in Int
    BY DEF Calculating
  <1>1. CASE input = "usr4_ni1_ne1"
    <2> DEFINE p == B.val - 128
    <2>0. /\ Emit("none", TRUE)
          /\ a1745113960' = My("g", TRUE)
          /\ a2108127495' = Block(var, B.val - 128, Raised(var, B, My(128, FALSE)), Code7G).res
          /\ UNCHANGED <<a422009172, a1522448132>>
      BY <1>0, <1>1 DEF CalculateOutputm7, On, Emit, My, Raised
    <2>1. p \in Int
      BY DEF Calculating
    <2>2. PICK q : B' = Block(var, p, q, Code7G).res
      BY <2>0 DEF B
    <2> HIDE DEF p
    <2>3. B'.val = Chain(p, Code7G)
      BY <2>2, BlockFields
    <2>4. B'.val = p + 3384 - 4504 + 1107
      BY <2>1, <2>3, Value7G
    <2> QED BY <1>1, <2>0, <2>1, <2>4, OriginalFires, Rounding
            DEF p, Emit, My, A, B, C, Original!calculateOutputm7, Original!fields
  <1>2. CASE input = "usr4_ai1_VoidReply"
    <2> DEFINE p == B.val - 22339
    <2>0. /\ Emit("ai1_VoidReply", TRUE)
          /\ a2108127495' = Block(var, B.val - 22339, Missed(var), Code7H).res
          /\ UNCHANGED <<a422009172, a1522448132, a1745113960>>
      BY <1>0, <1>2 DEF CalculateOutputm7, On, Emit, My, Raised
    <2>1. p \in Int
      BY DEF Calculating
    <2>2. PICK q : B' = Block(var, p, q, Code7H).res
      BY <2>0 DEF B
    <2> HIDE DEF p
    <2>3. B'.val = Chain(p, Code7H)
      BY <2>2, BlockFields
    <2>4. B'.val = Rem((p + 35662) * 2, 72) - 149
      BY <2>1, <2>3, Value7H
    <2> QED BY <1>2, <2>0, <2>1, <2>4, OriginalFires, Rounding
            DEF p, Emit, My, A, B, C, Original!calculateOutputm7, Original!fields
  <1>3. input \in {"usr4_ni1_ne1", "usr4_ai1_VoidReply"}
    BY DEF CalculateOutputm7, On, Emit, My, Raised, Missed
  <1> QED BY <1>1, <1>2, <1>3

LEMMA Originally8 ==
  ASSUME Calculating, CalculateOutputm8
  PROVE  Original!calculateOutputm8
  <1>0. A.val \in Int /\ B.val \in Int /\ C.val \in Int
    BY DEF Calculating
  <1>1. CASE input = "usr4_ai1_VoidReply"
    <2> DEFINE p == B.val * A.val
    <2>0. /\ Emit("ni1_ne1__ai1_VoidReply", TRUE)
          /\ a1745113960' = My("e", TRUE)
          /\ a2108127495' = Block(var, B.val * A.val, Forced, Code8).res
          /\ UNCHANGED <<a422009172, a1522448132>>
      BY <1>0, <1>1 DEF CalculateOutputm8, On, Emit, My, Raised
    <2>1. p \in Int
      BY DEF Calculating
    <2>2. PICK q : B' = Block(var, p, q, Code8).res
      BY <2>0 DEF B
    <2> HIDE DEF p
    <2>3. B'.val = Chain(p, Code8)
      BY <2>2, BlockFields
    <2>4. B'.val = Rem((Rem(Quot(Rem(p, 14999), 5), 72) - 156) * 5, 72) - 65
      BY <2>1, <2>3, Value8
    <2> QED BY <1>1, <2>0, <2>1, <2>4, OriginalFires, Rounding
            DEF p, Emit, My, A, B, C, Original!calculateOutputm8, Original!fields
  <1>2. input \in {"usr4_ai1_VoidReply"}
    BY DEF CalculateOutputm8, On, Emit, My, Raised, Missed
  <1> QED BY <1>1, <1>2

-----------------------------------------------------------------------------
(***************************************************************************)
(* The two copies side by side.  A field of the fresh program lies under   *)
(* that of the reused one when the values agree and the flag is raised     *)
(* there if it is raised here; so do the flags of the temporaries.         *)
(***************************************************************************)
Implied(b, c) == b \in BOOLEAN /\ c \in BOOLEAN /\ (b => c)

Under(f, g) == f.val = g.val /\ Implied(f.flow, g.flow)

AllUnder(w, v) ==
  /\ w \in [Temps -> BOOLEAN] /\ v \in [Temps -> BOOLEAN]
  /\ \A j \in Temps : Implied(w[j], v[j])

\* Three-address code keeps them so.
LEMMA FlowsUnder ==
  ASSUME NEW w, NEW v, AllUnder(w, v), NEW b, NEW c, Implied(b, c), NEW n \in Temps
  PROVE  AllUnder(FlowsAfter(w, b, n), FlowsAfter(v, c, n))
  <1> DEFINE x == FlowsAfter(w, b, n)
             y == FlowsAfter(v, c, n)
  <1>1. ASSUME NEW j \in Temps, j > n
        PROVE  x[j] = w[j] /\ y[j] = v[j]
    BY <1>1 DEF FlowsAfter
  <1>2. ASSUME NEW j \in Temps, ~(j > n)
        PROVE  x[j] = (b \/ \E k \in 2 .. j : w[k]) /\ y[j] = (c \/ \E k \in 2 .. j : v[k])
    BY <1>2 DEF FlowsAfter
  <1>3. ASSUME NEW j \in Temps, NEW k \in 2 .. j
        PROVE  k \in Temps
    BY DEF Temps
  <1>4. \A k \in Temps : w[k] => v[k]
    BY DEF AllUnder, Implied
  <1>5. ASSUME NEW j \in Temps PROVE Implied(x[j], y[j])
    <2>1. CASE j > n
      BY <1>1, <2>1 DEF AllUnder
    <2>2. CASE ~(j > n)
      <3> HIDE DEF x, y
      <3>1. x[j] \in BOOLEAN /\ y[j] \in BOOLEAN
        BY <1>2, <2>2
      <3>2. (\E k \in 2 .. j : w[k]) => (\E k \in 2 .. j : v[k])
        BY <1>3, <1>4
      <3>3. x[j] => y[j]
        BY <1>2, <2>2, <3>2 DEF Implied
      <3> QED BY <3>1, <3>3 DEF Implied
    <2> QED BY <2>1, <2>2
  <1>6. x = [j \in Temps |-> x[j]] /\ y = [j \in Temps |-> y[j]]
    BY DEF FlowsAfter
  <1> HIDE DEF x, y
  <1>7. \A j \in Temps : x[j] \in BOOLEAN /\ y[j] \in BOOLEAN
    BY <1>5 DEF Implied
  <1>8. x \in [Temps -> BOOLEAN] /\ y \in [Temps -> BOOLEAN]
    BY <1>6, <1>7
  <1>9. AllUnder(x, y)
    BY <1>5, <1>8 DEF AllUnder
  <1> QED BY <1>9 DEF x, y

LEMMA BlockUnder ==
  ASSUME NEW w, NEW v, AllUnder(w, v), NEW b, NEW c, Implied(b, c), NEW p, NEW ops,
         Len(ops) + 1 \in Temps
  PROVE  /\ Under(Block(w, p, b, ops).res, Block(v, p, c, ops).res)
         /\ AllUnder(Block(w, p, b, ops).var, Block(v, p, c, ops).var)
  <1> DEFINE n == Len(ops) + 1
  <1>1. AllUnder(FlowsAfter(w, b, n), FlowsAfter(v, c, n))
    BY FlowsUnder
  <1>2. Implied(FlowsAfter(w, b, n)[n], FlowsAfter(v, c, n)[n])
    BY <1>1 DEF AllUnder
  <1> QED BY <1>1, <1>2, BlockFields DEF Under

LEMMA RaisedUnder ==
  ASSUME NEW w, NEW v, AllUnder(w, v), NEW f, NEW g, Under(f, g), NEW h, NEW k, Under(h, k)
  PROVE  Implied(Raised(w, f, h), Raised(v, g, k))
  <1>1. Implied(w[1], v[1])
    BY DEF AllUnder, Temps
  <1> QED BY <1>1 DEF Under, Implied, Raised

LEMMA MissedUnder ==
  ASSUME NEW w, NEW v, AllUnder(w, v)
  PROVE  Implied(Missed(w), Missed(v))
  BY DEF AllUnder, Temps, Missed

LEMMA ConstantsUnder ==
  /\ Implied(Forced, Forced)
  /\ \A k : Under(My(k, FALSE), My(k, FALSE))
  BY DEF Implied, Forced, Under, My

LEMMA CodeLengths ==
  /\ Len(Code1) + 1 \in Temps /\ Len(Code2) + 1 \in Temps /\ Len(Code3C) + 1 \in Temps
  /\ Len(Code3B) + 1 \in Temps /\ Len(Code4) + 1 \in Temps /\ Len(Code6B) + 1 \in Temps
  /\ Len(Code6A) + 1 \in Temps /\ Len(Code6E) + 1 \in Temps /\ Len(Code7G) + 1 \in Temps
  /\ Len(Code7H) + 1 \in Temps /\ Len(Code8) + 1 \in Temps
  BY DEF Temps, Code1, Code2, Code3C, Code3B, Code4, Code6B, Code6A, Code6E, Code7G, Code7H, Code8

(***************************************************************************)
(* The fresh copy runs the same code.                                      *)
(***************************************************************************)
LEMMA FreshCode ==
  /\ Fresh!Code1 = Code1 /\ Fresh!Code2 = Code2 /\ Fresh!Code3C = Code3C
  /\ Fresh!Code3B = Code3B /\ Fresh!Code4 = Code4 /\ Fresh!Code6B = Code6B
  /\ Fresh!Code6A = Code6A /\ Fresh!Code6E = Code6E /\ Fresh!Code7G = Code7G
  /\ Fresh!Code7H = Code7H /\ Fresh!Code8 = Code8
  BY DEF Op, Code1, Code2, Code3C, Code3B, Code4, Code6B, Code6A, Code6E, Code7G, Code7H, Code8,
         Fresh!Op, Fresh!Code1, Fresh!Code2, Fresh!Code3C, Fresh!Code3B, Fresh!Code4,
         Fresh!Code6B, Fresh!Code6A, Fresh!Code6E, Fresh!Code7G, Fresh!Code7H, Fresh!Code8

LEMMA FreshRounding ==
  \A v, k : Fresh!Rem(v, k) = Rem(v, k) /\ Fresh!Quot(v, k) = Quot(v, k)
  BY DEF Rem, Quot, Fresh!Rem, Fresh!Quot

LEMMA FreshApply ==
  \A v, op : Fresh!Apply(v, op) = Apply(v, op)
  BY FreshRounding, Zenon DEF Apply, Fresh!Apply

LEMMA FreshChain ==
  ASSUME NEW v, NEW ops
  PROVE  Fresh!Chain(v, ops) = Chain(v, ops)
  <1> DEFINE Eq(f)  == f = [k \in 0 .. Len(ops) |->
                              IF k = 0 THEN v ELSE Apply(f[k - 1], ops[k])]
             FEq(f) == f = [k \in 0 .. Len(ops) |->
                              IF k = 0 THEN v ELSE Fresh!Apply(f[k - 1], ops[k])]
  <1>1. \A f : Eq(f) <=> FEq(f)
    BY FreshApply
  <1>2. (CHOOSE f : Eq(f)) = CHOOSE f : FEq(f)
    <2> HIDE DEF Eq, FEq
    <2> QED BY <1>1, Zenon
  <1>3. Chain(v, ops) = (CHOOSE f : Eq(f))[Len(ops)]
    BY DEF Chain
  <1>4. Fresh!Chain(v, ops) = (CHOOSE f : FEq(f))[Len(ops)]
    BY DEF Fresh!Chain
  <1> HIDE DEF Eq, FEq
  <1> QED BY <1>2, <1>3, <1>4

LEMMA FreshFlows ==
  ASSUME NEW v, NEW b, NEW n
  PROVE  Fresh!FlowsAfter(v, b, n) = FlowsAfter(v, b, n)
  BY Zenon DEF FlowsAfter, Temps, Fresh!FlowsAfter, Fresh!Temps

LEMMA FreshBlock ==
  ASSUME NEW v, NEW p, NEW b, NEW ops
  PROVE  Fresh!Block(v, p, b, ops) = Block(v, p, b, ops)
  BY FreshChain, FreshFlows, Zenon DEF Block, My, Fresh!Block, Fresh!My

LEMMA FreshOperations ==
  /\ \A v, f, g : Fresh!Raised(v, f, g) = Raised(v, f, g)
  /\ \A v : Fresh!Missed(v) = Missed(v)
  /\ \A v, b : Fresh!My(v, b) = My(v, b)
  /\ \A v, k : Fresh!Rem(v, k) = Rem(v, k)
  /\ Fresh!Forced = Forced
  BY DEF Raised, Missed, My, Rem, Forced, Fresh!Raised, Fresh!Missed, Fresh!My, Fresh!Rem,
         Fresh!Forced

-----------------------------------------------------------------------------
(***************************************************************************)
(* What one run leaves to the next.  The reused program and the fresh one  *)
(* agree on everything an answer depends on; a flag may be raised in the   *)
(* reused one only.                                                        *)
(***************************************************************************)
Letters == {"e", "g", "h", "i"}

Lock ==
  /\ freply = reply /\ fcf = cf /\ fS = a1745113960
  /\ cf \in [val : BOOLEAN, flow : BOOLEAN]
  /\ a1745113960 \in [val : Letters, flow : BOOLEAN]
  /\ Under(fA, A) /\ Under(fB, B) /\ Under(fC, C)
  /\ AllUnder(fvar, var)

\* The two programs ran the same block.
LEMMA Emitted ==
  ASSUME NEW o, reply' = <<o>>, freply' = <<o>>,
         NEW b \in BOOLEAN, cf' = My(FALSE, b), fcf' = My(FALSE, b),
         a1745113960' \in [val : Letters, flow : BOOLEAN], fS' = a1745113960',
         Under(fA, A)', Under(fB, B)', Under(fC, C)', AllUnder(fvar, var)'
  PROVE  Lock'
  <1>1. cf' \in [val : BOOLEAN, flow : BOOLEAN]
    BY DEF My
  <1> QED BY <1>1 DEF Lock

\* A block without instructions leaves the integers and the temporaries alone.
LEMMA Untouched ==
  ASSUME Lock, UNCHANGED <<a422009172, a2108127495, a1522448132, var>>,
         UNCHANGED <<fA, fB, fC, fvar>>
  PROVE  /\ Under(fA, A)' /\ Under(fB, B)' /\ Under(fC, C)' /\ AllUnder(fvar, var)'
  BY DEF Lock, A, B, C

LEMMA SameBlock ==
  ASSUME Lock, NEW b, NEW c, Implied(b, c), NEW p, NEW ops, Len(ops) + 1 \in Temps
  PROVE  /\ Under(Fresh!Block(fvar, p, b, ops).res, Block(var, p, c, ops).res)
         /\ AllUnder(Fresh!Block(fvar, p, b, ops).var, Block(var, p, c, ops).var)
  <1>1. AllUnder(fvar, var)
    BY DEF Lock
  <1> QED BY <1>1, BlockUnder, FreshBlock


LEMMA Lockstep1 ==
  ASSUME Lock, CalculateOutputm1, Fresh!CalculateOutputm1
  PROVE  Lock'
  <1>1. CASE input = "usr2_ai1_VoidReply"
    <2> DEFINE p == B.val * C.val
               q == Forced
               r == Fresh!Forced
               s == fB.val * fC.val
    <2>1. /\ reply' = <<"ai1_VoidReply">> /\ cf' = My(FALSE, FALSE)
          /\ a1745113960' = My("h", TRUE)
          /\ B' = Block(var, p, q, Code1).res /\ var' = Block(var, p, q, Code1).var
          /\ UNCHANGED <<a422009172, a1522448132>>
      BY <1>1 DEF CalculateOutputm1, On, Emit, B
    <2>2. /\ freply' = <<"ai1_VoidReply">> /\ fcf' = Fresh!My(FALSE, FALSE)
          /\ fS' = Fresh!My("h", TRUE)
          /\ fB' = Fresh!Block(fvar, s, r, Fresh!Code1).res
          /\ fvar' = Fresh!Block(fvar, s, r, Fresh!Code1).var
          /\ UNCHANGED <<fA, fC>>
      BY <1>1 DEF Fresh!CalculateOutputm1, Fresh!On, Fresh!Emit, Fresh!A, Fresh!B,
             Fresh!C
    <2>3. Implied(r, q)
      BY RaisedUnder, MissedUnder, ConstantsUnder, FreshOperations DEF Lock
    <2>4. s = p
      BY FreshOperations DEF Lock, Under
    <2> HIDE DEF p, q, r, s
    <2>5. /\ fcf' = My(FALSE, FALSE)
          /\ a1745113960' \in [val : Letters, flow : BOOLEAN] /\ fS' = a1745113960'
      BY <2>1, <2>2, FreshOperations DEF Lock, My, Letters
    <2>6. Under(fB, B)' /\ AllUnder(fvar, var)'
      <3>1. /\ fB' = Fresh!Block(fvar, p, r, Code1).res
            /\ fvar' = Fresh!Block(fvar, p, r, Code1).var
        BY <2>2, <2>4, FreshCode
      <3> QED BY <2>1, <2>3, <3>1, SameBlock, CodeLengths
    <2>7. Under(fA, A)' /\ Under(fC, C)'
      BY <2>1, <2>2 DEF Lock, A, C
    <2> QED BY <2>1, <2>2, <2>5, <2>6, <2>7, Emitted
  <1>2. input \in {"usr2_ai1_VoidReply"}
    BY DEF CalculateOutputm1, On, Emit, My, Raised, Missed
  <1> QED BY <1>1, <1>2

LEMMA Lockstep2 ==
  ASSUME Lock, CalculateOutputm2, Fresh!CalculateOutputm2
  PROVE  Lock'
  <1>1. CASE input = "usr4_ni1_ne1"
    <2>1. /\ reply' = <<"ni1_ne1">> /\ cf' = My(FALSE, TRUE)
          /\ a1745113960' = a1745113960
          /\ UNCHANGED <<a422009172, a2108127495, a1522448132, var>>
      BY <1>1 DEF CalculateOutputm2, On, Emit
    <2>2. /\ freply' = <<"ni1_ne1">> /\ fcf' = Fresh!My(FALSE, TRUE)
          /\ fS' = fS
          /\ UNCHANGED <<fA, fB, fC, fvar>>
      BY <1>1 DEF Fresh!CalculateOutputm2, Fresh!On, Fresh!Emit
    <2>3. a1745113960' \in [val : Letters, flow : BOOLEAN] /\ fS' = a1745113960'
      BY <2>1, <2>2, FreshOperations DEF Lock, My, Letters
    <2> QED BY <2>1, <2>2, <2>3, Untouched, Emitted, FreshOperations
  <1>2. CASE input = "ai1_ce2"
    <2> DEFINE p == Rem(B.val, 59)
               q == Raised(var, B, My(59, FALSE))
               r == Fresh!Raised(fvar, fB, Fresh!My(59, FALSE))
               s == Fresh!Rem(fB.val, 59)
    <2>1. /\ reply' = <<"usr4_ai1_ce2">> /\ cf' = My(FALSE, FALSE)
          /\ a1745113960' = My("h", FALSE)
          /\ B' = Block(var, p, q, Code2).res /\ var' = Block(var, p, q, Code2).var
          /\ UNCHANGED <<a422009172, a1522448132>>
      BY <1>2 DEF CalculateOutputm2, On, Emit, B
    <2>2. /\ freply' = <<"usr4_ai1_ce2">> /\ fcf' = Fresh!My(FALSE, FALSE)
          /\ fS' = Fresh!My("h", FALSE)
          /\ fB' = Fresh!Block(fvar, s, r, Fresh!Code2).res
          /\ fvar' = Fresh!Block(fvar, s, r, Fresh!Code2).var
          /\ UNCHANGED <<fA, fC>>
      BY <1>2 DEF Fresh!CalculateOutputm2, Fresh!On, Fresh!Emit, Fresh!A, Fresh!B,
             Fresh!C
    <2>3. Implied(r, q)
      BY RaisedUnder, MissedUnder, ConstantsUnder, FreshOperations DEF Lock
    <2>4. s = p
      BY FreshOperations DEF Lock, Under
    <2> HIDE DEF p, q, r, s
    <2>5. /\ fcf' = My(FALSE, FALSE)
          /\ a1745113960' \in [val : Letters, flow : BOOLEAN] /\ fS' = a1745113960'
      BY <2>1, <2>2, FreshOperations DEF Lock, My, Letters
    <2>6. Under(fB, B)' /\ AllUnder(fvar, var)'
      <3>1. /\ fB' = Fresh!Block(fvar, p, r, Code2).res
            /\ fvar' = Fresh!Block(fvar, p, r, Code2).var
        BY <2>2, <2>4, FreshCode
      <3> QED BY <2>1, <2>3, <3>1, SameBlock, CodeLengths
    <2>7. Under(fA, A)' /\ Under(fC, C)'
      BY <2>1, <2>2 DEF Lock, A, C
    <2> QED BY <2>1, <2>2, <2>5, <2>6, <2>7, Emitted
  <1>3. input \in {"usr4_ni1_ne1", "ai1_ce2"}
    BY DEF CalculateOutputm2, On, Emit, My, Raised, Missed
  <1> QED BY <1>1, <1>2, <1>3

LEMMA Lockstep3 ==
  ASSUME Lock, CalculateOutputm3, Fresh!CalculateOutputm3
  PROVE  Lock'
  <1> DEFINE c  == Block(var, B.val * B.val, Forced, Code3C)
             fc == Fresh!Block(fvar, B.val * B.val, Forced, Code3C)
             p  == B.val * c.res.val
  <1>1. /\ reply' = <<"usr2_ai1_ce4">> /\ cf' = My(FALSE, FALSE)
        /\ C' = c.res
        /\ B' = Block(c.var, p, Raised(c.var, B, c.res), Code3B).res
        /\ var' = Block(c.var, p, Raised(c.var, B, c.res), Code3B).var
        /\ UNCHANGED <<a422009172, a1745113960>>
    BY DEF CalculateOutputm3, Emit, B, C
  <1>2. /\ freply' = <<"usr2_ai1_ce4">> /\ fcf' = Fresh!My(FALSE, FALSE)
        /\ fC' = fc.res
        /\ fB' = Fresh!Block(fc.var, fB.val * fc.res.val,
                             Fresh!Raised(fc.var, fB, fc.res), Fresh!Code3B).res
        /\ fvar' = Fresh!Block(fc.var, fB.val * fc.res.val,
                               Fresh!Raised(fc.var, fB, fc.res), Fresh!Code3B).var
        /\ UNCHANGED <<fA, fS>>
    <2>1. fc = Fresh!Block(fvar, fB.val * fB.val, Fresh!Forced, Fresh!Code3C)
      <3>1. fB.val = B.val
        BY DEF Lock, Under
      <3> QED BY <3>1, FreshCode, FreshOperations
    <2> HIDE DEF fc
    <2> QED BY <2>1 DEF Fresh!CalculateOutputm3, Fresh!Emit, Fresh!B
  <1>3. Under(fc.res, c.res) /\ AllUnder(fc.var, c.var)
    <2> DEFINE q == B.val * B.val
    <2> HIDE DEF q
    <2>1. Implied(Forced, Forced)
      BY ConstantsUnder
    <2>2. /\ Under(Fresh!Block(fvar, q, Forced, Code3C).res, Block(var, q, Forced, Code3C).res)
          /\ AllUnder(Fresh!Block(fvar, q, Forced, Code3C).var, Block(var, q, Forced, Code3C).var)
      BY <2>1, SameBlock, CodeLengths
    <2> QED BY <2>2 DEF q
  <1> HIDE DEF c, fc
  <1>4. fB.val * fc.res.val = p
    BY <1>3 DEF Lock, Under
  <1> HIDE DEF p
  <1> DEFINE r == Raised(fc.var, fB, fc.res)
             q == Raised(c.var, B, c.res)
  <1>5. Implied(r, q)
    BY <1>3, RaisedUnder DEF Lock
  <1>6. /\ fB' = Block(fc.var, p, r, Code3B).res
        /\ fvar' = Block(fc.var, p, r, Code3B).var
    BY <1>2, <1>4, FreshBlock, FreshCode, FreshOperations
  <1> HIDE DEF r
  <1>7. /\ B' = Block(c.var, p, q, Code3B).res
        /\ var' = Block(c.var, p, q, Code3B).var
    BY <1>1
  <1> HIDE DEF q
  <1>8. Under(fB, B)' /\ AllUnder(fvar, var)'
    BY <1>3, <1>5, <1>6, <1>7, BlockUnder, CodeLengths
  <1>9. Under(fA, A)' /\ Under(fC, C)'
    BY <1>1, <1>2, <1>3 DEF Lock, A
  <1>10. a1745113960' \in [val : Letters, flow : BOOLEAN] /\ fS' = a1745113960'
    BY <1>1, <1>2 DEF Lock
  <1> QED BY <1>1, <1>2, <1>8, <1>9, <1>10, Emitted, FreshOperations

LEMMA Lockstep4 ==
  ASSUME Lock, CalculateOutputm4, Fresh!CalculateOutputm4
  PROVE  Lock'
  <1>1. CASE input = "ai1_ce2"
    <2>1. /\ reply' = <<"ai1_VoidReply">> /\ cf' = My(FALSE, TRUE)
          /\ a1745113960' = a1745113960
          /\ UNCHANGED <<a422009172, a2108127495, a1522448132, var>>
      BY <1>1 DEF CalculateOutputm4, On, Emit
    <2>2. /\ freply' = <<"ai1_VoidReply">> /\ fcf' = Fresh!My(FALSE, TRUE)
          /\ fS' = fS
          /\ UNCHANGED <<fA, fB, fC, fvar>>
      BY <1>1 DEF Fresh!CalculateOutputm4, Fresh!On, Fresh!Emit
    <2>3. a1745113960' \in [val : Letters, flow : BOOLEAN] /\ fS' = a1745113960'
      BY <2>1, <2>2, FreshOperations DEF Lock, My, Letters
    <2> QED BY <2>1, <2>2, <2>3, Untouched, Emitted, FreshOperations
  <1>2. CASE input = "ai1_ce1"
    <2> DEFINE p == B.val + 7243
               q == Missed(var)
               r == Fresh!Missed(fvar)
               s == fB.val + 7243
    <2>1. /\ reply' = <<"usr4_ai1_ce1">> /\ cf' = My(FALSE, TRUE)
          /\ a1745113960' = My("g", TRUE)
          /\ B' = Block(var, p, q, Code4).res /\ var' = Block(var, p, q, Code4).var
          /\ UNCHANGED <<a422009172, a1522448132>>
      BY <1>2 DEF CalculateOutputm4, On, Emit, B
    <2>2. /\ freply' = <<"usr4_ai1_ce1">> /\ fcf' = Fresh!My(FALSE, TRUE)
          /\ fS' = Fresh!My("g", TRUE)
          /\ fB' = Fresh!Block(fvar, s, r, Fresh!Code4).res
          /\ fvar' = Fresh!Block(fvar, s, r, Fresh!Code4).var
          /\ UNCHANGED <<fA, fC>>
      BY <1>2 DEF Fresh!CalculateOutputm4, Fresh!On, Fresh!Emit, Fresh!A, Fresh!B,
             Fresh!C
    <2>3. Implied(r, q)
      BY RaisedUnder, MissedUnder, ConstantsUnder, FreshOperations DEF Lock
    <2>4. s = p
      BY FreshOperations DEF Lock, Under
    <2> HIDE DEF p, q, r, s
    <2>5. /\ fcf' = My(FALSE, TRUE)
          /\ a1745113960' \in [val : Letters, flow : BOOLEAN] /\ fS' = a1745113960'
      BY <2>1, <2>2, FreshOperations DEF Lock, My, Letters
    <2>6. Under(fB, B)' /\ AllUnder(fvar, var)'
      <3>1. /\ fB' = Fresh!Block(fvar, p, r, Code4).res
            /\ fvar' = Fresh!Block(fvar, p, r, Code4).var
        BY <2>2, <2>4, FreshCode
      <3> QED BY <2>1, <2>3, <3>1, SameBlock, CodeLengths
    <2>7. Under(fA, A)' /\ Under(fC, C)'
      BY <2>1, <2>2 DEF Lock, A, C
    <2> QED BY <2>1, <2>2, <2>5, <2>6, <2>7, Emitted
  <1>3. CASE input = "usr4_ni1_ne1"
    <2>1. /\ reply' = <<"usr2_ai1_ce4">> /\ cf' = My(FALSE, TRUE)
          /\ a1745113960' = My("i", TRUE)
          /\ UNCHANGED <<a422009172, a2108127495, a1522448132, var>>
      BY <1>3 DEF CalculateOutputm4, On, Emit
    <2>2. /\ freply' = <<"usr2_ai1_ce4">> /\ fcf' = Fresh!My(FALSE, TRUE)
          /\ fS' = Fresh!My("i", TRUE)
          /\ UNCHANGED <<fA, fB, fC, fvar>>
      BY <1>3 DEF Fresh!CalculateOutputm4, Fresh!On, Fresh!Emit
    <2>3. a1745113960' \in [val : Letters, flow : BOOLEAN] /\ fS' = a1745113960'
      BY <2>1, <2>2, FreshOperations DEF Lock, My, Letters
    <2> QED BY <2>1, <2>2, <2>3, Untouched, Emitted, FreshOperations
  <1>4. input \in {"ai1_ce2", "ai1_ce1", "usr4_ni1_ne1"}
    BY DEF CalculateOutputm4, On, Emit, My, Raised, Missed
  <1> QED BY <1>1, <1>2, <1>3, <1>4

LEMMA Lockstep5 ==
  ASSUME Lock, CalculateOutputm5, Fresh!CalculateOutputm5
  PROVE  Lock'
  <1>1. CASE input = "usr2_ai1_VoidReply"
    <2>1. /\ reply' = <<"none">> /\ cf' = My(FALSE, TRUE)
          /\ a1745113960' = My("h", TRUE)
          /\ UNCHANGED <<a422009172, a2108127495, a1522448132, var>>
      BY <1>1 DEF CalculateOutputm5, On, Emit
    <2>2. /\ freply' = <<"none">> /\ fcf' = Fresh!My(FALSE, TRUE)
          /\ fS' = Fresh!My("h", TRUE)
          /\ UNCHANGED <<fA, fB, fC, fvar>>
      BY <1>1 DEF Fresh!CalculateOutputm5, Fresh!On, Fresh!Emit
    <2>3. a1745113960' \in [val : Letters, flow : BOOLEAN] /\ fS' = a1745113960'
      BY <2>1, <2>2, FreshOperations DEF Lock, My, Letters
    <2> QED BY <2>1, <2>2, <2>3, Untouched, Emitted, FreshOperations
  <1>2. input \in {"usr2_ai1_VoidReply"}
    BY DEF CalculateOutputm5, On, Emit, My, Raised, Missed
  <1> QED BY <1>1, <1>2

LEMMA Lockstep6 ==
  ASSUME Lock, CalculateOutputm6, Fresh!CalculateOutputm6
  PROVE  Lock'
  <1>1. CASE input = "usr4_ni1_ne1"
    <2> DEFINE b  == Block(var, B.val + 13863, Forced, Code6B)
               fb == Fresh!Block(fvar, B.val + 13863, Forced, Code6B)
               p  == b.res.val * b.res.val
    <2>1. /\ reply' = <<"none">> /\ cf' = My(FALSE, TRUE)
          /\ B' = b.res
          /\ A' = Block(b.var, p, Raised(b.var, b.res, b.res), Code6A).res
          /\ var' = Block(b.var, p, Raised(b.var, b.res, b.res), Code6A).var
          /\ UNCHANGED <<a1522448132, a1745113960>>
      BY <1>1 DEF CalculateOutputm6, On, Emit, A, B
    <2>2. /\ freply' = <<"none">> /\ fcf' = Fresh!My(FALSE, TRUE)
          /\ fB' = fb.res
          /\ fA' = Fresh!Block(fb.var, fb.res.val * fb.res.val,
                               Fresh!Raised(fb.var, fb.res, fb.res), Fresh!Code6A).res
          /\ fvar' = Fresh!Block(fb.var, fb.res.val * fb.res.val,
                                 Fresh!Raised(fb.var, fb.res, fb.res), Fresh!Code6A).var
          /\ UNCHANGED <<fC, fS>>
      <3>1. fb = Fresh!Block(fvar, fB.val + 13863, Fresh!Forced, Fresh!Code6B)
        <4>1. fB.val = B.val
          BY DEF Lock, Under
        <4> QED BY <4>1, FreshCode, FreshOperations
      <3> HIDE DEF fb
      <3> QED BY <1>1, <3>1 DEF Fresh!CalculateOutputm6, Fresh!On, Fresh!Emit, Fresh!B
    <2>3. Under(fb.res, b.res) /\ AllUnder(fb.var, b.var)
      <3> DEFINE q == B.val + 13863
      <3> HIDE DEF q
      <3>1. Implied(Forced, Forced)
        BY ConstantsUnder
      <3>2. /\ Under(Fresh!Block(fvar, q, Forced, Code6B).res, Block(var, q, Forced, Code6B).res)
            /\ AllUnder(Fresh!Block(fvar, q, Forced, Code6B).var, Block(var, q, Forced, Code6B).var)
        BY <3>1, SameBlock, CodeLengths
      <3> QED BY <3>2 DEF q
    <2> HIDE DEF b, fb
    <2>4. fb.res.val * fb.res.val = p
      BY <2>3 DEF Under
    <2> HIDE DEF p
    <2> DEFINE r == Raised(fb.var, fb.res, fb.res)
               q == Raised(b.var, b.res, b.res)
    <2>5. Implied(r, q)
      BY <2>3, RaisedUnder
    <2>6. /\ fA' = Block(fb.var, p, r, Code6A).res
          /\ fvar' = Block(fb.var, p, r, Code6A).var
      BY <2>2, <2>4, FreshBlock, FreshCode, FreshOperations
    <2> HIDE DEF r
    <2>7. /\ A' = Block(b.var, p, q, Code6A).res
          /\ var' = Block(b.var, p, q, Code6A).var
      BY <2>1
    <2> HIDE DEF q
    <2>8. Under(fA, A)' /\ AllUnder(fvar, var)'
      BY <2>3, <2>5, <2>6, <2>7, BlockUnder, CodeLengths
    <2>9. Under(fB, B)' /\ Under(fC, C)'
      BY <2>1, <2>2, <2>3 DEF Lock, C
    <2>10. a1745113960' \in [val : Letters, flow : BOOLEAN] /\ fS' = a1745113960'
      BY <2>1, <2>2 DEF Lock
    <2> QED BY <2>1, <2>2, <2>8, <2>9, <2>10, Emitted, FreshOperations
  <1>2. CASE input = "usr4_ai1_VoidReply"
    <2> DEFINE p == B.val - 139
               q == Raised(var, B, My(-139, FALSE))
               r == Fresh!Raised(fvar, fB, Fresh!My(-139, FALSE))
               s == fB.val - 139
    <2>1. /\ reply' = <<"ai1_VoidReply">> /\ cf' = My(FALSE, TRUE)
          /\ a1745113960' = My("e", TRUE)
          /\ B' = Block(var, p, q, Code6E).res /\ var' = Block(var, p, q, Code6E).var
          /\ UNCHANGED <<a422009172, a1522448132>>
      BY <1>2 DEF CalculateOutputm6, On, Emit, B, My, Raised
    <2>2. /\ freply' = <<"ai1_VoidReply">> /\ fcf' = Fresh!My(FALSE, TRUE)
          /\ fS' = Fresh!My("e", TRUE)
          /\ fB' = Fresh!Block(fvar, s, r, Fresh!Code6E).res
          /\ fvar' = Fresh!Block(fvar, s, r, Fresh!Code6E).var
          /\ UNCHANGED <<fA, fC>>
      BY <1>2 DEF Fresh!CalculateOutputm6, Fresh!On, Fresh!Emit, Fresh!A, Fresh!B,
             Fresh!C, Fresh!My, Fresh!Raised
    <2>3. Implied(r, q)
      BY RaisedUnder, MissedUnder, ConstantsUnder, FreshOperations DEF Lock
    <2>4. s = p
      BY FreshOperations DEF Lock, Under
    <2> HIDE DEF p, q, r, s
    <2>5. /\ fcf' = My(FALSE, TRUE)
          /\ a1745113960' \in [val : Letters, flow : BOOLEAN] /\ fS' = a1745113960'
      BY <2>1, <2>2, FreshOperations DEF Lock, My, Letters
    <2>6. Under(fB, B)' /\ AllUnder(fvar, var)'
      <3>1. /\ fB' = Fresh!Block(fvar, p, r, Code6E).res
            /\ fvar' = Fresh!Block(fvar, p, r, Code6E).var
        BY <2>2, <2>4, FreshCode
      <3> QED BY <2>1, <2>3, <3>1, SameBlock, CodeLengths
    <2>7. Under(fA, A)' /\ Under(fC, C)'
      BY <2>1, <2>2 DEF Lock, A, C
    <2> QED BY <2>1, <2>2, <2>5, <2>6, <2>7, Emitted
  <1>3. input \in {"usr4_ni1_ne1", "usr4_ai1_VoidReply"}
    BY DEF CalculateOutputm6, On, Emit, My, Raised, Missed
  <1> QED BY <1>1, <1>2, <1>3

LEMMA Lockstep7 ==
  ASSUME Lock, CalculateOutputm7, Fresh!CalculateOutputm7
  PROVE  Lock'
  <1>1. CASE input = "usr4_ni1_ne1"
    <2> DEFINE p == B.val - 128
               q == Raised(var, B, My(128, FALSE))
               r == Fresh!Raised(fvar, fB, Fresh!My(128, FALSE))
               s == fB.val - 128
    <2>1. /\ reply' = <<"none">> /\ cf' = My(FALSE, TRUE)
          /\ a1745113960' = My("g", TRUE)
          /\ B' = Block(var, p, q, Code7G).res /\ var' = Block(var, p, q, Code7G).var
          /\ UNCHANGED <<a422009172, a1522448132>>
      BY <1>1 DEF CalculateOutputm7, On, Emit, B, My, Raised
    <2>2. /\ freply' = <<"none">> /\ fcf' = Fresh!My(FALSE, TRUE)
          /\ fS' = Fresh!My("g", TRUE)
          /\ fB' = Fresh!Block(fvar, s, r, Fresh!Code7G).res
          /\ fvar' = Fresh!Block(fvar, s, r, Fresh!Code7G).var
          /\ UNCHANGED <<fA, fC>>
      BY <1>1 DEF Fresh!CalculateOutputm7, Fresh!On, Fresh!Emit, Fresh!A, Fresh!B,
             Fresh!C, Fresh!My, Fresh!Raised
    <2>3. Implied(r, q)
      BY RaisedUnder, MissedUnder, ConstantsUnder, FreshOperations DEF Lock
    <2>4. s = p
      BY FreshOperations DEF Lock, Under
    <2> HIDE DEF p, q, r, s
    <2>5. /\ fcf' = My(FALSE, TRUE)
          /\ a1745113960' \in [val : Letters, flow : BOOLEAN] /\ fS' = a1745113960'
      BY <2>1, <2>2, FreshOperations DEF Lock, My, Letters
    <2>6. Under(fB, B)' /\ AllUnder(fvar, var)'
      <3>1. /\ fB' = Fresh!Block(fvar, p, r, Code7G).res
            /\ fvar' = Fresh!Block(fvar, p, r, Code7G).var
        BY <2>2, <2>4, FreshCode
      <3> QED BY <2>1, <2>3, <3>1, SameBlock, CodeLengths
    <2>7. Under(fA, A)' /\ Under(fC, C)'
      BY <2>1, <2>2 DEF Lock, A, C
    <2> QED BY <2>1, <2>2, <2>5, <2>6, <2>7, Emitted
  <1>2. CASE input = "usr4_ai1_VoidReply"
    <2> DEFINE p == B.val - 22339
               q == Missed(var)
               r == Fresh!Missed(fvar)
               s == fB.val - 22339
    <2>1. /\ reply' = <<"ai1_VoidReply">> /\ cf' = My(FALSE, TRUE)
          /\ a1745113960' = a1745113960
          /\ B' = Block(var, p, q, Code7H).res /\ var' = Block(var, p, q, Code7H).var
          /\ UNCHANGED <<a422009172, a1522448132>>
      BY <1>2 DEF CalculateOutputm7, On, Emit, B
    <2>2. /\ freply' = <<"ai1_VoidReply">> /\ fcf' = Fresh!My(FALSE, TRUE)
          /\ fS' = fS
          /\ fB' = Fresh!Block(fvar, s, r, Fresh!Code7H).res
          /\ fvar' = Fresh!Block(fvar, s, r, Fresh!Code7H).var
          /\ UNCHANGED <<fA, fC>>
      BY <1>2 DEF Fresh!CalculateOutputm7, Fresh!On, Fresh!Emit, Fresh!A, Fresh!B,
             Fresh!C
    <2>3. Implied(r, q)
      BY RaisedUnder, MissedUnder, ConstantsUnder, FreshOperations DEF Lock
    <2>4. s = p
      BY FreshOperations DEF Lock, Under
    <2> HIDE DEF p, q, r, s
    <2>5. /\ fcf' = My(FALSE, TRUE)
          /\ a1745113960' \in [val : Letters, flow : BOOLEAN] /\ fS' = a1745113960'
      BY <2>1, <2>2, FreshOperations DEF Lock, My, Letters
    <2>6. Under(fB, B)' /\ AllUnder(fvar, var)'
      <3>1. /\ fB' = Fresh!Block(fvar, p, r, Code7H).res
            /\ fvar' = Fresh!Block(fvar, p, r, Code7H).var
        BY <2>2, <2>4, FreshCode
      <3> QED BY <2>1, <2>3, <3>1, SameBlock, CodeLengths
    <2>7. Under(fA, A)' /\ Under(fC, C)'
      BY <2>1, <2>2 DEF Lock, A, C
    <2> QED BY <2>1, <2>2, <2>5, <2>6, <2>7, Emitted
  <1>3. input \in {"usr4_ni1_ne1", "usr4_ai1_VoidReply"}
    BY DEF CalculateOutputm7, On, Emit, My, Raised, Missed
  <1> QED BY <1>1, <1>2, <1>3

LEMMA Lockstep8 ==
  ASSUME Lock, CalculateOutputm8, Fresh!CalculateOutputm8
  PROVE  Lock'
  <1>1. CASE input = "usr4_ai1_VoidReply"
    <2> DEFINE p == B.val * A.val
               q == Forced
               r == Fresh!Forced
               s == fB.val * fA.val
    <2>1. /\ reply' = <<"ni1_ne1__ai1_VoidReply">> /\ cf' = My(FALSE, TRUE)
          /\ a1745113960' = My("e", TRUE)
          /\ B' = Block(var, p, q, Code8).res /\ var' = Block(var, p, q, Code8).var
          /\ UNCHANGED <<a422009172, a1522448132>>
      BY <1>1 DEF CalculateOutputm8, On, Emit, B
    <2>2. /\ freply' = <<"ni1_ne1__ai1_VoidReply">> /\ fcf' = Fresh!My(FALSE, TRUE)
          /\ fS' = Fresh!My("e", TRUE)
          /\ fB' = Fresh!Block(fvar, s, r, Fresh!Code8).res
          /\ fvar' = Fresh!Block(fvar, s, r, Fresh!Code8).var
          /\ UNCHANGED <<fA, fC>>
      BY <1>1 DEF Fresh!CalculateOutputm8, Fresh!On, Fresh!Emit, Fresh!A, Fresh!B,
             Fresh!C
    <2>3. Implied(r, q)
      BY RaisedUnder, MissedUnder, ConstantsUnder, FreshOperations DEF Lock
    <2>4. s = p
      BY FreshOperations DEF Lock, Under
    <2> HIDE DEF p, q, r, s
    <2>5. /\ fcf' = My(FALSE, TRUE)
          /\ a1745113960' \in [val : Letters, flow : BOOLEAN] /\ fS' = a1745113960'
      BY <2>1, <2>2, FreshOperations DEF Lock, My, Letters
    <2>6. Under(fB, B)' /\ AllUnder(fvar, var)'
      <3>1. /\ fB' = Fresh!Block(fvar, p, r, Code8).res
            /\ fvar' = Fresh!Block(fvar, p, r, Code8).var
        BY <2>2, <2>4, FreshCode
      <3> QED BY <2>1, <2>3, <3>1, SameBlock, CodeLengths
    <2>7. Under(fA, A)' /\ Under(fC, C)'
      BY <2>1, <2>2 DEF Lock, A, C
    <2> QED BY <2>1, <2>2, <2>5, <2>6, <2>7, Emitted
  <1>2. input \in {"usr4_ai1_VoidReply"}
    BY DEF CalculateOutputm8, On, Emit, My, Raised, Missed
  <1> QED BY <1>1, <1>2

-----------------------------------------------------------------------------
(***************************************************************************)
(* Where the instrumented program rests.  The regions and the ranges are   *)
(* those of the original; reply is empty while an input is processed.      *)
(***************************************************************************)
Replies == {<<>>} \cup {<<o>> : o \in Outputs \cup {Rejected}}

Sound ==
  /\ phase \in {"ready", "busy"}
  /\ input \in Inputs \cup {Other}
  /\ reply \in Replies
  /\ phase = "busy" => reply = <<>>
  /\ J!NeverStranded
  /\ J!OperandRange

LEMMA Integers183 ==
  ASSUME Sound
  PROVE  A.val \in Int /\ B.val \in Int /\ C.val \in Int
  BY DEF Sound, J!OperandRange

LEMMA LettersKnown ==
  ASSUME Sound
  PROVE  a1745113960.val \in Letters
  BY DEF Sound, J!NeverStranded, J!InRegion, Letters

\* The tables are the same through every instance.
LEMMA Tables ==
  /\ Mealy!Trans = Trans /\ J!Mealy!Trans = Trans
  /\ J!Mealy!Outputs = Outputs /\ J!Rejected = Rejected /\ J!Inputs = Inputs
  /\ J!Other = Other /\ J!Locs = Locs
  BY DEF Mealy!Trans, J!Mealy!Trans, Trans, Mealy!T, J!Mealy!T, T, J!Mealy!Outputs, Outputs,
         J!Rejected, Rejected, J!Inputs, Inputs, J!Other, Other, J!Locs, Locs

LEMMA TransTypes ==
  ASSUME NEW t \in Trans
  PROVE  t.from \in Locs /\ t.to \in Locs /\ t.out \in Outputs
  BY DEF Trans, T, Locs, Outputs

LEMMA OriginalTypeOK ==
  ASSUME Sound
  PROVE  J!TypeOK
  <1>1. head \in J!PCs
    BY DEF head, J!PCs
  <1>2. (phase = "busy") \in BOOLEAN
    OBVIOUS
  <1>3. reply \in Seq(Outputs \cup {Rejected})
    <2>1. CASE reply = <<>>
      BY <2>1
    <2>2. ASSUME NEW o \in Outputs \cup {Rejected}, reply = <<o>>
          PROVE  reply \in Seq(Outputs \cup {Rejected})
      BY <2>2
    <2> QED BY <2>1, <2>2 DEF Sound, Replies
  <1>4. reply \in Seq(J!Mealy!Outputs \cup {J!Rejected})
    BY <1>3, Tables
  <1>5. input \in J!Inputs \cup {J!Other}
    BY Tables DEF Sound
  <1>6. a1745113960.val \in {"e", "g", "h", "i"}
    BY LettersKnown DEF Letters
  <1> QED BY <1>1, <1>2, <1>4, <1>5, <1>6, Integers183 DEF J!TypeOK

(***************************************************************************)
(* The tests in CalculateOutput select one method, that of the region.     *)
(***************************************************************************)
LEMMA RegionServed ==
  ASSUME NEW l \in Locs
  PROVE  /\ J!InRegion(l) => Serves(l)
         /\ J!InRegion(l)' => Serves(l)'
  BY ZenonT(30) DEF Locs, J!InRegion, J!Range1, J!Range2, J!Range3, J!Range4, Serves

LEMMA OneServes ==
  ASSUME NEW k \in Locs, NEW l \in Locs
  PROVE  /\ B.val \in Int /\ Serves(k) /\ Serves(l) => k = l
         /\ B'.val \in Int /\ Serves(k)' /\ Serves(l)' => k = l
  <1> DEFINE Zone(x, s, m) ==
               /\ m = "m1" => x <= -164
               /\ m \in {"m2", "m3", "m4", "m5"} => -164 < x /\ x <= -19
               /\ m \in {"m6", "m7"} => -19 < x /\ x <= 100
               /\ m = "m8" => 100 < x
               /\ m = "m2" => s = "e"
               /\ m \in {"m3", "m6"} => s = "g"
               /\ m \in {"m4", "m7"} => s = "h"
               /\ m = "m5" => s = "i"
  <1>1. ASSUME NEW x \in Int, NEW s, Zone(x, s, k), Zone(x, s, l)
        PROVE  k = l
    BY <1>1 DEF Locs
  <1>2. ASSUME NEW m \in Locs, B.val \in Int, Serves(m)
        PROVE  Zone(B.val, a1745113960.val, m)
    BY <1>2 DEF Locs, Serves
  <1>3. ASSUME NEW m \in Locs, B'.val \in Int, Serves(m)'
        PROVE  Zone(B'.val, a1745113960'.val, m)
    BY <1>3 DEF Locs, Serves
  <1> HIDE DEF Zone
  <1> QED BY <1>1, <1>2, <1>3

LEMMA ServedRegion ==
  ASSUME Sound, NEW l \in Locs, Serves(l)
  PROVE  J!InRegion(l)
  <1>1. PICK k \in Locs : J!InRegion(k)
    BY Tables DEF Sound, J!NeverStranded
  <1> QED BY <1>1, RegionServed, OneServes, Integers183

LEMMA LocOfServed ==
  ASSUME Sound, NEW l \in Locs, Serves(l)
  PROVE  locOf = l
  BY OneServes, Integers183 DEF locOf

LEMMA LocOfServedNext ==
  ASSUME B'.val \in Int, NEW l \in Locs, Serves(l)'
  PROVE  locOf' = l
  <1>1. \A k \in Locs : Serves(k)' => k = l
    BY OneServes
  <1> QED BY <1>1 DEF locOf

LEMMA LocOfKept ==
  ASSUME UNCHANGED fields
  PROVE  locOf' = locOf
  <1>1. A' = A /\ B' = B /\ C' = C /\ a1745113960' = a1745113960
    BY DEF fields, A, B, C
  <1>2. \A k \in Locs : Serves(k)' <=> Serves(k)
    BY <1>1 DEF Serves
  <1> QED BY <1>2, Zenon DEF locOf

-----------------------------------------------------------------------------
(***************************************************************************)
(* An answer is a transition of the table, by the region it starts in and  *)
(* the one it ends in; the results on the original's methods give both.    *)
(***************************************************************************)
Answered ==
  /\ J!OperandRange'
  /\ \E t \in Trans : /\ input = t.in /\ J!InRegion(t.from) /\ J!InRegion(t.to)'
                      /\ reply' = <<t.out>>

Processing == Sound /\ phase = "busy" /\ phase' = "ready"

LEMMA ProcessingFacts ==
  ASSUME Processing
  PROVE  /\ J!TypeOK /\ J!NeverStranded /\ J!OperandRange
         /\ Calculating
         /\ \A l \in Locs : Serves(l) => J!InRegion(l)
  BY OriginalTypeOK, Integers183, ServedRegion DEF Processing, Sound, Calculating

LEMMA OutcomeAnswers ==
  ASSUME Processing, NEW l, J!Outcome(l)
  PROVE  Answered
  <1>1. (phase = "busy")' = FALSE /\ phase = "busy" /\ reply = <<>>
    BY DEF Processing, Sound
  <1>2. ~ J!Idle
    BY <1>1 DEF J!Idle
  <1>3. /\ J!OperandRange'
        /\ \E t \in J!Mealy!Trans : J!Takes(t)
    BY <1>2 DEF J!Outcome
  <1>4. PICK t \in Trans : J!Takes(t)
    BY <1>3, Tables
  <1>5. reply' = Append(reply, t.out)
    BY <1>4 DEF J!Takes
  <1>6. reply' = <<t.out>>
    BY <1>1, <1>5
  <1> QED BY <1>3, <1>4, <1>6 DEF J!Takes, Answered

LEMMA Answers1 ==
  ASSUME Processing, Serves("m1"), CalculateOutputm1
  PROVE  Answered /\ Originally
  <1>1. Original!calculateOutputm1
    BY ProcessingFacts, Originally1
  <1>2. J!calculateOutputm1
    BY <1>1 DEF Original!calculateOutputm1, J!calculateOutputm1, Original!Fires, J!Fires,
        Original!Emit, J!Emit, Original!Idle, J!Idle, Original!fields, J!fields,
        Original!Rem, J!Rem
  <1>3. phase = "busy" /\ J!Range1
    BY ProcessingFacts DEF Processing, Serves, J!Range1
  <1>4. J!Outcome("m1")
    BY <1>2, <1>3, ProcessingFacts, J!Method1
  <1>5. locOf = "m1"
    BY LocOfServed DEF Processing, Locs
  <1> QED BY <1>1, <1>4, <1>5, OutcomeAnswers DEF Originally

LEMMA Answers2 ==
  ASSUME Processing, Serves("m2"), CalculateOutputm2
  PROVE  Answered /\ Originally
  <1>1. Original!calculateOutputm2
    BY ProcessingFacts, Originally2
  <1>2. J!calculateOutputm2
    BY <1>1 DEF Original!calculateOutputm2, J!calculateOutputm2, Original!Fires, J!Fires,
        Original!Emit, J!Emit, Original!Idle, J!Idle, Original!fields, J!fields,
        Original!Rem, J!Rem
  <1>3. phase = "busy" /\ J!Range2 /\ a1745113960.val = "e"
    BY ProcessingFacts DEF Processing, Serves, J!Range2
  <1>4. J!Outcome("m2")
    BY <1>2, <1>3, ProcessingFacts, J!Method2
  <1>5. locOf = "m2"
    BY LocOfServed DEF Processing, Locs
  <1> QED BY <1>1, <1>4, <1>5, OutcomeAnswers DEF Originally

LEMMA Answers3 ==
  ASSUME Processing, Serves("m3"), CalculateOutputm3
  PROVE  Answered /\ Originally
  <1>1. Original!calculateOutputm3
    BY ProcessingFacts, Originally3
  <1>2. J!calculateOutputm3
    BY <1>1 DEF Original!calculateOutputm3, J!calculateOutputm3, Original!Fires, J!Fires,
        Original!Emit, J!Emit, Original!Idle, J!Idle, Original!fields, J!fields,
        Original!Rem, J!Rem
  <1>3. phase = "busy" /\ J!Range2 /\ a1745113960.val = "g"
    BY ProcessingFacts DEF Processing, Serves, J!Range2
  <1>4. J!Outcome("m3")
    BY <1>2, <1>3, ProcessingFacts, J!Method3
  <1>5. locOf = "m3"
    BY LocOfServed DEF Processing, Locs
  <1> QED BY <1>1, <1>4, <1>5, OutcomeAnswers DEF Originally

LEMMA Answers4 ==
  ASSUME Processing, Serves("m4"), CalculateOutputm4
  PROVE  Answered /\ Originally
  <1>1. Original!calculateOutputm4
    BY ProcessingFacts, Originally4
  <1>2. J!calculateOutputm4
    BY <1>1 DEF Original!calculateOutputm4, J!calculateOutputm4, Original!Fires, J!Fires,
        Original!Emit, J!Emit, Original!Idle, J!Idle, Original!fields, J!fields,
        Original!Rem, J!Rem
  <1>3. phase = "busy" /\ J!Range2 /\ a1745113960.val = "h"
    BY ProcessingFacts DEF Processing, Serves, J!Range2
  <1>4. J!Outcome("m4")
    BY <1>2, <1>3, ProcessingFacts, J!Method4
  <1>5. locOf = "m4"
    BY LocOfServed DEF Processing, Locs
  <1> QED BY <1>1, <1>4, <1>5, OutcomeAnswers DEF Originally

LEMMA Answers5 ==
  ASSUME Processing, Serves("m5"), CalculateOutputm5
  PROVE  Answered /\ Originally
  <1>1. Original!calculateOutputm5
    BY ProcessingFacts, Originally5
  <1>2. J!calculateOutputm5
    BY <1>1 DEF Original!calculateOutputm5, J!calculateOutputm5, Original!Fires, J!Fires,
        Original!Emit, J!Emit, Original!Idle, J!Idle, Original!fields, J!fields,
        Original!Rem, J!Rem
  <1>3. phase = "busy" /\ J!Range2 /\ a1745113960.val = "i"
    BY ProcessingFacts DEF Processing, Serves, J!Range2
  <1>4. J!Outcome("m5")
    BY <1>2, <1>3, ProcessingFacts, J!Method5
  <1>5. locOf = "m5"
    BY LocOfServed DEF Processing, Locs
  <1> QED BY <1>1, <1>4, <1>5, OutcomeAnswers DEF Originally

LEMMA Answers6 ==
  ASSUME Processing, Serves("m6"), CalculateOutputm6
  PROVE  Answered /\ Originally
  <1>1. Original!calculateOutputm6
    BY ProcessingFacts, Originally6
  <1>2. J!calculateOutputm6
    BY <1>1 DEF Original!calculateOutputm6, J!calculateOutputm6, Original!Fires, J!Fires,
        Original!Emit, J!Emit, Original!Idle, J!Idle, Original!fields, J!fields,
        Original!Rem, J!Rem
  <1>3. phase = "busy" /\ J!Range3 /\ a1745113960.val = "g"
    BY ProcessingFacts DEF Processing, Serves, J!Range3
  <1>4. J!Outcome("m6")
    BY <1>2, <1>3, ProcessingFacts, J!Method6
  <1>5. locOf = "m6"
    BY LocOfServed DEF Processing, Locs
  <1> QED BY <1>1, <1>4, <1>5, OutcomeAnswers DEF Originally

LEMMA Answers7 ==
  ASSUME Processing, Serves("m7"), CalculateOutputm7
  PROVE  Answered /\ Originally
  <1>1. Original!calculateOutputm7
    BY ProcessingFacts, Originally7
  <1>2. J!calculateOutputm7
    BY <1>1 DEF Original!calculateOutputm7, J!calculateOutputm7, Original!Fires, J!Fires,
        Original!Emit, J!Emit, Original!Idle, J!Idle, Original!fields, J!fields,
        Original!Rem, J!Rem
  <1>3. phase = "busy" /\ J!Range3 /\ a1745113960.val = "h"
    BY ProcessingFacts DEF Processing, Serves, J!Range3
  <1>4. J!Outcome("m7")
    BY <1>2, <1>3, ProcessingFacts, J!Method7
  <1>5. locOf = "m7"
    BY LocOfServed DEF Processing, Locs
  <1> QED BY <1>1, <1>4, <1>5, OutcomeAnswers DEF Originally

LEMMA Answers8 ==
  ASSUME Processing, Serves("m8"), CalculateOutputm8
  PROVE  Answered /\ Originally
  <1>1. Original!calculateOutputm8
    BY ProcessingFacts, Originally8
  <1>2. J!calculateOutputm8
    BY <1>1 DEF Original!calculateOutputm8, J!calculateOutputm8, Original!Fires, J!Fires,
        Original!Emit, J!Emit, Original!Idle, J!Idle, Original!fields, J!fields,
        Original!Rem, J!Rem, Original!Quot, J!Quot
  <1>3. phase = "busy" /\ J!Range4
    BY ProcessingFacts DEF Processing, Serves, J!Range4
  <1>4. J!Outcome("m8")
    BY <1>2, <1>3, ProcessingFacts, J!Method8
  <1>5. locOf = "m8"
    BY LocOfServed DEF Processing, Locs
  <1> QED BY <1>1, <1>4, <1>5, OutcomeAnswers DEF Originally

\* A method answers the inputs it tests for and no other, in both programs.
LEMMA Tested ==
  /\ CalculateOutputm1 \/ Fresh!CalculateOutputm1 => input \in Tests("m1")
  /\ CalculateOutputm2 \/ Fresh!CalculateOutputm2 => input \in Tests("m2")
  /\ CalculateOutputm3 \/ Fresh!CalculateOutputm3 => input \in Tests("m3")
  /\ CalculateOutputm4 \/ Fresh!CalculateOutputm4 => input \in Tests("m4")
  /\ CalculateOutputm5 \/ Fresh!CalculateOutputm5 => input \in Tests("m5")
  /\ CalculateOutputm6 \/ Fresh!CalculateOutputm6 => input \in Tests("m6")
  /\ CalculateOutputm7 \/ Fresh!CalculateOutputm7 => input \in Tests("m7")
  /\ CalculateOutputm8 \/ Fresh!CalculateOutputm8 => input \in Tests("m8")
  <1>1. /\ CalculateOutputm1 \/ Fresh!CalculateOutputm1 => input = "usr2_ai1_VoidReply"
        /\ CalculateOutputm5 \/ Fresh!CalculateOutputm5 => input = "usr2_ai1_VoidReply"
    BY DEF CalculateOutputm1, CalculateOutputm5, On,
           Fresh!CalculateOutputm1, Fresh!CalculateOutputm5, Fresh!On
  <1>2. /\ CalculateOutputm3 \/ Fresh!CalculateOutputm3 => input = "usr4_ai1_VoidReply"
        /\ CalculateOutputm8 \/ Fresh!CalculateOutputm8 => input = "usr4_ai1_VoidReply"
    BY DEF CalculateOutputm3, CalculateOutputm8, On,
           Fresh!CalculateOutputm3, Fresh!CalculateOutputm8, Fresh!On
  <1>3. CalculateOutputm2 \/ Fresh!CalculateOutputm2 => input \in {"usr4_ni1_ne1", "ai1_ce2"}
    BY Zenon DEF CalculateOutputm2, On, Fresh!CalculateOutputm2, Fresh!On
  <1>4. CalculateOutputm4 \/ Fresh!CalculateOutputm4 => input \in {"ai1_ce2", "ai1_ce1", "usr4_ni1_ne1"}
    <2>1. ASSUME CalculateOutputm4 PROVE input \in {"ai1_ce2", "ai1_ce1", "usr4_ni1_ne1"}
      BY <2>1 DEF CalculateOutputm4, On, Emit, My, Raised, Missed
    <2>2. ASSUME Fresh!CalculateOutputm4 PROVE input \in {"ai1_ce2", "ai1_ce1", "usr4_ni1_ne1"}
      BY <2>2 DEF Fresh!CalculateOutputm4, Fresh!On, Fresh!Emit, Fresh!My, Fresh!Raised,
                  Fresh!Missed
    <2> QED BY <2>1, <2>2
  <1>5. CalculateOutputm6 \/ Fresh!CalculateOutputm6 => input \in {"usr4_ni1_ne1", "usr4_ai1_VoidReply"}
    <2>1. ASSUME CalculateOutputm6 PROVE input \in {"usr4_ni1_ne1", "usr4_ai1_VoidReply"}
      BY <2>1 DEF CalculateOutputm6, On, Emit, My, Raised, Missed
    <2>2. ASSUME Fresh!CalculateOutputm6 PROVE input \in {"usr4_ni1_ne1", "usr4_ai1_VoidReply"}
      BY <2>2 DEF Fresh!CalculateOutputm6, Fresh!On, Fresh!Emit, Fresh!My, Fresh!Raised,
                  Fresh!Missed
    <2> QED BY <2>1, <2>2
  <1>6. CalculateOutputm7 \/ Fresh!CalculateOutputm7 => input \in {"usr4_ni1_ne1", "usr4_ai1_VoidReply"}
    <2>1. ASSUME CalculateOutputm7 PROVE input \in {"usr4_ni1_ne1", "usr4_ai1_VoidReply"}
      BY <2>1 DEF CalculateOutputm7, On, Emit, My, Raised, Missed
    <2>2. ASSUME Fresh!CalculateOutputm7 PROVE input \in {"usr4_ni1_ne1", "usr4_ai1_VoidReply"}
      BY <2>2 DEF Fresh!CalculateOutputm7, Fresh!On, Fresh!Emit, Fresh!My, Fresh!Raised,
                  Fresh!Missed
    <2> QED BY <2>1, <2>2
  <1> QED BY <1>1, <1>2, <1>3, <1>4, <1>5, <1>6 DEF Tests

LEMMA AcceptedTested ==
  ASSUME NEW l \in Locs, NEW i, Mealy!Accepts(l, i)
  PROVE  i \in Tests(l)
  BY DEF Mealy!Accepts, Mealy!Trans, Mealy!T, Tests, Locs

LEMMA FreshServes ==
  ASSUME Lock, NEW l \in Locs
  PROVE  /\ Fresh!Serves(l) <=> Serves(l)
         /\ Fresh!Tests(l) = Tests(l)
  <1>1. /\ fA.val = A.val /\ fB.val = B.val /\ fC.val = C.val
        /\ fS.val = a1745113960.val
    BY DEF Lock, Under
  <1>2. Fresh!Serves(l) <=> Serves(l)
    BY <1>1 DEF Fresh!Serves, Serves, Locs, Fresh!A, Fresh!B, Fresh!C
  <1>3. Fresh!Tests(l) = Tests(l)
    BY DEF Fresh!Tests, Tests, Locs
  <1> QED BY <1>2, <1>3

-----------------------------------------------------------------------------
(***************************************************************************)
(* One call of CalculateOutput by each program.                            *)
(***************************************************************************)
\* It answers as the original would, or no method tests for the input.
LEMMA CalculateCases ==
  ASSUME Sound, CalculateOutput
  PROVE  \/ Answered /\ Originally
         \/ NoTransition
  <1>1. Processing
    BY DEF CalculateOutput, Processing
  <1> QED BY <1>1, Answers1, Answers2, Answers3, Answers4, Answers5, Answers6, Answers7,
             Answers8 DEF CalculateOutput

LEMMA CalculateSound ==
  ASSUME Sound, CalculateOutput
  PROVE  Sound'
  <1>1. phase' = "ready" /\ input' = input
    BY DEF CalculateOutput
  <1>2. CASE Answered
    <2>1. PICK t \in Trans : J!InRegion(t.to)' /\ reply' = <<t.out>>
      BY <1>2 DEF Answered
    <2>2. J!NeverStranded'
      BY <2>1, TransTypes, Tables DEF J!NeverStranded
    <2>3. reply' \in Replies
      BY <2>1, TransTypes DEF Replies
    <2> QED BY <1>1, <1>2, <2>2, <2>3 DEF Answered, Sound, Replies
  <1>3. CASE NoTransition
    <2>1. A' = A /\ B' = B /\ C' = C /\ a1745113960' = a1745113960
      BY <1>3 DEF NoTransition, A, B, C
    <2>2. J!NeverStranded' /\ J!OperandRange'
      BY <2>1 DEF Sound, J!NeverStranded, J!InRegion, J!Range1, J!Range2, J!Range3, J!Range4,
                  J!OperandRange
    <2>3. reply' \in Replies
      BY <1>3 DEF NoTransition, Replies
    <2> QED BY <1>1, <2>2, <2>3 DEF Sound, Replies
  <1> QED BY <1>2, <1>3, CalculateCases

\* The two programs take the same branch.
LEMMA CalculateLock ==
  ASSUME Sound, Lock, CalculateOutput, Fresh!CalculateOutput
  PROVE  Lock'
  <1>0. {"m1", "m2", "m3", "m4", "m5", "m6", "m7", "m8"} = Locs
    BY DEF Locs
  <1>1. ASSUME NEW k \in Locs, NEW l \in Locs, Serves(k), Fresh!Serves(l)
        PROVE  k = l
    BY <1>1, FreshServes, OneServes, Integers183
  <1>2. ASSUME NEW k \in Locs, Serves(k), input \in Tests(k) PROVE ~ Fresh!NoTransition
    BY <1>2, FreshServes DEF Fresh!NoTransition, Locs, Fresh!Locs
  <1>3. ASSUME NEW k \in Locs, Fresh!Serves(k), input \in Tests(k) PROVE ~ NoTransition
    BY <1>3, FreshServes DEF NoTransition
  <1>4. CASE NoTransition
    <2>1. Fresh!NoTransition
      BY <1>0, <1>3, <1>4, Tested DEF Fresh!CalculateOutput
    <2>2. cf' = My(TRUE, FALSE) /\ fcf' = My(TRUE, FALSE) /\ reply' = freply'
      BY <1>4, <2>1, FreshOperations DEF NoTransition, Fresh!NoTransition, Rejected, Fresh!Rejected
    <2>3. cf' \in [val : BOOLEAN, flow : BOOLEAN]
      BY <2>2 DEF My
    <2>4. /\ UNCHANGED <<a422009172, a2108127495, a1522448132, a1745113960, var>>
          /\ UNCHANGED <<fA, fB, fC, fS, fvar>>
      BY <1>4, <2>1 DEF NoTransition, Fresh!NoTransition
    <2>5. Under(fA, A)' /\ Under(fB, B)' /\ Under(fC, C)' /\ AllUnder(fvar, var)'
      BY <2>4, Untouched
    <2> QED BY <2>2, <2>3, <2>4, <2>5 DEF Lock
  <1>5. ASSUME Serves("m1"), CalculateOutputm1 PROVE Lock'
    <2>1. Fresh!CalculateOutputm1
      BY <1>0, <1>1, <1>2, <1>5, Tested DEF Fresh!CalculateOutput
    <2> QED BY <1>5, <2>1, Lockstep1
  <1>6. ASSUME Serves("m2"), CalculateOutputm2 PROVE Lock'
    <2>1. Fresh!CalculateOutputm2
      BY <1>0, <1>1, <1>2, <1>6, Tested DEF Fresh!CalculateOutput
    <2> QED BY <1>6, <2>1, Lockstep2
  <1>7. ASSUME Serves("m3"), CalculateOutputm3 PROVE Lock'
    <2>1. Fresh!CalculateOutputm3
      BY <1>0, <1>1, <1>2, <1>7, Tested DEF Fresh!CalculateOutput
    <2> QED BY <1>7, <2>1, Lockstep3
  <1>8. ASSUME Serves("m4"), CalculateOutputm4 PROVE Lock'
    <2>1. Fresh!CalculateOutputm4
      BY <1>0, <1>1, <1>2, <1>8, Tested DEF Fresh!CalculateOutput
    <2> QED BY <1>8, <2>1, Lockstep4
  <1>9. ASSUME Serves("m5"), CalculateOutputm5 PROVE Lock'
    <2>1. Fresh!CalculateOutputm5
      BY <1>0, <1>1, <1>2, <1>9, Tested DEF Fresh!CalculateOutput
    <2> QED BY <1>9, <2>1, Lockstep5
  <1>10. ASSUME Serves("m6"), CalculateOutputm6 PROVE Lock'
    <2>1. Fresh!CalculateOutputm6
      BY <1>0, <1>1, <1>2, <1>10, Tested DEF Fresh!CalculateOutput
    <2> QED BY <1>10, <2>1, Lockstep6
  <1>11. ASSUME Serves("m7"), CalculateOutputm7 PROVE Lock'
    <2>1. Fresh!CalculateOutputm7
      BY <1>0, <1>1, <1>2, <1>11, Tested DEF Fresh!CalculateOutput
    <2> QED BY <1>11, <2>1, Lockstep7
  <1>12. ASSUME Serves("m8"), CalculateOutputm8 PROVE Lock'
    <2>1. Fresh!CalculateOutputm8
      BY <1>0, <1>1, <1>2, <1>12, Tested DEF Fresh!CalculateOutput
    <2> QED BY <1>12, <2>1, Lockstep8
  <1> QED BY <1>4, <1>5, <1>6, <1>7, <1>8, <1>9, <1>10, <1>11, <1>12 DEF CalculateOutput

-----------------------------------------------------------------------------
(***************************************************************************)
(* The inductive invariant of the two programs, and the theorems.          *)
(***************************************************************************)
RInv == Sound /\ Lock

\* The fields as the initialisers of the class, and reset, leave them.
LEMMA StartSound ==
  ASSUME A.val = -68, B.val = -44, C.val = 173, a1745113960.val = "h"
  PROVE  J!InRegion("m4") /\ J!NeverStranded /\ J!OperandRange
  BY DEF J!InRegion, J!Range2, J!NeverStranded, J!Locs, J!OperandRange

LEMMA StartUnder ==
  /\ \A v : Under(My(v, FALSE), My(v, FALSE))
  /\ \A v \in [Temps -> BOOLEAN] : AllUnder([j \in Temps |-> FALSE], v)
  BY DEF Under, My, Implied, AllUnder

LEMMA InitRInv == RInit => RInv
  <1> SUFFICES ASSUME RInit PROVE RInv
    OBVIOUS
  <1>1. /\ cf = My(TRUE, FALSE) /\ A = My(-68, FALSE) /\ B = My(-44, FALSE)
        /\ C = My(173, FALSE) /\ a1745113960 = My("h", FALSE)
        /\ var = [j \in Temps |-> FALSE]
        /\ phase = "ready" /\ input = Other /\ reply = <<>>
    BY DEF RInit, Init, Start, A, B, C
  <1>2. /\ fcf = My(TRUE, FALSE) /\ fA = My(-68, FALSE) /\ fB = My(-44, FALSE)
        /\ fC = My(173, FALSE) /\ fS = My("h", FALSE)
        /\ fvar = [j \in Temps |-> FALSE] /\ freply = <<>>
    BY FreshOperations DEF RInit, Fresh!Init, Fresh!Start, Fresh!Temps, Temps
  <1>3. J!NeverStranded /\ J!OperandRange
    BY <1>1, StartSound DEF My
  <1>4. Sound
    BY <1>1, <1>3 DEF Sound, Replies
  <1>5. [j \in Temps |-> FALSE] \in [Temps -> BOOLEAN]
    OBVIOUS
  <1>6. Under(fA, A) /\ Under(fB, B) /\ Under(fC, C) /\ AllUnder(fvar, var)
    BY <1>1, <1>2, <1>5, StartUnder
  <1>7. /\ cf \in [val : BOOLEAN, flow : BOOLEAN]
        /\ a1745113960 \in [val : Letters, flow : BOOLEAN]
    BY <1>1 DEF My, Letters
  <1> QED BY <1>1, <1>2, <1>4, <1>6, <1>7 DEF RInv, Lock

\* The object is reset and the fresh program replaced.
LEMMA NextRunRInv ==
  ASSUME RInv, NextRun
  PROVE  RInv' /\ J!InRegion("m4")'
  <1>1. /\ cf' = My(TRUE, FALSE) /\ A' = My(-68, FALSE) /\ B' = My(-44, FALSE)
        /\ C' = My(173, FALSE) /\ a1745113960' = My("h", FALSE)
        /\ UNCHANGED <<phase, input, reply, var>>
    BY DEF NextRun, reset, A, B, C
  <1>2. /\ fcf' = My(TRUE, FALSE) /\ fA' = My(-68, FALSE) /\ fB' = My(-44, FALSE)
        /\ fC' = My(173, FALSE) /\ fS' = My("h", FALSE)
        /\ fvar' = [j \in Temps |-> FALSE] /\ freply' = freply
    BY DEF NextRun, NewProcess
  <1>3. A'.val = -68 /\ B'.val = -44 /\ C'.val = 173 /\ a1745113960'.val = "h"
    BY <1>1 DEF My
  <1>4. J!InRegion("m4")' /\ J!NeverStranded' /\ J!OperandRange'
    BY <1>3 DEF J!InRegion, J!Range2, J!NeverStranded, J!Locs, J!OperandRange
  <1>5. Sound'
    BY <1>1, <1>4 DEF RInv, Sound, Replies
  <1>6. var \in [Temps -> BOOLEAN]
    BY DEF RInv, Lock, AllUnder
  <1>7. Under(fA, A)' /\ Under(fB, B)' /\ Under(fC, C)' /\ AllUnder(fvar, var)'
    BY <1>1, <1>2, <1>6, StartUnder
  <1>8. /\ cf' \in [val : BOOLEAN, flow : BOOLEAN]
        /\ a1745113960' \in [val : Letters, flow : BOOLEAN]
    BY <1>1 DEF My, Letters
  <1> QED BY <1>1, <1>2, <1>4, <1>5, <1>7, <1>8 DEF RInv, Lock

\* What a step that leaves the fields and the temporaries alone preserves.
LEMMA KeptLock ==
  ASSUME RInv, UNCHANGED <<fields, var>>, UNCHANGED <<fcf, fA, fB, fC, fS, fvar>>,
         freply' = reply'
  PROVE  Lock' /\ J!NeverStranded' /\ J!OperandRange'
  <1>1. A' = A /\ B' = B /\ C' = C /\ a1745113960' = a1745113960 /\ cf' = cf /\ var' = var
    BY DEF fields, A, B, C
  <1>2. J!NeverStranded' /\ J!OperandRange'
    BY <1>1 DEF RInv, Sound, J!NeverStranded, J!InRegion, J!Range1, J!Range2, J!Range3, J!Range4,
                J!OperandRange
  <1> QED BY <1>1, <1>2 DEF RInv, Lock

LEMMA BothReadRInv ==
  ASSUME RInv, NEW i \in Inputs, BothRead(i)
  PROVE  RInv'
  <1>1. /\ phase' = "busy" /\ input' = i /\ reply' = <<>> /\ freply' = <<>>
        /\ UNCHANGED <<fields, var>> /\ UNCHANGED <<fcf, fA, fB, fC, fS, fvar>>
    BY DEF BothRead, NextInput, Fresh!NextInput, Fresh!fields
  <1>2. Lock' /\ J!NeverStranded' /\ J!OperandRange'
    BY <1>1, KeptLock
  <1> QED BY <1>1, <1>2 DEF RInv, Sound, Replies

LEMMA NextRInv == RInv /\ [RNext]_<<vars, fresh>> => RInv'
  <1> SUFFICES ASSUME RInv, [RNext]_<<vars, fresh>> PROVE RInv'
    OBVIOUS
  <1>1. CASE NextRun
    BY <1>1, NextRunRInv
  <1>2. CASE BothCalculate
    BY <1>2, CalculateSound, CalculateLock DEF BothCalculate, RInv
  <1>3. ASSUME NEW i \in Inputs, BothRead(i) PROVE RInv'
    BY <1>3, BothReadRInv
  <1>4. CASE UNCHANGED <<vars, fresh>>
    <2>1. /\ UNCHANGED <<phase, input, reply>> /\ UNCHANGED <<fields, var>>
          /\ UNCHANGED <<freply, fcf, fA, fB, fC, fS, fvar>>
      BY <1>4 DEF vars, fresh
    <2>2. freply' = reply'
      BY <2>1 DEF RInv, Lock
    <2>3. Lock' /\ J!NeverStranded' /\ J!OperandRange'
      BY <2>1, <2>2, KeptLock
    <2> QED BY <2>1, <2>3 DEF RInv, Sound, Replies
  <1> QED BY <1>1, <1>2, <1>3, <1>4 DEF RNext

\* The invariant holds of the two programs side by side.
THEOREM ReuseInvariance == RSpec => []RInv
  <1> QED BY InitRInv, NextRInv, PTL DEF RSpec

(***************************************************************************)
(* However many runs the one object has been through, it answers and       *)
(* computes as a program started for this run: reset restores all that an  *)
(* answer depends on.                                                      *)
(***************************************************************************)
THEOREM ResetRestores == RSpec => []SameBehaviour
  <1>1. RInv => SameBehaviour
    <2> SUFFICES ASSUME RInv PROVE SameBehaviour
      OBVIOUS
    <2>1. \A f \in {A, B, C} : f.val \in Int
      BY Integers183 DEF RInv
    <2>2. \A f \in {A, B, C} : f.flow \in BOOLEAN
      BY DEF RInv, Lock, Under, Implied
    <2>3. TypeOK
      BY <2>1, <2>2 DEF RInv, Sound, Lock, Replies, AllUnder, Letters, TypeOK
    <2>4. Ints[1].val = FInts[1].val /\ Ints[2].val = FInts[2].val /\ Ints[3].val = FInts[3].val
      BY DEF RInv, Lock, Under, Ints, FInts
    <2>5. \A k \in 1 .. 3 : Ints[k].val = FInts[k].val
      BY <2>4
    <2> QED BY <2>3, <2>5 DEF RInv, Lock, SameBehaviour
  <1> QED BY <1>1, ReuseInvariance, PTL

(***************************************************************************)
(* The flags that reset leaves in the static temporaries of class I can    *)
(* only add taint: whatever a fresh program marks, the reused one marks.   *)
(***************************************************************************)
THEOREM TaintOnlyAdded == RSpec => []TaintNeverLost
  <1>1. RInv => TaintNeverLost
    <2> SUFFICES ASSUME RInv PROVE TaintNeverLost
      OBVIOUS
    <2>1. Implied(fA.flow, A.flow) /\ Implied(fB.flow, B.flow) /\ Implied(fC.flow, C.flow)
      BY DEF RInv, Lock, Under
    <2>2. Ints[1] = A /\ Ints[2] = B /\ Ints[3] = C /\ FInts[1] = fA /\ FInts[2] = fB /\ FInts[3] = fC
      BY DEF Ints, FInts
    <2>3. ASSUME NEW k \in 1 .. 3 PROVE FInts[k].flow => Ints[k].flow
      <3>1. k = 1 \/ k = 2 \/ k = 3
        OBVIOUS
      <3> QED BY <2>1, <2>2, <3>1 DEF Implied
    <2>4. \A j \in Temps : fvar[j] => var[j]
      BY DEF RInv, Lock, AllUnder, Implied
    <2> QED BY <2>3, <2>4 DEF TaintNeverLost
  <1> QED BY <1>1, ReuseInvariance, PTL

(***************************************************************************)
(* Every answered input changes the four fields as the method of the       *)
(* original program does: the three-address code of the instrumentation    *)
(* computes the expressions it replaced, on every state it meets.          *)
(***************************************************************************)
THEOREM CodeComputesOriginal == RSpec => ComputesOriginal
  <1>1. ASSUME RInv, [RNext]_<<vars, fresh>>
        PROVE  [phase = "busy" /\ reply' # <<Rejected>> => Originally]_vars
    <2> SUFFICES ASSUME phase = "busy", reply' # <<Rejected>>, ~ UNCHANGED vars
                 PROVE  Originally
      OBVIOUS
    <2>1. CalculateOutput
      BY <1>1 DEF RNext, NextRun, reset, BothRead, NextInput, BothCalculate
    <2>2. ~ NoTransition
      BY DEF NoTransition
    <2> QED BY <1>1, <2>1, <2>2, CalculateCases DEF RInv
  <1> QED BY <1>1, ReuseInvariance, PTL DEF RSpec, ComputesOriginal

(***************************************************************************)
(* Seen from the fuzzer's driver the instrumented program is the Mealy     *)
(* machine of problem 183, which reset puts back into its first state.     *)
(***************************************************************************)
THEOREM InstrumentedRefines == RSpec => ImplementsMealy
  <1>1. RInit => Mealy!Init
    <2> SUFFICES ASSUME RInit PROVE Mealy!Init
      OBVIOUS
    <2>1. RInv
      BY InitRInv
    <2>2. Serves("m4")
      BY DEF RInit, Init, Start, My, Serves, B
    <2>3. locOf = "m4"
      BY <2>1, <2>2, LocOfServed DEF RInv, Locs
    <2> QED BY <2>3 DEF RInit, Init, Mealy!Init, Mealy!Other, Other
  <1>2. ASSUME RInv, RInv', [RNext]_<<vars, fresh>>
        PROVE  [Mealy!Next \/ Restarted]_(Mealy!vars)
    <2>0. B'.val \in Int
      BY <1>2 DEF RInv, Sound, J!OperandRange
    <2>1. CASE NextRun
      <3>1. Serves("m4")'
        BY <1>2, <2>1, NextRunRInv, RegionServed DEF Locs
      <3>2. locOf' = "m4"
        BY <2>0, <3>1, LocOfServedNext DEF Locs
      <3> QED BY <2>1, <3>2 DEF NextRun, reset, Restarted
    <2>2. ASSUME NEW i \in Inputs, BothRead(i) PROVE Mealy!Next
      <3>1. locOf' = locOf
        BY <2>2, LocOfKept DEF BothRead, NextInput
      <3>2. i \in Mealy!Inputs \cup {Mealy!Other}
        BY DEF Mealy!Inputs, Inputs
      <3>3. Mealy!Read(i)
        BY <2>2, <3>1 DEF BothRead, NextInput, Mealy!Read
      <3> QED BY <3>2, <3>3 DEF Mealy!Next
    <2>3. ASSUME CalculateOutput, Answered PROVE Mealy!Next
      <3>1. PICK t \in Trans : /\ input = t.in /\ J!InRegion(t.from) /\ J!InRegion(t.to)'
                               /\ reply' = <<t.out>>
        BY <2>3 DEF Answered
      <3>2. locOf = t.from
        BY <1>2, <3>1, TransTypes, RegionServed, LocOfServed DEF RInv
      <3>3. locOf' = t.to
        BY <2>0, <3>1, TransTypes, RegionServed, LocOfServedNext
      <3>4. Mealy!Takes(t)
        BY <2>3, <3>1, <3>2, <3>3 DEF CalculateOutput, Mealy!Takes
      <3> QED BY <3>4, Tables DEF Mealy!Answer, Mealy!Next
    <2>4. ASSUME CalculateOutput, NoTransition PROVE Mealy!Next
      <3>1. PICK l \in Locs : Serves(l)
        BY <1>2, RegionServed, Tables DEF RInv, Sound, J!NeverStranded
      <3>2. locOf = l
        BY <1>2, <3>1, LocOfServed DEF RInv
      <3>3. ~ Mealy!Accepts(l, input)
        BY <2>4, <3>1, AcceptedTested DEF NoTransition
      <3>4. locOf' = locOf
        <4>1. B' = B /\ A' = A /\ C' = C /\ a1745113960' = a1745113960
          BY <2>4 DEF NoTransition, A, B, C
        <4>2. Serves(l)'
          BY <3>1, <4>1 DEF Serves
        <4> QED BY <2>0, <3>2, <4>2, LocOfServedNext
      <3>5. Mealy!Reject
        BY <2>4, <3>2, <3>3, <3>4
           DEF CalculateOutput, NoTransition, Mealy!Reject, Mealy!Rejected, Rejected
      <3> QED BY <3>5 DEF Mealy!Next
    <2>5. CASE UNCHANGED <<vars, fresh>>
      <3>1. locOf' = locOf
        BY <2>5, LocOfKept DEF vars
      <3> QED BY <2>5, <3>1 DEF vars, Mealy!vars
    <2> QED BY <1>2, <2>1, <2>2, <2>3, <2>4, <2>5, CalculateCases DEF RInv, RNext, BothCalculate
  <1> QED BY <1>1, <1>2, ReuseInvariance, PTL DEF RSpec, ImplementsMealy

-----------------------------------------------------------------------------
(***************************************************************************)
(* BranchDistance183.  Evaluate and Record are folded over sequences, and  *)
(* a fold is a CHOOSE of a recursive function on sets of indices: that the *)
(* function exists, and so what the fold does step by step, comes first.   *)
(***************************************************************************)
\* The largest element of a set of numbers that has one.
LEMMA MaxIs ==
  ASSUME NEW S \in SUBSET Int, NEW m \in S, \A k \in S : k <= m
  PROVE  Max(S) = m
  <1>1. \A k \in S : m >= k
    OBVIOUS
  <1>2. \A x \in S : (\A y \in S : x >= y) => x = m
    BY <1>1
  <1> QED BY <1>1, <1>2 DEF Max

\* f folds Evaluate over the conditions whose indices are in a set, in their order.
EvalEq(f, D, base, seq) ==
  f = [s \in SUBSET D |-> IF s = {} THEN base
                          ELSE Evaluate(f[s \ {Max(s)}], seq[Max(s)])]

Evaluated(base, seq) == FoldLeft(Evaluate, base, seq)

LEMMA EvaluateFold ==
  ASSUME NEW base, NEW seq
  PROVE  Evaluated(base, seq) =
           (CHOOSE f : EvalEq(f, DOMAIN seq, base, seq))[DOMAIN seq]
  BY Zenon DEF Evaluated, FoldLeft, MapThenFoldSet, EvalEq

LEMMA EvaluateExists ==
  ASSUME NEW base, NEW seq, NEW n \in Nat
  PROVE  \E f : EvalEq(f, 1 .. n, base, seq)
  <1> DEFINE S == {m \in 0 .. n : \E f : EvalEq(f, 1 .. m, base, seq)}
  <1>1. 0 \in S
    <2> DEFINE f == [s \in SUBSET (1 .. 0) |-> base]
    <2>1. \A s \in SUBSET (1 .. 0) : s = {}
      OBVIOUS
    <2>2. EvalEq(f, 1 .. 0, base, seq)
      BY <2>1, Zenon DEF EvalEq
    <2> QED BY <2>2
  <1>2. ASSUME NEW m \in 0 .. n - 1, m \in S PROVE m + 1 \in S
    <2>1. PICK f : EvalEq(f, 1 .. m, base, seq)
      BY <1>2
    <2>2. m \in Nat /\ 1 .. m \subseteq 1 .. m + 1 /\ m + 1 \in 0 .. n
      OBVIOUS
    <2> DEFINE step(s) == IF s \in SUBSET (1 .. m) THEN f[s]
                          ELSE Evaluate(f[s \ {m + 1}], seq[m + 1])
               h == [s \in SUBSET (1 .. m + 1) |-> step(s)]
    <2>3. ASSUME NEW s \in SUBSET (1 .. m)
          PROVE  /\ h[s] = f[s]
                 /\ f[s] = IF s = {} THEN base ELSE Evaluate(f[s \ {Max(s)}], seq[Max(s)])
      <3>1. s \in SUBSET (1 .. m + 1)
        BY <2>2
      <3>2. h[s] = f[s]
        BY <3>1
      <3> QED BY <2>1, <3>2 DEF EvalEq
    <2>4. ASSUME NEW s \in SUBSET (1 .. m + 1), s \notin SUBSET (1 .. m)
          PROVE  /\ s # {} /\ s \ {m + 1} \in SUBSET (1 .. m) /\ Max(s) = m + 1
                 /\ h[s] = Evaluate(f[s \ {m + 1}], seq[m + 1])
      <3>1. m + 1 \in s /\ s \ {m + 1} \in SUBSET (1 .. m) /\ s \in SUBSET Int /\ \A k \in s : k <= m + 1
        BY <2>2, <2>4
      <3>2. Max(s) = m + 1
        BY <3>1, MaxIs
      <3>3. h[s] = Evaluate(f[s \ {m + 1}], seq[m + 1])
        BY <2>4
      <3> QED BY <3>1, <3>2, <3>3
    <2>5. h = [s \in SUBSET (1 .. m + 1) |-> h[s]]
      OBVIOUS
    <2> HIDE DEF h
    <2>6. ASSUME NEW s \in SUBSET (1 .. m + 1)
          PROVE  h[s] = IF s = {} THEN base ELSE Evaluate(h[s \ {Max(s)}], seq[Max(s)])
      <3>1. CASE s \in SUBSET (1 .. m)
        <4>1. s \ {Max(s)} \in SUBSET (1 .. m)
          BY <3>1
        <4>2. h[s \ {Max(s)}] = f[s \ {Max(s)}]
          BY <2>3, <4>1
        <4> QED BY <2>3, <3>1, <4>2
      <3>2. CASE s \notin SUBSET (1 .. m)
        <4>1. /\ s # {} /\ s \ {m + 1} \in SUBSET (1 .. m) /\ Max(s) = m + 1
              /\ h[s] = Evaluate(f[s \ {m + 1}], seq[m + 1])
          BY <2>4, <3>2
        <4>2. h[s \ {m + 1}] = f[s \ {m + 1}]
          BY <2>3, <4>1
        <4> QED BY <4>1, <4>2
      <3> QED BY <3>1, <3>2
    <2>7. EvalEq(h, 1 .. m + 1, base, seq)
      BY <2>5, <2>6, Zenon DEF EvalEq
    <2> QED BY <2>2, <2>7
  <1>3. n \in S
    <2> HIDE DEF S
    <2> QED BY <1>1, <1>2, J!Climbs
  <1> QED BY <1>3

\* g holds the state before the first and after each of the first n.
Evaluates(g, base, seq, n) ==
  g[0] = base /\ \A k \in 1 .. n : g[k] = Evaluate(g[k - 1], seq[k])

LEMMA EvaluateSteps ==
  ASSUME NEW base, NEW seq, NEW n \in Nat, DOMAIN seq = 1 .. n
  PROVE  \E g : Evaluates(g, base, seq, n) /\ Evaluated(base, seq) = g[n]
  <1> DEFINE c == CHOOSE f : EvalEq(f, 1 .. n, base, seq)
             g == [k \in 0 .. n |-> c[1 .. k]]
  <1>1. EvalEq(c, 1 .. n, base, seq)
    BY EvaluateExists
  <1>2. Evaluated(base, seq) = c[1 .. n]
    BY EvaluateFold
  <1> HIDE DEF c
  <1>3. ASSUME NEW s \in SUBSET (1 .. n)
        PROVE  c[s] = IF s = {} THEN base ELSE Evaluate(c[s \ {Max(s)}], seq[Max(s)])
    BY <1>1 DEF EvalEq
  <1>4. g[0] = base
    <2>1. 1 .. 0 = {} /\ 1 .. 0 \in SUBSET (1 .. n) /\ g[0] = c[1 .. 0]
      OBVIOUS
    <2> QED BY <1>3, <2>1
  <1>5. ASSUME NEW k \in 1 .. n PROVE g[k] = Evaluate(g[k - 1], seq[k])
    <2>1. /\ 1 .. k \in SUBSET (1 .. n) /\ 1 .. k # {}
          /\ k \in 1 .. k /\ 1 .. k \in SUBSET Int /\ \A j \in 1 .. k : j <= k
      OBVIOUS
    <2>2. Max(1 .. k) = k
      BY <2>1, MaxIs
    <2>3. (1 .. k) \ {k} = 1 .. (k - 1)
      OBVIOUS
    <2>4. g[k] = c[1 .. k] /\ g[k - 1] = c[1 .. (k - 1)]
      <3>1. k \in 0 .. n /\ k - 1 \in 0 .. n
        OBVIOUS
      <3> QED BY <3>1
    <2> HIDE DEF g
    <2> QED BY <1>3, <2>1, <2>2, <2>3, <2>4
  <1>6. g[n] = c[1 .. n]
    OBVIOUS
  <1> HIDE DEF g
  <1> QED BY <1>2, <1>4, <1>5, <1>6 DEF Evaluates

\* f folds Record over the tests whose indices are in a set, in their order.
RecEq(f, D, base, seq) ==
  f = [s \in SUBSET D |-> IF s = {} THEN base
                          ELSE Record(f[s \ {Max(s)}], seq[Max(s)])]

Recorded(base, seq) == FoldLeft(Record, base, seq)

LEMMA RecordFold ==
  ASSUME NEW base, NEW seq
  PROVE  Recorded(base, seq) =
           (CHOOSE f : RecEq(f, DOMAIN seq, base, seq))[DOMAIN seq]
  BY Zenon DEF Recorded, FoldLeft, MapThenFoldSet, RecEq

LEMMA RecordExists ==
  ASSUME NEW base, NEW seq, NEW n \in Nat
  PROVE  \E f : RecEq(f, 1 .. n, base, seq)
  <1> DEFINE S == {m \in 0 .. n : \E f : RecEq(f, 1 .. m, base, seq)}
  <1>1. 0 \in S
    <2> DEFINE f == [s \in SUBSET (1 .. 0) |-> base]
    <2>1. \A s \in SUBSET (1 .. 0) : s = {}
      OBVIOUS
    <2>2. RecEq(f, 1 .. 0, base, seq)
      BY <2>1, Zenon DEF RecEq
    <2> QED BY <2>2
  <1>2. ASSUME NEW m \in 0 .. n - 1, m \in S PROVE m + 1 \in S
    <2>1. PICK f : RecEq(f, 1 .. m, base, seq)
      BY <1>2
    <2>2. m \in Nat /\ 1 .. m \subseteq 1 .. m + 1 /\ m + 1 \in 0 .. n
      OBVIOUS
    <2> DEFINE step(s) == IF s \in SUBSET (1 .. m) THEN f[s]
                          ELSE Record(f[s \ {m + 1}], seq[m + 1])
               h == [s \in SUBSET (1 .. m + 1) |-> step(s)]
    <2>3. ASSUME NEW s \in SUBSET (1 .. m)
          PROVE  /\ h[s] = f[s]
                 /\ f[s] = IF s = {} THEN base ELSE Record(f[s \ {Max(s)}], seq[Max(s)])
      <3>1. s \in SUBSET (1 .. m + 1)
        BY <2>2
      <3>2. h[s] = f[s]
        BY <3>1
      <3> QED BY <2>1, <3>2 DEF RecEq
    <2>4. ASSUME NEW s \in SUBSET (1 .. m + 1), s \notin SUBSET (1 .. m)
          PROVE  /\ s # {} /\ s \ {m + 1} \in SUBSET (1 .. m) /\ Max(s) = m + 1
                 /\ h[s] = Record(f[s \ {m + 1}], seq[m + 1])
      <3>1. m + 1 \in s /\ s \ {m + 1} \in SUBSET (1 .. m) /\ s \in SUBSET Int /\ \A k \in s : k <= m + 1
        BY <2>2, <2>4
      <3>2. Max(s) = m + 1
        BY <3>1, MaxIs
      <3>3. h[s] = Record(f[s \ {m + 1}], seq[m + 1])
        BY <2>4
      <3> QED BY <3>1, <3>2, <3>3
    <2>5. h = [s \in SUBSET (1 .. m + 1) |-> h[s]]
      OBVIOUS
    <2> HIDE DEF h
    <2>6. ASSUME NEW s \in SUBSET (1 .. m + 1)
          PROVE  h[s] = IF s = {} THEN base ELSE Record(h[s \ {Max(s)}], seq[Max(s)])
      <3>1. CASE s \in SUBSET (1 .. m)
        <4>1. s \ {Max(s)} \in SUBSET (1 .. m)
          BY <3>1
        <4>2. h[s \ {Max(s)}] = f[s \ {Max(s)}]
          BY <2>3, <4>1
        <4> QED BY <2>3, <3>1, <4>2
      <3>2. CASE s \notin SUBSET (1 .. m)
        <4>1. /\ s # {} /\ s \ {m + 1} \in SUBSET (1 .. m) /\ Max(s) = m + 1
              /\ h[s] = Record(f[s \ {m + 1}], seq[m + 1])
          BY <2>4, <3>2
        <4>2. h[s \ {m + 1}] = f[s \ {m + 1}]
          BY <2>3, <4>1
        <4> QED BY <4>1, <4>2
      <3> QED BY <3>1, <3>2
    <2>7. RecEq(h, 1 .. m + 1, base, seq)
      BY <2>5, <2>6, Zenon DEF RecEq
    <2> QED BY <2>2, <2>7
  <1>3. n \in S
    <2> HIDE DEF S
    <2> QED BY <1>1, <1>2, J!Climbs
  <1> QED BY <1>3

\* g holds the state before the first and after each of the first n.
Records(g, base, seq, n) ==
  g[0] = base /\ \A k \in 1 .. n : g[k] = Record(g[k - 1], seq[k])

LEMMA RecordSteps ==
  ASSUME NEW base, NEW seq, NEW n \in Nat, DOMAIN seq = 1 .. n
  PROVE  \E g : Records(g, base, seq, n) /\ Recorded(base, seq) = g[n]
  <1> DEFINE c == CHOOSE f : RecEq(f, 1 .. n, base, seq)
             g == [k \in 0 .. n |-> c[1 .. k]]
  <1>1. RecEq(c, 1 .. n, base, seq)
    BY RecordExists
  <1>2. Recorded(base, seq) = c[1 .. n]
    BY RecordFold
  <1> HIDE DEF c
  <1>3. ASSUME NEW s \in SUBSET (1 .. n)
        PROVE  c[s] = IF s = {} THEN base ELSE Record(c[s \ {Max(s)}], seq[Max(s)])
    BY <1>1 DEF RecEq
  <1>4. g[0] = base
    <2>1. 1 .. 0 = {} /\ 1 .. 0 \in SUBSET (1 .. n) /\ g[0] = c[1 .. 0]
      OBVIOUS
    <2> QED BY <1>3, <2>1
  <1>5. ASSUME NEW k \in 1 .. n PROVE g[k] = Record(g[k - 1], seq[k])
    <2>1. /\ 1 .. k \in SUBSET (1 .. n) /\ 1 .. k # {}
          /\ k \in 1 .. k /\ 1 .. k \in SUBSET Int /\ \A j \in 1 .. k : j <= k
      OBVIOUS
    <2>2. Max(1 .. k) = k
      BY <2>1, MaxIs
    <2>3. (1 .. k) \ {k} = 1 .. (k - 1)
      OBVIOUS
    <2>4. g[k] = c[1 .. k] /\ g[k - 1] = c[1 .. (k - 1)]
      <3>1. k \in 0 .. n /\ k - 1 \in 0 .. n
        OBVIOUS
      <3> QED BY <3>1
    <2> HIDE DEF g
    <2> QED BY <1>3, <2>1, <2>2, <2>3, <2>4
  <1>6. g[n] = c[1 .. n]
    OBVIOUS
  <1> HIDE DEF g
  <1> QED BY <1>2, <1>4, <1>5, <1>6 DEF Records


-----------------------------------------------------------------------------
(***************************************************************************)
(* One test: what its comparisons leave in the temporaries and the list.   *)
(***************************************************************************)
Typed == [Bools -> BOOLEAN]
Types == {"myEquals", "myAnd", "myLess", "myLessEqual", "myGreaterEqual"}

IsList(lst) == \E S : lst \in Seq(S)

\* From st to s a comparison of type t has written v to temporary a, and is on record.
Writes(st, s, a, v) ==
  /\ s.bool \in Typed /\ s.bool[a] = v
  /\ \A n \in Bools \ {a} : s.bool[n] = st.bool[n]

Adds(st, s, t, a, v) ==
  /\ IsList(s.lst) /\ Len(s.lst) = Len(st.lst) + 1
  /\ \A i \in 1 .. Len(st.lst) : s.lst[i] = st.lst[i]
  /\ s.lst[Len(s.lst)].type = t /\ s.lst[Len(s.lst)].a = a /\ s.lst[Len(s.lst)].was = v

LEMMA ListFacts ==
  ASSUME NEW lst, IsList(lst)
  PROVE  Len(lst) \in Nat /\ DOMAIN lst = 1 .. Len(lst)
  BY DEF IsList

LEMMA AppendList ==
  ASSUME NEW lst, NEW e, IsList(lst)
  PROVE  /\ IsList(Append(lst, e)) /\ Len(Append(lst, e)) = Len(lst) + 1
         /\ \A i \in 1 .. Len(lst) : Append(lst, e)[i] = lst[i]
         /\ Append(lst, e)[Len(lst) + 1] = e
  <1>1. PICK S : lst \in Seq(S)
    BY DEF IsList
  <1>2. lst \in Seq(S \cup {e})
    BY <1>1, SeqMonotonic
  <1>3. Append(lst, e) \in Seq(S \cup {e})
    BY <1>2
  <1> QED BY <1>2, <1>3 DEF IsList

\* Writing one temporary.
LEMMA Written ==
  ASSUME NEW bo \in Typed, NEW k \in Bools, NEW v \in BOOLEAN
  PROVE  /\ [bo EXCEPT ![k] = v] \in Typed
         /\ [bo EXCEPT ![k] = v][k] = v
         /\ \A n \in Bools \ {k} : [bo EXCEPT ![k] = v][n] = bo[n]
  BY DEF Typed

\* One comparison that is recorded, and one that is not.
LEMMA EvaluateKept ==
  ASSUME NEW st, st.bool \in Typed, IsList(st.lst),
         NEW t, NEW a \in Bools, NEW b, NEW c, NEW v \in BOOLEAN,
         Outcome(Cond(t, a, b, c), st.bool) = v
  PROVE  LET s == Evaluate(st, Cond(t, a, b, c))
         IN  Writes(st, s, a, v) /\ Adds(st, s, t, a, v)
  <1> DEFINE w == Cond(t, a, b, c)
             s == Evaluate(st, w)
             bo == [st.bool EXCEPT ![a] = v]
             k == [type |-> t, a |-> a, b |-> b, c |-> c, was |-> v]
             lst == Append(st.lst, k)
  <1>1. w.type = t /\ w.a = a /\ w.b = b /\ w.c = c /\ w.kept
    BY DEF Cond
  <1>2. s.bool = bo /\ s.lst = lst
    <2> HIDE DEF w
    <2>1. Outcome(w, st.bool) = v
      BY DEF w
    <2> QED BY <1>1, <2>1, Zenon DEF Evaluate
  <1>3. k.type = t /\ k.a = a /\ k.was = v
    OBVIOUS
  <1>4. Writes(st, s, a, v)
    <2> HIDE DEF s
    <2> QED BY <1>2, Written DEF Writes
  <1>5. Adds(st, s, t, a, v)
    <2> HIDE DEF s, k
    <2>1. /\ IsList(lst) /\ Len(lst) = Len(st.lst) + 1 /\ lst[Len(st.lst) + 1] = k
          /\ \A i \in 1 .. Len(st.lst) : lst[i] = st.lst[i]
      BY AppendList
    <2> HIDE DEF lst
    <2> QED BY <1>2, <1>3, <2>1 DEF Adds
  <1> QED BY <1>4, <1>5

LEMMA EvaluateUnrecorded ==
  ASSUME NEW st, st.bool \in Typed,
         NEW t, NEW a \in Bools, NEW b, NEW c, NEW v \in BOOLEAN,
         Outcome(Cond(t, a, b, c), st.bool) = v
  PROVE  LET s == Evaluate(st, Unrecorded(Cond(t, a, b, c)))
         IN  Writes(st, s, a, v) /\ s.lst = st.lst
  <1> DEFINE u == Unrecorded(Cond(t, a, b, c))
             w == Cond(t, a, b, c)
             s == Evaluate(st, u)
  <1>1. u.type = t /\ u.a = a /\ u.b = b /\ u.c = c /\ ~ u.kept
    BY DEF Unrecorded, Cond
  <1>2. w.type = t /\ w.b = b /\ w.c = c
    BY DEF Cond
  <1>3. Outcome(u, st.bool) = v
    <2> HIDE DEF u, w
    <2>1. Outcome(u, st.bool) = Outcome(w, st.bool)
      BY <1>1, <1>2, Zenon DEF Outcome
    <2> QED BY <2>1 DEF w
  <1>4. s.bool = [st.bool EXCEPT ![a] = v] /\ s.lst = st.lst
    <2> HIDE DEF u, w
    <2> QED BY <1>1, <1>3, Zenon DEF Evaluate
  <1> HIDE DEF s
  <1>5. Writes(st, s, a, v)
    BY <1>4, Written DEF Writes
  <1> QED BY <1>4, <1>5 DEF s

\* What a comparison gives, by its type.
LEMMA Outcomes ==
  ASSUME NEW a, NEW b, NEW c, NEW bo
  PROVE  /\ Outcome(Cond("myEquals", a, b, c), bo) = (b = c)
         /\ Outcome(Cond("myAnd", a, b, c), bo) = (Deref(b, bo) /\ Deref(c, bo))
         /\ Outcome(Cond("myLess", a, b, c), bo) = (b < c)
         /\ Outcome(Cond("myLessEqual", a, b, c), bo) = (b <= c)
         /\ Outcome(Cond("myGreaterEqual", a, b, c), bo) = (b >= c)
  <1>1. ASSUME NEW w, w.b = b, w.c = c
        PROVE  /\ w.type = "myEquals" => Outcome(w, bo) = (b = c)
               /\ w.type = "myAnd" => Outcome(w, bo) = (Deref(b, bo) /\ Deref(c, bo))
               /\ w.type = "myLess" => Outcome(w, bo) = (b < c)
               /\ w.type = "myLessEqual" => Outcome(w, bo) = (b <= c)
               /\ w.type = "myGreaterEqual" => Outcome(w, bo) = (b >= c)
    <2>1. ASSUME w.type = "myEquals" PROVE Outcome(w, bo) = (b = c)
      BY <1>1, <2>1, Zenon DEF Outcome
    <2>2. ASSUME w.type = "myAnd" PROVE Outcome(w, bo) = (Deref(b, bo) /\ Deref(c, bo))
      BY <1>1, <2>2, Zenon DEF Outcome
    <2>3. ASSUME w.type = "myLess" PROVE Outcome(w, bo) = (b < c)
      BY <1>1, <2>3, Zenon DEF Outcome
    <2>4. ASSUME w.type = "myLessEqual" PROVE Outcome(w, bo) = (b <= c)
      BY <1>1, <2>4, Zenon DEF Outcome
    <2>5. ASSUME w.type = "myGreaterEqual" PROVE Outcome(w, bo) = (b >= c)
      BY <1>1, <2>5, Zenon DEF Outcome
    <2> QED BY <2>1, <2>2, <2>3, <2>4, <2>5
  <1>2. \A t : /\ Cond(t, a, b, c).type = t /\ Cond(t, a, b, c).b = b /\ Cond(t, a, b, c).c = c
    BY DEF Cond
  <1> QED BY <1>1, <1>2, Zenon

LEMMA Derefs ==
  ASSUME NEW bo, NEW k \in Bools, NEW v
  PROVE  Deref(Ref(k), bo) = bo[k] /\ Deref(Obj(v), bo) = v
  <1>1. k # 0
    BY DEF Bools
  <1>2. Ref(k).ref = k /\ Obj(v).ref = 0 /\ Obj(v).val = v
    BY DEF Ref, Obj
  <1> QED BY <1>1, <1>2, Zenon DEF Deref

\* The fold unfolded, for two and four comparisons.
LEMMA Evaluate2 ==
  ASSUME NEW s, NEW a, NEW b
  PROVE  Evaluated(s, <<a, b>>) = Evaluate(Evaluate(s, a), b)
  <1> DEFINE q == <<a, b>>
  <1>1. q[1] = a /\ q[2] = b /\ DOMAIN q = 1 .. 2
    OBVIOUS
  <1> HIDE DEF q
  <1>2. PICK g : Evaluates(g, s, q, 2) /\ Evaluated(s, q) = g[2]
    BY <1>1, EvaluateSteps, 2 \in Nat
  <1>3. g[1] = Evaluate(g[0], q[1])
    BY <1>2 DEF Evaluates
  <1>4. g[2] = Evaluate(g[1], q[2])
    BY <1>2 DEF Evaluates
  <1>5. Evaluated(s, q) = Evaluate(Evaluate(s, a), b)
    BY <1>1, <1>2, <1>3, <1>4 DEF Evaluates
  <1> QED BY <1>5 DEF q

LEMMA Evaluate4 ==
  ASSUME NEW s, NEW a, NEW b, NEW c, NEW d
  PROVE  Evaluated(s, <<a, b, c, d>>) = Evaluate(Evaluate(Evaluate(Evaluate(s, a), b), c), d)
  <1> DEFINE q == <<a, b, c, d>>
  <1>1. q[1] = a /\ q[2] = b /\ q[3] = c /\ q[4] = d /\ DOMAIN q = 1 .. 4
    OBVIOUS
  <1> HIDE DEF q
  <1>2. PICK g : Evaluates(g, s, q, 4) /\ Evaluated(s, q) = g[4]
    BY <1>1, EvaluateSteps, 4 \in Nat
  <1>3. g[1] = Evaluate(g[0], q[1])
    BY <1>2 DEF Evaluates
  <1>4. g[2] = Evaluate(g[1], q[2])
    BY <1>2 DEF Evaluates
  <1>5. g[3] = Evaluate(g[2], q[3])
    BY <1>2 DEF Evaluates
  <1>6. g[4] = Evaluate(g[3], q[4])
    BY <1>2 DEF Evaluates
  <1>7. Evaluated(s, q) = Evaluate(Evaluate(Evaluate(Evaluate(s, a), b), c), d)
    BY <1>1, <1>2, <1>3, <1>4, <1>5, <1>6 DEF Evaluates
  <1> QED BY <1>7 DEF q

\* The state a test's comparisons start from, and the one they end in.
Fresh0(bo)     == [bool |-> bo, lst |-> <<>>]
Done(bo, test) == Evaluated(Fresh0(bo), test.conds)

\* What every test of CalculateOutput leaves alone, and what it puts on record.
Tidy(bo, r) ==
  /\ r.bool \in Typed
  /\ \A n \in 5 .. 9 : r.bool[n] = bo[n]
  /\ IsList(r.lst)
  /\ \A i \in DOMAIN r.lst : r.lst[i].type \in Types

Sane(test) == test.kind # "main" /\ \A bo \in Typed : Tidy(bo, Done(bo, test))

\* The last recorded comparison came out as v.
Ends(lst, v) == lst[Len(lst)].was = v

Yields(test, v) == \A bo \in Typed : Ends(Done(bo, test).lst, v)

LEMMA FreshFacts ==
  ASSUME NEW bo
  PROVE  /\ Fresh0(bo).bool = bo /\ IsList(Fresh0(bo).lst) /\ Len(Fresh0(bo).lst) = 0
         /\ Fresh0(bo).lst = <<>>
  <1>1. Fresh0(bo).bool = bo /\ Fresh0(bo).lst = <<>>
    BY DEF Fresh0
  <1>2. <<>> \in Seq({}) /\ Len(<<>>) = 0
    OBVIOUS
  <1> QED BY <1>1, <1>2 DEF IsList

LEMMA LowerIndices ==
  /\ 1 \in Bools /\ 2 \in Bools /\ 3 \in Bools /\ 4 \in Bools
  /\ \A n \in 5 .. 9 : n \in Bools \ {1, 2, 3, 4}
  BY DEF Bools

\* A list keeps its types when a comparison is added.
TypesKnown(lst) == \A i \in DOMAIN lst : lst[i].type \in Types

LEMMA AddsTypes ==
  ASSUME NEW st, NEW s, NEW t \in Types, NEW a, NEW v, Adds(st, s, t, a, v),
         IsList(st.lst), TypesKnown(st.lst)
  PROVE  TypesKnown(s.lst)
  <1>1. /\ Len(st.lst) \in Nat /\ DOMAIN st.lst = 1 .. Len(st.lst)
        /\ Len(s.lst) \in Nat /\ DOMAIN s.lst = 1 .. Len(s.lst)
    BY ListFacts DEF Adds
  <1>2. ASSUME NEW i \in 1 .. Len(s.lst) PROVE s.lst[i].type \in Types
    <2>1. CASE i = Len(s.lst)
      BY <2>1 DEF Adds
    <2>2. CASE i # Len(s.lst)
      <3>1. i \in 1 .. Len(st.lst)
        BY <1>1, <2>2 DEF Adds
      <3> QED BY <1>1, <3>1 DEF Adds, TypesKnown
    <2> QED BY <2>1, <2>2
  <1> QED BY <1>1, <1>2 DEF TypesKnown

LEMMA WindowTells ==
  ASSUME NEW kind, NEW lo \in Int, NEW x \in Int, NEW hi \in Int, NEW c \in BOOLEAN,
         kind # "main"
  PROVE  /\ WindowTest(kind, lo, x, hi, c).kind = kind
         /\ Sane(WindowTest(kind, lo, x, hi, c))
         /\ Yields(WindowTest(kind, lo, x, hi, c), c /\ lo < x /\ hi >= x)
  <1> DEFINE t == WindowTest(kind, lo, x, hi, c)
             v1 == lo < x
             v2 == hi >= x
             v3 == v1 /\ v2
             v4 == c /\ v3
  <1>1. /\ t.kind = kind
        /\ t.conds = <<Cond("myLess", 1, lo, x), Cond("myGreaterEqual", 2, hi, x),
                       Cond("myAnd", 3, Ref(1), Ref(2)), Cond("myAnd", 4, Obj(c), Ref(3))>>
    BY DEF WindowTest, Test
  <1>2. v1 \in BOOLEAN /\ v2 \in BOOLEAN /\ v3 \in BOOLEAN /\ v4 \in BOOLEAN
    OBVIOUS
  <1>3. v3 = (v1 /\ v2) /\ v4 = (c /\ v3) /\ v1 = (lo < x) /\ v2 = (hi >= x)
    OBVIOUS
  <1>4. v4 = (c /\ lo < x /\ hi >= x)
    OBVIOUS
  <1> HIDE DEF t, v1, v2, v3, v4
  <1>5. ASSUME NEW bo \in Typed
        PROVE  Tidy(bo, Done(bo, t)) /\ Ends(Done(bo, t).lst, v4)
    <2> DEFINE s0 == Fresh0(bo)
               s1 == Evaluate(s0, Cond("myLess", 1, lo, x))
               s2 == Evaluate(s1, Cond("myGreaterEqual", 2, hi, x))
               s3 == Evaluate(s2, Cond("myAnd", 3, Ref(1), Ref(2)))
               s4 == Evaluate(s3, Cond("myAnd", 4, Obj(c), Ref(3)))
    <2>0. Done(bo, t) = s4
      BY <1>1, Evaluate4 DEF Done
    <2> HIDE DEF s0
    <2>1. s0.bool = bo /\ IsList(s0.lst) /\ TypesKnown(s0.lst)
      BY FreshFacts, ListFacts DEF s0, TypesKnown
    <2>2. Writes(s0, s1, 1, v1) /\ Adds(s0, s1, "myLess", 1, v1)
      <3>1. Outcome(Cond("myLess", 1, lo, x), s0.bool) = v1
        BY <1>3, Outcomes
      <3> QED BY <1>2, <2>1, <3>1, EvaluateKept, LowerIndices
    <2> HIDE DEF s1
    <2>3. Writes(s1, s2, 2, v2) /\ Adds(s1, s2, "myGreaterEqual", 2, v2)
      <3>1. Outcome(Cond("myGreaterEqual", 2, hi, x), s1.bool) = v2
        BY <1>3, Outcomes
      <3>4. s1.bool \in Typed /\ IsList(s1.lst)
        BY <2>2 DEF Writes, Adds
      <3> QED BY <1>2, <3>1, <3>4, EvaluateKept, LowerIndices
    <2> HIDE DEF s2
    <2>4. Writes(s2, s3, 3, v3) /\ Adds(s2, s3, "myAnd", 3, v3)
      <3>1. s2.bool[1] = v1 /\ s2.bool[2] = v2
        BY <2>2, <2>3, LowerIndices DEF Writes
      <3>2. Deref(Ref(1), s2.bool) = v1 /\ Deref(Ref(2), s2.bool) = v2
        BY <3>1, Derefs, LowerIndices
      <3>3. Outcome(Cond("myAnd", 3, Ref(1), Ref(2)), s2.bool) = v3
        BY <1>3, <3>2, Outcomes
      <3>4. s2.bool \in Typed /\ IsList(s2.lst)
        BY <2>3 DEF Writes, Adds
      <3> QED BY <1>2, <3>3, <3>4, EvaluateKept, LowerIndices
    <2> HIDE DEF s3
    <2>5. Writes(s3, s4, 4, v4) /\ Adds(s3, s4, "myAnd", 4, v4)
      <3>1. Deref(Obj(c), s3.bool) = c /\ Deref(Ref(3), s3.bool) = v3
        BY <2>4, Derefs, LowerIndices DEF Writes
      <3>2. Outcome(Cond("myAnd", 4, Obj(c), Ref(3)), s3.bool) = v4
        BY <1>3, <3>1, Outcomes
      <3>4. s3.bool \in Typed /\ IsList(s3.lst)
        BY <2>4 DEF Writes, Adds
      <3> QED BY <1>2, <3>2, <3>4, EvaluateKept, LowerIndices
    <2> HIDE DEF s4
    <2>6. TypesKnown(s4.lst)
      <3>1. "myLess" \in Types /\ "myGreaterEqual" \in Types /\ "myAnd" \in Types
        BY DEF Types
      <3>2. TypesKnown(s1.lst) /\ IsList(s1.lst)
        BY <2>1, <2>2, <3>1, AddsTypes DEF Adds
      <3>3. TypesKnown(s2.lst) /\ IsList(s2.lst)
        BY <2>3, <3>1, <3>2, AddsTypes DEF Adds
      <3>4. TypesKnown(s3.lst) /\ IsList(s3.lst)
        BY <2>4, <3>1, <3>3, AddsTypes DEF Adds
      <3> QED BY <2>5, <3>1, <3>4, AddsTypes
    <2>7. \A n \in 5 .. 9 : s4.bool[n] = bo[n]
      BY <2>1, <2>2, <2>3, <2>4, <2>5, LowerIndices DEF Writes
    <2>8. Tidy(bo, s4)
      BY <2>5, <2>6, <2>7 DEF Tidy, TypesKnown, Writes, Adds
    <2>9. Ends(s4.lst, v4)
      BY <2>5 DEF Adds, Ends
    <2> QED BY <2>0, <2>8, <2>9
  <1>6. Sane(t) /\ Yields(t, v4)
    BY <1>1, <1>5 DEF Sane, Yields
  <1> QED BY <1>1, <1>4, <1>6 DEF t

\* A comparison followed by its && with cf.
LEMMA PairTells ==
  ASSUME NEW t, t.kind # "main", NEW type \in Types, NEW p, NEW q, NEW c \in BOOLEAN,
         t.conds = <<Cond(type, 1, p, q), Cond("myAnd", 2, Obj(c), Ref(1))>>,
         NEW v \in BOOLEAN, \A bo : Outcome(Cond(type, 1, p, q), bo) = v
  PROVE  Sane(t) /\ Yields(t, c /\ v)
  <1> DEFINE w == c /\ v
  <1>1. w \in BOOLEAN /\ w = (c /\ v)
    OBVIOUS
  <1> HIDE DEF w
  <1>2. ASSUME NEW bo \in Typed
        PROVE  Tidy(bo, Done(bo, t)) /\ Ends(Done(bo, t).lst, w)
    <2> DEFINE s0 == Fresh0(bo)
               s1 == Evaluate(s0, Cond(type, 1, p, q))
               s2 == Evaluate(s1, Cond("myAnd", 2, Obj(c), Ref(1)))
    <2>0. Done(bo, t) = s2
      BY Evaluate2 DEF Done
    <2> HIDE DEF s0
    <2>1. s0.bool = bo /\ IsList(s0.lst) /\ TypesKnown(s0.lst)
      BY FreshFacts, ListFacts DEF s0, TypesKnown
    <2>2. Writes(s0, s1, 1, v) /\ Adds(s0, s1, type, 1, v)
      BY <2>1, EvaluateKept, LowerIndices
    <2> HIDE DEF s1
    <2>3. Writes(s1, s2, 2, w) /\ Adds(s1, s2, "myAnd", 2, w)
      <3>1. Deref(Obj(c), s1.bool) = c /\ Deref(Ref(1), s1.bool) = v
        BY <2>2, Derefs, LowerIndices DEF Writes
      <3>2. Outcome(Cond("myAnd", 2, Obj(c), Ref(1)), s1.bool) = w
        BY <1>1, <3>1, Outcomes
      <3>3. s1.bool \in Typed /\ IsList(s1.lst)
        BY <2>2 DEF Writes, Adds
      <3> QED BY <1>1, <3>2, <3>3, EvaluateKept, LowerIndices
    <2> HIDE DEF s2
    <2>4. TypesKnown(s2.lst)
      <3>1. "myAnd" \in Types
        BY DEF Types
      <3>2. TypesKnown(s1.lst) /\ IsList(s1.lst)
        BY <2>1, <2>2, AddsTypes DEF Adds
      <3> QED BY <2>3, <3>1, <3>2, AddsTypes
    <2>5. \A n \in 5 .. 9 : s2.bool[n] = bo[n]
      BY <2>1, <2>2, <2>3, LowerIndices DEF Writes
    <2>6. Tidy(bo, s2)
      BY <2>3, <2>4, <2>5 DEF Tidy, TypesKnown, Writes, Adds
    <2>7. Ends(s2.lst, w)
      BY <2>3 DEF Adds, Ends
    <2> QED BY <2>0, <2>6, <2>7
  <1>3. Sane(t) /\ Yields(t, w)
    BY <1>2 DEF Sane, Yields
  <1> QED BY <1>3, <1>1

LEMMA LastRangeTells ==
  ASSUME NEW x \in Int, NEW c \in BOOLEAN
  PROVE  /\ LastRangeTest(x, c).kind = "range"
         /\ Sane(LastRangeTest(x, c))
         /\ Yields(LastRangeTest(x, c), c /\ 100 < x)
  <1> DEFINE t == LastRangeTest(x, c)
             v == 100 < x
  <1>1. t.kind = "range" /\ t.conds = <<Cond("myLess", 1, 100, x), Cond("myAnd", 2, Obj(c), Ref(1))>>
    BY DEF LastRangeTest, Test
  <1>2. v \in BOOLEAN
    OBVIOUS
  <1>6. v = (100 < x)
    OBVIOUS
  <1> HIDE DEF t, v
  <1>3. \A bo : Outcome(Cond("myLess", 1, 100, x), bo) = v
    BY <1>6, Outcomes
  <1>4. "myLess" \in Types
    BY DEF Types
  <1>5. Sane(t) /\ Yields(t, c /\ v)
    BY <1>1, <1>2, <1>3, <1>4, PairTells
  <1> QED BY <1>1, <1>5, <1>6 DEF t

LEMMA StringTells ==
  ASSUME NEW kind, kind # "main", NEW s, NEW x, NEW c \in BOOLEAN
  PROVE  /\ StringTest(kind, s, x, c).kind = kind
         /\ Sane(StringTest(kind, s, x, c))
         /\ Yields(StringTest(kind, s, x, c), c /\ s = x)
  <1> DEFINE t == StringTest(kind, s, x, c)
             v == s = x
  <1>1. t.kind = kind /\ t.conds = <<Cond("myEquals", 1, s, x), Cond("myAnd", 2, Obj(c), Ref(1))>>
    BY DEF StringTest, Test
  <1>2. v \in BOOLEAN
    OBVIOUS
  <1>6. v = (s = x)
    OBVIOUS
  <1> HIDE DEF t, v
  <1>3. \A bo : Outcome(Cond("myEquals", 1, s, x), bo) = v
    BY <1>6, Outcomes
  <1>4. "myEquals" \in Types
    BY DEF Types
  <1>5. Sane(t) /\ Yields(t, c /\ v)
    BY <1>1, <1>2, <1>3, <1>4, PairTells
  <1> QED BY <1>1, <1>5, <1>6 DEF t

LEMMA FirstRangeTells ==
  ASSUME NEW x \in Int, NEW c \in BOOLEAN
  PROVE  /\ FirstRangeTest(x, c).kind = "range"
         /\ Sane(FirstRangeTest(x, c))
         /\ Yields(FirstRangeTest(x, c), x <= -164)
  <1> DEFINE t == FirstRangeTest(x, c)
             v == x <= -164
             w == c /\ v
  <1>1. /\ t.kind = "range"
        /\ t.conds = <<Cond("myLessEqual", 1, x, -164), Unrecorded(Cond("myAnd", 2, Obj(c), Ref(1)))>>
    BY DEF FirstRangeTest, Test
  <1>2. v \in BOOLEAN /\ w \in BOOLEAN
    OBVIOUS
  <1>5. v = (x <= -164) /\ w = (c /\ v)
    OBVIOUS
  <1> HIDE DEF t, v, w
  <1>3. ASSUME NEW bo \in Typed
        PROVE  Tidy(bo, Done(bo, t)) /\ Ends(Done(bo, t).lst, v)
    <2> DEFINE s0 == Fresh0(bo)
               s1 == Evaluate(s0, Cond("myLessEqual", 1, x, -164))
               s2 == Evaluate(s1, Unrecorded(Cond("myAnd", 2, Obj(c), Ref(1))))
    <2>0. Done(bo, t) = s2
      BY <1>1, Evaluate2 DEF Done
    <2> HIDE DEF s0
    <2>1. s0.bool = bo /\ IsList(s0.lst) /\ TypesKnown(s0.lst)
      BY FreshFacts, ListFacts DEF s0, TypesKnown
    <2>2. Writes(s0, s1, 1, v) /\ Adds(s0, s1, "myLessEqual", 1, v)
      <3>1. Outcome(Cond("myLessEqual", 1, x, -164), s0.bool) = v
        BY <1>5, Outcomes
      <3> QED BY <1>2, <2>1, <3>1, EvaluateKept, LowerIndices
    <2> HIDE DEF s1
    <2>3. Writes(s1, s2, 2, w) /\ s2.lst = s1.lst
      <3>1. Deref(Obj(c), s1.bool) = c /\ Deref(Ref(1), s1.bool) = v
        BY <2>2, Derefs, LowerIndices DEF Writes
      <3>2. Outcome(Cond("myAnd", 2, Obj(c), Ref(1)), s1.bool) = w
        BY <1>5, <3>1, Outcomes
      <3>3. s1.bool \in Typed
        BY <2>2 DEF Writes
      <3> QED BY <1>2, <3>2, <3>3, EvaluateUnrecorded, LowerIndices
    <2> HIDE DEF s2
    <2>4. TypesKnown(s1.lst) /\ IsList(s1.lst)
      <3>1. "myLessEqual" \in Types
        BY DEF Types
      <3> QED BY <2>1, <2>2, <3>1, AddsTypes DEF Adds
    <2>5. \A n \in 5 .. 9 : s2.bool[n] = bo[n]
      BY <2>1, <2>2, <2>3, LowerIndices DEF Writes
    <2>6. Tidy(bo, s2)
      BY <2>3, <2>4, <2>5 DEF Tidy, TypesKnown, Writes
    <2>7. Ends(s2.lst, v)
      BY <2>2, <2>3 DEF Adds, Ends
    <2> QED BY <2>0, <2>6, <2>7
  <1>4. Sane(t) /\ Yields(t, v)
    BY <1>1, <1>3 DEF Sane, Yields
  <1> QED BY <1>1, <1>4, <1>5 DEF t

\* The last Branch of a call has no comparison.
LEMMA EmptySane == Test("cf", input, <<>>).kind = "cf" /\ Sane(Test("cf", input, <<>>))
  <1> DEFINE t == Test("cf", input, <<>>)
  <1>1. t.kind = "cf" /\ t.conds = <<>>
    BY DEF Test
  <1> HIDE DEF t
  <1>2. DOMAIN t.conds = 1 .. 0
    BY <1>1
  <1>3. ASSUME NEW bo \in Typed PROVE Tidy(bo, Done(bo, t))
    <2>1. PICK g : Evaluates(g, Fresh0(bo), t.conds, 0) /\ Evaluated(Fresh0(bo), t.conds) = g[0]
      BY <1>2, EvaluateSteps, 0 \in Nat
    <2>2. Done(bo, t) = Fresh0(bo)
      BY <2>1 DEF Done, Evaluates
    <2>3. \A i \in DOMAIN Fresh0(bo).lst : FALSE
      BY FreshFacts, ListFacts
    <2> QED BY <2>2, <2>3, FreshFacts DEF Tidy
  <1> QED BY <1>1, <1>3 DEF Sane, t

-----------------------------------------------------------------------------
(***************************************************************************)
(* The tests of one call: how many of the range tests and of the input     *)
(* tests come out true.                                                    *)
(***************************************************************************)
Hit(t, kind)  == t.kind = kind /\ Yields(t, TRUE)
Miss(t, kind) == t.kind = kind => Yields(t, FALSE)

None(s, kind) == \A i \in 1 .. Len(s) : Miss(s[i], kind)
One(s, kind)  == \E i \in 1 .. Len(s) :
                   Hit(s[i], kind) /\ \A j \in (1 .. Len(s)) \ {i} : Miss(s[j], kind)

Score(s, kind, n) == (n = 0 /\ None(s, kind)) \/ (n = 1 /\ One(s, kind))

AllSane(s) == IsList(s) /\ \A i \in 1 .. Len(s) : Sane(s[i])

Tally(s, r, h) == AllSane(s) /\ Score(s, "range", r) /\ Score(s, "input", h)

LEMMA JoinList ==
  ASSUME NEW s, NEW t, IsList(s), IsList(t)
  PROVE  /\ IsList(s \o t) /\ Len(s \o t) = Len(s) + Len(t)
         /\ \A i \in 1 .. Len(s) : (s \o t)[i] = s[i]
         /\ \A i \in 1 .. Len(t) : (s \o t)[Len(s) + i] = t[i]
         /\ \A i \in 1 .. Len(s \o t) :
              i \in 1 .. Len(s) \/ (i - Len(s) \in 1 .. Len(t) /\ (s \o t)[i] = t[i - Len(s)])
  <1>1. PICK S : s \in Seq(S)
    BY DEF IsList
  <1>2. PICK Q : t \in Seq(Q)
    BY DEF IsList
  <1> DEFINE U == S \cup Q
  <1>3. s \in Seq(U) /\ t \in Seq(U)
    BY <1>1, <1>2, SeqMonotonic
  <1> HIDE DEF U
  <1>4. /\ s \o t \in Seq(U) /\ Len(s \o t) = Len(s) + Len(t)
        /\ \A i \in 1 .. Len(s) + Len(t) :
             (s \o t)[i] = IF i <= Len(s) THEN s[i] ELSE t[i - Len(s)]
    BY <1>3, ConcatProperties
  <1>5. Len(s) \in Nat /\ Len(t) \in Nat
    BY ListFacts
  <1>6. IsList(s \o t)
    BY <1>4 DEF IsList
  <1>7. ASSUME NEW i \in 1 .. Len(s) PROVE (s \o t)[i] = s[i]
    BY <1>4, <1>5
  <1>8. ASSUME NEW i \in 1 .. Len(t) PROVE (s \o t)[Len(s) + i] = t[i]
    <2>1. Len(s) + i \in 1 .. Len(s) + Len(t) /\ ~(Len(s) + i <= Len(s)) /\ Len(s) + i - Len(s) = i
      BY <1>5
    <2> QED BY <1>4, <2>1
  <1>9. ASSUME NEW i \in 1 .. Len(s \o t), i \notin 1 .. Len(s)
        PROVE  i - Len(s) \in 1 .. Len(t) /\ (s \o t)[i] = t[i - Len(s)]
    BY <1>4, <1>5, <1>9
  <1> QED BY <1>4, <1>6, <1>7, <1>8, <1>9

LEMMA ScoreJoin ==
  ASSUME NEW s, NEW t, IsList(s), IsList(t), NEW kind, NEW m, NEW n,
         Score(s, kind, m), Score(t, kind, n), m = 0 \/ n = 0
  PROVE  Score(s \o t, kind, m + n)
  <1> DEFINE u == s \o t
  <1>1. /\ Len(u) = Len(s) + Len(t) /\ Len(s) \in Nat /\ Len(t) \in Nat
        /\ \A i \in 1 .. Len(s) : u[i] = s[i]
        /\ \A i \in 1 .. Len(t) : u[Len(s) + i] = t[i]
        /\ \A i \in 1 .. Len(u) :
              i \in 1 .. Len(s) \/ (i - Len(s) \in 1 .. Len(t) /\ u[i] = t[i - Len(s)])
    BY JoinList, ListFacts
  <1> HIDE DEF u
  <1>2. CASE m = 0 /\ n = 0
    <2>1. None(s, kind) /\ None(t, kind)
      BY <1>2 DEF Score
    <2>2. None(u, kind)
      BY <1>1, <2>1 DEF None
    <2> QED BY <1>2, <2>2 DEF Score, u
  <1>3. CASE m = 1 /\ n = 0
    <2>1. One(s, kind) /\ None(t, kind)
      BY <1>3 DEF Score
    <2>2. PICK i \in 1 .. Len(s) : Hit(s[i], kind) /\ \A j \in (1 .. Len(s)) \ {i} : Miss(s[j], kind)
      BY <2>1 DEF One
    <2>3. i \in 1 .. Len(u) /\ Hit(u[i], kind)
      BY <1>1, <2>2
    <2>4. ASSUME NEW j \in (1 .. Len(u)) \ {i} PROVE Miss(u[j], kind)
      <3>1. CASE j \in 1 .. Len(s)
        BY <1>1, <2>2, <3>1
      <3>2. CASE j \notin 1 .. Len(s)
        BY <1>1, <2>1, <3>2 DEF None
      <3> QED BY <3>1, <3>2
    <2>5. One(u, kind)
      BY <2>3, <2>4 DEF One
    <2> QED BY <1>3, <2>5 DEF Score, u
  <1>4. CASE m = 0 /\ n = 1
    <2>1. None(s, kind) /\ One(t, kind)
      BY <1>4 DEF Score
    <2>2. PICK i \in 1 .. Len(t) : Hit(t[i], kind) /\ \A j \in (1 .. Len(t)) \ {i} : Miss(t[j], kind)
      BY <2>1 DEF One
    <2>3. Len(s) + i \in 1 .. Len(u) /\ Hit(u[Len(s) + i], kind)
      BY <1>1, <2>2
    <2>4. ASSUME NEW j \in (1 .. Len(u)) \ {Len(s) + i} PROVE Miss(u[j], kind)
      <3>1. CASE j \in 1 .. Len(s)
        BY <1>1, <2>1, <3>1 DEF None
      <3>2. CASE j \notin 1 .. Len(s)
        <4>1. j - Len(s) \in 1 .. Len(t) /\ u[j] = t[j - Len(s)]
          BY <1>1, <3>2
        <4>2. j - Len(s) # i
          BY <1>1
        <4> QED BY <2>2, <4>1, <4>2
      <3> QED BY <3>1, <3>2
    <2>5. One(u, kind)
      BY <2>3, <2>4 DEF One
    <2> QED BY <1>4, <2>5 DEF Score, u
  <1> QED BY <1>2, <1>3, <1>4 DEF Score

LEMMA TallyJoin ==
  ASSUME NEW s, NEW t, NEW r \in Nat, NEW h \in Nat, NEW q \in Nat, NEW g \in Nat,
         Tally(s, r, h), Tally(t, q, g), r = 0 \/ q = 0, h = 0 \/ g = 0
  PROVE  Tally(s \o t, r + q, h + g)
  <1>1. IsList(s) /\ IsList(t)
    BY DEF Tally, AllSane
  <1>2. Score(s \o t, "range", r + q) /\ Score(s \o t, "input", h + g)
    BY <1>1, ScoreJoin DEF Tally
  <1>3. /\ IsList(s \o t) /\ Len(s) \in Nat /\ Len(t) \in Nat
        /\ \A i \in 1 .. Len(s) : (s \o t)[i] = s[i]
        /\ \A i \in 1 .. Len(s \o t) :
             i \in 1 .. Len(s) \/ (i - Len(s) \in 1 .. Len(t) /\ (s \o t)[i] = t[i - Len(s)])
    BY <1>1, JoinList, ListFacts
  <1>4. \A i \in 1 .. Len(s \o t) : Sane((s \o t)[i])
    BY <1>3 DEF Tally, AllSane
  <1> QED BY <1>2, <1>3, <1>4 DEF Tally, AllSane

LEMMA TallyEmpty == Tally(<<>>, 0, 0)
  <1>1. IsList(<<>>) /\ Len(<<>>) = 0
    <2>1. <<>> \in Seq({}) /\ Len(<<>>) = 0
      OBVIOUS
    <2> QED BY <2>1 DEF IsList
  <1>2. \A i \in 1 .. Len(<<>>) : FALSE
    BY <1>1
  <1> QED BY <1>1, <1>2 DEF Tally, AllSane, Score, None

LEMMA SingleList ==
  ASSUME NEW t
  PROVE  IsList(<<t>>) /\ Len(<<t>>) = 1 /\ <<t>>[1] = t
  <1>1. <<t>> \in Seq({t}) /\ Len(<<t>>) = 1 /\ <<t>>[1] = t
    OBVIOUS
  <1> QED BY <1>1 DEF IsList

\* One test, by its kind and what it yields.
LEMMA TallyOther ==
  ASSUME NEW t, Sane(t), t.kind \notin {"range", "input"}
  PROVE  Tally(<<t>>, 0, 0)
  <1>1. \A i \in 1 .. Len(<<t>>) : <<t>>[i] = t
    BY SingleList
  <1> QED BY <1>1, SingleList DEF Tally, AllSane, Score, None, Miss

Counts(v, r) == (v /\ r = 1) \/ (~v /\ r = 0)

LEMMA TallyRange ==
  ASSUME NEW t, Sane(t), t.kind = "range", NEW v \in BOOLEAN, Yields(t, v), NEW r,
         Counts(v, r)
  PROVE  Tally(<<t>>, r, 0)
  <1> DEFINE s == <<t>>
  <1>1. IsList(s) /\ Len(s) = 1 /\ s[1] = t
    BY SingleList
  <1> HIDE DEF s
  <1>2. \A i \in 1 .. Len(s) : s[i] = t
    BY <1>1
  <1>3. AllSane(s) /\ Score(s, "input", 0)
    BY <1>1, <1>2 DEF AllSane, Score, None, Miss
  <1>4. CASE v
    <2>1. v = TRUE /\ r = 1
      BY <1>4 DEF Counts
    <2>2. Hit(t, "range")
      BY <2>1 DEF Hit
    <2>3. One(s, "range")
      BY <1>1, <2>2 DEF One
    <2>4. Score(s, "range", r)
      BY <2>1, <2>3 DEF Score
    <2> QED BY <1>3, <2>4 DEF Tally, s
  <1>5. CASE ~v
    <2>1. v = FALSE /\ r = 0
      BY <1>5 DEF Counts
    <2>2. None(s, "range")
      BY <1>2, <2>1 DEF None, Miss
    <2>3. Score(s, "range", r)
      BY <2>1, <2>2 DEF Score
    <2> QED BY <1>3, <2>3 DEF Tally, s
  <1> QED BY <1>4, <1>5

\* A function on 1 .. n is a sequence.
LEMMA FunctionList ==
  ASSUME NEW n \in Nat, NEW s, s = [j \in 1 .. n |-> s[j]]
  PROVE  IsList(s) /\ Len(s) = n
  <1> DEFINE S == {s[j] : j \in 1 .. n}
  <1>1. s \in [1 .. n -> S]
    BY Zenon
  <1> HIDE DEF S
  <1>2. s \in Seq(S) /\ Len(s) = n
    BY <1>1
  <1> QED BY <1>2 DEF IsList

LEMMA Orders ==
  ASSUME NEW l \in 1 .. 8
  PROVE  /\ \E n \in 1 .. 3 : DOMAIN InputOrder[l] = 1 .. n
         /\ \A i, j \in DOMAIN InputOrder[l] : InputOrder[l][i] = InputOrder[l][j] => i = j
  <1>1. l = 1 \/ l = 2 \/ l = 3 \/ l = 4 \/ l = 5 \/ l = 6 \/ l = 7 \/ l = 8
    OBVIOUS
  <1>2. /\ InputOrder[1] = <<"usr2_ai1_VoidReply">>
        /\ InputOrder[2] = <<"usr4_ni1_ne1", "ai1_ce2">>
        /\ InputOrder[3] = <<"usr4_ai1_VoidReply">>
        /\ InputOrder[4] = <<"ai1_ce2", "ai1_ce1", "usr4_ni1_ne1">>
        /\ InputOrder[5] = <<"usr2_ai1_VoidReply">>
        /\ InputOrder[6] = <<"usr4_ni1_ne1", "usr4_ai1_VoidReply">>
        /\ InputOrder[7] = <<"usr4_ni1_ne1", "usr4_ai1_VoidReply">>
        /\ InputOrder[8] = <<"usr4_ai1_VoidReply">>
    BY DEF InputOrder
  <1>3. CASE l \in {1, 3, 5, 8}
    <2>1. PICK a : InputOrder[l] = <<a>>
      BY <1>2, <1>3
    <2> QED BY <2>1
  <1>4. CASE l \in {2, 6, 7}
    <2>1. PICK a, b : InputOrder[l] = <<a, b>> /\ a # b
      BY <1>2, <1>4
    <2> QED BY <2>1
  <1>5. CASE l = 4
    BY <1>2, <1>5
  <1> QED BY <1>1, <1>3, <1>4, <1>5

\* The input tests of a method are those its guard is about.
LEMMA OrderTests ==
  ASSUME NEW l \in 1 .. 8
  PROVE  /\ Method(l) \in Locs
         /\ input \in Tests(Method(l)) <=> \E j \in DOMAIN InputOrder[l] : InputOrder[l][j] = input
  <1>1. l = 1 \/ l = 2 \/ l = 3 \/ l = 4 \/ l = 5 \/ l = 6 \/ l = 7 \/ l = 8
    OBVIOUS
  <1>2. /\ InputOrder[1] = <<"usr2_ai1_VoidReply">>
        /\ InputOrder[2] = <<"usr4_ni1_ne1", "ai1_ce2">>
        /\ InputOrder[3] = <<"usr4_ai1_VoidReply">>
        /\ InputOrder[4] = <<"ai1_ce2", "ai1_ce1", "usr4_ni1_ne1">>
        /\ InputOrder[5] = <<"usr2_ai1_VoidReply">>
        /\ InputOrder[6] = <<"usr4_ni1_ne1", "usr4_ai1_VoidReply">>
        /\ InputOrder[7] = <<"usr4_ni1_ne1", "usr4_ai1_VoidReply">>
        /\ InputOrder[8] = <<"usr4_ai1_VoidReply">>
    BY DEF InputOrder
  <1>3. /\ Method(1) = "m1" /\ Method(2) = "m2" /\ Method(3) = "m3" /\ Method(4) = "m4"
        /\ Method(5) = "m5" /\ Method(6) = "m6" /\ Method(7) = "m7" /\ Method(8) = "m8"
    BY DEF Method
  <1>4. Method(l) \in Locs
    BY <1>1, <1>3 DEF Locs
  <1>5. /\ Tests("m1") = {"usr2_ai1_VoidReply"} /\ Tests("m5") = {"usr2_ai1_VoidReply"}
        /\ Tests("m3") = {"usr4_ai1_VoidReply"} /\ Tests("m8") = {"usr4_ai1_VoidReply"}
        /\ Tests("m2") = {"usr4_ni1_ne1", "ai1_ce2"}
        /\ Tests("m4") = {"ai1_ce2", "ai1_ce1", "usr4_ni1_ne1"}
        /\ Tests("m6") = {"usr4_ni1_ne1", "usr4_ai1_VoidReply"}
        /\ Tests("m7") = {"usr4_ni1_ne1", "usr4_ai1_VoidReply"}
    BY Zenon DEF Tests
  <1>6. ASSUME NEW a
        PROVE  input \in {a} <=> \E j \in DOMAIN <<a>> : <<a>>[j] = input
    OBVIOUS
  <1>7. ASSUME NEW a, NEW b
        PROVE  input \in {a, b} <=> \E j \in DOMAIN <<a, b>> : <<a, b>>[j] = input
    <2> DEFINE q == <<a, b>>
    <2>1. DOMAIN q = {1, 2} /\ q[1] = a /\ q[2] = b
      OBVIOUS
    <2> HIDE DEF q
    <2>2. input \in {a, b} <=> \E j \in DOMAIN q : q[j] = input
      BY <2>1
    <2> QED BY <2>2 DEF q
  <1>8. ASSUME NEW a, NEW b, NEW c
        PROVE  input \in {a, b, c} <=> \E j \in DOMAIN <<a, b, c>> : <<a, b, c>>[j] = input
    <2> DEFINE q == <<a, b, c>>
    <2>1. DOMAIN q = {1, 2, 3} /\ q[1] = a /\ q[2] = b /\ q[3] = c
      OBVIOUS
    <2> HIDE DEF q
    <2>2. input \in {a, b, c} <=> \E j \in DOMAIN q : q[j] = input
      BY <2>1
    <2> QED BY <2>2 DEF q
  <1>9. CASE l \in {1, 3, 5, 8}
    <2>1. PICK a : InputOrder[l] = <<a>> /\ Tests(Method(l)) = {a}
      BY <1>2, <1>3, <1>5, <1>9
    <2> QED BY <1>4, <1>6, <2>1
  <1>10. CASE l \in {2, 6, 7}
    <2>1. PICK a, b : InputOrder[l] = <<a, b>> /\ Tests(Method(l)) = {a, b}
      BY <1>2, <1>3, <1>5, <1>10
    <2> QED BY <1>4, <1>7, <2>1
  <1>11. CASE l = 4
    <2>1. PICK a, b, c : InputOrder[l] = <<a, b, c>> /\ Tests(Method(l)) = {a, b, c}
      BY <1>2, <1>3, <1>5, <1>11
    <2> QED BY <1>4, <1>8, <2>1
  <1> QED BY <1>1, <1>9, <1>10, <1>11

\* Of the input tests of a method one comes out true if the method accepts, else none.
Accepted(l) == \E j \in DOMAIN InputOrder[l] : InputOrder[l][j] = input

LEMMA MethodTally ==
  ASSUME NEW l \in 1 .. 8, NEW h, Counts(Accepted(l), h)
  PROVE  Tally(MethodTests(l), 0, h)
  <1> DEFINE order == InputOrder[l]
             c(j)  == ~ \E k \in 1 .. (j - 1) : order[k] = input
             s     == MethodTests(l)
  <1>1. PICK n \in 1 .. 3 : DOMAIN order = 1 .. n
    BY Orders
  <1>2. \A i, j \in 1 .. n : order[i] = order[j] => i = j
    BY <1>1, Orders
  <1>3. s = [j \in 1 .. n |-> StringTest("input", input, order[j], c(j))]
    BY <1>1 DEF MethodTests
  <1>4. \A j \in 1 .. n : s[j] = StringTest("input", input, order[j], c(j))
    BY <1>3
  <1>5. IsList(s) /\ Len(s) = n
    <2>1. s = [j \in 1 .. n |-> s[j]]
      BY <1>3
    <2> HIDE DEF s
    <2> QED BY <2>1, FunctionList
  <1> HIDE DEF s
  <1>6. \A j \in 1 .. n : c(j) \in BOOLEAN
    OBVIOUS
  <1>7. ASSUME NEW j \in 1 .. n
        PROVE  /\ s[j].kind = "input" /\ Sane(s[j])
               /\ c(j) /\ input = order[j] => Yields(s[j], TRUE)
               /\ input # order[j] => Yields(s[j], FALSE)
    <2> DEFINE b == c(j)
               v == b /\ input = order[j]
    <2>1. b \in BOOLEAN
      BY <1>6
    <2>2. s[j] = StringTest("input", input, order[j], b)
      BY <1>4
    <2>3. v = TRUE \/ v = FALSE
      OBVIOUS
    <2>4. (b /\ input = order[j] => v = TRUE) /\ (input # order[j] => v = FALSE)
      OBVIOUS
    <2> HIDE DEF b
    <2>5. s[j].kind = "input" /\ Sane(s[j]) /\ Yields(s[j], b /\ input = order[j])
      BY <2>1, <2>2, StringTells
    <2>6. Yields(s[j], v)
      BY <2>5
    <2> HIDE DEF v
    <2>7. (b /\ input = order[j] => Yields(s[j], TRUE)) /\ (input # order[j] => Yields(s[j], FALSE))
      BY <2>4, <2>6
    <2> QED BY <2>5, <2>7 DEF b
  <1>8. AllSane(s)
    BY <1>5, <1>7 DEF AllSane
  <1>9. Score(s, "range", 0)
    BY <1>5, <1>7 DEF Score, None, Miss
  <1>10. CASE Accepted(l)
    <2>1. PICK j \in 1 .. n : order[j] = input
      BY <1>1, <1>10 DEF Accepted
    <2>2. \A k \in 1 .. n : k # j => order[k] # input
      BY <1>2, <2>1
    <2>3. c(j)
      BY <2>2
    <2>4. Hit(s[j], "input")
      BY <1>7, <2>1, <2>3 DEF Hit
    <2>5. \A k \in (1 .. Len(s)) \ {j} : Miss(s[k], "input")
      BY <1>5, <1>7, <2>2 DEF Miss
    <2>6. One(s, "input")
      BY <1>5, <2>4, <2>5 DEF One
    <2>7. h = 1
      BY <1>10 DEF Counts
    <2> QED BY <1>8, <1>9, <2>6, <2>7 DEF Tally, Score, s
  <1>11. CASE ~Accepted(l)
    <2>1. \A k \in 1 .. n : input # order[k]
      BY <1>1, <1>11 DEF Accepted
    <2>2. None(s, "input")
      BY <1>5, <1>7, <2>1 DEF None, Miss
    <2>3. h = 0
      BY <1>11 DEF Counts
    <2> QED BY <1>8, <1>9, <2>2, <2>3 DEF Tally, Score, s
  <1> QED BY <1>10, <1>11

\* The range of B that the test of a method asks for.
InZone(l, b) ==
  /\ l = 1 => b <= -164
  /\ l \in 2 .. 5 => -164 < b /\ -19 >= b
  /\ l \in 6 .. 7 => -19 < b /\ 100 >= b
  /\ l = 8 => 100 < b

\* A range test, for whichever fields it sees.
LEMMA WindowTally ==
  ASSUME NEW lo \in Int, NEW x \in Int, NEW hi \in Int, NEW c \in BOOLEAN, NEW r,
         Counts(c /\ lo < x /\ hi >= x, r)
  PROVE  Tally(<<WindowTest("range", lo, x, hi, c)>>, r, 0)
  <1> DEFINE t == WindowTest("range", lo, x, hi, c)
             v == c /\ lo < x /\ hi >= x
  <1>1. t.kind = "range" /\ Sane(t) /\ Yields(t, v)
    BY WindowTells
  <1>2. v \in BOOLEAN /\ Counts(v, r)
    OBVIOUS
  <1> HIDE DEF t, v
  <1>3. Tally(<<t>>, r, 0)
    BY <1>1, <1>2, TallyRange
  <1> QED BY <1>3 DEF t

LEMMA FirstTally ==
  ASSUME NEW x \in Int, NEW c \in BOOLEAN, NEW r, Counts(x <= -164, r)
  PROVE  Tally(<<FirstRangeTest(x, c)>>, r, 0)
  <1> DEFINE t == FirstRangeTest(x, c)
             v == x <= -164
  <1>1. t.kind = "range" /\ Sane(t) /\ Yields(t, v)
    BY FirstRangeTells
  <1>2. v \in BOOLEAN /\ Counts(v, r)
    OBVIOUS
  <1> HIDE DEF t, v
  <1>3. Tally(<<t>>, r, 0)
    BY <1>1, <1>2, TallyRange
  <1> QED BY <1>3 DEF t

LEMMA LastTally ==
  ASSUME NEW x \in Int, NEW c \in BOOLEAN, NEW r,
         Counts(c /\ 100 < x, r)
  PROVE  Tally(<<LastRangeTest(x, c)>>, r, 0)
  <1> DEFINE t == LastRangeTest(x, c)
             v == c /\ 100 < x
  <1>1. t.kind = "range" /\ Sane(t) /\ Yields(t, v)
    BY LastRangeTells
  <1>2. v \in BOOLEAN /\ Counts(v, r)
    OBVIOUS
  <1> HIDE DEF t, v
  <1>3. Tally(<<t>>, r, 0)
    BY <1>1, <1>2, TallyRange
  <1> QED BY <1>3 DEF t

\* A test of the field the method's window is about is no range test.
LEMMA FieldTally ==
  ASSUME NEW lo \in Int, NEW x \in Int, NEW hi \in Int, NEW c \in BOOLEAN
  PROVE  Tally(<<WindowTest("window", lo, x, hi, c)>>, 0, 0)
  <1> DEFINE t == WindowTest("window", lo, x, hi, c)
  <1>1. t.kind = "window" /\ Sane(t)
    BY WindowTells
  <1>2. t.kind \notin {"range", "input"}
    BY <1>1
  <1> HIDE DEF t
  <1>3. Tally(<<t>>, 0, 0)
    BY <1>1, <1>2, TallyOther
  <1> QED BY <1>3 DEF t

LEMMA LetterTally ==
  ASSUME NEW s, NEW x, NEW c \in BOOLEAN
  PROVE  Tally(<<StringTest("letter", s, x, c)>>, 0, 0)
  <1> DEFINE t == StringTest("letter", s, x, c)
  <1>1. t.kind = "letter" /\ Sane(t)
    BY StringTells
  <1>2. t.kind \notin {"range", "input"}
    BY <1>1
  <1> HIDE DEF t
  <1>3. Tally(<<t>>, 0, 0)
    BY <1>1, <1>2, TallyOther
  <1> QED BY <1>3 DEF t

LEMMA ThrowTally == Tally(<<Test("cf", input, <<>>)>>, 0, 0)
  <1> DEFINE t == Test("cf", input, <<>>)
  <1>1. t.kind = "cf" /\ Sane(t)
    BY EmptySane
  <1>2. t.kind \notin {"range", "input"}
    BY <1>1
  <1> HIDE DEF t
  <1>3. Tally(<<t>>, 0, 0)
    BY <1>1, <1>2, TallyOther
  <1> QED BY <1>3 DEF t

\* Which of the range tests comes out true, and how often one has after n methods.
Served(l, n) == IF l <= n THEN 1 ELSE 0

LEMMA ZoneArithmetic ==
  ASSUME NEW l \in 1 .. 8, NEW b \in Int, InZone(l, b)
  PROVE  /\ Counts(b <= -164, Served(l, 1))
         /\ LET v == -164 < b /\ -19 >= b
                r == Served(l, 5) - Served(l, 1)
            IN  Counts(v, r) /\ (l <= 1 => r = 0)
         /\ LET v == -19 < b /\ 100 >= b
                r == Served(l, 7) - Served(l, 5)
            IN  Counts(v, r) /\ (l <= 5 => r = 0)
         /\ LET v == 100 < b
                r == 1 - Served(l, 7)
            IN  Counts(v, r) /\ (l <= 7 => r = 0)
  <1>1. CASE l = 1
    BY <1>1 DEF InZone, Served, Counts
  <1>2. CASE l \in 2 .. 5
    BY <1>2 DEF InZone, Served, Counts
  <1>3. CASE l \in 6 .. 7
    BY <1>3 DEF InZone, Served, Counts
  <1>4. CASE l = 8
    BY <1>4 DEF InZone, Served, Counts
  <1> QED BY <1>1, <1>2, <1>3, <1>4

\* Counts that never pass one may be read as counts so far.
LEMMA TallyChain ==
  ASSUME NEW s, NEW t, NEW r \in 0 .. 1, NEW h \in 0 .. 1, NEW rr \in r .. 1, NEW hh \in h .. 1,
         NEW q, NEW g, q = rr - r, g = hh - h, Tally(s, r, h), Tally(t, q, g)
  PROVE  Tally(s \o t, rr, hh)
  <1>1. r \in Nat /\ h \in Nat /\ q \in Nat /\ g \in Nat /\ (r = 0 \/ q = 0) /\ (h = 0 \/ g = 0)
    OBVIOUS
  <1>2. Tally(s \o t, r + q, h + g)
    BY <1>1, TallyJoin
  <1>3. r + q = rr /\ h + g = hh
    OBVIOUS
  <1> QED BY <1>2, <1>3

(***************************************************************************)
(* Of the range tests one comes out true, whichever method serves the      *)
(* state and whether or not it accepts: a test made before the method sees *)
(* its range, and one made after it sees cf cleared or nothing changed.    *)
(***************************************************************************)
LEMMA CallTally ==
  ASSUME NEW l \in 1 .. 8, NEW before, NEW after,
         before.a \in Int, before.b \in Int, before.c \in Int, after.b \in Int,
         before.cf = TRUE, after.cf \in BOOLEAN, after.cf => after.b = before.b,
         InZone(l, before.b), NEW h, Counts(Accepted(l), h)
  PROVE  Tally(CallTests(l, before, after), 1, h)
  <1> DEFINE at(k)       == Seen(k, l, before, after)
             letterOf(k) == <<StringTest("letter", at(k - 1).s, Letter[k], at(k - 1).cf)>>
                              \o (IF k = l THEN MethodTests(l) ELSE <<>>)
             R(n)    == Served(l, n)
             H(n)    == IF l <= n THEN h ELSE 0
             D(k)    == IF k = l THEN h ELSE 0
             p1 == <<FirstRangeTest(at(0).b, at(0).cf)>>
             p2 == IF l = 1 THEN <<WindowTest("window", -83, before.c, 18, at(0).cf)>> \o MethodTests(1)
                   ELSE <<>>
             p3 == <<WindowTest("range", -164, at(1).b, -19, at(1).cf)>>
             p4 == IF l \in 2 .. 5 THEN letterOf(2) \o letterOf(3) \o letterOf(4) \o letterOf(5)
                   ELSE <<>>
             p5 == <<WindowTest("range", -19, at(5).b, 100, at(5).cf)>>
             p6 == IF l \in 6 .. 7 THEN letterOf(6) \o letterOf(7) ELSE <<>>
             p7 == <<LastRangeTest(at(7).b, at(7).cf)>>
             p8 == IF l = 8 THEN <<WindowTest("window", 103, before.a, 198, at(7).cf)>> \o MethodTests(8)
                   ELSE <<>>
             p9 == <<Test("cf", input, <<>>)>>
  <1>0. CallTests(l, before, after) = p1 \o p2 \o p3 \o p4 \o p5 \o p6 \o p7 \o p8 \o p9
    BY DEF CallTests
  <1>1. h \in Nat /\ (h = 0 \/ h = 1)
    BY DEF Counts
  <1>2. \A k \in Nat : at(k).cf \in BOOLEAN /\ at(k).b \in Int
    BY DEF Seen
  <1>3. /\ at(0) = before
        /\ at(1) = IF l <= 1 THEN after ELSE before
        /\ at(5) = IF l <= 5 THEN after ELSE before
        /\ at(7) = IF l <= 7 THEN after ELSE before
    BY DEF Seen
  <1>4. Tally(MethodTests(l), 0, h)
    BY MethodTally
  <1>5. ASSUME NEW k \in 2 .. 7 PROVE Tally(letterOf(k), 0, D(k))
    <2> DEFINE c == at(k - 1).cf
               s == at(k - 1).s
    <2>1. c \in BOOLEAN
      BY <1>2
    <2> HIDE DEF c, s
    <2>2. Tally(<<StringTest("letter", s, Letter[k], c)>>, 0, 0)
      BY <2>1, LetterTally
    <2>3. Tally(IF k = l THEN MethodTests(l) ELSE <<>>, 0, D(k))
      BY <1>4, TallyEmpty
    <2>4. D(k) \in Nat
      BY <1>1
    <2> DEFINE x == <<StringTest("letter", s, Letter[k], c)>>
               y == IF k = l THEN MethodTests(l) ELSE <<>>
               d == D(k)
    <2>5. Tally(x, 0, 0) /\ Tally(y, 0, d) /\ d \in Nat
      BY <2>2, <2>3, <2>4
    <2>6. letterOf(k) = x \o y
      BY DEF c, s
    <2> HIDE DEF x, y, d
    <2>7. Tally(x \o y, 0 + 0, 0 + d)
      BY <2>5, TallyJoin, 0 \in Nat
    <2>8. Tally(x \o y, 0, d)
      BY <2>5, <2>7
    <2> QED BY <2>6, <2>8 DEF d
  <1>6. Tally(p1, R(1), 0)
    <2> DEFINE x == at(0).b
               c == at(0).cf
    <2>1. x \in Int /\ c \in BOOLEAN
      BY <1>2
    <2>4. x = before.b
      BY <1>3
    <2>2. Counts(x <= -164, R(1))
      BY <2>4, ZoneArithmetic
    <2> HIDE DEF x, c, R
    <2>3. Tally(<<FirstRangeTest(x, c)>>, R(1), 0)
      BY <2>1, <2>2, FirstTally
    <2> QED BY <2>3 DEF x, c
  <1>7. Tally(p2, 0, H(1))
    <2>1. CASE l = 1
      <3> DEFINE x == <<WindowTest("window", -83, before.c, 18, at(0).cf)>>
      <3>1. Tally(x, 0, 0)
        BY <1>2, FieldTally
      <3> HIDE DEF x
      <3>2. Tally(x \o MethodTests(l), 0 + 0, 0 + h)
        BY <1>1, <1>4, <3>1, TallyJoin, 0 \in Nat
      <3>3. p2 = x \o MethodTests(l) /\ H(1) = h
        BY <2>1 DEF x
      <3> HIDE DEF p2
      <3> QED BY <1>1, <3>2, <3>3
    <2>2. CASE l # 1
      BY <2>2, TallyEmpty
    <2> QED BY <2>1, <2>2
  <1>8. Tally(p3, R(5) - R(1), 0)
    <2> DEFINE x == at(1).b
               c == at(1).cf
    <2>1. x \in Int /\ c \in BOOLEAN
      BY <1>2
    <2>4. c => x = before.b
      BY <1>3
    <2>5. ~(l <= 1) => c
      BY <1>3
    <2> DEFINE V(z) == -164 < z /\ -19 >= z
               r == R(5) - R(1)
    <2>6. Counts(V(before.b), r) /\ (l <= 1 => r = 0)
      BY ZoneArithmetic
    <2>7. Counts(c /\ V(x), r)
      <3> HIDE DEF x, c, V, r
      <3> QED BY <2>4, <2>5, <2>6, Zenon DEF Counts
    <2>2. Counts(c /\ -164 < x /\ -19 >= x, R(5) - R(1))
      BY <2>7
    <2> HIDE DEF x, c, R
    <2>3. Tally(<<WindowTest("range", -164, x, -19, c)>>, R(5) - R(1), 0)
      BY <2>1, <2>2, WindowTally
    <2> QED BY <2>3 DEF x, c
  <1>9. Tally(p4, 0, H(5) - H(1))
    <2>1. CASE l \in 2 .. 5
      <3> DEFINE a == letterOf(2)
                 b == letterOf(3)
                 c == letterOf(4)
                 d == letterOf(5)
      <3>1. Tally(a, 0, D(2)) /\ Tally(b, 0, D(3)) /\ Tally(c, 0, D(4)) /\ Tally(d, 0, D(5))
        BY <1>5
      <3>2. p4 = a \o b \o c \o d
        BY <2>1
      <3> HIDE DEF a, b, c, d
      <3>3. /\ D(2) \in Nat /\ D(3) \in Nat /\ D(4) \in Nat /\ D(5) \in Nat
            /\ D(2) + D(3) \in Nat /\ D(2) + D(3) + D(4) \in Nat
            /\ D(2) = 0 \/ D(3) = 0 
            /\ D(2) + D(3) = 0 \/ D(4) = 0
            /\ D(2) + D(3) + D(4) = 0 \/ D(5) = 0
            /\ D(2) + D(3) + D(4) + D(5) = h /\ H(5) - H(1) = h
        BY <1>1, <2>1
      <3> HIDE DEF D, H
      <3>4. Tally(a \o b, 0 + 0, D(2) + D(3))
        BY <3>1, <3>3, TallyJoin, 0 \in Nat
      <3>5. Tally(a \o b \o c, 0 + 0, D(2) + D(3) + D(4))
        BY <3>1, <3>3, <3>4, TallyJoin, 0 \in Nat, 0 + 0 = 0
      <3>6. Tally(a \o b \o c \o d, 0 + 0, D(2) + D(3) + D(4) + D(5))
        BY <3>1, <3>3, <3>5, TallyJoin, 0 \in Nat, 0 + 0 = 0
      <3> HIDE DEF p4
      <3> QED BY <3>2, <3>3, <3>6, 0 + 0 = 0
    <2>2. CASE l \notin 2 .. 5
      <3>1. H(5) - H(1) = 0 /\ p4 = <<>>
        BY <1>1, <2>2
      <3> HIDE DEF p4, H
      <3> QED BY <3>1, TallyEmpty
    <2> QED BY <2>1, <2>2
  <1>10. Tally(p5, R(7) - R(5), 0)
    <2> DEFINE x == at(5).b
               c == at(5).cf
    <2>1. x \in Int /\ c \in BOOLEAN
      BY <1>2
    <2>4. c => x = before.b
      BY <1>3
    <2>5. ~(l <= 5) => c
      BY <1>3
    <2> DEFINE V(z) == -19 < z /\ 100 >= z
               r == R(7) - R(5)
    <2>6. Counts(V(before.b), r) /\ (l <= 5 => r = 0)
      BY ZoneArithmetic
    <2>7. Counts(c /\ V(x), r)
      <3> HIDE DEF x, c, V, r
      <3> QED BY <2>4, <2>5, <2>6, Zenon DEF Counts
    <2>2. Counts(c /\ -19 < x /\ 100 >= x, R(7) - R(5))
      BY <2>7
    <2> HIDE DEF x, c, R
    <2>3. Tally(<<WindowTest("range", -19, x, 100, c)>>, R(7) - R(5), 0)
      BY <2>1, <2>2, WindowTally
    <2> QED BY <2>3 DEF x, c
  <1>11. Tally(p6, 0, H(7) - H(5))
    <2>1. CASE l \in 6 .. 7
      <3> DEFINE a == letterOf(6)
                 b == letterOf(7)
      <3>1. Tally(a, 0, D(6)) /\ Tally(b, 0, D(7))
        BY <1>5
      <3>2. p6 = a \o b
        BY <2>1
      <3> HIDE DEF a, b
      <3>3. D(6) \in Nat /\ D(7) \in Nat /\ (D(6) = 0 \/ D(7) = 0) /\ D(6) + D(7) = H(7) - H(5)
        BY <1>1, <2>1
      <3> HIDE DEF D, H
      <3>4. Tally(a \o b, 0 + 0, D(6) + D(7))
        BY <3>1, <3>3, TallyJoin, 0 \in Nat
      <3> HIDE DEF p6
      <3> QED BY <3>2, <3>3, <3>4, 0 + 0 = 0
    <2>2. CASE l \notin 6 .. 7
      <3>1. H(7) - H(5) = 0 /\ p6 = <<>>
        BY <1>1, <2>2
      <3> HIDE DEF p6, H
      <3> QED BY <3>1, TallyEmpty
    <2> QED BY <2>1, <2>2
  <1>12. Tally(p7, 1 - R(7), 0)
    <2> DEFINE x == at(7).b
               c == at(7).cf
    <2>1. x \in Int /\ c \in BOOLEAN
      BY <1>2
    <2>4. c => x = before.b
      BY <1>3
    <2>5. ~(l <= 7) => c
      BY <1>3
    <2> DEFINE V(z) == 100 < z
               r == 1 - R(7)
    <2>6. Counts(V(before.b), r) /\ (l <= 7 => r = 0)
      BY ZoneArithmetic
    <2>7. Counts(c /\ V(x), r)
      <3> HIDE DEF x, c, V, r
      <3> QED BY <2>4, <2>5, <2>6, Zenon DEF Counts
    <2>2. Counts(c /\ 100 < x, 1 - R(7))
      BY <2>7
    <2> HIDE DEF x, c, R
    <2>3. Tally(<<LastRangeTest(x, c)>>, 1 - R(7), 0)
      BY <2>1, <2>2, LastTally
    <2> QED BY <2>3 DEF x, c
  <1>13. Tally(p8, 0, h - H(7))
    <2>1. CASE l = 8
      <3> DEFINE x == <<WindowTest("window", 103, before.a, 198, at(7).cf)>>
      <3>1. Tally(x, 0, 0)
        BY <1>2, FieldTally
      <3> HIDE DEF x
      <3>2. Tally(x \o MethodTests(l), 0 + 0, 0 + h)
        BY <1>1, <1>4, <3>1, TallyJoin, 0 \in Nat
      <3>3. p8 = x \o MethodTests(l)
        BY <2>1 DEF x
      <3>4. h - H(7) = h
        BY <1>1, <2>1
      <3> HIDE DEF p8, H
      <3> QED BY <1>1, <3>2, <3>3, <3>4
    <2>2. CASE l # 8
      <3>1. h - H(7) = 0 /\ p8 = <<>>
        BY <1>1, <2>2
      <3> HIDE DEF p8, H
      <3> QED BY <3>1, TallyEmpty
    <2> QED BY <2>1, <2>2
  <1>14. Tally(p9, 0, 0)
    BY ThrowTally
  <1>15. /\ R(1) \in 0 .. 1 /\ R(5) \in R(1) .. 1 /\ R(7) \in R(5) .. 1
         /\ H(1) \in 0 .. 1 /\ H(5) \in H(1) .. 1 /\ H(7) \in H(5) .. 1 /\ h \in H(7) .. 1
    BY <1>1 DEF Served
  <1> HIDE DEF p1, p2, p3, p4, p5, p6, p7, p8, p9, R, H
  <1> DEFINE u2 == p1 \o p2
             u3 == u2 \o p3
             u4 == u3 \o p4
             u5 == u4 \o p5
             u6 == u5 \o p6
             u7 == u6 \o p7
             u8 == u7 \o p8
  <1>16. Tally(u2, R(1), H(1))
    <2>1. R(1) \in R(1) .. 1 /\ 0 = R(1) - R(1) /\ H(1) = H(1) - 0 /\ 0 \in 0 .. 1
      BY <1>15
    <2> QED BY <1>6, <1>7, <1>15, <2>1, TallyChain
  <1> HIDE DEF u2
  <1>17. Tally(u3, R(5), H(1))
    <2>1. R(5) \in 0 .. 1 /\ 0 = H(1) - H(1) /\ H(1) \in H(1) .. 1
      BY <1>15
    <2> QED BY <1>8, <1>15, <1>16, <2>1, TallyChain
  <1> HIDE DEF u3
  <1>18. Tally(u4, R(5), H(5))
    <2>1. R(5) \in 0 .. 1 /\ R(5) \in R(5) .. 1 /\ 0 = R(5) - R(5)
      BY <1>15
    <2> QED BY <1>9, <1>15, <1>17, <2>1, TallyChain
  <1> HIDE DEF u4
  <1>19. Tally(u5, R(7), H(5))
    <2>1. R(5) \in 0 .. 1 /\ H(5) \in 0 .. 1 /\ 0 = H(5) - H(5) /\ H(5) \in H(5) .. 1
      BY <1>15
    <2> QED BY <1>10, <1>15, <1>18, <2>1, TallyChain
  <1> HIDE DEF u5
  <1>20. Tally(u6, R(7), H(7))
    <2>1. R(7) \in 0 .. 1 /\ H(5) \in 0 .. 1 /\ 0 = R(7) - R(7) /\ R(7) \in R(7) .. 1
      BY <1>15
    <2> QED BY <1>11, <1>15, <1>19, <2>1, TallyChain
  <1> HIDE DEF u6
  <1>21. Tally(u7, 1, H(7))
    <2>1. /\ R(7) \in 0 .. 1 /\ H(7) \in 0 .. 1 /\ 0 = H(7) - H(7) /\ H(7) \in H(7) .. 1
          /\ 1 \in R(7) .. 1
      BY <1>15
    <2> QED BY <1>12, <1>20, <2>1, TallyChain
  <1> HIDE DEF u7
  <1>22. Tally(u8, 1, h)
    <2>1. H(7) \in 0 .. 1 /\ 1 \in 0 .. 1 /\ 1 \in 1 .. 1 /\ 0 = 1 - 1
      BY <1>15
    <2> QED BY <1>13, <1>15, <1>21, <2>1, TallyChain
  <1> HIDE DEF u8
  <1>23. Tally(u8 \o p9, 1, h)
    <2>1. h \in 0 .. 1 /\ h \in h .. 1 /\ 0 = h - h /\ 1 \in 0 .. 1 /\ 1 \in 1 .. 1 /\ 0 = 1 - 1
      BY <1>15
    <2> QED BY <1>14, <1>22, <2>1, TallyChain
  <1> QED BY <1>0, <1>23 DEF u2, u3, u4, u5, u6, u7, u8

-----------------------------------------------------------------------------
(***************************************************************************)
(* Recording a list of tests.                                              *)
(***************************************************************************)
LEMMA RecordIs ==
  ASSUME NEW st, NEW t
  PROVE  LET r == Record(st, t)
             d == Done(st.bool, t)
         IN  /\ r.bool = d.bool
             /\ r.new = Append(st.new, [input |-> t.input, kind |-> t.kind, condLst |-> d.lst])
  BY Zenon DEF Record, Done, Evaluated, Fresh0

\* b is a branch that recorded t, whatever the temporaries were.
Made(b, t) == b.kind = t.kind /\ \E bo \in Typed : b.condLst = Done(bo, t).lst

\* After the first n of the tests.
SoFar(bo, tests, n, r) ==
  /\ r.bool \in Typed /\ \A k \in 5 .. 9 : r.bool[k] = bo[k]
  /\ IsList(r.new) /\ Len(r.new) = n
  /\ \A i \in 1 .. n : Made(r.new[i], tests[i])

LEMMA RecordOne ==
  ASSUME NEW bo \in Typed, NEW tests, NEW n \in Nat, NEW r, SoFar(bo, tests, n, r),
         Sane(tests[n + 1])
  PROVE  SoFar(bo, tests, n + 1, Record(r, tests[n + 1]))
  <1> DEFINE t == tests[n + 1]
             d == Done(r.bool, t)
             b == [input |-> t.input, kind |-> t.kind, condLst |-> d.lst]
             q == Record(r, t)
  <1>1. r.bool \in Typed /\ IsList(r.new) /\ Len(r.new) = n
    BY DEF SoFar
  <1>2. Tidy(r.bool, d)
    BY <1>1 DEF Sane
  <1>3. q.bool = d.bool /\ q.new = Append(r.new, b)
    BY RecordIs
  <1>4. b.kind = t.kind /\ b.condLst = d.lst
    OBVIOUS
  <1>5. Made(b, t)
    <2> HIDE DEF b, t
    <2> QED BY <1>1, <1>4 DEF Made
  <1> HIDE DEF d, b, q
  <1>6. /\ IsList(q.new) /\ Len(q.new) = n + 1 /\ q.new[n + 1] = b
        /\ \A i \in 1 .. n : q.new[i] = r.new[i]
    BY <1>1, <1>3, AppendList
  <1>7. q.bool \in Typed /\ \A k \in 5 .. 9 : q.bool[k] = bo[k]
    BY <1>2, <1>3 DEF Tidy, SoFar
  <1>8. ASSUME NEW i \in 1 .. (n + 1) PROVE Made(q.new[i], tests[i])
    <2>1. CASE i \in 1 .. n
      BY <1>6, <2>1 DEF SoFar
    <2>2. CASE i = n + 1
      BY <1>5, <1>6, <2>2
    <2> QED BY <2>1, <2>2
  <1>9. SoFar(bo, tests, n + 1, q)
    BY <1>6, <1>7, <1>8 DEF SoFar
  <1> QED BY <1>9 DEF q

LEMMA RecordAll ==
  ASSUME NEW bo \in Typed, NEW tests, AllSane(tests)
  PROVE  SoFar(bo, tests, Len(tests), Recorded([bool |-> bo, new |-> <<>>], tests))
  <1> DEFINE base == [bool |-> bo, new |-> <<>>]
             n    == Len(tests)
  <1>1. n \in Nat /\ DOMAIN tests = 1 .. n
    BY ListFacts DEF AllSane
  <1>2. base.bool = bo /\ base.new = <<>>
    OBVIOUS
  <1> HIDE DEF base, n
  <1>3. PICK g : Records(g, base, tests, n) /\ Recorded(base, tests) = g[n]
    BY <1>1, RecordSteps
  <1> DEFINE S == {m \in 0 .. n : SoFar(bo, tests, m, g[m])}
  <1>4. 0 \in S
    <2>1. g[0] = base
      BY <1>3 DEF Records
    <2>2. IsList(<<>>) /\ Len(<<>>) = 0
      BY TallyEmpty DEF Tally, AllSane
    <2> QED BY <1>1, <1>2, <2>1, <2>2 DEF SoFar
  <1>5. ASSUME NEW m \in 0 .. n - 1, m \in S PROVE m + 1 \in S
    <2>1. m + 1 \in 1 .. n /\ m \in Nat /\ m + 1 \in 0 .. n /\ m + 1 - 1 = m
      BY <1>1
    <2>2. g[m + 1] = Record(g[m], tests[m + 1])
      BY <1>3, <2>1 DEF Records
    <2>3. Sane(tests[m + 1])
      BY <2>1 DEF AllSane, n
    <2>4. SoFar(bo, tests, m, g[m])
      BY <1>5
    <2>5. SoFar(bo, tests, m + 1, Record(g[m], tests[m + 1]))
      BY <2>1, <2>3, <2>4, RecordOne
    <2> QED BY <2>1, <2>2, <2>5
  <1>6. n \in S
    <2> HIDE DEF S
    <2> QED BY <1>1, <1>4, <1>5, J!Climbs
  <1>7. SoFar(bo, tests, n, Recorded(base, tests))
    BY <1>3, <1>6
  <1> QED BY <1>7 DEF base, n

\* What a recorded branch tells of its test.
LEMMA MadeTells ==
  ASSUME NEW b, NEW t, Made(b, t), Sane(t)
  PROVE  /\ b.kind = t.kind /\ b.kind # "main" /\ TypesKnown(b.condLst)
         /\ Yields(t, TRUE) => Taken(b)
         /\ Yields(t, FALSE) => ~ Taken(b)
  <1>1. PICK bo \in Typed : b.condLst = Done(bo, t).lst
    BY DEF Made
  <1>2. Tidy(bo, Done(bo, t))
    BY DEF Sane
  <1>3. b.kind = t.kind /\ b.kind # "main"
    BY DEF Made, Sane
  <1>4. TypesKnown(b.condLst)
    BY <1>1, <1>2 DEF Tidy, TypesKnown
  <1>5. ASSUME Yields(t, TRUE) PROVE Taken(b)
    BY <1>1, <1>5 DEF Yields, Ends, Taken
  <1>6. ASSUME Yields(t, FALSE) PROVE ~ Taken(b)
    BY <1>1, <1>6 DEF Yields, Ends, Taken
  <1> QED BY <1>3, <1>4, <1>5, <1>6

-----------------------------------------------------------------------------
(***************************************************************************)
(* The test of main: nine comparisons, each on a temporary of its own.     *)
(***************************************************************************)
\* After the first k comparisons the k-th writes temporary k.
Column(s, k) ==
  /\ s.bool \in Typed /\ IsList(s.lst) /\ Len(s.lst) = k /\ TypesKnown(s.lst)
  /\ \A n \in 1 .. k : s.lst[n].a = n /\ s.lst[n].was = s.bool[n]

\* The results of main's three inner &&; its eighth comparison joins two of them.
Quiet(bo) == bo[6] = FALSE /\ bo[7] = FALSE /\ bo[8] = FALSE

IsEighth(c) == c.type = "myAnd" /\ c.a = 8 /\ c.b = Ref(6) /\ c.c = Ref(7)
Joins(lst)  == 8 \in DOMAIN lst /\ IsEighth(lst[8])

Grown(st, s, c) ==
  LET k == Len(st.lst)
  IN  /\ \A i \in 1 .. k : s.lst[i] = st.lst[i]
      /\ s.lst[k + 1].type = c.type /\ s.lst[k + 1].a = c.a
      /\ s.lst[k + 1].b = c.b /\ s.lst[k + 1].c = c.c

LEMMA EvaluateAppends ==
  ASSUME NEW st, NEW c, c.kept = TRUE, IsList(st.lst)
  PROVE  Grown(st, Evaluate(st, c), c)
  <1> DEFINE s == Evaluate(st, c)
             e == [type |-> c.type, a |-> c.a, b |-> c.b, c |-> c.c,
                   was |-> Outcome(c, st.bool)]
  <1>1. s.lst = Append(st.lst, e)
    BY DEF Evaluate
  <1>2. e.type = c.type /\ e.a = c.a /\ e.b = c.b /\ e.c = c.c
    OBVIOUS
  <1> HIDE DEF s, e
  <1>3. /\ \A i \in 1 .. Len(st.lst) : s.lst[i] = st.lst[i]
        /\ s.lst[Len(st.lst) + 1] = e
    BY <1>1, AppendList
  <1>4. Grown(st, s, c)
    BY <1>2, <1>3 DEF Grown
  <1> QED BY <1>4 DEF s

LEMMA ColumnGrows ==
  ASSUME NEW st, NEW k \in 0 .. 8, Column(st, k), NEW t \in Types, NEW b, NEW c,
         NEW v \in BOOLEAN, Outcome(Cond(t, k + 1, b, c), st.bool) = v
  PROVE  LET s == Evaluate(st, Cond(t, k + 1, b, c))
         IN  /\ Column(s, k + 1) /\ s.bool[k + 1] = v
             /\ \A n \in 1 .. k : s.bool[n] = st.bool[n]
  <1> DEFINE s == Evaluate(st, Cond(t, k + 1, b, c))
  <1>1. k + 1 \in Bools /\ (\A n \in 1 .. k : n \in Bools \ {k + 1})
    BY DEF Bools
  <1>2. st.bool \in Typed /\ IsList(st.lst) /\ Len(st.lst) = k /\ TypesKnown(st.lst)
    BY DEF Column
  <1>3. Writes(st, s, k + 1, v) /\ Adds(st, s, t, k + 1, v)
    BY <1>1, <1>2, EvaluateKept
  <1> HIDE DEF s
  <1>4. TypesKnown(s.lst)
    BY <1>2, <1>3, AddsTypes
  <1>5. s.bool[k + 1] = v /\ \A n \in 1 .. k : s.bool[n] = st.bool[n]
    BY <1>1, <1>3 DEF Writes
  <1>6. /\ Len(s.lst) = k + 1 /\ IsList(s.lst) /\ s.bool \in Typed
        /\ s.lst[k + 1].a = k + 1 /\ s.lst[k + 1].was = v
        /\ \A n \in 1 .. k : s.lst[n] = st.lst[n]
    BY <1>2, <1>3 DEF Writes, Adds
  <1>7. ASSUME NEW n \in 1 .. (k + 1) PROVE s.lst[n].a = n /\ s.lst[n].was = s.bool[n]
    <2>1. CASE n = k + 1
      BY <1>5, <1>6, <2>1
    <2>2. CASE n \in 1 .. k
      BY <1>5, <1>6, <2>2 DEF Column
    <2> QED BY <2>1, <2>2
  <1>8. Column(s, k + 1)
    BY <1>4, <1>6, <1>7 DEF Column
  <1> QED BY <1>5, <1>8 DEF s

\* The two names the first && of main asks for are different, so it is false.
LEMMA MainTells ==
  ASSUME NEW in, NEW bo \in Typed
  PROVE  LET d == Done(bo, MainTest(in))
         IN  Column(d, 9) /\ d.lst[9].was = FALSE /\ Quiet(d.bool) /\ Joins(d.lst)
  <1> DEFINE q == MainTest(in).conds
             v1 == in = "ai1_ce1"
             v2 == in = "usr4_ai1_VoidReply"
             v3 == in = "usr4_ni1_ne1"
             v4 == in = "ai1_ce2"
             v5 == in = "usr2_ai1_VoidReply"
             v6 == v1 /\ v2
             v7 == v3 /\ v4
             v8 == v6 /\ v7
             v9 == v8 /\ v5
  <1>1. /\ DOMAIN q = 1 .. 9
        /\ q[1] = Cond("myEquals", 1, in, "ai1_ce1")
        /\ q[2] = Cond("myEquals", 2, in, "usr4_ai1_VoidReply")
        /\ q[3] = Cond("myEquals", 3, in, "usr4_ni1_ne1")
        /\ q[4] = Cond("myEquals", 4, in, "ai1_ce2")
        /\ q[5] = Cond("myEquals", 5, in, "usr2_ai1_VoidReply")
        /\ q[6] = Cond("myAnd", 6, Ref(1), Ref(2))
        /\ q[7] = Cond("myAnd", 7, Ref(3), Ref(4))
        /\ q[8] = Cond("myAnd", 8, Ref(6), Ref(7))
        /\ q[9] = Cond("myAnd", 9, Ref(8), Ref(5))
    BY DEF MainTest, Test
  <1>2. /\ v1 \in BOOLEAN /\ v2 \in BOOLEAN /\ v3 \in BOOLEAN /\ v4 \in BOOLEAN
        /\ v5 \in BOOLEAN /\ v6 \in BOOLEAN /\ v7 \in BOOLEAN /\ v8 \in BOOLEAN
        /\ v9 \in BOOLEAN
    OBVIOUS
  <1>3. v6 = (v1 /\ v2) /\ v7 = (v3 /\ v4) /\ v8 = (v6 /\ v7) /\ v9 = (v8 /\ v5)
    OBVIOUS
  <1>8. v6 = FALSE /\ v7 = FALSE /\ v8 = FALSE /\ v9 = FALSE
    OBVIOUS
  <1>9. /\ v1 = (in = "ai1_ce1") /\ v2 = (in = "usr4_ai1_VoidReply")
        /\ v3 = (in = "usr4_ni1_ne1") /\ v4 = (in = "ai1_ce2")
        /\ v5 = (in = "usr2_ai1_VoidReply")
    OBVIOUS
  <1>4. "myEquals" \in Types /\ "myAnd" \in Types
    BY DEF Types
  <1>5. \A k \in 1 .. 8 : k \in Bools
    BY DEF Bools
  <1> HIDE DEF q, v1, v2, v3, v4, v5, v6, v7, v8, v9
  <1>6. PICK g : Evaluates(g, Fresh0(bo), q, 9) /\ Evaluated(Fresh0(bo), q) = g[9]
    <2>1. DOMAIN q = 1 .. 9 /\ 9 \in Nat
      BY <1>1
    <2> QED BY <2>1, EvaluateSteps, ZenonT(30)
  <1>7. \A k \in 0 .. 8 : g[k + 1] = Evaluate(g[k], q[k + 1])
    BY <1>6 DEF Evaluates
  <1>10. Column(g[0], 0)
    <2>1. g[0] = Fresh0(bo)
      BY <1>6 DEF Evaluates
    <2> QED BY <2>1, FreshFacts, ListFacts DEF Column, TypesKnown
  <1>11. /\ Column(g[1], 1)
         /\ g[1].bool[1] = v1
    <2>1. g[1] = Evaluate(g[0], Cond("myEquals", 1, in, "ai1_ce1"))
      <3>1. 0 \in 0 .. 8 /\ 0 + 1 = 1
        OBVIOUS
      <3> QED BY <1>1, <1>7, <3>1
    <2>2. Outcome(Cond("myEquals", 1, in, "ai1_ce1"), g[0].bool) = v1
      BY <1>9, Outcomes
    <2>4. 0 \in 0 .. 8 /\ 0 + 1 = 1
      OBVIOUS
    <2>5. /\ Column(g[1], 1) /\ g[1].bool[1] = v1
          /\ \A n \in 1 .. 0 : g[1].bool[n] = g[0].bool[n]
      BY <1>2, <1>4, <1>10, <2>1, <2>2, <2>4, ColumnGrows
    <2> QED BY <1>10, <2>5
  <1>12. /\ Column(g[2], 2)
         /\ g[2].bool[1] = v1 /\ g[2].bool[2] = v2
    <2>1. g[2] = Evaluate(g[1], Cond("myEquals", 2, in, "usr4_ai1_VoidReply"))
      <3>1. 1 \in 0 .. 8 /\ 1 + 1 = 2
        OBVIOUS
      <3> QED BY <1>1, <1>7, <3>1
    <2>2. Outcome(Cond("myEquals", 2, in, "usr4_ai1_VoidReply"), g[1].bool) = v2
      BY <1>9, Outcomes
    <2>4. 1 \in 0 .. 8 /\ 1 + 1 = 2
      OBVIOUS
    <2>5. /\ Column(g[2], 2) /\ g[2].bool[2] = v2
          /\ \A n \in 1 .. 1 : g[2].bool[n] = g[1].bool[n]
      BY <1>2, <1>4, <1>11, <2>1, <2>2, <2>4, ColumnGrows
    <2> QED BY <1>11, <2>5
  <1>13. /\ Column(g[3], 3)
         /\ g[3].bool[1] = v1 /\ g[3].bool[2] = v2 /\ g[3].bool[3] = v3
    <2>1. g[3] = Evaluate(g[2], Cond("myEquals", 3, in, "usr4_ni1_ne1"))
      <3>1. 2 \in 0 .. 8 /\ 2 + 1 = 3
        OBVIOUS
      <3> QED BY <1>1, <1>7, <3>1
    <2>2. Outcome(Cond("myEquals", 3, in, "usr4_ni1_ne1"), g[2].bool) = v3
      BY <1>9, Outcomes
    <2>4. 2 \in 0 .. 8 /\ 2 + 1 = 3
      OBVIOUS
    <2>5. /\ Column(g[3], 3) /\ g[3].bool[3] = v3
          /\ \A n \in 1 .. 2 : g[3].bool[n] = g[2].bool[n]
      BY <1>2, <1>4, <1>12, <2>1, <2>2, <2>4, ColumnGrows
    <2> QED BY <1>12, <2>5
  <1>14. /\ Column(g[4], 4)
         /\ g[4].bool[1] = v1 /\ g[4].bool[2] = v2 /\ g[4].bool[3] = v3 /\ g[4].bool[4] = v4
    <2>1. g[4] = Evaluate(g[3], Cond("myEquals", 4, in, "ai1_ce2"))
      <3>1. 3 \in 0 .. 8 /\ 3 + 1 = 4
        OBVIOUS
      <3> QED BY <1>1, <1>7, <3>1
    <2>2. Outcome(Cond("myEquals", 4, in, "ai1_ce2"), g[3].bool) = v4
      BY <1>9, Outcomes
    <2>4. 3 \in 0 .. 8 /\ 3 + 1 = 4
      OBVIOUS
    <2>5. /\ Column(g[4], 4) /\ g[4].bool[4] = v4
          /\ \A n \in 1 .. 3 : g[4].bool[n] = g[3].bool[n]
      BY <1>2, <1>4, <1>13, <2>1, <2>2, <2>4, ColumnGrows
    <2> QED BY <1>13, <2>5
  <1>15. /\ Column(g[5], 5)
         /\ g[5].bool[1] = v1 /\ g[5].bool[2] = v2 /\ g[5].bool[3] = v3 /\ g[5].bool[4] = v4
         /\ g[5].bool[5] = v5
    <2>1. g[5] = Evaluate(g[4], Cond("myEquals", 5, in, "usr2_ai1_VoidReply"))
      <3>1. 4 \in 0 .. 8 /\ 4 + 1 = 5
        OBVIOUS
      <3> QED BY <1>1, <1>7, <3>1
    <2>2. Outcome(Cond("myEquals", 5, in, "usr2_ai1_VoidReply"), g[4].bool) = v5
      BY <1>9, Outcomes
    <2>4. 4 \in 0 .. 8 /\ 4 + 1 = 5
      OBVIOUS
    <2>5. /\ Column(g[5], 5) /\ g[5].bool[5] = v5
          /\ \A n \in 1 .. 4 : g[5].bool[n] = g[4].bool[n]
      BY <1>2, <1>4, <1>14, <2>1, <2>2, <2>4, ColumnGrows
    <2> QED BY <1>14, <2>5
  <1>16. /\ Column(g[6], 6)
         /\ g[6].bool[1] = v1 /\ g[6].bool[2] = v2 /\ g[6].bool[3] = v3 /\ g[6].bool[4] = v4
         /\ g[6].bool[5] = v5 /\ g[6].bool[6] = v6
    <2>1. g[6] = Evaluate(g[5], Cond("myAnd", 6, Ref(1), Ref(2)))
      <3>1. 5 \in 0 .. 8 /\ 5 + 1 = 6
        OBVIOUS
      <3> QED BY <1>1, <1>7, <3>1
    <2>3. Deref(Ref(1), g[5].bool) = v1 /\ Deref(Ref(2), g[5].bool) = v2
      BY <1>5, <1>15, Derefs
    <2>2. Outcome(Cond("myAnd", 6, Ref(1), Ref(2)), g[5].bool) = v6
      BY <1>3, <2>3, Outcomes
    <2>4. 5 \in 0 .. 8 /\ 5 + 1 = 6
      OBVIOUS
    <2>5. /\ Column(g[6], 6) /\ g[6].bool[6] = v6
          /\ \A n \in 1 .. 5 : g[6].bool[n] = g[5].bool[n]
      BY <1>2, <1>4, <1>15, <2>1, <2>2, <2>4, ColumnGrows
    <2> QED BY <1>15, <2>5
  <1>17. /\ Column(g[7], 7)
         /\ g[7].bool[1] = v1 /\ g[7].bool[2] = v2 /\ g[7].bool[3] = v3 /\ g[7].bool[4] = v4
         /\ g[7].bool[5] = v5 /\ g[7].bool[6] = v6 /\ g[7].bool[7] = v7
    <2>1. g[7] = Evaluate(g[6], Cond("myAnd", 7, Ref(3), Ref(4)))
      <3>1. 6 \in 0 .. 8 /\ 6 + 1 = 7
        OBVIOUS
      <3> QED BY <1>1, <1>7, <3>1
    <2>3. Deref(Ref(3), g[6].bool) = v3 /\ Deref(Ref(4), g[6].bool) = v4
      BY <1>5, <1>16, Derefs
    <2>2. Outcome(Cond("myAnd", 7, Ref(3), Ref(4)), g[6].bool) = v7
      BY <1>3, <2>3, Outcomes
    <2>4. 6 \in 0 .. 8 /\ 6 + 1 = 7
      OBVIOUS
    <2>5. /\ Column(g[7], 7) /\ g[7].bool[7] = v7
          /\ \A n \in 1 .. 6 : g[7].bool[n] = g[6].bool[n]
      BY <1>2, <1>4, <1>16, <2>1, <2>2, <2>4, ColumnGrows
    <2> QED BY <1>16, <2>5
  <1>18. /\ Column(g[8], 8)
         /\ g[8].bool[1] = v1 /\ g[8].bool[2] = v2 /\ g[8].bool[3] = v3 /\ g[8].bool[4] = v4
         /\ g[8].bool[5] = v5 /\ g[8].bool[6] = v6 /\ g[8].bool[7] = v7 /\ g[8].bool[8] = v8
    <2>1. g[8] = Evaluate(g[7], Cond("myAnd", 8, Ref(6), Ref(7)))
      <3>1. 7 \in 0 .. 8 /\ 7 + 1 = 8
        OBVIOUS
      <3> QED BY <1>1, <1>7, <3>1
    <2>3. Deref(Ref(6), g[7].bool) = v6 /\ Deref(Ref(7), g[7].bool) = v7
      BY <1>5, <1>17, Derefs
    <2>2. Outcome(Cond("myAnd", 8, Ref(6), Ref(7)), g[7].bool) = v8
      BY <1>3, <2>3, Outcomes
    <2>4. 7 \in 0 .. 8 /\ 7 + 1 = 8
      OBVIOUS
    <2>5. /\ Column(g[8], 8) /\ g[8].bool[8] = v8
          /\ \A n \in 1 .. 7 : g[8].bool[n] = g[7].bool[n]
      BY <1>2, <1>4, <1>17, <2>1, <2>2, <2>4, ColumnGrows
    <2> QED BY <1>17, <2>5
  <1>19. /\ Column(g[9], 9)
         /\ g[9].bool[1] = v1 /\ g[9].bool[2] = v2 /\ g[9].bool[3] = v3 /\ g[9].bool[4] = v4
         /\ g[9].bool[5] = v5 /\ g[9].bool[6] = v6 /\ g[9].bool[7] = v7 /\ g[9].bool[8] = v8 /\ g[9].bool[9] = v9
    <2>1. g[9] = Evaluate(g[8], Cond("myAnd", 9, Ref(8), Ref(5)))
      <3>1. 8 \in 0 .. 8 /\ 8 + 1 = 9
        OBVIOUS
      <3> QED BY <1>1, <1>7, <3>1
    <2>3. Deref(Ref(8), g[8].bool) = v8 /\ Deref(Ref(5), g[8].bool) = v5
      BY <1>5, <1>18, Derefs
    <2>2. Outcome(Cond("myAnd", 9, Ref(8), Ref(5)), g[8].bool) = v9
      BY <1>3, <2>3, Outcomes
    <2>4. 8 \in 0 .. 8 /\ 8 + 1 = 9
      OBVIOUS
    <2>5. /\ Column(g[9], 9) /\ g[9].bool[9] = v9
          /\ \A n \in 1 .. 8 : g[9].bool[n] = g[8].bool[n]
      BY <1>2, <1>4, <1>18, <2>1, <2>2, <2>4, ColumnGrows
    <2> QED BY <1>18, <2>5
  <1>20. g[9].lst[9].was = FALSE
    BY <1>8, <1>19 DEF Column
  <1>21. Quiet(g[9].bool)
    BY <1>8, <1>19 DEF Quiet
  <1>22. Joins(g[9].lst)
    <2>1. /\ IsList(g[7].lst) /\ Len(g[7].lst) = 7 /\ IsList(g[8].lst) /\ Len(g[8].lst) = 8
          /\ IsList(g[9].lst) /\ Len(g[9].lst) = 9
      BY <1>17, <1>18, <1>19 DEF Column
    <2> DEFINE c8 == Cond("myAnd", 8, Ref(6), Ref(7))
               c9 == Cond("myAnd", 9, Ref(8), Ref(5))
    <2>2. g[8] = Evaluate(g[7], c8)
      <3>1. 7 \in 0 .. 8 /\ 7 + 1 = 8
        OBVIOUS
      <3> QED BY <1>1, <1>7, <3>1
    <2>3. g[9] = Evaluate(g[8], c9)
      <3>1. 8 \in 0 .. 8 /\ 8 + 1 = 9
        OBVIOUS
      <3> QED BY <1>1, <1>7, <3>1
    <2>4. /\ c8.kept = TRUE /\ c9.kept = TRUE
          /\ c8.type = "myAnd" /\ c8.a = 8 /\ c8.b = Ref(6) /\ c8.c = Ref(7)
      BY DEF Cond
    <2> HIDE DEF c8, c9
    <2>5. /\ g[8].lst[7 + 1].type = c8.type /\ g[8].lst[7 + 1].a = c8.a
          /\ g[8].lst[7 + 1].b = c8.b /\ g[8].lst[7 + 1].c = c8.c
      <3>1. Grown(g[7], g[8], c8)
        BY <2>1, <2>2, <2>4, EvaluateAppends, Zenon
      <3> QED BY <2>1, <3>1 DEF Grown
    <2>6. \A i \in 1 .. 8 : g[9].lst[i] = g[8].lst[i]
      <3>1. Grown(g[8], g[9], c9)
        BY <2>1, <2>3, <2>4, EvaluateAppends, Zenon
      <3> QED BY <2>1, <3>1 DEF Grown
    <2>7. 7 + 1 = 8 /\ 8 \in 1 .. 8 /\ 8 \in 1 .. 9
      OBVIOUS
    <2>8. IsEighth(g[9].lst[8])
      BY <2>4, <2>5, <2>6, <2>7 DEF IsEighth
    <2> QED BY <2>1, <2>7, <2>8, ListFacts DEF Joins
  <1> QED BY <1>6, <1>19, <1>20, <1>21, <1>22 DEF Done, q

-----------------------------------------------------------------------------
(***************************************************************************)
(* The invariant.  Behind main's branch for the latest input, the last of  *)
(* its kind, stand the branches of the call it led to.                     *)
(***************************************************************************)
HitIn(bs, k, kind)     == bs[k].kind = kind /\ Taken(bs[k])
Behind(bs, m)          == (m + 1) .. Len(bs)
NoneTaken(bs, m, kind) == \A k \in Behind(bs, m) : ~ HitIn(bs, k, kind)
OneTaken(bs, m, kind)  ==
  \E k \in Behind(bs, m) :
    HitIn(bs, k, kind) /\ \A j \in Behind(bs, m) \ {k} : ~ HitIn(bs, j, kind)

MainKept(b, bo) ==
  /\ b.kind = "main" /\ ~ Taken(b)
  /\ \A n \in 5 .. 9 : b.condLst[n].a = n /\ b.condLst[n].was = bo[n]

Told(bs, m, rejected) ==
  /\ OneTaken(bs, m, "range")
  /\ rejected => NoneTaken(bs, m, "input")
  /\ ~ rejected => OneTaken(bs, m, "input")

Latest(m) ==
  /\ MainKept(branches[m], bool)
  /\ \A k \in Behind(branches, m) : branches[k].kind # "main"
  /\ phase = "busy" => m = Len(branches)
  /\ phase = "ready" => Told(branches, m, reply = <<Rejected>>)

Known(bs) == IsList(bs) /\ \A k \in 1 .. Len(bs) : TypesKnown(bs[k].condLst)

MainsJoin(bs) == \A k \in 1 .. Len(bs) : bs[k].kind = "main" => Joins(bs[k].condLst)

DInv ==
  /\ Sound
  /\ bool \in Typed
  /\ Known(branches)
  /\ Quiet(bool) /\ MainsJoin(branches)
  /\ ~ map.throws
  /\ map # NotAsked => phase = "ready" /\ calls = MaxInputs
  /\ MainReported
  /\ phase = "busy" => branches # <<>>
  /\ branches # <<>> => \E m \in 1 .. Len(branches) : Latest(m)

LEMMA EmptyList == IsList(<<>>) /\ Len(<<>>) = 0
  BY TallyEmpty DEF Tally, AllSane

LEMMA InitDInv == DInit => DInv
  <1> SUFFICES ASSUME DInit PROVE DInv
    OBVIOUS
  <1>1. /\ A = My(-68, FALSE) /\ B = My(-44, FALSE)
        /\ C = My(173, FALSE) /\ a1745113960 = My("h", FALSE)
        /\ phase = "ready" /\ input = Other /\ reply = <<>>
    BY DEF DInit, Init, Start, A, B, C
  <1>2. J!NeverStranded /\ J!OperandRange
    BY <1>1, StartSound DEF My
  <1>3. Sound
    BY <1>1, <1>2 DEF Sound, Replies
  <1>4. bool \in Typed
    BY DEF DInit, Typed
  <1>5. Known(branches) /\ branches = <<>>
    BY EmptyList DEF DInit, Known
  <1>6. ~ map.throws /\ map = NotAsked
    BY DEF DInit, NotAsked
  <1>7. MainReported
    BY <1>6 DEF MainReported
  <1>8. Quiet(bool)
    BY DEF DInit, Quiet, Bools
  <1>9. MainsJoin(branches)
    BY <1>5, EmptyList DEF MainsJoin
  <1> QED BY <1>1, <1>3, <1>4, <1>5, <1>6, <1>7, <1>8, <1>9 DEF DInv

-----------------------------------------------------------------------------
(***************************************************************************)
(* main reads an input.                                                    *)
(***************************************************************************)
LEMMA RecordingIs ==
  ASSUME NEW tests
  PROVE  Recording(tests) = Recorded([bool |-> bool, new |-> <<>>], tests)
  BY Zenon DEF Recording, Recorded

LEMMA Record1 ==
  ASSUME NEW base, NEW t
  PROVE  Recorded(base, <<t>>) = Record(base, t)
  <1> DEFINE q == <<t>>
  <1>1. q[1] = t /\ DOMAIN q = 1 .. 1 /\ 1 \in Nat
    OBVIOUS
  <1> HIDE DEF q
  <1>2. PICK g : Records(g, base, q, 1) /\ Recorded(base, q) = g[1]
    BY <1>1, RecordSteps
  <1>3. g[0] = base /\ g[1] = Record(g[0], q[1])
    BY <1>2 DEF Records
  <1>4. Recorded(base, q) = Record(base, t)
    BY <1>1, <1>2, <1>3
  <1> QED BY <1>4 DEF q

\* The branch main makes for an input.
LEMMA MainRecorded ==
  ASSUME bool \in Typed, NEW in
  PROVE  LET r == Recording(<<MainTest(in)>>)
         IN  /\ r.bool \in Typed
             /\ Quiet(r.bool)
             /\ \E b : /\ r.new = <<b>> /\ MainKept(b, r.bool) /\ TypesKnown(b.condLst)
                       /\ Joins(b.condLst)
  <1> DEFINE t == MainTest(in)
             base == [bool |-> bool, new |-> <<>>]
             d == Done(bool, t)
             b == [input |-> t.input, kind |-> t.kind, condLst |-> d.lst]
             r == Recording(<<t>>)
  <1>1. Column(d, 9) /\ d.lst[9].was = FALSE /\ Quiet(d.bool) /\ Joins(d.lst)
    BY MainTells
  <1>2. t.kind = "main"
    BY DEF MainTest, Test
  <1>3. base.bool = bool /\ base.new = <<>>
    OBVIOUS
  <1>4. b.kind = "main" /\ b.condLst = d.lst
    BY <1>2
  <1> HIDE DEF t, base
  <1>5. r = Record(base, t)
    BY RecordingIs, Record1 DEF base
  <1>6. r.bool = d.bool /\ r.new = Append(<<>>, b)
    BY <1>3, <1>5, RecordIs
  <1> HIDE DEF r, b, d
  <1>7. r.new = <<b>>
    BY <1>6
  <1>8. /\ d.bool \in Typed /\ Len(d.lst) = 9 /\ TypesKnown(d.lst)
        /\ \A n \in 1 .. 9 : d.lst[n].a = n /\ d.lst[n].was = d.bool[n]
    BY <1>1 DEF Column
  <1>9. MainKept(b, r.bool)
    BY <1>1, <1>4, <1>6, <1>8 DEF MainKept, Taken
  <1>10. r.bool \in Typed /\ TypesKnown(b.condLst) /\ Quiet(r.bool) /\ Joins(b.condLst)
    BY <1>1, <1>4, <1>6, <1>8
  <1> QED BY <1>7, <1>9, <1>10 DEF r, t

\* A step that leaves the fields alone.
LEMMA KeptSound ==
  ASSUME Sound, UNCHANGED fields
  PROVE  J!NeverStranded' /\ J!OperandRange'
  <1>1. A' = A /\ B' = B /\ C' = C /\ a1745113960' = a1745113960
    BY DEF fields, A, B, C
  <1> QED BY <1>1 DEF Sound, J!NeverStranded, J!InRegion, J!Range1, J!Range2, J!Range3, J!Range4,
                J!OperandRange

LEMMA KnownJoin ==
  ASSUME NEW bs, NEW cs, Known(bs), Known(cs)
  PROVE  /\ Known(bs \o cs) /\ Len(bs \o cs) = Len(bs) + Len(cs)
         /\ Len(bs) \in Nat /\ Len(cs) \in Nat
         /\ \A k \in 1 .. Len(bs) : (bs \o cs)[k] = bs[k]
         /\ \A k \in 1 .. Len(cs) : (bs \o cs)[Len(bs) + k] = cs[k]
  <1>1. IsList(bs) /\ IsList(cs)
    BY DEF Known
  <1>2. Len(bs) \in Nat /\ Len(cs) \in Nat
    BY <1>1, ListFacts
  <1> DEFINE all == bs \o cs
  <1>3. /\ IsList(all) /\ Len(all) = Len(bs) + Len(cs)
        /\ \A k \in 1 .. Len(bs) : all[k] = bs[k]
        /\ \A k \in 1 .. Len(cs) : all[Len(bs) + k] = cs[k]
        /\ \A k \in 1 .. Len(all) :
             k \in 1 .. Len(bs) \/ (k - Len(bs) \in 1 .. Len(cs) /\ all[k] = cs[k - Len(bs)])
    BY <1>1, JoinList
  <1> HIDE DEF all
  <1>4. ASSUME NEW k \in 1 .. Len(all) PROVE TypesKnown(all[k].condLst)
    BY <1>3 DEF Known
  <1>5. Known(all)
    BY <1>3, <1>4 DEF Known
  <1> QED BY <1>2, <1>3, <1>5 DEF all

LEMMA ReadDInv ==
  ASSUME DInv, NEW in \in Inputs, Read(in)
  PROVE  DInv'
  <1> DEFINE r == Recording(<<MainTest(in)>>)
  <1>1. /\ phase' = "busy" /\ input' = in /\ reply' = <<>> /\ UNCHANGED fields
        /\ bool' = r.bool /\ branches' = branches \o r.new /\ map' = map
        /\ calls < MaxInputs
    BY DEF Read, NextInput
  <1>2. Sound'
    <2>1. J!NeverStranded' /\ J!OperandRange'
      BY <1>1, KeptSound DEF DInv
    <2> QED BY <1>1, <2>1 DEF Sound, Replies
  <1>3. PICK b : /\ r.new = <<b>> /\ MainKept(b, r.bool) /\ TypesKnown(b.condLst)
                 /\ Joins(b.condLst)
    BY MainRecorded DEF DInv
  <1>4. r.bool \in Typed /\ Quiet(r.bool)
    BY MainRecorded DEF DInv
  <1> HIDE DEF r
  <1>5. Known(r.new) /\ Len(r.new) = 1 /\ r.new[1] = b
    <2>1. IsList(r.new) /\ Len(r.new) = 1 /\ r.new[1] = b
      BY <1>3, SingleList
    <2> QED BY <1>3, <2>1 DEF Known
  <1>6. PICK m \in Nat \ {0} : m = Len(branches) + 1
    BY ListFacts DEF DInv, Known
  <1>7. /\ Known(branches \o r.new) /\ Len(branches \o r.new) = m /\ (branches \o r.new)[m] = b
        /\ \A k \in 1 .. Len(branches) : (branches \o r.new)[k] = branches[k]
    <2>1. 1 \in 1 .. Len(r.new) /\ Known(branches)
      BY <1>5 DEF DInv
    <2>2. /\ Known(branches \o r.new) /\ Len(branches \o r.new) = Len(branches) + Len(r.new)
          /\ \A k \in 1 .. Len(r.new) : (branches \o r.new)[Len(branches) + k] = r.new[k]
          /\ \A k \in 1 .. Len(branches) : (branches \o r.new)[k] = branches[k]
      <3>1. PICK bs, cs : bs = branches /\ cs = r.new
        OBVIOUS
      <3>2. Known(bs) /\ Known(cs)
        BY <1>5, <2>1, <3>1
      <3>3. /\ Known(bs \o cs) /\ Len(bs \o cs) = Len(bs) + Len(cs)
            /\ \A k \in 1 .. Len(cs) : (bs \o cs)[Len(bs) + k] = cs[k]
            /\ \A k \in 1 .. Len(bs) : (bs \o cs)[k] = bs[k]
        BY <3>2, KnownJoin
      <3> QED BY <3>1, <3>3
    <2>3. (branches \o r.new)[Len(branches) + 1] = b
      BY <1>5, <2>1, <2>2
    <2> QED BY <1>5, <1>6, <2>2, <2>3
  <1>8. Known(branches') /\ Len(branches') = m /\ branches'[m] = b /\ branches' # <<>>
    BY <1>1, <1>7, EmptyList
  <1>9. Latest(m)'
    <2>1. MainKept(branches'[m], bool')
      BY <1>1, <1>3, <1>8
    <2>2. Behind(branches', m) = {}
      BY <1>8 DEF Behind
    <2> QED BY <1>1, <1>8, <2>1, <2>2 DEF Latest
  <1>10. \E k \in 1 .. Len(branches') : Latest(k)'
    BY <1>8, <1>9
  <1>11. MainsJoin(branches')
    <2>1. ASSUME NEW k \in 1 .. m, branches'[k].kind = "main" PROVE Joins(branches'[k].condLst)
      <3>1. CASE k = m
        BY <1>3, <1>8, <3>1
      <3>2. CASE k \in 1 .. Len(branches)
        <4>1. branches'[k] = branches[k]
          BY <1>1, <1>7, <3>2
        <4> QED BY <2>1, <3>2, <4>1 DEF DInv, MainsJoin
      <3>3. Len(branches) \in Nat
        BY ListFacts DEF DInv, Known
      <3> QED BY <1>6, <3>1, <3>2, <3>3
    <2> QED BY <1>8, <2>1 DEF MainsJoin
  <1>12. map = NotAsked
    <2>1. ~ (calls = MaxInputs)
      BY <1>1, MaxInputsAssumption
    <2> QED BY <2>1 DEF DInv
  <1>13. map' = NotAsked /\ MainReported'
    BY <1>1, <1>12 DEF MainReported
  <1> QED BY <1>1, <1>2, <1>4, <1>8, <1>10, <1>11, <1>13 DEF DInv

-----------------------------------------------------------------------------
(***************************************************************************)
(* A call of CalculateOutput.                                              *)
(***************************************************************************)
LEMMA RejectedIsNoOutput == Rejected \notin Outputs
  BY Zenon DEF Rejected, Outputs

\* A method that fires clears cf.
LEMMA FiredClears ==
  /\ CalculateOutputm1 \/ CalculateOutputm2 \/ CalculateOutputm3 \/ CalculateOutputm4 => cf'.val = FALSE
  /\ CalculateOutputm5 \/ CalculateOutputm6 \/ CalculateOutputm7 \/ CalculateOutputm8 => cf'.val = FALSE
  <1>1. ASSUME NEW out, NEW tainted, Emit(out, tainted) PROVE cf'.val = FALSE
    BY <1>1 DEF Emit, My
  <1>2. ASSUME CalculateOutputm1 PROVE cf'.val = FALSE
    BY <1>1, <1>2, Zenon DEF CalculateOutputm1
  <1>3. ASSUME CalculateOutputm2 PROVE cf'.val = FALSE
    BY <1>1, <1>3, Zenon DEF CalculateOutputm2
  <1>4. ASSUME CalculateOutputm3 PROVE cf'.val = FALSE
    BY <1>1, <1>4, Zenon DEF CalculateOutputm3
  <1>5. ASSUME CalculateOutputm4 PROVE cf'.val = FALSE
    BY <1>5 DEF CalculateOutputm4, On, Emit, My, Raised, Missed
  <1>6. ASSUME CalculateOutputm5 PROVE cf'.val = FALSE
    BY <1>1, <1>6, Zenon DEF CalculateOutputm5
  <1>7. ASSUME CalculateOutputm6 PROVE cf'.val = FALSE
    BY <1>7 DEF CalculateOutputm6, On, Emit, My, Raised, Missed
  <1>8. ASSUME CalculateOutputm7 PROVE cf'.val = FALSE
    BY <1>8 DEF CalculateOutputm7, On, Emit, My, Raised, Missed
  <1>9. ASSUME CalculateOutputm8 PROVE cf'.val = FALSE
    BY <1>1, <1>9, Zenon DEF CalculateOutputm8
  <1> QED BY <1>2, <1>3, <1>4, <1>5, <1>6, <1>7, <1>8, <1>9

\* One of the methods fires, or none; the second is what main reports.
LEMMA CallOutcome ==
  ASSUME Sound, CalculateOutput
  PROVE  \/ /\ cf'.val = TRUE /\ a2108127495' = a2108127495 /\ reply' = <<Rejected>>
            /\ ~ \E l \in Locs : Serves(l) /\ input \in Tests(l)
         \/ /\ cf'.val = FALSE /\ reply' # <<Rejected>>
            /\ \E l \in Locs : Serves(l) /\ input \in Tests(l)
  <1>1. CASE NoTransition
    <2>1. cf' = My(TRUE, FALSE)
      BY <1>1 DEF NoTransition
    <2>2. cf'.val = TRUE
      BY <2>1 DEF My
    <2> QED BY <1>1, <2>2 DEF NoTransition
  <1>2. CASE ~ NoTransition
    <2>1. Answered
      BY <1>2, CalculateCases
    <2>2. PICK t \in Trans : reply' = <<t.out>>
      BY <2>1 DEF Answered
    <2>3. t.out # Rejected
      BY TransTypes, RejectedIsNoOutput
    <2>4. reply' # <<Rejected>>
      BY <2>2, <2>3
    <2>5. cf'.val = FALSE
      BY <1>2, FiredClears DEF CalculateOutput
    <2>6. \E l \in Locs : Serves(l) /\ input \in Tests(l)
      <3>1. {"m1", "m2", "m3", "m4", "m5", "m6", "m7", "m8"} = Locs
        BY DEF Locs
      <3> QED BY <1>2, <3>1, Tested, Zenon DEF CalculateOutput
    <2> QED BY <2>4, <2>5, <2>6
  <1> QED BY <1>1, <1>2

LEMMA MethodNames ==
  /\ \A l \in Locs : \E k \in 1 .. 8 : Method(k) = l
  /\ \A k \in 1 .. 8 : Method(k) \in Locs
  <1>1. /\ Method(1) = "m1" /\ Method(2) = "m2" /\ Method(3) = "m3" /\ Method(4) = "m4"
        /\ Method(5) = "m5" /\ Method(6) = "m6" /\ Method(7) = "m7" /\ Method(8) = "m8"
    BY DEF Method
  <1>2. \A k \in 1 .. 8 : Method(k) \in Locs
    BY OrderTests
  <1>3. 1 \in 1 .. 8 /\ 2 \in 1 .. 8 /\ 3 \in 1 .. 8 /\ 4 \in 1 .. 8 /\ 5 \in 1 .. 8
        /\ 6 \in 1 .. 8 /\ 7 \in 1 .. 8 /\ 8 \in 1 .. 8
    OBVIOUS
  <1> QED BY <1>1, <1>2, <1>3 DEF Locs

LEMMA ServedZone ==
  ASSUME NEW l \in 1 .. 8, B.val \in Int, Serves(Method(l))
  PROVE  InZone(l, B.val)
  <1>1. l = 1 \/ l = 2 \/ l = 3 \/ l = 4 \/ l = 5 \/ l = 6 \/ l = 7 \/ l = 8
    OBVIOUS
  <1>2. /\ Method(1) = "m1" /\ Method(2) = "m2" /\ Method(3) = "m3" /\ Method(4) = "m4"
        /\ Method(5) = "m5" /\ Method(6) = "m6" /\ Method(7) = "m7" /\ Method(8) = "m8"
    BY DEF Method
  <1>3. CASE l = 1
    <2>1. Serves("m1")
      BY <1>2, <1>3
    <2>2. B.val <= -164
      BY <2>1 DEF Serves
    <2> QED BY <1>3, <2>2 DEF InZone
  <1>4. CASE l \in 2 .. 5
    <2>1. Method(l) \in {"m2", "m3", "m4", "m5"}
      BY <1>1, <1>2, <1>4
    <2>2. -164 < B.val /\ -19 >= B.val
      BY <2>1 DEF Serves
    <2> QED BY <1>4, <2>2 DEF InZone
  <1>5. CASE l \in 6 .. 7
    <2>1. Method(l) \in {"m6", "m7"}
      BY <1>1, <1>2, <1>5
    <2>2. -19 < B.val /\ 100 >= B.val
      BY <2>1 DEF Serves
    <2> QED BY <1>5, <2>2 DEF InZone
  <1>6. CASE l = 8
    <2>1. Serves("m8")
      BY <1>2, <1>6
    <2>2. 100 < B.val
      BY <2>1 DEF Serves
    <2> QED BY <1>6, <2>2 DEF InZone
  <1> QED BY <1>1, <1>3, <1>4, <1>5, <1>6

\* The tests Calculate records, with what the answer makes of them.
Serving == CHOOSE k \in 1 .. 8 : Serves(Method(k))
Before  == [a |-> A.val, b |-> B.val, c |-> C.val, s |-> a1745113960.val, cf |-> TRUE]
After   == [b |-> a2108127495'.val, s |-> a1745113960'.val, cf |-> cf'.val]

LEMMA CallTests1 ==
  ASSUME Sound, CalculateOutput
  PROVE  \E h : /\ Tally(CallTests(Serving, Before, After), 1, h)
                /\ reply' = <<Rejected>> => h = 0
                /\ reply' # <<Rejected>> => h = 1
  <1> DEFINE l == Serving
  <1>1. PICK k \in Locs : Serves(k)
    BY RegionServed, Tables DEF Sound, J!NeverStranded
  <1>2. l \in 1 .. 8 /\ Serves(Method(l))
    <2>1. \E j \in 1 .. 8 : Serves(Method(j))
      BY <1>1, MethodNames
    <2> QED BY <2>1, Zenon DEF Serving
  <1> HIDE DEF l
  <1>3. A.val \in Int /\ B.val \in Int /\ C.val \in Int
    BY Integers183
  <1>4. a2108127495'.val \in Int
    BY CalculateSound DEF Sound, J!OperandRange, B
  <1>5. InZone(l, B.val)
    BY <1>2, <1>3, ServedZone
  <1>6. Method(l) \in Locs /\ (input \in Tests(Method(l)) <=> Accepted(l))
    BY <1>2, OrderTests DEF Accepted
  <1>7. Accepted(l) <=> \E j \in Locs : Serves(j) /\ input \in Tests(j)
    <2>1. ASSUME NEW j \in Locs, Serves(j), input \in Tests(j) PROVE Accepted(l)
      <3>1. j = Method(l)
        BY <1>2, <1>3, <1>6, <2>1, OneServes
      <3> QED BY <1>6, <2>1, <3>1
    <2>2. ASSUME Accepted(l) PROVE \E j \in Locs : Serves(j) /\ input \in Tests(j)
      BY <1>2, <1>6, <2>2
    <2> QED BY <2>1, <2>2
  <1> DEFINE b == Before
             f == After
  <1>8. b.a = A.val /\ b.b = B.val /\ b.c = C.val /\ b.cf = TRUE
    BY DEF Before
  <1>9. f.b = a2108127495'.val /\ f.cf = cf'.val
    BY DEF After
  <1> HIDE DEF b, f
  <1>10. /\ b.a \in Int /\ b.b \in Int /\ b.c \in Int /\ f.b \in Int /\ InZone(l, b.b)
    BY <1>3, <1>4, <1>5, <1>8, <1>9
  <1>11. CASE cf'.val = TRUE
    <2>1. /\ a2108127495' = a2108127495 /\ reply' = <<Rejected>> /\ ~ Accepted(l)
      BY <1>7, <1>11, CallOutcome
    <2>2. f.cf \in BOOLEAN /\ (f.cf => f.b = b.b)
      BY <1>8, <1>9, <1>11, <2>1 DEF B
    <2>3. Counts(Accepted(l), 0)
      BY <2>1 DEF Counts
    <2>4. Tally(CallTests(l, b, f), 1, 0)
      BY <1>2, <1>8, <1>10, <2>2, <2>3, CallTally
    <2> QED BY <2>1, <2>4 DEF l, b, f
  <1>12. CASE cf'.val = FALSE
    <2>1. reply' # <<Rejected>> /\ Accepted(l)
      BY <1>7, <1>12, CallOutcome
    <2>2. f.cf \in BOOLEAN /\ (f.cf => f.b = b.b)
      BY <1>9, <1>12
    <2>3. Counts(Accepted(l), 1)
      BY <2>1 DEF Counts
    <2>4. Tally(CallTests(l, b, f), 1, 1)
      BY <1>2, <1>8, <1>10, <2>2, <2>3, CallTally
    <2> QED BY <2>1, <2>4 DEF l, b, f
  <1> QED BY <1>11, <1>12, CallOutcome

(***************************************************************************)
(* What the tally of a call's tests says of the branches that recorded     *)
(* them, appended to the m there were.                                     *)
(***************************************************************************)
Extends(all, bs, m, rejected) ==
  /\ Known(all)
  /\ \A k \in Behind(all, m) : all[k].kind # "main"
  /\ Told(all, m, rejected)
  /\ \A k \in 1 .. m : all[k] = bs[k]
  /\ Len(all) >= m

LEMMA TallyTaken ==
  ASSUME NEW tests, NEW h, Tally(tests, 1, h), NEW bo, NEW q,
         SoFar(bo, tests, Len(tests), q), NEW bs, Known(bs), NEW m, m = Len(bs),
         NEW rejected \in BOOLEAN, rejected => h = 0, ~ rejected => h = 1
  PROVE  Extends(bs \o q.new, bs, m, rejected)
  <1> DEFINE new == q.new
             all == bs \o new
             n   == Len(tests)
  <1>1. n \in Nat /\ AllSane(tests)
    BY ListFacts DEF Tally, AllSane
  <1>2. IsList(new) /\ Len(new) = n /\ \A i \in 1 .. n : Made(new[i], tests[i])
    BY DEF SoFar
  <1>3. \A i \in 1 .. n : Sane(tests[i])
    BY <1>1 DEF AllSane
  <1> HIDE DEF new, n
  <1>4. ASSUME NEW i \in 1 .. n
        PROVE  /\ new[i].kind = tests[i].kind /\ new[i].kind # "main" /\ TypesKnown(new[i].condLst)
               /\ Yields(tests[i], TRUE) => Taken(new[i])
               /\ Yields(tests[i], FALSE) => ~ Taken(new[i])
    BY <1>2, <1>3, MadeTells
  <1>5. Known(new)
    BY <1>2, <1>4 DEF Known
  <1>6. /\ Known(all) /\ Len(all) = m + n /\ m \in Nat
        /\ \A k \in 1 .. m : all[k] = bs[k]
        /\ \A i \in 1 .. n : all[m + i] = new[i]
    BY <1>2, <1>5, KnownJoin
  <1> HIDE DEF all
  <1>7. ASSUME NEW k \in Behind(all, m)
        PROVE  k - m \in 1 .. n /\ all[k] = new[k - m] /\ m + (k - m) = k
    <2>1. k - m \in 1 .. n /\ m + (k - m) = k
      BY <1>1, <1>6 DEF Behind, n
    <2> QED BY <1>6, <2>1
  <1>8. ASSUME NEW kind, None(tests, kind) PROVE NoneTaken(all, m, kind)
    <2>1. ASSUME NEW k \in Behind(all, m), HitIn(all, k, kind) PROVE FALSE
      <3>1. k - m \in 1 .. n /\ all[k] = new[k - m]
        BY <1>7
      <3>2. Miss(tests[k - m], kind)
        BY <1>8, <3>1 DEF None, n
      <3>3. tests[k - m].kind = kind
        BY <1>4, <2>1, <3>1 DEF HitIn
      <3>4. Yields(tests[k - m], FALSE)
        BY <3>2, <3>3 DEF Miss
      <3> QED BY <1>4, <2>1, <3>1, <3>4 DEF HitIn
    <2> QED BY <2>1 DEF NoneTaken
  <1>9. ASSUME NEW kind, One(tests, kind) PROVE OneTaken(all, m, kind)
    <2>1. PICK i \in 1 .. n : Hit(tests[i], kind) /\ \A j \in (1 .. n) \ {i} : Miss(tests[j], kind)
      BY <1>9 DEF One, n
    <2>2. m + i \in Behind(all, m) /\ all[m + i] = new[i]
      BY <1>1, <1>6 DEF Behind, n
    <2>3. HitIn(all, m + i, kind)
      BY <1>4, <2>1, <2>2 DEF HitIn, Hit
    <2>4. ASSUME NEW k \in Behind(all, m) \ {m + i}, HitIn(all, k, kind) PROVE FALSE
      <3>1. k - m \in 1 .. n /\ all[k] = new[k - m] /\ k - m # i
        BY <1>7, <2>1
      <3>2. Miss(tests[k - m], kind)
        BY <2>1, <3>1
      <3>3. tests[k - m].kind = kind
        BY <1>4, <2>4, <3>1 DEF HitIn
      <3>4. Yields(tests[k - m], FALSE)
        BY <3>2, <3>3 DEF Miss
      <3> QED BY <1>4, <2>4, <3>1, <3>4 DEF HitIn
    <2> QED BY <2>2, <2>3, <2>4 DEF OneTaken
  <1>10. One(tests, "range") /\ (h = 0 => None(tests, "input")) /\ (h = 1 => One(tests, "input"))
    BY DEF Tally, Score
  <1>11. Told(all, m, rejected)
    BY <1>8, <1>9, <1>10 DEF Told
  <1>12. \A k \in Behind(all, m) : all[k].kind # "main"
    BY <1>4, <1>7
  <1>13. Len(all) >= m
    BY <1>1, <1>6 DEF n
  <1>14. Extends(all, bs, m, rejected)
    BY <1>6, <1>11, <1>12, <1>13 DEF Extends
  <1> QED BY <1>14 DEF all, new

LEMMA CalculateDInv ==
  ASSUME DInv, Calculate
  PROVE  DInv'
  <1> DEFINE tests == CallTests(Serving, Before, After)
             r     == Recording(tests)
  <1>1. /\ CalculateOutput /\ bool' = r.bool /\ branches' = branches \o r.new /\ map' = map
    BY DEF Calculate, Serving, Before, After
  <1>2. phase = "busy" /\ phase' = "ready"
    BY <1>1 DEF CalculateOutput
  <1>3. Sound'
    BY <1>1, CalculateSound DEF DInv
  <1>4. PICK h : /\ Tally(tests, 1, h)
                 /\ reply' = <<Rejected>> => h = 0
                 /\ reply' # <<Rejected>> => h = 1
    BY <1>1, CallTests1 DEF DInv
  <1> HIDE DEF tests
  <1>5. SoFar(bool, tests, Len(tests), r)
    <2>1. r = Recorded([bool |-> bool, new |-> <<>>], tests)
      BY RecordingIs
    <2>2. AllSane(tests) /\ bool \in Typed
      BY <1>4 DEF Tally, DInv
    <2> HIDE DEF r
    <2> QED BY <2>1, <2>2, RecordAll
  <1> HIDE DEF r
  <1>6. branches # <<>> /\ Known(branches)
    BY <1>2 DEF DInv
  <1>7. PICK m \in 1 .. Len(branches) : Latest(m)
    BY <1>6 DEF DInv
  <1>8. m = Len(branches) /\ MainKept(branches[m], bool)
    BY <1>2, <1>7 DEF Latest
  <1>9. /\ Known(branches') /\ Told(branches', m, reply' = <<Rejected>>)
        /\ \A k \in Behind(branches', m) : branches'[k].kind # "main"
        /\ \A k \in 1 .. m : branches'[k] = branches[k]
        /\ branches'[m] = branches[m] /\ Len(branches') >= m
    <2>0. PICK rej \in BOOLEAN : rej = (reply' = <<Rejected>>)
      OBVIOUS
    <2>1. PICK tt, q, bs, bo : tt = tests /\ q = r /\ bs = branches /\ bo = bool
      OBVIOUS
    <2>2. /\ Tally(tt, 1, h) /\ SoFar(bo, tt, Len(tt), q) /\ Known(bs) /\ m = Len(bs)
      BY <1>4, <1>5, <1>6, <1>8, <2>1
    <2>3. (rej => h = 0) /\ (~ rej => h = 1)
      BY <1>4, <2>0
    <2>4. Extends(bs \o q.new, bs, m, rej)
      BY <2>2, <2>3, TallyTaken
    <2>5. branches' = bs \o q.new /\ branches = bs /\ m \in 1 .. m
      BY <1>1, <1>7, <1>8, <2>1
    <2>6. /\ Known(branches') /\ Told(branches', m, rej)
          /\ \A k \in Behind(branches', m) : branches'[k].kind # "main"
          /\ \A k \in 1 .. m : branches'[k] = branches[k]
          /\ branches'[m] = branches[m] /\ Len(branches') >= m
      BY <2>4, <2>5 DEF Extends
    <2> QED BY <2>0, <2>6
  <1>10. bool' \in Typed /\ MainKept(branches'[m], bool')
    BY <1>1, <1>5, <1>8, <1>9 DEF SoFar, MainKept
  <1>11. Latest(m)'
    BY <1>2, <1>9, <1>10 DEF Latest
  <1>12. m \in 1 .. Len(branches')
    BY <1>7, <1>9, ListFacts DEF Known
  <1>13. Quiet(bool')
    <2>1. bool'[6] = bool[6] /\ bool'[7] = bool[7] /\ bool'[8] = bool[8]
      BY <1>1, <1>5 DEF SoFar
    <2>2. Quiet(bool)
      BY DEF DInv
    <2> QED BY <2>1, <2>2 DEF Quiet
  <1>14. MainsJoin(branches')
    <2>1. Len(branches') \in Nat /\ m \in Nat
      BY <1>7, <1>9, ListFacts DEF Known
    <2>2. ASSUME NEW k \in 1 .. Len(branches'), branches'[k].kind = "main"
          PROVE  Joins(branches'[k].condLst)
      <3>1. k \in 1 .. m
        <4>1. ~ (k \in Behind(branches', m))
          BY <1>9, <2>2
        <4> QED BY <2>1, <4>1 DEF Behind
      <3>2. branches'[k] = branches[k]
        BY <1>9, <3>1
      <3>3. k \in 1 .. Len(branches)
        BY <1>8, <3>1
      <3> QED BY <2>2, <3>2, <3>3 DEF DInv, MainsJoin
    <2> QED BY <2>2 DEF MainsJoin
  <1>15. map' = NotAsked /\ MainReported'
    <2>1. map = NotAsked
      BY <1>2 DEF DInv
    <2> QED BY <1>1, <2>1 DEF MainReported
  <1> QED BY <1>1, <1>2, <1>3, <1>9, <1>10, <1>11, <1>12, <1>13, <1>14, <1>15 DEF DInv

-----------------------------------------------------------------------------
(***************************************************************************)
(* Distances are asked for.                                                *)
(***************************************************************************)
LEMMA CompareNeverThrows ==
  ASSUME NEW trace, NEW c, c.type \in Types
  PROVE  Compare(trace, c) # "throws"
  <1>1. AndFallsTo = "fails"
    BY DEF AndFallsTo, NullChecked
  <1>2. c.type = "myEquals" \/ c.type = "myAnd" \/ c.type = "myLess" \/ c.type = "myLessEqual"
          \/ c.type = "myGreaterEqual"
    BY DEF Types
  <1> DEFINE verdict(b) == IF b THEN "counts" ELSE "fails"
  <1>3. \A b : verdict(b) \in {"counts", "fails"}
    OBVIOUS
  <1>4. Compare(trace, c) \in {"counts", "fails"}
    <2>1. CASE c.type = "myEquals"
      BY <2>1, Zenon DEF Compare
    <2>2. CASE c.type = "myAnd"
      BY <1>1, <2>2, Zenon DEF Compare
    <2>3. CASE c.type = "myLess"
      BY <2>3, Zenon DEF Compare
    <2>4. CASE c.type = "myLessEqual"
      BY <2>4, Zenon DEF Compare
    <2>5. CASE c.type = "myGreaterEqual"
      BY <2>5, Zenon DEF Compare
    <2> QED BY <1>2, <2>1, <2>2, <2>3, <2>4, <2>5
  <1> QED BY <1>4

\* main's eighth comparison: FALSE = FALSE is not the FALSE that was stored.
LEMMA EighthFails ==
  ASSUME NEW trace, NEW c, IsEighth(c), Quiet(bool)
  PROVE  Compare(trace, c) # "counts"
  <1>1. AndFallsTo = "fails"
    BY DEF AndFallsTo, NullChecked
  <1>2. ~ AndCounts(c)
    <2>1. Deref(c.b, bool) = FALSE /\ Deref(c.c, bool) = FALSE
      BY DEF IsEighth, Deref, Ref, Quiet
    <2>2. bool[c.a] = FALSE
      BY DEF IsEighth, Quiet
    <2> QED BY <2>1, <2>2 DEF AndCounts
  <1>3. c.type = "myAnd"
    BY DEF IsEighth
  <1>4. Compare(trace, c) = "fails"
    BY <1>1, <1>2, <1>3, Zenon DEF Compare
  <1> QED BY <1>4

LEMMA AskReports ==
  ASSUME DInv, NEW trace, NEW k \in DOMAIN branches,
         branches[k].kind = "main", branches[k].input = trace
  PROVE  k \in DOMAIN CalculateDistance(trace).dist
  <1>1. k \in 1 .. Len(branches)
    BY ListFacts DEF DInv, Known
  <1>2. 8 \in DOMAIN branches[k].condLst /\ IsEighth(branches[k].condLst[8])
    BY <1>1 DEF DInv, MainsJoin, Joins
  <1>3. Compare(trace, branches[k].condLst[8]) # "counts"
    BY <1>2, EighthFails DEF DInv
  <1>4. Failing(trace, branches[k]) # {}
    BY <1>2, <1>3 DEF Failing
  <1> DEFINE mine == {j \in DOMAIN branches : branches[j].input = trace}
             some == {j \in mine : Failing(trace, branches[j]) # {}}
  <1>5. k \in some
    BY <1>4
  <1>6. DOMAIN CalculateDistance(trace).dist = some
    BY DEF CalculateDistance
  <1> QED BY <1>5, <1>6

LEMMA AskDInv ==
  ASSUME DInv, NEW trace, Ask(trace)
  PROVE  DInv'
  <1>1. /\ UNCHANGED <<vars, bool, branches, calls>> /\ map' = CalculateDistance(trace)
    BY DEF Ask
  <1>2. ~ map'.throws
    <2> DEFINE mine == {k \in DOMAIN branches : branches[k].input = trace}
               some == \E k \in mine : \E n \in DOMAIN branches[k].condLst :
                         Compare(trace, branches[k].condLst[n]) = "throws"
    <2>1. ~ some
      <3>1. \A k \in DOMAIN branches : TypesKnown(branches[k].condLst)
        BY ListFacts DEF DInv, Known
      <3> QED BY <3>1, CompareNeverThrows DEF TypesKnown
    <2>2. CalculateDistance(trace).throws = some
      BY DEF CalculateDistance
    <2> HIDE DEF some
    <2> QED BY <1>1, <2>1, <2>2
  <1>3. phase' = phase /\ input' = input /\ reply' = reply /\ UNCHANGED fields
    BY <1>1 DEF vars
  <1>4. Sound'
    <2>1. J!NeverStranded' /\ J!OperandRange'
      BY <1>3, KeptSound DEF DInv
    <2> QED BY <1>3, <2>1 DEF DInv, Sound, Replies
  <1>5. bool' = bool /\ branches' = branches
    BY <1>1
  <1>6. \A m : Latest(m)' <=> Latest(m)
    BY <1>3, <1>5 DEF Latest
  <1>7. phase' = "ready" /\ calls' = MaxInputs
    BY DEF Ask, vars
  <1>8. MainReported'
    <2>1. map'.trace = trace
      BY <1>1 DEF CalculateDistance
    <2>2. ASSUME NEW k \in DOMAIN branches', branches'[k].kind = "main",
                 branches'[k].input = map'.trace
          PROVE  k \in DOMAIN map'.dist
      <3>1. k \in DOMAIN branches /\ branches[k].kind = "main" /\ branches[k].input = trace
        BY <1>5, <2>1, <2>2
      <3>2. k \in DOMAIN CalculateDistance(trace).dist
        BY <3>1, AskReports
      <3> QED BY <1>1, <3>2
    <2> QED BY <1>2, <2>2 DEF MainReported
  <1>9. Quiet(bool') /\ MainsJoin(branches')
    BY <1>5 DEF DInv
  <1> QED BY <1>2, <1>3, <1>4, <1>5, <1>6, <1>7, <1>8, <1>9 DEF DInv

LEMMA NextDInv == DInv /\ [DNext]_dvars => DInv'
  <1> SUFFICES ASSUME DInv, [DNext]_dvars PROVE DInv'
    OBVIOUS
  <1>1. ASSUME NEW in \in Inputs, Read(in) PROVE DInv'
    BY <1>1, ReadDInv
  <1>2. ASSUME NEW in \in Inputs, Ask(in) PROVE DInv'
    BY <1>2, AskDInv
  <1>3. CASE Calculate
    BY <1>3, CalculateDInv
  <1>4. CASE UNCHANGED dvars
    <2>1. /\ phase' = phase /\ input' = input /\ reply' = reply /\ UNCHANGED fields
          /\ bool' = bool /\ branches' = branches /\ map' = map /\ calls' = calls
      BY <1>4 DEF dvars, vars
    <2>2. Sound'
      <3>1. J!NeverStranded' /\ J!OperandRange'
        BY <2>1, KeptSound DEF DInv
      <3> QED BY <2>1, <3>1 DEF DInv, Sound, Replies
    <2>3. \A m : Latest(m)' <=> Latest(m)
      BY <2>1 DEF Latest
    <2>4. MainReported'
      BY <2>1 DEF MainReported, DInv
    <2> QED BY <2>1, <2>2, <2>3, <2>4 DEF DInv
  <1> QED BY <1>1, <1>2, <1>3, <1>4 DEF DNext

(***************************************************************************)
(* For any number of inputs: the invariant of the recorder.                *)
(***************************************************************************)
THEOREM RecordingInvariance == DSpec => []DInv
  BY InitDInv, NextDInv, PTL DEF DSpec

-----------------------------------------------------------------------------
LEMMA LastMainIs ==
  ASSUME DInv, NEW m \in 1 .. Len(branches), Latest(m)
  PROVE  LastMain = m
  <1> DEFINE S == {k \in DOMAIN branches : branches[k].kind = "main"}
  <1>1. Len(branches) \in Nat /\ DOMAIN branches = 1 .. Len(branches)
    BY ListFacts DEF DInv, Known
  <1>2. m \in S
    BY <1>1 DEF Latest, MainKept
  <1>3. ASSUME NEW k \in S PROVE k <= m
    <2>1. ASSUME ~(k <= m) PROVE FALSE
      <3>1. k \in Behind(branches, m)
        BY <1>1, <2>1 DEF Behind
      <3> QED BY <3>1 DEF Latest
    <2> QED BY <2>1
  <1>4. S \in SUBSET Int
    BY <1>1
  <1>5. LastMain = Max(S)
    BY DEF LastMain
  <1> HIDE DEF S
  <1> QED BY <1>2, <1>3, <1>4, <1>5, MaxIs

(***************************************************************************)
(* For any number of inputs: of the branches recorded for the input that   *)
(* was processed last, exactly one range test came out true, one input     *)
(* test if it was answered and none if it was refused, and main's did not. *)
(***************************************************************************)
THEOREM RecordTells == DSpec => []RecordTellsAnswer
  <1>1. DInv => RecordTellsAnswer
    <2> SUFFICES ASSUME DInv, branches # <<>>, phase = "ready" PROVE RecordTellsAnswer
      BY DEF RecordTellsAnswer
    <2>1. PICK m \in 1 .. Len(branches) : Latest(m)
      BY DEF DInv
    <2>2. LastMain = m
      BY <2>1, LastMainIs
    <2>3. Len(branches) \in Nat
      BY ListFacts DEF DInv, Known
    <2> DEFINE Hits(t) == {k \in m .. Len(branches) : branches[k].kind = t /\ Taken(branches[k])}
    <2>4. /\ \A k \in m .. Len(branches) : k = m \/ k \in Behind(branches, m)
          /\ Behind(branches, m) \subseteq m .. Len(branches)
      BY <2>3 DEF Behind
    <2>5. branches[m].kind = "main" /\ ~ Taken(branches[m])
      BY <2>1 DEF Latest, MainKept
    <2>6. Hits("main") = {}
      BY <2>1, <2>4, <2>5 DEF Latest
    <2>7. ASSUME NEW t, t # "main", OneTaken(branches, m, t) PROVE Cardinality(Hits(t)) = 1
      <3>1. PICK k \in Behind(branches, m) :
              HitIn(branches, k, t) /\ \A j \in Behind(branches, m) \ {k} : ~ HitIn(branches, j, t)
        BY <2>7 DEF OneTaken
      <3>2. Hits(t) = {k}
        BY <2>4, <2>5, <2>7, <3>1 DEF HitIn
      <3> QED BY <3>2, FS_Singleton
    <2>8. ASSUME NEW t, t # "main", NoneTaken(branches, m, t) PROVE Cardinality(Hits(t)) = 0
      <3>1. Hits(t) = {}
        BY <2>4, <2>5, <2>8 DEF NoneTaken, HitIn
      <3> QED BY <3>1, FS_EmptySet
    <2>9. Told(branches, m, reply = <<Rejected>>)
      BY <2>1 DEF Latest
    <2>10. /\ Cardinality(Hits("main")) = 0 /\ Cardinality(Hits("range")) = 1
           /\ Cardinality(Hits("input")) = IF reply = <<Rejected>> THEN 0 ELSE 1
      BY <2>6, <2>7, <2>8, <2>9, FS_EmptySet DEF Told
    <2> QED BY <2>2, <2>10 DEF RecordTellsAnswer
  <1> QED BY <1>1, RecordingInvariance, PTL

(***************************************************************************)
(* For any number of inputs: CalculateDistance gives every branch main has *)
(* made for the trace a distance.                                          *)
(***************************************************************************)
THEOREM MainHasDistance == DSpec => []MainReported
  <1>1. DInv => MainReported
    BY DEF DInv
  <1> QED BY <1>1, RecordingInvariance, PTL

(***************************************************************************)
(* For any number of inputs: no test of CalculateOutput has overwritten a  *)
(* temporary that main's branch for the latest input refers to.            *)
(***************************************************************************)
THEOREM MainSurvives == DSpec => []MainResultsSurvive
  <1>1. DInv => MainResultsSurvive
    <2> SUFFICES ASSUME DInv, branches # <<>> PROVE MainResultsSurvive
      BY DEF MainResultsSurvive
    <2>1. PICK m \in 1 .. Len(branches) : Latest(m)
      BY DEF DInv
    <2>2. LastMain = m
      BY <2>1, LastMainIs
    <2>3. \A n \in 5 .. 9 : branches[m].condLst[n].a = n /\ branches[m].condLst[n].was = bool[n]
      BY <2>1 DEF Latest, MainKept
    <2> QED BY <2>2, <2>3 DEF MainResultsSurvive
  <1> QED BY <1>1, RecordingInvariance, PTL
=============================================================================
