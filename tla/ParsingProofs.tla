---------------------------- MODULE ParsingProofs ----------------------------
(***************************************************************************)
(* What the readers of module FormData and the iterator of module          *)
(* Certificates compute, for inputs of any length: theorems on loops of    *)
(* the code, by induction over their turns.                                *)
(***************************************************************************)
EXTENDS Certificates, FormData, SequenceTheorems, Induction

-----------------------------------------------------------------------------
(* Strings. *)

\* What the decoder may hold.
Decoders == [state : {"NORMAL", "PERCENT_FIRST", "PERCENT_SECOND", "FAILED"}, value : Int, out : Seq(Int)]

\* What it holds after the bytes of a string.
Decoded(s) == FoldLeft(DecodeByte, Decoder, s)

LEMMA HexValueTyped == \A c \in Int : IsHex(c) => HexValue(c) \in 0 .. 15
BY DEF IsHex, HexValue, Digit

LEMMA HexValues ==
    /\ \A c \in 48 .. 57 : HexValue(c) = c - 48
    /\ \A c \in 65 .. 70 : HexValue(c) = c - 55
    /\ \A c \in 97 .. 102 : HexValue(c) = c - 87
<1>1. ASSUME NEW c \in 48 .. 57 PROVE HexValue(c) = c - 48
  BY DEF HexValue, Digit
<1>2. ASSUME NEW c \in 65 .. 70 PROVE HexValue(c) = c - 55
  BY DEF HexValue, Digit
<1>3. ASSUME NEW c \in 97 .. 102 PROVE HexValue(c) = c - 87
  BY DEF HexValue, Digit
<1> QED BY <1>1, <1>2, <1>3

\* A byte in, at most one out.
LEMMA DecodeByteTyped ==
    ASSUME NEW d \in Decoders, NEW c \in Int
    PROVE  DecodeByte(d, c) \in Decoders /\ Len(DecodeByte(d, c).out) <= Len(d.out) + 1
<1> DEFINE e == DecodeByte(d, c)
<1>1. d.out \in Seq(Int) /\ Len(d.out) \in Nat /\ d.value \in Int
  BY DEF Decoders
<1>2. ASSUME NEW v \in Int
      PROVE  Append(d.out, v) \in Seq(Int) /\ Len(Append(d.out, v)) = Len(d.out) + 1
  BY <1>1
<1>3. CASE d.state = "NORMAL" /\ c = PERCENT
  <2>1. e = [d EXCEPT !.state = "PERCENT_FIRST"]
    BY <1>3 DEF DecodeByte
  <2> QED BY <1>1, <2>1 DEF Decoders
<1>4. CASE d.state = "NORMAL" /\ c # PERCENT
  <2>1. PICK v \in Int : v = IF c = PLUS THEN SPACE ELSE c
    BY DEF SPACE
  <2>2. e = [d EXCEPT !.out = Append(@, v)]
    BY <1>4, <2>1 DEF DecodeByte
  <2>3. e.out = Append(d.out, v) /\ e = [state |-> d.state, value |-> d.value, out |-> Append(d.out, v)]
    BY <2>2 DEF Decoders
  <2> QED BY <1>1, <1>2, <1>4, <2>3 DEF Decoders
<1>5. CASE d.state = "PERCENT_FIRST" /\ IsHex(c)
  <2>1. PICK v \in Int : v = 16 * HexValue(c)
    BY <1>5, HexValueTyped
  <2>2. e = [d EXCEPT !.state = "PERCENT_SECOND", !.value = v]
    BY <1>5, <2>1 DEF DecodeByte
  <2>3. e.out = d.out /\ e = [state |-> "PERCENT_SECOND", value |-> v, out |-> d.out]
    BY <2>2 DEF Decoders
  <2> QED BY <1>1, <2>3 DEF Decoders
<1>6. CASE d.state = "PERCENT_SECOND" /\ IsHex(c)
  <2>1. PICK v \in Int : v = d.value + HexValue(c)
    BY <1>1, <1>6, HexValueTyped
  <2>2. e = [d EXCEPT !.state = "NORMAL", !.out = Append(@, v)]
    BY <1>6, <2>1 DEF DecodeByte
  <2>3. e.out = Append(d.out, v) /\ e = [state |-> "NORMAL", value |-> d.value, out |-> Append(d.out, v)]
    BY <2>2 DEF Decoders
  <2> QED BY <1>1, <1>2, <2>3 DEF Decoders
<1>7. CASE \/ d.state = "PERCENT_FIRST" /\ ~IsHex(c)
           \/ d.state = "PERCENT_SECOND" /\ ~IsHex(c)
           \/ d.state = "FAILED"
  <2>1. e = [d EXCEPT !.state = "FAILED"]
    BY <1>7 DEF DecodeByte
  <2> QED BY <1>1, <2>1 DEF Decoders
<1> QED
  BY <1>3, <1>4, <1>5, <1>6, <1>7 DEF Decoders

\* It takes the bytes of a string one by one.
LEMMA DecodedUp ==
    ASSUME NEW s \in Seq(Int)
    PROVE  \E d \in [0 .. Len(s) -> Decoders] :
              /\ d[0] = Decoder
              /\ \A k \in 1 .. Len(s) : d[k] = DecodeByte(d[k - 1], s[k])
              /\ Decoded(s) = d[Len(s)]
<1> DEFINE V == Decoders
           n == Len(s)
           base == Decoder
           Op(d, c) == DecodeByte(d, c)
           step == [k \in 1 .. n |-> [d \in V |-> Op(d, s[k])]]
           fold == CHOOSE iter : iter = [t \in SUBSET DOMAIN s |->
                      IF t = {} THEN base ELSE Op(iter[t \ {Max(t)}], s[Max(t)])]
           up == Upward(fold, n)
<1>1. Decoded(s) = fold[DOMAIN s]
  BY DEF Decoded, FoldLeft, MapThenFoldSet
<1>2. n \in Nat /\ DOMAIN s = 1 .. n /\ \A k \in 1 .. n : s[k] \in Int
  OBVIOUS
<1>3. base \in V
  BY DEF Decoder, Decoders
<1>4. \A d \in V, k \in 1 .. n : Op(d, s[k]) \in V
  <2> HIDE DEF n
  <2> QED BY <1>2, DecodeByteTyped
<1>5. step \in [1 .. n -> [V -> V]]
  <2> HIDE DEF V, Op, n
  <2> QED BY <1>4
<1>6. \A k \in 1 .. n, d \in V : step[k][d] = Op(d, s[k])
  <2> HIDE DEF V, Op, n
  <2> QED OBVIOUS
<1>7. fold = [t \in SUBSET (1 .. n) |-> IF t = {} THEN base ELSE Op(fold[t \ {Max(t)}], s[Max(t)])]
  <2> HIDE DEF V, Op, base, step, n
  <2>1. PICK iter \in [SUBSET (1 .. n) -> V] : Folds(iter, base, step, n)
    BY <1>2, <1>3, <1>5, FoldExists
  <2>2. ASSUME NEW t \in SUBSET (1 .. n), t # {}
        PROVE  iter[t] = Op(iter[t \ {Max(t)}], s[Max(t)])
    BY <1>2, <1>6, <2>1, <2>2, MaxOfSet DEF Folds
  <2>3. iter = [t \in SUBSET (1 .. n) |-> IF t = {} THEN base ELSE Op(iter[t \ {Max(t)}], s[Max(t)])]
    BY <2>1, <2>2 DEF Folds
  <2>4. DOMAIN s = 1 .. n
    BY <1>2
  <2> QED BY <2>3, <2>4
<1>8. up \in [0 .. n -> V] /\ GoesUp(up, base, step, n)
  <2> HIDE DEF V, Op, base, step, fold, n
  <2>1. \A t \in SUBSET (1 .. n) : t # {} => Max(t) \in 1 .. n
    BY <1>2, MaxOfSet
  <2>2. FoldsWithin(fold, V, base, step, n)
    BY <1>6, <1>7, <2>1 DEF FoldsWithin
  <2> QED BY <1>2, <1>3, <1>5, <2>2, FoldUp
<1>9. up[n] = fold[DOMAIN s]
  <2> HIDE DEF V, fold, n
  <2> QED BY <1>2 DEF Upward
<1>10. \A k \in 1 .. n : up[k] = Op(up[k - 1], s[k])
  <2> HIDE DEF V, Op, base, step, up, n
  <2>1. \A k \in 1 .. n : up[k - 1] \in V
    BY <1>2, <1>8
  <2> QED BY <1>6, <1>8, <2>1 DEF GoesUp
<1> HIDE DEF up, fold, step
<1> QED BY <1>1, <1>8, <1>9, <1>10 DEF GoesUp

LEMMA DecodedEmpty == Decoded(<<>>) = Decoder
<1>1. <<>> \in Seq(Int) /\ Len(<<>>) = 0
  OBVIOUS
<1> QED BY <1>1, DecodedUp

LEMMA DecodedAppend ==
    ASSUME NEW s \in Seq(Int), NEW c \in Int
    PROVE  Decoded(Append(s, c)) = DecodeByte(Decoded(s), c)
<1> DEFINE n == Len(s)
           t == Append(s, c)
<1>1. /\ t \in Seq(Int) /\ Len(t) = n + 1 /\ n \in Nat
      /\ t[n + 1] = c /\ \A k \in 1 .. n : t[k] = s[k]
  OBVIOUS
<1>2. PICK d \in [0 .. n -> Decoders] :
        /\ d[0] = Decoder
        /\ \A k \in 1 .. n : d[k] = DecodeByte(d[k - 1], s[k])
        /\ Decoded(s) = d[n]
  BY DecodedUp
<1> HIDE DEF t
<1>3. PICK e \in [0 .. n + 1 -> Decoders] :
        /\ e[0] = Decoder
        /\ \A k \in 1 .. n + 1 : e[k] = DecodeByte(e[k - 1], t[k])
        /\ Decoded(t) = e[n + 1]
  BY <1>1, DecodedUp
<1> HIDE DEF n
<1> DEFINE holds == {k \in 0 .. n : d[k] = e[k]}
<1>4. 0 \in holds
  BY <1>1, <1>2, <1>3
<1>5. ASSUME NEW k \in 0 .. n - 1, k \in holds PROVE k + 1 \in holds
  <2>1. k + 1 \in 1 .. n /\ k + 1 \in 1 .. n + 1 /\ (k + 1) - 1 = k /\ k + 1 \in 0 .. n
    BY <1>1
  <2>2. d[k + 1] = DecodeByte(d[k], s[k + 1])
    BY <1>2, <2>1
  <2>3. e[k + 1] = DecodeByte(e[k], t[k + 1])
    BY <1>3, <2>1
  <2> QED BY <1>1, <1>5, <2>1, <2>2, <2>3
<1>6. n \in holds
  <2> HIDE DEF holds
  <2>1. \A k \in 0 .. n : k \in holds
    BY <1>1, <1>4, <1>5, UpTo
  <2> QED BY <1>1, <2>1
<1>7. n + 1 \in 1 .. n + 1 /\ (n + 1) - 1 = n
  BY <1>1
<1>8. e[n + 1] = DecodeByte(e[n], t[n + 1])
  BY <1>3, <1>7
<1> QED
  BY <1>1, <1>2, <1>3, <1>6, <1>8 DEF t

\* What it writes fits what it read.
LEMMA DecodedFits ==
    ASSUME NEW s \in Seq(Int)
    PROVE  Decoded(s) \in Decoders /\ Len(Decoded(s).out) <= Len(s)
<1> DEFINE n == Len(s)
<1>1. n \in Nat /\ \A k \in 1 .. n : s[k] \in Int
  OBVIOUS
<1>2. PICK d \in [0 .. n -> Decoders] :
        /\ d[0] = Decoder
        /\ \A k \in 1 .. n : d[k] = DecodeByte(d[k - 1], s[k])
        /\ Decoded(s) = d[n]
  BY DecodedUp
<1> HIDE DEF n
<1> DEFINE holds == {k \in 0 .. n : Len(d[k].out) <= k}
<1>3. 0 \in holds
  BY <1>1, <1>2 DEF Decoder
<1>4. ASSUME NEW k \in 0 .. n - 1, k \in holds PROVE k + 1 \in holds
  <2>1. k + 1 \in 1 .. n /\ (k + 1) - 1 = k /\ k + 1 \in 0 .. n /\ k \in 0 .. n
    BY <1>1
  <2>2. d[k + 1] = DecodeByte(d[k], s[k + 1]) /\ d[k] \in Decoders /\ s[k + 1] \in Int
    BY <1>1, <1>2, <2>1
  <2>3. d[k + 1] \in Decoders /\ Len(d[k + 1].out) <= Len(d[k].out) + 1
    BY <2>2, DecodeByteTyped
  <2>4. Len(d[k].out) \in Nat /\ Len(d[k + 1].out) \in Nat
    BY <2>2, <2>3 DEF Decoders
  <2> QED BY <1>4, <2>1, <2>3, <2>4
<1>5. n \in holds
  <2> HIDE DEF holds
  <2>1. \A k \in 0 .. n : k \in holds
    BY <1>1, <1>3, <1>4, UpTo
  <2> QED BY <1>1, <2>1
<1> QED
  BY <1>1, <1>2, <1>5 DEF n

LEMMA ThreeMore ==
    ASSUME NEW s \in Seq(Int), NEW a \in Int, NEW b \in Int, NEW c \in Int
    PROVE  s \o <<a, b, c>> = Append(Append(Append(s, a), b), c)
<1> DEFINE t == <<a, b, c>>
           n == Len(s)
           whole == s \o t
           s1 == Append(s, a)
           s2 == Append(s1, b)
           s3 == Append(s2, c)
<1>1. t \in Seq(Int) /\ Len(t) = 3 /\ t[1] = a /\ t[2] = b /\ t[3] = c /\ n \in Nat
  OBVIOUS
<1> HIDE DEF t
<1>2. whole \in Seq(Int) /\ Len(whole) = n + 3
      /\ \A i \in 1 .. n + 3 : whole[i] = IF i <= n THEN s[i] ELSE t[i - n]
  <2>1. /\ whole \in Seq(Int) /\ Len(whole) = n + Len(t)
        /\ \A i \in 1 .. n + Len(t) : whole[i] = IF i <= n THEN s[i] ELSE t[i - n]
    BY <1>1, ConcatProperties
  <2> HIDE DEF whole, n
  <2> QED BY <1>1, <2>1
<1>3. s1 \in Seq(Int) /\ Len(s1) = n + 1 /\ \A i \in 1 .. n + 1 : s1[i] = IF i <= n THEN s[i] ELSE a
  BY AppendProperties
<1> HIDE DEF s1, whole
<1>4. s2 \in Seq(Int) /\ Len(s2) = n + 2 /\ \A i \in 1 .. n + 2 : s2[i] = IF i <= n + 1 THEN s1[i] ELSE b
  BY <1>1, <1>3, AppendProperties
<1> HIDE DEF s2
<1>5. s3 \in Seq(Int) /\ Len(s3) = n + 3 /\ \A i \in 1 .. n + 3 : s3[i] = IF i <= n + 2 THEN s2[i] ELSE c
  BY <1>1, <1>4, AppendProperties
<1> HIDE DEF s3, n
<1>6. ASSUME NEW i \in 1 .. n + 3 PROVE whole[i] = s3[i]
  <2>1. CASE i <= n
    <3>1. i \in 1 .. n + 1 /\ i \in 1 .. n + 2 /\ i <= n + 1 /\ i <= n + 2
      BY <1>1, <2>1
    <3>2. whole[i] = s[i] /\ s1[i] = s[i]
      BY <1>2, <1>3, <2>1, <3>1
    <3>3. s2[i] = s1[i]
      BY <1>4, <3>1
    <3>4. s3[i] = s2[i]
      BY <1>5, <3>1
    <3> QED BY <3>2, <3>3, <3>4
  <2>2. CASE i = n + 1
    <3>1. i \in 1 .. n + 1 /\ i \in 1 .. n + 2 /\ i <= n + 1 /\ i <= n + 2 /\ ~ (i <= n) /\ i - n = 1
      BY <1>1, <2>2
    <3>2. whole[i] = a /\ s1[i] = a
      BY <1>1, <1>2, <1>3, <3>1
    <3>3. s2[i] = s1[i]
      BY <1>4, <3>1
    <3>4. s3[i] = s2[i]
      BY <1>5, <3>1
    <3> QED BY <3>2, <3>3, <3>4
  <2>3. CASE i = n + 2
    <3>1. i \in 1 .. n + 2 /\ i <= n + 2 /\ ~ (i <= n) /\ ~ (i <= n + 1) /\ i - n = 2
      BY <1>1, <2>3
    <3>2. whole[i] = b
      BY <1>1, <1>2, <3>1
    <3>3. s2[i] = b
      BY <1>4, <3>1
    <3>4. s3[i] = s2[i]
      BY <1>5, <3>1
    <3> QED BY <3>2, <3>3, <3>4
  <2>4. CASE i = n + 3
    <3>1. ~ (i <= n) /\ ~ (i <= n + 2) /\ i - n = 3
      BY <1>1, <2>4
    <3>2. whole[i] = c
      BY <1>1, <1>2, <3>1
    <3>3. s3[i] = c
      BY <1>5, <3>1
    <3> QED BY <3>2, <3>3
  <2>5. i <= n \/ i = n + 1 \/ i = n + 2 \/ i = n + 3
    BY <1>1
  <2> QED BY <2>1, <2>2, <2>3, <2>4, <2>5
<1>7. whole = s3
  BY <1>2, <1>5, <1>6, SeqEqual
<1> QED BY <1>7 DEF whole, s3, s2, s1, t

\* The decoder reads a spelling of a byte as that byte.
LEMMA SpellingDecoded ==
    ASSUME NEW s \in Seq(Int), Decoded(s).state = "NORMAL",
           NEW c \in 1 .. 255, NEW w \in Spellings(c)
    PROVE  /\ w \in Seq(Int) /\ s \o w \in Seq(Int)
           /\ Decoded(s \o w).state = "NORMAL"
           /\ Decoded(s \o w).out = Append(Decoded(s).out, c)
<1> DEFINE d == Decoded(s)
<1>1. d \in Decoders /\ d.state = "NORMAL"
  BY DecodedFits
<1> HIDE DEF d
<1>2. CASE w \in {Escaped(c, 65), Escaped(c, 97)}
  <2>1. PICK ten \in {65, 97} : w = Escaped(c, ten)
    BY <1>2
  <2>2. PICK h \in 0 .. 15 : h = c \div 16
    OBVIOUS
  <2>3. PICK l \in 0 .. 15 : l = c % 16
    OBVIOUS
  <2>4. 16 * h + l = c
    BY <2>2, <2>3
  <2>5. \A n \in 0 .. 15 : IsHex(HexDigit(n, ten)) /\ HexValue(HexDigit(n, ten)) = n /\ HexDigit(n, ten) \in Int
    <3> TAKE n \in 0 .. 15
    <3>1. CASE n < 10
      <4>1. PICK v \in Int : v = 48 + n
        BY <3>1
      <4>2. HexDigit(n, ten) = v
        BY <3>1, <4>1 DEF HexDigit
      <4>3. v \in 48 .. 57 /\ v - 48 = n
        BY <3>1, <4>1
      <4>4. HexValue(v) = n /\ IsHex(v)
        BY <4>3, HexValues DEF IsHex, Digit
      <4> QED BY <4>1, <4>2, <4>4
    <3>2. CASE n >= 10
      <4>1. PICK v \in Int : v = ten + n - 10
        BY <2>1
      <4>2. HexDigit(n, ten) = v
        BY <3>2, <4>1 DEF HexDigit
      <4>3. (ten = 65 /\ v \in 65 .. 70 /\ v - 55 = n) \/ (ten = 97 /\ v \in 97 .. 102 /\ v - 87 = n)
        BY <2>1, <3>2, <4>1
      <4>4. IsHex(v)
        BY <4>3 DEF IsHex
      <4>5. HexValue(v) = n
        <5>1. CASE ten = 65 /\ v \in 65 .. 70 /\ v - 55 = n
          BY <5>1, HexValues
        <5>2. CASE ten = 97 /\ v \in 97 .. 102 /\ v - 87 = n
          BY <5>2, HexValues
        <5> QED BY <4>3, <5>1, <5>2
      <4> QED BY <4>1, <4>2, <4>4, <4>5
    <3> QED BY <3>1, <3>2
  <2> DEFINE x == HexDigit(h, ten)
             y == HexDigit(l, ten)
  <2>6. w = <<PERCENT, x, y>>
    BY <2>1, <2>2, <2>3 DEF Escaped
  <2>7. x \in Int /\ y \in Int /\ IsHex(x) /\ IsHex(y) /\ HexValue(x) = h /\ HexValue(y) = l
    BY <2>5
  <2> HIDE DEF x, y
  <2>8. PERCENT \in Int
    BY DEF PERCENT
  <2> DEFINE s1 == Append(s, PERCENT)
             s2 == Append(s1, x)
             s3 == Append(s2, y)
  <2>9. s1 \in Seq(Int)
    BY <2>8
  <2>10. Decoded(s1) = DecodeByte(d, PERCENT)
    BY <2>8, DecodedAppend DEF d
  <2>11. s \o w = s3
    BY <2>6, <2>7, <2>8, ThreeMore
  <2> HIDE DEF s1
  <2>12. s2 \in Seq(Int)
    BY <2>7, <2>9
  <2>13. Decoded(s2) = DecodeByte(Decoded(s1), x)
    BY <2>7, <2>9, DecodedAppend
  <2> HIDE DEF s2
  <2>14. s3 \in Seq(Int)
    BY <2>7, <2>12
  <2>15. Decoded(s3) = DecodeByte(Decoded(s2), y)
    BY <2>7, <2>12, DecodedAppend
  <2>16. Decoded(s1) = [d EXCEPT !.state = "PERCENT_FIRST"]
    BY <1>1, <2>10 DEF DecodeByte
  <2>17. Decoded(s2) = [d EXCEPT !.state = "PERCENT_SECOND", !.value = 16 * h]
    <3>1. Decoded(s1).state = "PERCENT_FIRST"
      BY <1>1, <2>16 DEF Decoders
    <3>2. Decoded(s2) = [Decoded(s1) EXCEPT !.state = "PERCENT_SECOND", !.value = 16 * h]
      BY <2>7, <2>13, <3>1 DEF DecodeByte
    <3> QED BY <1>1, <2>16, <3>2 DEF Decoders
  <2>18. Decoded(s3).state = "NORMAL" /\ Decoded(s3).out = Append(d.out, 16 * h + l)
    <3>1. Decoded(s2).state = "PERCENT_SECOND" /\ Decoded(s2).value = 16 * h /\ Decoded(s2).out = d.out
      BY <1>1, <2>17 DEF Decoders
    <3>2. Decoded(s3) = [Decoded(s2) EXCEPT !.state = "NORMAL", !.out = Append(@, 16 * h + l)]
      BY <2>7, <2>15, <3>1 DEF DecodeByte
    <3>3. Decoded(s2) \in Decoders
      BY <2>12, DecodedFits
    <3> QED BY <3>1, <3>2, <3>3 DEF Decoders
  <2>19. w \in Seq(Int)
    BY <2>6, <2>7, <2>8
  <2> QED BY <2>4, <2>11, <2>14, <2>18, <2>19 DEF d
<1>3. CASE \E b : /\ w = <<b>>
                  /\ \/ c = SPACE /\ b = PLUS
                     \/ c \notin Reserved /\ b = c
  <2>1. PICK b : /\ w = <<b>>
                 /\ \/ c = SPACE /\ b = PLUS
                    \/ c \notin Reserved /\ b = c
    BY <1>3
  <2>2. b \in Int /\ b # PERCENT /\ c = IF b = PLUS THEN SPACE ELSE b
    BY <2>1 DEF Reserved, SPACE, PLUS, PERCENT
  <2>3. s \o w = Append(s, b) /\ Append(s, b) \in Seq(Int) /\ w \in Seq(Int)
    BY <2>1, <2>2
  <2>4. Decoded(Append(s, b)) = DecodeByte(d, b)
    BY <2>2, DecodedAppend DEF d
  <2>5. DecodeByte(d, b) = [d EXCEPT !.out = Append(@, c)]
    BY <1>1, <2>2 DEF DecodeByte
  <2>6. DecodeByte(d, b).state = "NORMAL" /\ DecodeByte(d, b).out = Append(d.out, c)
    BY <1>1, <2>5 DEF Decoders
  <2> QED BY <2>3, <2>4, <2>6 DEF d
<1> QED
  <2>1. w \in {Escaped(c, 65), Escaped(c, 97)} \/ \E b : /\ w = <<b>>
                  /\ \/ c = SPACE /\ b = PLUS
                     \/ c \notin Reserved /\ b = c
    BY DEF Spellings
  <2> QED BY <1>2, <1>3, <2>1
\* The words a string is put together from.
Strings == Seq(Int)
Byte == 1 .. 255

LEMMA StringsConcat ==
    /\ <<>> \in Strings
    /\ \A s \in Strings : <<>> \o s = s
    /\ \A s, t \in Strings : s \o t \in Strings
BY DEF Strings

LEMMA ByteFacts == \A c \in Byte : c \in Int /\ c # 0
BY DEF Byte

\* Words put one after the other.
LEMMA FlattenedUp ==
    ASSUME NEW n \in Nat, NEW words \in [1 .. n -> Strings]
    PROVE  \E flat \in [0 .. n -> Strings] :
              /\ flat[0] = <<>>
              /\ \A k \in 1 .. n : flat[k] = flat[k - 1] \o words[k]
              /\ FlattenSeq(words) = flat[n]
<1> DEFINE V == Strings
           Cat(t, k) == t \o words[k]
           step == [k \in 1 .. n |-> [t \in V |-> Cat(t, k)]]
           flatten == CHOOSE f : f = [i \in 1 .. Len(words) |->
                         IF i = 1 THEN words[i] ELSE Cat(f[i - 1], i)]
<1>1. Len(words) = n
  OBVIOUS
<1>2. FlattenSeq(words) = IF n = 0 THEN words ELSE flatten[n]
  BY <1>1 DEF FlattenSeq
<1>3. <<>> \in V /\ \A t \in V, k \in 1 .. n : Cat(t, k) \in V /\ Cat(<<>>, k) = words[k]
  BY StringsConcat
<1> HIDE DEF Cat
<1>4. step \in [1 .. n -> [V -> V]] /\ \A k \in 1 .. n, t \in V : step[k][t] = Cat(t, k)
  BY <1>3
<1> HIDE DEF step
<1>5. PICK flat \in [0 .. n -> V] : GoesUp(flat, <<>>, step, n)
  BY <1>3, <1>4, RecursionExists
<1>6. flat[0] = <<>> /\ \A k \in 1 .. n : flat[k] = Cat(flat[k - 1], k)
  <2>1. \A k \in 1 .. n : flat[k - 1] \in V
    BY <1>5
  <2> QED BY <1>4, <1>5, <2>1 DEF GoesUp
<1>7. ASSUME NEW i \in 1 .. n PROVE flat[i] = IF i = 1 THEN words[i] ELSE Cat(flat[i - 1], i)
  BY <1>3, <1>6
<1>8. flatten = [i \in 1 .. n |-> IF i = 1 THEN words[i] ELSE Cat(flatten[i - 1], i)]
  <2> DEFINE f == [i \in 1 .. n |-> flat[i]]
  <2>1. ASSUME NEW i \in 1 .. n PROVE f[i] = IF i = 1 THEN words[i] ELSE Cat(f[i - 1], i)
    <3>1. i # 1 => i - 1 \in 1 .. n
      OBVIOUS
    <3> QED BY <1>7, <3>1
  <2>2. f = [i \in 1 .. n |-> f[i]]
    OBVIOUS
  <2> HIDE DEF f
  <2>3. f = [i \in 1 .. n |-> IF i = 1 THEN words[i] ELSE Cat(f[i - 1], i)]
    BY <2>1, <2>2
  <2> QED BY <1>1, <2>3
<1> HIDE DEF flatten
<1>9. \A i \in 1 .. n : flatten[i] = IF i = 1 THEN words[i] ELSE Cat(flatten[i - 1], i)
  BY <1>8
<1> DEFINE holds == {i \in 1 .. n : flatten[i] = flat[i]}
<1>10. CASE n = 0
  <2>1. words = <<>>
    BY <1>10
  <2> QED BY <1>2, <1>5, <1>6, <1>10, <2>1 DEF Cat
<1>11. CASE n # 0
  <2>1. n \in 1 .. n /\ 1 \in 1 .. n
    BY <1>11
  <2>2. 1 \in holds
    BY <1>7, <1>9, <2>1
  <2>3. ASSUME NEW i \in 1 .. n - 1, i \in holds PROVE i + 1 \in holds
    <3>1. i + 1 \in 1 .. n /\ i + 1 # 1 /\ (i + 1) - 1 = i
      OBVIOUS
    <3>2. flatten[i + 1] = Cat(flatten[i], i + 1)
      BY <1>9, <3>1
    <3>3. flat[i + 1] = Cat(flat[i], i + 1)
      BY <1>7, <3>1
    <3> QED BY <2>3, <3>1, <3>2, <3>3
  <2>4. n \in holds
    <3> HIDE DEF holds
    <3>1. 1 .. n \subseteq holds
      BY <2>2, <2>3, IntervalInduction
    <3> QED BY <2>1, <3>1
  <2> QED BY <1>2, <1>5, <1>6, <1>11, <2>4 DEF Cat
<1> QED BY <1>10, <1>11

\* Words that spell bytes are read as them.
LEMMA WordsDecoded ==
    ASSUME NEW n \in Nat, NEW bytes \in [1 .. n -> Byte], NEW words \in [1 .. n -> Strings],
           \A k \in 1 .. n : words[k] \in Spellings(bytes[k])
    PROVE  /\ FlattenSeq(words) \in Strings
           /\ Decoded(FlattenSeq(words)).state = "NORMAL"
           /\ Decoded(FlattenSeq(words)).out = bytes
<1>1. PICK flat \in [0 .. n -> Strings] :
        /\ flat[0] = <<>>
        /\ \A k \in 1 .. n : flat[k] = flat[k - 1] \o words[k]
        /\ FlattenSeq(words) = flat[n]
  BY FlattenedUp
<1> DEFINE Read(k) == /\ Decoded(flat[k]).state = "NORMAL"
                      /\ Decoded(flat[k]).out = [i \in 1 .. k |-> bytes[i]]
           holds == {k \in 0 .. n : Read(k)}
<1>2. 0 \in holds
  <2>1. Decoded(flat[0]).state = "NORMAL" /\ Decoded(flat[0]).out = <<>>
    BY <1>1, DecodedEmpty DEF Decoder
  <2>2. [i \in 1 .. 0 |-> bytes[i]] = <<>>
    OBVIOUS
  <2> QED BY <2>1, <2>2
<1>3. ASSUME NEW k \in 0 .. n - 1, k \in holds PROVE k + 1 \in holds
  <2>0. \A i \in 1 .. n : bytes[i] \in Int
    BY ByteFacts
  <2>1. k + 1 \in 1 .. n /\ k + 1 \in 0 .. n /\ (k + 1) - 1 = k /\ k \in 0 .. n /\ k \in Nat
    OBVIOUS
  <2>2. flat[k + 1] = flat[k] \o words[k + 1] /\ flat[k] \in Strings
    BY <1>1, <2>1
  <2>3. Decoded(flat[k]).state = "NORMAL" /\ Decoded(flat[k]).out = [i \in 1 .. k |-> bytes[i]]
    BY <1>3
  <2>4. bytes[k + 1] \in Byte /\ words[k + 1] \in Spellings(bytes[k + 1])
    BY <2>1
  <2>5. /\ Decoded(flat[k] \o words[k + 1]).state = "NORMAL"
        /\ Decoded(flat[k] \o words[k + 1]).out = Append(Decoded(flat[k]).out, bytes[k + 1])
    <3> DEFINE s == flat[k]
               c == bytes[k + 1]
               w == words[k + 1]
    <3>1. s \in Seq(Int) /\ Decoded(s).state = "NORMAL" /\ c \in 1 .. 255 /\ w \in Spellings(c)
      BY <2>2, <2>3, <2>4 DEF Strings, Byte
    <3> HIDE DEF s, c, w
    <3>2. Decoded(s \o w).state = "NORMAL" /\ Decoded(s \o w).out = Append(Decoded(s).out, c)
      BY <3>1, SpellingDecoded
    <3> QED BY <3>2 DEF s, c, w
  <2>6. Append([i \in 1 .. k |-> bytes[i]], bytes[k + 1]) = [i \in 1 .. k + 1 |-> bytes[i]]
    <3> DEFINE short == [i \in 1 .. k |-> bytes[i]]
               long == [i \in 1 .. k + 1 |-> bytes[i]]
    <3>1. short \in Strings /\ Len(short) = k /\ \A i \in 1 .. k : short[i] = bytes[i]
      BY <2>1, <2>0 DEF Strings
    <3>2. long \in Strings /\ Len(long) = k + 1 /\ \A i \in 1 .. k + 1 : long[i] = bytes[i]
      BY <2>1, <2>0 DEF Strings
    <3> HIDE DEF short, long
    <3>3. /\ Append(short, bytes[k + 1]) \in Strings
          /\ Len(Append(short, bytes[k + 1])) = k + 1
          /\ \A i \in 1 .. k + 1 : Append(short, bytes[k + 1])[i] = bytes[i]
      <4> DEFINE last == bytes[k + 1]
      <4>1. last \in Int
        BY <2>1, <2>0
      <4>2. k \in Nat /\ short \in Seq(Int) /\ Len(short) = k
        BY <2>1, <3>1 DEF Strings
      <4> HIDE DEF last
      <4>3. /\ Append(short, last) \in Seq(Int)
            /\ Len(Append(short, last)) = k + 1
            /\ \A i \in 1 .. k + 1 : Append(short, last)[i] = IF i <= k THEN short[i] ELSE last
        BY <4>1, <4>2, AppendProperties
      <4>4. ASSUME NEW i \in 1 .. k + 1 PROVE Append(short, last)[i] = bytes[i]
        <5>1. CASE i <= k
          BY <3>1, <4>2, <4>3, <5>1
        <5>2. CASE i = k + 1
          BY <4>2, <4>3, <5>2 DEF last
        <5> QED BY <4>2, <5>1, <5>2
      <4> QED BY <4>3, <4>4 DEF last, Strings
    <3> DEFINE longer == Append(short, bytes[k + 1])
    <3> HIDE DEF longer
    <3>4. longer = long
      <4>1. longer \in Seq(Int) /\ Len(longer) = k + 1 /\ \A i \in 1 .. k + 1 : longer[i] = bytes[i]
        BY <3>3 DEF longer, Strings
      <4>2. long \in Seq(Int)
        BY <3>2 DEF Strings
      <4> QED BY <3>2, <4>1, <4>2
    <3> QED BY <3>4 DEF short, long, longer
  <2> QED BY <2>1, <2>2, <2>3, <2>5, <2>6
<1>4. n \in holds
  <2> HIDE DEF holds
  <2>1. \A k \in 0 .. n : k \in holds
    BY <1>2, <1>3, UpTo
  <2> QED BY <2>1
<1>5. [i \in 1 .. n |-> bytes[i]] = bytes
  OBVIOUS
<1> QED
  BY <1>1, <1>4, <1>5

\* A string without a zero is all of it.
LEMMA WholeCString ==
    ASSUME NEW n \in Nat, NEW s \in [1 .. n -> Byte]
    PROVE  CString(s) = s
<1>1. Len(s) = n
  OBVIOUS
<1>2. \A i \in 1 .. n : s[i] # 0
  BY ByteFacts
<1>3. {i \in 1 .. Len(s) : s[i] = 0} = {}
  BY <1>1, <1>2
<1> QED BY <1>3 DEF CString, SelectInSeq

LEMMA AllSpellingsDecoded == SpellingsDecoded
<1>0. MAX_LENGTH \in Nat /\ \A c \in Bytes : c \in Byte
  BY FormAssumption DEF Byte
<1>1. ASSUME NEW spelled \in SeqOf(UNION {{<<c, w>> : w \in Spellings(c)} : c \in Bytes}, MAX_LENGTH)
      PROVE  Decode(FlattenSeq([i \in DOMAIN spelled |-> spelled[i][2]])) = [i \in DOMAIN spelled |-> spelled[i][1]]
  <2> DEFINE Pairs == UNION {{<<c, w>> : w \in Spellings(c)} : c \in Bytes}
             words == [i \in DOMAIN spelled |-> spelled[i][2]]
             bytes == [i \in DOMAIN spelled |-> spelled[i][1]]
             text == FlattenSeq(words)
  <2>1. PICK n \in 0 .. MAX_LENGTH : spelled \in [1 .. n -> Pairs]
    BY <1>0 DEF SeqOf
  <2>2. n \in Nat /\ DOMAIN spelled = 1 .. n
    BY <1>0, <2>1
  <2>3. ASSUME NEW k \in 1 .. n
        PROVE  spelled[k][1] \in Byte /\ spelled[k][2] \in Spellings(spelled[k][1])
    <3>1. spelled[k] \in Pairs
      BY <2>1
    <3>2. PICK c \in Bytes : \E w \in Spellings(c) : spelled[k] = <<c, w>>
      BY <3>1
    <3>3. PICK w \in Spellings(c) : spelled[k] = <<c, w>>
      BY <3>2
    <3>4. c \in Byte
      BY <1>0
    <3> QED BY <3>3, <3>4
  <2>4. \A c \in Byte : \A w \in Spellings(c) : w \in Strings
    <3> SUFFICES ASSUME NEW c \in Byte, NEW w \in Spellings(c) PROVE w \in Strings
      OBVIOUS
    <3>1. <<>> \in Strings /\ Decoded(<<>>).state = "NORMAL"
      BY DecodedEmpty DEF Decoder, Strings
    <3> QED BY <3>1, SpellingDecoded DEF Strings, Byte
  <2>5. bytes \in [1 .. n -> Byte] /\ \A k \in 1 .. n : bytes[k] = spelled[k][1]
    BY <2>2, <2>3
  <2>6. words \in [1 .. n -> Strings] /\ \A k \in 1 .. n : words[k] = spelled[k][2]
    BY <2>2, <2>3, <2>4
  <2> HIDE DEF bytes, words
  <2>7. Decoded(text).state = "NORMAL" /\ Decoded(text).out = bytes
    BY <2>2, <2>3, <2>5, <2>6, WordsDecoded
  <2> HIDE DEF text
  <2>8. Decode(text) = CString(bytes)
    BY <2>7 DEF Decode, Decoded
  <2>9. CString(bytes) = bytes
    BY <2>2, <2>5, WholeCString
  <2> QED BY <2>8, <2>9 DEF text, words, bytes
<1>2. ASSUME NEW text \in SeqOf(Bytes, MAX_LENGTH)
      PROVE  Len(FoldLeft(DecodeByte, Decoder, text).out) <= Len(text)
  <2>1. PICK n \in 0 .. MAX_LENGTH : text \in [1 .. n -> Bytes]
    BY <1>0 DEF SeqOf
  <2>2. n \in Nat
    BY <1>0, <2>1
  <2>3. text \in Seq(Int)
    <3>1. \A k \in 1 .. n : text[k] \in Int
      BY <1>0, <2>1, ByteFacts
    <3> QED BY <2>1, <2>2, <3>1
  <2> QED BY <2>3, DecodedFits DEF Decoded
<1> QED BY <1>1, <1>2 DEF SpellingsDecoded

-----------------------------------------------------------------------------
(* Forms: cutting a string up. *)

\* A set that the empty sequence is in, and each sequence one longer than one that
\* is in it, holds them all.
LEMMA AppendInduction ==
    ASSUME NEW S, NEW holds, <<>> \in holds,
           \A s \in Seq(S), c \in S : s \in holds => Append(s, c) \in holds
    PROVE  Seq(S) \subseteq holds
<1> DEFINE lengths == {n \in Nat : \A s \in Seq(S) : Len(s) = n => s \in holds}
<1>1. 0 \in lengths
  <2>1. \A s \in Seq(S) : Len(s) = 0 => s = <<>>
    OBVIOUS
  <2> QED BY <2>1
<1>2. ASSUME NEW n \in Nat, n \in lengths PROVE n + 1 \in lengths
  <2>1. ASSUME NEW s \in Seq(S), Len(s) = n + 1 PROVE s \in holds
    <3>1. s # <<>>
      BY <2>1
    <3>2. PICK front \in Seq(S), c \in S : s = Append(front, c)
      BY <3>1, SequenceEmptyOrAppend
    <3>3. Len(front) = n
      BY <2>1, <3>2
    <3> QED BY <1>2, <3>2, <3>3
  <2> QED BY <2>1
<1>3. Nat \subseteq lengths
  <2> HIDE DEF lengths
  <2> QED BY <1>1, <1>2, NaturalInduction
<1> QED
  <2> SUFFICES ASSUME NEW s \in Seq(S) PROVE s \in holds
    OBVIOUS
  <2>1. Len(s) \in lengths
    BY <1>3
  <2> QED BY <2>1

\* What a string is cut into: at least one string.
Cuts == {cut \in Seq(Strings) : Len(cut) > 0}

Splitted(s, separator) == FoldLeft(LAMBDA splits, c : SplitByte(splits, c, separator), << <<>> >>, s)

LEMMA StringAppend == \A s \in Strings, c \in Int : Append(s, c) \in Strings
BY DEF Strings

LEMMA SplitByteTyped ==
    ASSUME NEW cut \in Cuts, NEW c \in Int, NEW separator
    PROVE  /\ SplitByte(cut, c, separator) \in Cuts
           /\ c # separator =>
                 /\ Len(SplitByte(cut, c, separator)) = Len(cut)
                 /\ SplitByte(cut, c, separator)[Len(cut)] = Append(cut[Len(cut)], c)
                 /\ \A i \in 1 .. Len(cut) - 1 : SplitByte(cut, c, separator)[i] = cut[i]
<1> DEFINE n == Len(cut)
<1>1. cut \in Seq(Strings) /\ n \in Nat /\ n > 0 /\ n \in 1 .. n /\ cut[n] \in Strings
  BY DEF Cuts
<1>2. Append(cut[n], c) \in Strings /\ <<>> \in Strings
  BY <1>1, StringAppend, StringsConcat
<1>3. CASE c = separator
  <2>1. SplitByte(cut, c, separator) = Append(cut, <<>>)
    BY <1>3 DEF SplitByte
  <2> QED BY <1>1, <1>2, <1>3, <2>1 DEF Cuts
<1>4. CASE c # separator
  <2> DEFINE longer == [cut EXCEPT ![n] = Append(cut[n], c)]
  <2>1. SplitByte(cut, c, separator) = longer
    BY <1>4 DEF SplitByte
  <2>2. longer \in Seq(Strings) /\ Len(longer) = n
        /\ \A j \in 1 .. n : longer[j] = IF j = n THEN Append(cut[n], c) ELSE cut[j]
    BY <1>1, <1>2, ExceptSeq
  <2> HIDE DEF longer
  <2>3. longer \in Cuts
    BY <1>1, <2>2 DEF Cuts
  <2>4. longer[n] = Append(cut[n], c) /\ \A j \in 1 .. n - 1 : longer[j] = cut[j]
    <3>1. n \in Nat /\ n > 0 /\ \A j \in 1 .. n : longer[j] = IF j = n THEN Append(cut[n], c) ELSE cut[j]
      BY <1>1, <2>2
    <3> HIDE DEF n
    <3>2. n \in 1 .. n /\ \A j \in 1 .. n - 1 : j \in 1 .. n /\ j # n
      BY <3>1
    <3> QED BY <3>1, <3>2
  <2> HIDE DEF n
  <2> QED BY <2>1, <2>2, <2>3, <2>4 DEF n
<1> QED BY <1>3, <1>4

\* A string is cut byte by byte.
LEMMA SplitUp ==
    ASSUME NEW s \in Seq(Int), NEW separator
    PROVE  \E d \in [0 .. Len(s) -> Cuts] :
              /\ d[0] = << <<>> >>
              /\ \A k \in 1 .. Len(s) : d[k] = SplitByte(d[k - 1], s[k], separator)
              /\ Splitted(s, separator) = d[Len(s)]
<1> DEFINE V == Cuts
           n == Len(s)
           base == << <<>> >>
           Op(d, c) == SplitByte(d, c, separator)
           step == [k \in 1 .. n |-> [d \in V |-> Op(d, s[k])]]
           fold == CHOOSE iter : iter = [t \in SUBSET DOMAIN s |->
                      IF t = {} THEN base ELSE Op(iter[t \ {Max(t)}], s[Max(t)])]
           up == Upward(fold, n)
<1>1. Splitted(s, separator) = fold[DOMAIN s]
  BY DEF Splitted, FoldLeft, MapThenFoldSet
<1>2. n \in Nat /\ DOMAIN s = 1 .. n /\ \A k \in 1 .. n : s[k] \in Int
  OBVIOUS
<1>3. base \in V
  BY StringsConcat DEF Cuts
<1>4. \A d \in V, k \in 1 .. n : Op(d, s[k]) \in V
  <2> HIDE DEF n
  <2> QED BY <1>2, SplitByteTyped
<1>5. step \in [1 .. n -> [V -> V]]
  <2> HIDE DEF V, Op, n
  <2> QED BY <1>4
<1>6. \A k \in 1 .. n, d \in V : step[k][d] = Op(d, s[k])
  <2> HIDE DEF V, Op, n
  <2> QED OBVIOUS
<1>7. fold = [t \in SUBSET (1 .. n) |-> IF t = {} THEN base ELSE Op(fold[t \ {Max(t)}], s[Max(t)])]
  <2> HIDE DEF V, Op, base, step, n
  <2>1. PICK iter \in [SUBSET (1 .. n) -> V] : Folds(iter, base, step, n)
    BY <1>2, <1>3, <1>5, FoldExists
  <2>2. ASSUME NEW t \in SUBSET (1 .. n), t # {}
        PROVE  iter[t] = Op(iter[t \ {Max(t)}], s[Max(t)])
    BY <1>2, <1>6, <2>1, <2>2, MaxOfSet DEF Folds
  <2>3. iter = [t \in SUBSET (1 .. n) |-> IF t = {} THEN base ELSE Op(iter[t \ {Max(t)}], s[Max(t)])]
    BY <2>1, <2>2 DEF Folds
  <2>4. DOMAIN s = 1 .. n
    BY <1>2
  <2> QED BY <2>3, <2>4
<1>8. up \in [0 .. n -> V] /\ GoesUp(up, base, step, n)
  <2> HIDE DEF V, Op, base, step, fold, n
  <2>1. \A t \in SUBSET (1 .. n) : t # {} => Max(t) \in 1 .. n
    BY <1>2, MaxOfSet
  <2>2. FoldsWithin(fold, V, base, step, n)
    BY <1>6, <1>7, <2>1 DEF FoldsWithin
  <2> QED BY <1>2, <1>3, <1>5, <2>2, FoldUp
<1>9. up[n] = fold[DOMAIN s]
  <2> HIDE DEF V, fold, n
  <2> QED BY <1>2 DEF Upward
<1>10. \A k \in 1 .. n : up[k] = Op(up[k - 1], s[k])
  <2> HIDE DEF V, Op, base, step, up, n
  <2>1. \A k \in 1 .. n : up[k - 1] \in V
    BY <1>2, <1>8
  <2> QED BY <1>6, <1>8, <2>1 DEF GoesUp
<1> HIDE DEF up, fold, step
<1> QED BY <1>1, <1>8, <1>9, <1>10 DEF GoesUp

LEMMA SplitTyped ==
    ASSUME NEW s \in Seq(Int), NEW separator
    PROVE  Splitted(s, separator) \in Cuts
<1>1. PICK d \in [0 .. Len(s) -> Cuts] : Splitted(s, separator) = d[Len(s)]
  BY SplitUp
<1>2. Len(s) \in 0 .. Len(s)
  OBVIOUS
<1> QED BY <1>1, <1>2

LEMMA SplitEmpty == \A separator : Splitted(<<>>, separator) = << <<>> >>
<1> TAKE separator
<1>1. <<>> \in Seq(Int) /\ Len(<<>>) = 0
  OBVIOUS
<1> QED BY <1>1, SplitUp

LEMMA SplitAppend ==
    ASSUME NEW s \in Seq(Int), NEW c \in Int, NEW separator
    PROVE  Splitted(Append(s, c), separator) = SplitByte(Splitted(s, separator), c, separator)
<1> DEFINE n == Len(s)
           t == Append(s, c)
           base == << <<>> >>
           Turn(d, b) == SplitByte(d, b, separator)
<1>1. /\ t \in Seq(Int) /\ Len(t) = n + 1 /\ n \in Nat
      /\ t[n + 1] = c /\ \A k \in 1 .. n : t[k] = s[k]
  OBVIOUS
<1>2. PICK d \in [0 .. n -> Cuts] :
        /\ d[0] = base
        /\ \A k \in 1 .. n : d[k] = Turn(d[k - 1], s[k])
        /\ Splitted(s, separator) = d[n]
  BY SplitUp
<1> HIDE DEF t
<1>3. PICK e \in [0 .. n + 1 -> Cuts] :
        /\ e[0] = base
        /\ \A k \in 1 .. n + 1 : e[k] = Turn(e[k - 1], t[k])
        /\ Splitted(t, separator) = e[n + 1]
  BY <1>1, SplitUp
<1> HIDE DEF n, Turn, base
<1> DEFINE holds == {k \in 0 .. n : d[k] = e[k]}
<1>4. 0 \in holds
  BY <1>1, <1>2, <1>3
<1>5. ASSUME NEW k \in 0 .. n - 1, k \in holds PROVE k + 1 \in holds
  <2>1. k + 1 \in 1 .. n /\ k + 1 \in 1 .. n + 1 /\ (k + 1) - 1 = k /\ k + 1 \in 0 .. n
    BY <1>1
  <2>2. d[k + 1] = Turn(d[k], s[k + 1])
    BY <1>2, <2>1
  <2>3. e[k + 1] = Turn(e[k], t[k + 1])
    BY <1>3, <2>1
  <2> QED BY <1>1, <1>5, <2>1, <2>2, <2>3
<1>6. n \in holds
  <2> HIDE DEF holds
  <2>1. \A k \in 0 .. n : k \in holds
    BY <1>1, <1>4, <1>5, UpTo
  <2> QED BY <1>1, <2>1
<1>7. n + 1 \in 1 .. n + 1 /\ (n + 1) - 1 = n
  BY <1>1
<1>8. e[n + 1] = Turn(e[n], t[n + 1])
  BY <1>3, <1>7
<1> QED
  BY <1>1, <1>2, <1>3, <1>6, <1>8 DEF t, Turn

\* A string without a separator.
Plain(t, separator) == \A i \in 1 .. Len(t) : t[i] # separator

LEMMA PlainAppend ==
    ASSUME NEW t \in Strings, NEW c \in Int, NEW separator
    PROVE  Plain(Append(t, c), separator) <=> Plain(t, separator) /\ c # separator
<1> DEFINE n == Len(t)
           u == Append(t, c)
<1>1. /\ n \in Nat /\ Len(u) = n + 1 /\ u[n + 1] = c /\ \A i \in 1 .. n : u[i] = t[i]
  BY DEF Strings
<1> HIDE DEF n, u
<1>2. \A i \in 1 .. n + 1 : i = n + 1 \/ i \in 1 .. n
  BY <1>1
<1>3. n + 1 \in 1 .. n + 1 /\ \A i \in 1 .. n : i \in 1 .. n + 1
  BY <1>1
<1>4. (\A i \in 1 .. n + 1 : u[i] # separator) <=> (\A i \in 1 .. n : t[i] # separator) /\ c # separator
  BY <1>1, <1>2, <1>3
<1> QED BY <1>1, <1>4 DEF Plain, n, u

LEMMA ConcatAppend ==
    ASSUME NEW s \in Strings, NEW t \in Strings, NEW c \in Int
    PROVE  Append(s \o t, c) = s \o Append(t, c)
<1> DEFINE left == Append(s \o t, c)
           right == s \o Append(t, c)
<1>1. s \in Seq(Int) /\ t \in Seq(Int)
  BY DEF Strings
<1>2. left \in Seq(Int) /\ right \in Seq(Int) /\ Len(left) = Len(right)
  BY <1>1
<1>3. \A i \in 1 .. Len(left) : left[i] = right[i]
  BY <1>1
<1> HIDE DEF left, right
<1>4. left = right
  BY <1>2, <1>3, SeqEqual
<1> QED BY <1>4 DEF left, right

\* Bytes that are no separator go to the last string of the cut.
LastLonger(cut, t) == [cut EXCEPT ![Len(cut)] = cut[Len(cut)] \o t]

LEMMA SplitWithin ==
    ASSUME NEW s \in Strings, NEW separator, NEW t \in Strings, Plain(t, separator)
    PROVE  Splitted(s \o t, separator) = LastLonger(Splitted(s, separator), t)
<1> DEFINE cut == Splitted(s, separator)
           n == Len(cut)
           Longer(u) == [cut EXCEPT ![n] = cut[n] \o u]
           holds == {u \in Strings : Plain(u, separator) => Splitted(s \o u, separator) = Longer(u)}
<1>1. cut \in Cuts
  BY SplitTyped DEF Strings
<1> HIDE DEF cut
<1>2. n \in Nat /\ n > 0 /\ n \in 1 .. n /\ cut[n] \in Strings /\ cut \in Seq(Strings)
  BY <1>1 DEF Cuts
<1> HIDE DEF n
<1>3. <<>> \in holds
  <2>1. s \o <<>> = s /\ cut[n] \o <<>> = cut[n]
    BY <1>2, ConcatEmptySeq DEF Strings
  <2>2. [cut EXCEPT ![n] = cut[n]] = cut
    BY <1>2
  <2> QED BY <2>1, <2>2, StringsConcat DEF cut
<1>4. ASSUME NEW u \in Strings, NEW c \in Int, u \in holds PROVE Append(u, c) \in holds
  <2>1. Append(u, c) \in Strings
    BY StringAppend
  <2>2. SUFFICES ASSUME Plain(Append(u, c), separator)
                 PROVE  Splitted(s \o Append(u, c), separator) = Longer(Append(u, c))
    BY <2>1
  <2>3. Plain(u, separator) /\ c # separator
    BY <2>2, PlainAppend
  <2>4. Splitted(s \o u, separator) = Longer(u)
    BY <1>4, <2>3
  <2>5. s \o Append(u, c) = Append(s \o u, c) /\ s \o u \in Strings
    BY ConcatAppend, StringsConcat
  <2>6. Splitted(s \o Append(u, c), separator) = SplitByte(Longer(u), c, separator)
    BY <2>4, <2>5, SplitAppend DEF Strings
  <2>7. cut[n] \o u \in Strings
    BY <1>2, StringsConcat
  <2>8. /\ Longer(u) \in Seq(Strings) /\ Len(Longer(u)) = n /\ Longer(u)[n] = cut[n] \o u
        /\ \A i \in 1 .. n : i # n => Longer(u)[i] = cut[i]
    BY <1>2, <2>7, ExceptSeq DEF n
  <2>9. SplitByte(Longer(u), c, separator) = [Longer(u) EXCEPT ![n] = Append(cut[n] \o u, c)]
    <3> HIDE DEF Longer
    <3> QED BY <2>3, <2>8 DEF SplitByte
  <2>10. Append(cut[n] \o u, c) = cut[n] \o Append(u, c)
    BY <1>2, ConcatAppend
  <2>11. [Longer(u) EXCEPT ![n] = cut[n] \o Append(u, c)] = Longer(Append(u, c))
    BY <1>2
  <2> QED BY <2>6, <2>9, <2>10, <2>11
<1>5. t \in holds
  <2> HIDE DEF holds
  <2> QED BY <1>3, <1>4, AppendInduction DEF Strings
<1> QED BY <1>5 DEF n, cut, LastLonger

\* A separator and bytes that are none put a string more behind the cut.
LEMMA SplitJoined ==
    ASSUME NEW s \in Strings, NEW separator \in Int, NEW t \in Strings, Plain(t, separator)
    PROVE  Splitted((s \o <<separator>>) \o t, separator) = Append(Splitted(s, separator), t)
<1> DEFINE cut == Splitted(s, separator)
           n == Len(cut)
           longer == Append(cut, <<>>)
<1>1. cut \in Cuts
  BY SplitTyped DEF Strings
<1>2. s \o <<separator>> = Append(s, separator) /\ Append(s, separator) \in Strings
  BY StringAppend DEF Strings
<1>3. Splitted(s \o <<separator>>, separator) = longer
  <2> HIDE DEF cut
  <2>1. Splitted(s \o <<separator>>, separator) = SplitByte(cut, separator, separator)
    BY <1>2, SplitAppend DEF cut, Strings
  <2> QED BY <2>1 DEF SplitByte
<1> HIDE DEF cut
<1>4. n \in Nat /\ cut \in Seq(Strings) /\ <<>> \in Strings
  BY <1>1, StringsConcat DEF Cuts
<1>5. longer \in Seq(Strings) /\ Len(longer) = n + 1 /\ longer[n + 1] = <<>>
      /\ \A i \in 1 .. n : longer[i] = cut[i]
  BY <1>4, AppendProperties
<1> HIDE DEF longer, n
<1>6. Splitted((s \o <<separator>>) \o t, separator) = [longer EXCEPT ![n + 1] = <<>> \o t]
  <2>1. s \o <<separator>> \in Strings
    BY <1>2
  <2>2. Splitted((s \o <<separator>>) \o t, separator) = LastLonger(longer, t)
    BY <1>3, <2>1, SplitWithin
  <2> QED BY <1>5, <2>2 DEF LastLonger
<1>7. <<>> \o t = t
  BY StringsConcat
<1>8. [longer EXCEPT ![n + 1] = t] = Append(cut, t)
  <2> DEFINE left == [longer EXCEPT ![n + 1] = t]
             right == Append(cut, t)
  <2>1. n + 1 \in 1 .. Len(longer)
    BY <1>4, <1>5
  <2>2. left \in Seq(Strings) /\ Len(left) = n + 1
        /\ \A i \in 1 .. n + 1 : left[i] = IF i = n + 1 THEN t ELSE longer[i]
    BY <1>5, <2>1, ExceptSeq
  <2>3. right \in Seq(Strings) /\ Len(right) = n + 1 /\ right[n + 1] = t
        /\ \A i \in 1 .. n : right[i] = cut[i]
    BY <1>4, AppendProperties DEF n
  <2> HIDE DEF left, right
  <2>4. \A i \in 1 .. n + 1 : left[i] = right[i]
    <3> TAKE i \in 1 .. n + 1
    <3>1. i = n + 1 \/ (i \in 1 .. n /\ i # n + 1)
      BY <1>4
    <3> QED BY <1>5, <2>2, <2>3, <3>1
  <2>5. left = right
    BY <2>2, <2>3, <2>4, SeqEqual
  <2> QED BY <2>5 DEF left, right
<1> QED BY <1>6, <1>7, <1>8 DEF cut

LEMMA SplitOne ==
    ASSUME NEW separator, NEW t \in Strings, Plain(t, separator)
    PROVE  Splitted(t, separator) = <<t>>
<1> DEFINE cut == << <<>> >>
<1>1. Splitted(<<>>, separator) = cut /\ Len(cut) = 1 /\ cut[1] = <<>>
  BY SplitEmpty
<1>2. <<>> \o t = t /\ <<>> \in Strings
  BY StringsConcat
<1>3. [cut EXCEPT ![1] = t] = <<t>>
  OBVIOUS
<1> HIDE DEF cut
<1>4. Splitted(<<>> \o t, separator) = [cut EXCEPT ![1] = <<>> \o t]
  <2>1. Splitted(<<>> \o t, separator) = LastLonger(cut, t)
    BY <1>1, <1>2, SplitWithin
  <2> QED BY <1>1, <2>1 DEF LastLonger
<1> QED BY <1>2, <1>3, <1>4

\* What a string was that is cut into one or into two.
CutInto(s, separator, cut) ==
    /\ Len(cut) = 1 => s = cut[1] /\ Plain(s, separator)
    /\ Len(cut) = 2 => /\ s = Append(cut[1], separator) \o cut[2]
                       /\ Plain(cut[1], separator) /\ Plain(cut[2], separator)

LEMMA CutShape ==
    ASSUME NEW s \in Strings, NEW separator \in Int
    PROVE  CutInto(s, separator, Splitted(s, separator))
<1> DEFINE Cut(u) == Splitted(u, separator)
           holds == {u \in Strings : CutInto(u, separator, Cut(u))}
<1>1. <<>> \in holds
  <2> DEFINE one == << <<>> >>
  <2>1. Cut(<<>>) = one /\ Len(one) = 1 /\ one[1] = <<>>
    BY SplitEmpty
  <2>2. Plain(<<>>, separator)
    BY DEF Plain
  <2> HIDE DEF one, Cut
  <2>3. CutInto(<<>>, separator, one)
    BY <2>1, <2>2 DEF CutInto
  <2> QED BY <2>1, <2>3, StringsConcat
<1>2. ASSUME NEW u \in Strings, NEW c \in Int, u \in holds PROVE Append(u, c) \in holds
  <2> DEFINE v == Append(u, c)
             cut == Cut(u)
             next == Cut(v)
             n == Len(cut)
  <2>1. v \in Strings
    BY StringAppend
  <2>2. cut \in Cuts
    BY SplitTyped DEF Strings
  <2>3. next = SplitByte(cut, c, separator)
    BY SplitAppend DEF Strings
  <2>4. CutInto(u, separator, cut)
    BY <1>2
  <2> HIDE DEF cut, next, Cut
  <2>5. n \in Nat /\ n > 0 /\ n \in 1 .. n /\ cut \in Seq(Strings) /\ \A i \in 1 .. n : cut[i] \in Strings
    BY <2>2 DEF Cuts
  <2>6. CASE c = separator
    <3>1. next = Append(cut, <<>>)
      BY <2>3, <2>6 DEF SplitByte
    <3>2. Len(next) = n + 1 /\ next[n + 1] = <<>> /\ \A i \in 1 .. n : next[i] = cut[i]
      BY <2>5, <3>1
    <3>3. ASSUME n = 1
          PROVE  /\ v = Append(next[1], separator) \o next[2]
                 /\ Plain(next[1], separator) /\ Plain(next[2], separator)
      <4>1. next[1] = u /\ next[2] = <<>> /\ Plain(u, separator)
        BY <2>4, <2>5, <3>2, <3>3 DEF CutInto
      <4>2. v \o <<>> = v
        BY <2>1 DEF Strings
      <4>3. Plain(<<>>, separator)
        BY DEF Plain
      <4> QED BY <2>6, <4>1, <4>2, <4>3
    <3> HIDE DEF n, v
    <3>4. Len(next) # 1 /\ (Len(next) = 2 => n = 1)
      BY <2>5, <3>2
    <3>5. CutInto(v, separator, next)
      BY <3>3, <3>4 DEF CutInto
    <3> QED BY <2>1, <3>5 DEF v, next
  <2>7. CASE c # separator
    <3>1. /\ Len(next) = n /\ next[n] = Append(cut[n], c)
          /\ \A i \in 1 .. n - 1 : next[i] = cut[i]
      BY <2>2, <2>3, <2>7, SplitByteTyped
    <3>2. ASSUME n = 1 PROVE v = next[1] /\ Plain(v, separator)
      <4>1. u = cut[1] /\ Plain(u, separator)
        BY <2>4, <3>2 DEF CutInto
      <4>2. Plain(v, separator)
        BY <2>7, <4>1, PlainAppend
      <4> QED BY <3>1, <3>2, <4>1, <4>2
    <3>3. ASSUME n = 2
          PROVE  /\ v = Append(next[1], separator) \o next[2]
                 /\ Plain(next[1], separator) /\ Plain(next[2], separator)
      <4>1. u = Append(cut[1], separator) \o cut[2] /\ Plain(cut[1], separator) /\ Plain(cut[2], separator)
        BY <2>4, <3>3 DEF CutInto
      <4>2. next[1] = cut[1] /\ next[2] = Append(cut[2], c)
        BY <3>1, <3>3
      <4>3. cut[1] \in Strings /\ cut[2] \in Strings
        <5> HIDE DEF n
        <5> QED BY <2>5, <3>3
      <4>4. Append(cut[1], separator) \in Strings
        BY <4>3, StringAppend
      <4>5. v = Append(cut[1], separator) \o Append(cut[2], c)
        BY <4>1, <4>3, <4>4, ConcatAppend
      <4>6. Plain(next[2], separator)
        BY <2>7, <4>1, <4>2, <4>3, PlainAppend
      <4> QED BY <4>1, <4>2, <4>5, <4>6
    <3> HIDE DEF n, v
    <3>4. CutInto(v, separator, next)
      BY <3>1, <3>2, <3>3 DEF CutInto
    <3> QED BY <2>1, <3>4 DEF v, next
  <2> QED BY <2>6, <2>7
<1>3. s \in holds
  <2> HIDE DEF holds
  <2> QED BY <1>1, <1>2, AppendInduction DEF Strings
<1> QED BY <1>3

\* A percent sign with something else than a digit among the two bytes behind it is
\* not decoded.
LEMMA BadEscape ==
    ASSUME NEW t \in Strings, NEW i \in 1 .. Len(t), NEW d \in {1, 2}, t[i] = PERCENT,
           i + d <= Len(t), ~IsHex(t[i + d])
    PROVE  Decode(t) = NULL
<1> DEFINE n == Len(t)
<1>1. t \in Seq(Int) /\ n \in Nat
  BY DEF Strings
<1>2. PICK up \in [0 .. n -> Decoders] :
        /\ up[0] = Decoder
        /\ \A k \in 1 .. n : up[k] = DecodeByte(up[k - 1], t[k])
        /\ Decoded(t) = up[n]
  BY <1>1, DecodedUp
<1> DEFINE State(k) == up[k].state
<1>3. ASSUME NEW k \in 1 .. n
      PROVE  /\ up[k] = DecodeByte(up[k - 1], t[k]) /\ up[k] \in Decoders /\ up[k - 1] \in Decoders
             /\ t[k] \in Int
  <2>1. t[k] \in Int
    BY <1>1
  <2> HIDE DEF n
  <2>2. k \in 0 .. n /\ k - 1 \in 0 .. n
    BY <1>1
  <2> QED BY <1>2, <2>1, <2>2
<1> HIDE DEF n
<1>4. ASSUME NEW e \in Decoders, NEW c \in Int
      PROVE  /\ e.state = "FAILED" => DecodeByte(e, c).state = "FAILED"
             /\ e.state # "NORMAL" /\ ~IsHex(c) => DecodeByte(e, c).state = "FAILED"
             /\ e.state = "PERCENT_FIRST" /\ IsHex(c) => DecodeByte(e, c).state = "PERCENT_SECOND"
             /\ e.state = "NORMAL" /\ c = PERCENT => DecodeByte(e, c).state = "PERCENT_FIRST"
  <2>1. e = [state |-> e.state, value |-> e.value, out |-> e.out]
        /\ e.state \in {"NORMAL", "PERCENT_FIRST", "PERCENT_SECOND", "FAILED"}
    BY DEF Decoders
  <2> HIDE DEF Decoders
  <2>2. ASSUME e.state = "FAILED" \/ (e.state # "NORMAL" /\ ~IsHex(c)) PROVE DecodeByte(e, c).state = "FAILED"
    <3>1. DecodeByte(e, c) = [e EXCEPT !.state = "FAILED"]
      BY <2>1, <2>2 DEF DecodeByte
    <3> QED BY <2>1, <3>1
  <2>3. ASSUME e.state = "PERCENT_FIRST", IsHex(c) PROVE DecodeByte(e, c).state = "PERCENT_SECOND"
    <3>1. DecodeByte(e, c) = [e EXCEPT !.state = "PERCENT_SECOND", !.value = 16 * HexValue(c)]
      BY <2>3 DEF DecodeByte
    <3> QED BY <2>1, <3>1
  <2>4. ASSUME e.state = "NORMAL", c = PERCENT PROVE DecodeByte(e, c).state = "PERCENT_FIRST"
    <3>1. DecodeByte(e, c) = [e EXCEPT !.state = "PERCENT_FIRST"]
      BY <2>4 DEF DecodeByte
    <3> QED BY <2>1, <3>1
  <2> QED BY <2>2, <2>3, <2>4
<1>5. ~IsHex(PERCENT)
  BY DEF IsHex, Digit, PERCENT
<1>6. i \in 1 .. n /\ i + d \in 1 .. n /\ State(i) \in {"PERCENT_FIRST", "FAILED"}
  <2>1. i \in 1 .. n /\ i + d \in 1 .. n
    BY <1>1 DEF n
  <2>2. up[i - 1].state \in {"NORMAL", "PERCENT_FIRST", "PERCENT_SECOND", "FAILED"}
    BY <1>3, <2>1 DEF Decoders
  <2> QED BY <1>3, <1>4, <1>5, <2>1, <2>2
<1>7. State(i + d) = "FAILED"
  <2>1. CASE d = 1
    <3>1. i + 1 \in 1 .. n /\ (i + 1) - 1 = i
      BY <1>6, <2>1
    <3>2. up[i + 1] = DecodeByte(up[i], t[i + 1]) /\ up[i] \in Decoders /\ t[i + 1] \in Int
      BY <1>3, <3>1
    <3> QED BY <1>4, <1>6, <2>1, <3>2
  <2>2. CASE d = 2
    <3>1. i + 1 \in 1 .. n /\ (i + 1) - 1 = i /\ i + 2 \in 1 .. n /\ (i + 2) - 1 = i + 1
      BY <1>1, <1>6, <2>2
    <3>2. up[i + 1] = DecodeByte(up[i], t[i + 1]) /\ up[i] \in Decoders /\ t[i + 1] \in Int
      BY <1>3, <3>1
    <3>3. up[i + 2] = DecodeByte(up[i + 1], t[i + 2]) /\ up[i + 1] \in Decoders /\ t[i + 2] \in Int
      BY <1>3, <3>1
    <3>4. State(i + 1) \in {"PERCENT_SECOND", "FAILED"}
      BY <1>4, <1>6, <3>2
    <3> QED BY <1>4, <2>2, <3>3, <3>4
  <2> QED BY <2>1, <2>2
<1> DEFINE from == i + d
           holds == {k \in from .. n : State(k) = "FAILED"}
<1>8. from \in holds
  BY <1>6, <1>7
<1>9. ASSUME NEW k \in from .. n - 1, k \in holds PROVE k + 1 \in holds
  <2>1. k + 1 \in 1 .. n /\ (k + 1) - 1 = k /\ k + 1 \in from .. n
    BY <1>1, <1>6
  <2>2. up[k + 1] = DecodeByte(up[k], t[k + 1]) /\ up[k] \in Decoders /\ t[k + 1] \in Int
    BY <1>3, <2>1
  <2> QED BY <1>4, <1>9, <2>1, <2>2
<1>10. n \in holds
  <2>1. from \in Int /\ n \in Int /\ n \in from .. n
    BY <1>1, <1>6
  <2> HIDE DEF holds, from
  <2>2. from .. n \subseteq holds
    BY <1>8, <1>9, <2>1, IntervalInduction
  <2> QED BY <2>1, <2>2
<1> QED
  BY <1>2, <1>10 DEF Decode, Decoded

\* A piece that is malformed is no parameter.
LEMMA JunkSkipped ==
    ASSUME NEW piece \in Strings, Malformed(piece)
    PROVE  ~IsParam(Split(piece, EQUALS))
<1> SUFFICES ASSUME IsParam(Split(piece, EQUALS)) PROVE FALSE
  OBVIOUS
<1> DEFINE sides == Splitted(piece, EQUALS)
           a == sides[1]
           b == sides[2]
           k == Len(a)
<1>1. piece # <<>> /\ Split(piece, EQUALS) = sides
  <2>1. CASE piece = <<>>
    <3>1. Split(piece, EQUALS) = <<>> /\ Len(<<>>) = 0
      BY <2>1 DEF Split
    <3> QED BY <3>1 DEF IsParam
  <2>2. CASE piece # <<>>
    BY <2>2 DEF Split, Splitted
  <2> QED BY <2>1, <2>2
<1>2. Len(sides) = 2 /\ a # <<>> /\ Decode(a) # NULL /\ Decode(b) # NULL
  BY <1>1 DEF IsParam
<1>3. EQUALS \in Int
  BY DEF EQUALS
<1>4. piece = Append(a, EQUALS) \o b /\ Plain(a, EQUALS) /\ Plain(b, EQUALS)
  BY <1>2, <1>3, CutShape DEF CutInto
<1>5. a \in Strings /\ b \in Strings
  <2>1. sides \in Cuts
    BY SplitTyped DEF Strings
  <2> DEFINE cut == sides
  <2>2. cut \in Seq(Strings) /\ Len(cut) = 2
    BY <1>2, <2>1 DEF Cuts
  <2> HIDE DEF cut
  <2>3. cut \in [1 .. 2 -> Strings]
    BY <2>2, LenProperties
  <2> QED BY <2>3 DEF cut
<1> HIDE DEF a, b, sides
<1>6. /\ k \in Nat /\ k > 0 /\ Len(b) \in Nat
      /\ Len(piece) = k + 1 + Len(b) /\ DOMAIN piece = 1 .. k + 1 + Len(b)
      /\ piece[k + 1] = EQUALS
      /\ \A i \in 1 .. k : piece[i] = a[i]
      /\ \A i \in 1 .. Len(b) : piece[k + 1 + i] = b[i]
  <2> DEFINE front == Append(a, EQUALS)
  <2>1. k \in Nat /\ k > 0 /\ Len(b) \in Nat
    BY <1>2, <1>5 DEF Strings
  <2>2. front \in Seq(Int) /\ Len(front) = k + 1 /\ front[k + 1] = EQUALS /\ \A i \in 1 .. k : front[i] = a[i]
    BY <1>3, <1>5 DEF Strings
  <2> HIDE DEF front, k
  <2>3. b \in Seq(Int) /\ piece = front \o b
    BY <1>4, <1>5 DEF Strings, front
  <2>4. /\ Len(piece) = k + 1 + Len(b)
        /\ \A i \in 1 .. k + 1 + Len(b) : piece[i] = IF i <= k + 1 THEN front[i] ELSE b[i - (k + 1)]
    <3>1. front \in Seq(Int) /\ b \in Seq(Int)
      BY <2>2, <2>3
    <3>2. /\ Len(front \o b) = Len(front) + Len(b)
          /\ \A i \in 1 .. Len(front) + Len(b) :
                (front \o b)[i] = IF i <= Len(front) THEN front[i] ELSE b[i - Len(front)]
      BY <3>1, ConcatProperties
    <3> QED BY <2>2, <2>3, <3>2
  <2>5. DOMAIN piece = 1 .. k + 1 + Len(b)
    BY <2>4 DEF Strings
  <2>6. piece[k + 1] = EQUALS
    <3>1. k + 1 \in 1 .. k + 1 + Len(b) /\ k + 1 <= k + 1
      BY <2>1
    <3> QED BY <2>2, <2>4, <3>1
  <2>7. \A i \in 1 .. k : piece[i] = a[i]
    <3> TAKE i \in 1 .. k
    <3>1. i \in 1 .. k + 1 + Len(b) /\ i <= k + 1
      BY <2>1
    <3> QED BY <2>2, <2>4, <3>1
  <2>8. \A i \in 1 .. Len(b) : piece[k + 1 + i] = b[i]
    <3> TAKE i \in 1 .. Len(b)
    <3>1. k + 1 + i \in 1 .. k + 1 + Len(b) /\ ~ (k + 1 + i <= k + 1) /\ (k + 1 + i) - (k + 1) = i
      BY <2>1
    <3> QED BY <2>4, <3>1
  <2> QED BY <2>1, <2>4, <2>5, <2>6, <2>7, <2>8
<1> HIDE DEF k
<1>7. \A i \in DOMAIN piece : \/ i \in 1 .. k /\ piece[i] # EQUALS
                              \/ i = k + 1
                              \/ /\ i - (k + 1) \in 1 .. Len(b) /\ k + 1 + (i - (k + 1)) = i
                                 /\ piece[i] # EQUALS
  <2> TAKE i \in DOMAIN piece
  <2>1. CASE i \in 1 .. k
    <3>1. a[i] # EQUALS
      BY <1>4, <2>1 DEF Plain, k
    <3> QED BY <1>6, <2>1, <3>1
  <2>2. CASE i > k + 1
    <3>1. i - (k + 1) \in 1 .. Len(b) /\ k + 1 + (i - (k + 1)) = i
      BY <1>6, <2>2
    <3>2. b[i - (k + 1)] # EQUALS
      BY <1>4, <3>1 DEF Plain
    <3> QED BY <1>6, <3>1, <3>2
  <2> QED BY <1>6, <2>1, <2>2
<1>8. k + 1 \in DOMAIN piece
  BY <1>6
<1>9. CASE \A i \in DOMAIN piece : piece[i] # EQUALS
  BY <1>6, <1>8, <1>9
<1>10. CASE \E i, j \in DOMAIN piece : i < j /\ piece[i] = EQUALS /\ piece[j] = EQUALS
  <2>1. PICK i, j \in DOMAIN piece : i < j /\ piece[i] = EQUALS /\ piece[j] = EQUALS
    BY <1>10
  <2>2. i = k + 1 /\ j = k + 1
    BY <1>7, <2>1
  <2> QED BY <1>6, <2>1, <2>2
<1>11. CASE piece[1] = EQUALS
  <2>1. 1 \in DOMAIN piece /\ 1 \in 1 .. k
    BY <1>6
  <2>2. a[1] # EQUALS
    BY <1>4, <2>1 DEF Plain, k
  <2> QED BY <1>6, <1>11, <2>1, <2>2
<1>12. CASE \E i \in DOMAIN piece, d \in {1, 2} :
               /\ piece[i] = PERCENT /\ i + d \in DOMAIN piece /\ ~IsHex(piece[i + d])
               /\ \A j \in i .. i + d : piece[j] # EQUALS
  <2>1. PICK i \in DOMAIN piece, d \in {1, 2} :
               /\ piece[i] = PERCENT /\ i + d \in DOMAIN piece /\ ~IsHex(piece[i + d])
               /\ \A j \in i .. i + d : piece[j] # EQUALS
    BY <1>12
  <2>2. i \in 1 .. k + 1 + Len(b) /\ i + d \in 1 .. k + 1 + Len(b)
    BY <1>6, <2>1
  <2>3. k + 1 \notin i .. i + d
    BY <1>6, <2>1
  <2>4. i + d \in 1 .. k \/ i > k + 1
    BY <1>6, <2>2, <2>3
  <2>5. CASE i + d \in 1 .. k
    <3>1. i \in 1 .. k
      BY <1>6, <2>2, <2>5
    <3>2. a[i] = PERCENT /\ a[i + d] = piece[i + d]
      BY <1>6, <2>1, <2>5, <3>1
    <3>3. i \in 1 .. Len(a) /\ i + d <= Len(a) /\ ~IsHex(a[i + d])
      BY <1>6, <2>1, <2>5, <3>1, <3>2 DEF k
    <3> QED BY <1>2, <1>5, <3>2, <3>3, BadEscape
  <2>6. CASE i > k + 1
    <3>1. PICK p \in 1 .. Len(b) : p = i - (k + 1)
      BY <1>6, <2>2, <2>6
    <3>2. p + d \in 1 .. Len(b) /\ k + 1 + p = i /\ k + 1 + (p + d) = i + d /\ p + d <= Len(b)
      <4>1. PICK m \in Nat : m = Len(b)
        BY <1>6
      <4>2. i \in Int /\ d \in {1, 2} /\ k \in Nat /\ i + d <= k + 1 + m /\ p = i - (k + 1) /\ p \in Int /\ p >= 1
        BY <1>6, <2>2, <3>1, <4>1
      <4>3. p + d \in 1 .. m /\ k + 1 + p = i /\ k + 1 + (p + d) = i + d /\ p + d <= m
        BY <4>1, <4>2
      <4> QED BY <4>1, <4>3
    <3>3. b[p] = PERCENT /\ b[p + d] = piece[i + d]
      BY <1>6, <2>1, <3>2
    <3>4. ~IsHex(b[p + d])
      BY <2>1, <3>3
    <3> QED BY <1>2, <1>5, <3>2, <3>3, <3>4, BadEscape
  <2> QED BY <2>4, <2>5, <2>6
<1> QED BY <1>9, <1>10, <1>11, <1>12 DEF Malformed

LEMMA PlainConcat ==
    ASSUME NEW s \in Strings, NEW t \in Strings, NEW separator, Plain(s, separator), Plain(t, separator)
    PROVE  Plain(s \o t, separator)
<1>1. s \in Seq(Int) /\ t \in Seq(Int) /\ Len(s) \in Nat /\ Len(t) \in Nat
  BY DEF Strings
<1>2. Len(s \o t) = Len(s) + Len(t)
      /\ \A i \in 1 .. Len(s) + Len(t) : (s \o t)[i] = IF i <= Len(s) THEN s[i] ELSE t[i - Len(s)]
  BY <1>1, ConcatProperties
<1>3. ASSUME NEW i \in 1 .. Len(s) + Len(t) PROVE (s \o t)[i] # separator
  <2>1. CASE i <= Len(s)
    <3>1. i \in 1 .. Len(s)
      BY <1>1, <2>1
    <3> QED BY <1>2, <2>1, <3>1 DEF Plain
  <2>2. CASE ~ (i <= Len(s))
    <3>1. i - Len(s) \in 1 .. Len(t)
      BY <1>1, <2>2
    <3> QED BY <1>2, <2>2, <3>1 DEF Plain
  <2> QED BY <2>1, <2>2
<1> QED BY <1>2, <1>3 DEF Plain

\* Strings that are put into a form as they are.
Clean == {t \in Strings : Plain(t, AMPERSAND) /\ Plain(t, EQUALS)}

\* A browser writes a byte in one of its spellings, without what forms are cut at.
LEMMA SpelledClean ==
    ASSUME NEW c \in Byte
    PROVE  Spelled(c) \in Spellings(c) /\ Spelled(c) \in Clean
<1> USE DEF SPACE, PERCENT, AMPERSAND, PLUS, EQUALS
<1>1. CASE c = SPACE
  <2>1. Spelled(c) = <<PLUS>>
    BY <1>1 DEF Spelled
  <2>2. <<PLUS>> \in Spellings(c)
    BY <1>1 DEF Spellings
  <2>3. <<PLUS>> \in Clean
    BY DEF Clean, Plain, Strings
  <2> QED BY <2>1, <2>2, <2>3
<1>2. CASE c # SPACE /\ c \in Reserved
  <2>1. Spelled(c) = Escaped(c, 65)
    BY <1>2 DEF Spelled
  <2>2. Escaped(c, 65) \in Spellings(c)
    BY DEF Spellings
  <2>3. \A n \in 0 .. 15 : HexDigit(n, 65) \in 48 .. 57 \cup 65 .. 70
    BY DEF HexDigit
  <2>4. PICK h \in 0 .. 15 : h = c \div 16
    BY DEF Byte
  <2>5. PICK l \in 0 .. 15 : l = c % 16
    BY DEF Byte
  <2>6. PICK x \in 48 .. 57 \cup 65 .. 70 : x = HexDigit(h, 65)
    BY <2>3
  <2>7. PICK y \in 48 .. 57 \cup 65 .. 70 : y = HexDigit(l, 65)
    BY <2>3
  <2>8. Escaped(c, 65) = <<37, x, y>>
    BY <2>4, <2>5, <2>6, <2>7 DEF Escaped
  <2>9. <<37, x, y>> \in Clean
    BY DEF Clean, Plain, Strings
  <2> QED BY <2>1, <2>2, <2>8, <2>9
<1>3. CASE c # SPACE /\ c \notin Reserved
  <2>1. Spelled(c) = <<c>>
    BY <1>3 DEF Spelled
  <2>2. <<c>> \in Spellings(c)
    BY <1>3 DEF Spellings
  <2>3. c # AMPERSAND /\ c # EQUALS
    BY <1>3 DEF Reserved
  <2>4. <<c>> \in Clean
    BY <2>3, ByteFacts DEF Clean, Plain, Strings
  <2> QED BY <2>1, <2>2, <2>4
<1> QED BY <1>1, <1>2, <1>3

\* What a browser writes of a string decodes to it.
LEMMA EncodedDecoded ==
    ASSUME NEW s \in Seq(1 .. 255)
    PROVE  Encode(s) \in Clean /\ Decode(Encode(s)) = s /\ (s # <<>> => Encode(s) # <<>>)
<1> DEFINE n == Len(s)
           words == [i \in 1 .. n |-> Spelled(s[i])]
<1>1. n \in Nat /\ DOMAIN s = 1 .. n /\ s \in [1 .. n -> Byte]
  <2>1. Len(s) \in Nat /\ DOMAIN s = 1 .. Len(s) /\ s \in [1 .. Len(s) -> 1 .. 255]
    <3>1. s \in Seq(Byte)
      BY DEF Byte
    <3>2. Len(s) \in Nat /\ DOMAIN s = 1 .. Len(s) /\ s \in [1 .. Len(s) -> Byte]
      BY <3>1, LenProperties
    <3> QED BY <3>2 DEF Byte
  <2> QED BY <2>1 DEF Byte
<1> HIDE DEF n
<1>2. \A i \in 1 .. n : words[i] \in Spellings(s[i]) /\ words[i] \in Clean /\ words[i] \in Strings
  BY <1>1, SpelledClean DEF Clean
<1>3. words \in [1 .. n -> Strings]
  BY <1>2
<1>4. Encode(s) = FlattenSeq(words)
  BY <1>1 DEF Encode
<1> HIDE DEF words
<1>5. Decoded(FlattenSeq(words)).state = "NORMAL" /\ Decoded(FlattenSeq(words)).out = s
  BY <1>1, <1>2, <1>3, WordsDecoded
<1>6. Decode(Encode(s)) = s
  <2>1. Decode(Encode(s)) = CString(s)
    BY <1>4, <1>5 DEF Decode, Decoded
  <2> QED BY <1>1, <2>1, WholeCString
<1>7. PICK flat \in [0 .. n -> Strings] :
        /\ flat[0] = <<>>
        /\ \A k \in 1 .. n : flat[k] = flat[k - 1] \o words[k]
        /\ FlattenSeq(words) = flat[n]
  BY <1>1, <1>3, FlattenedUp
<1> DEFINE holds == {k \in 0 .. n : flat[k] \in Clean}
<1>8. 0 \in holds
  <2>1. <<>> \in Clean
    BY StringsConcat DEF Clean, Plain
  <2> QED BY <1>1, <1>7, <2>1
<1>9. ASSUME NEW k \in 0 .. n - 1, k \in holds PROVE k + 1 \in holds
  <2>1. k + 1 \in 1 .. n /\ (k + 1) - 1 = k /\ k + 1 \in 0 .. n
    BY <1>1
  <2>2. flat[k + 1] = flat[k] \o words[k + 1] /\ words[k + 1] \in Clean /\ flat[k] \in Clean
    BY <1>2, <1>7, <1>9, <2>1
  <2>3. flat[k] \o words[k + 1] \in Clean
    BY <2>2, StringsConcat, PlainConcat DEF Clean
  <2> QED BY <2>1, <2>2, <2>3
<1>10. n \in holds
  <2> HIDE DEF holds
  <2>1. \A k \in 0 .. n : k \in holds
    BY <1>1, <1>8, <1>9, UpTo
  <2> QED BY <1>1, <2>1
<1>11. s # <<>> => Encode(s) # <<>>
  <2>1. Decode(<<>>) = <<>>
    BY DecodedEmpty DEF Decode, Decoded, Decoder, CString, SelectInSeq
  <2> QED BY <1>6, <2>1
<1> QED BY <1>4, <1>6, <1>7, <1>10, <1>11

-----------------------------------------------------------------------------
(* Forms: bodies and their pieces. *)

LEMMA AppendToOne ==
    ASSUME NEW S, NEW one \in Seq(S), NEW b \in S
    PROVE  Len(one) = 1 => Append(one, b) = <<one[1], b>>
<1> DEFINE longer == Append(one, b)
           n == Len(one)
           first == one[1]
           two == <<first, b>>
<1>1. /\ longer \in Seq(S) /\ Len(longer) = n + 1 /\ longer[n + 1] = b
      /\ \A i \in 1 .. n : longer[i] = one[i]
  BY AppendProperties
<1>2. n \in Nat /\ \A i \in 1 .. n : one[i] \in S
  OBVIOUS
<1> HIDE DEF longer, n
<1>3. n = 1 => longer \in Seq(S) /\ Len(longer) = 2 /\ longer[1] = first /\ longer[2] = b /\ first \in S
  BY <1>1, <1>2
<1> HIDE DEF first
<1>4. n = 1 => two \in Seq(S) /\ Len(two) = 2 /\ two[1] = first /\ two[2] = b
  BY <1>3
<1> HIDE DEF two
<1>5. n = 1 => \A i \in 1 .. 2 : longer[i] = two[i]
  BY <1>3, <1>4
<1>6. n = 1 => longer = two
  BY <1>3, <1>4, <1>5, SeqEqual
<1> QED BY <1>6 DEF longer, two, first, n

\* What is cut out of the body of a form is read as the parameter it was made of.
LEMMA PieceRead ==
    ASSUME NEW p \in Pieces
    PROVE  /\ Piece(p) \in Strings /\ Plain(Piece(p), AMPERSAND)
           /\ IsParam(Split(Piece(p), EQUALS)) <=> "junk" \notin DOMAIN p
           /\ "junk" \notin DOMAIN p => ReadParam(Split(Piece(p), EQUALS)) = p
<1>1. CASE p \in [junk : Junk]
  <2>1. "junk" \in DOMAIN p /\ p.junk \in Junk
    BY <1>1
  <2>2. Piece(p) = p.junk
    BY <2>1 DEF Piece
  <2>3. p.junk \in Seq(1 .. 255) /\ AMPERSAND \notin ToSet(p.junk) /\ Malformed(p.junk)
    BY <2>1, FormAssumption
  <2>4. p.junk \in Strings
    <3>1. 1 .. 255 \subseteq Int
      OBVIOUS
    <3> QED BY <2>3, <3>1, SeqMonotonic DEF Strings
  <2>5. Plain(p.junk, AMPERSAND)
    BY <2>3 DEF Plain, ToSet
  <2> QED BY <2>1, <2>2, <2>3, <2>4, <2>5, JunkSkipped
<1>2. CASE p \in [name : Fields \ {<<>>}, value : Fields]
  <2> DEFINE name == Encode(p.name)
             value == Encode(p.value)
             front == name \o <<EQUALS>>
             sides == <<name, value>>
  <2>1. /\ p.name \in Seq(1 .. 255) /\ p.name # <<>> /\ p.value \in Seq(1 .. 255)
        /\ p = [name |-> p.name, value |-> p.value] /\ "junk" \notin DOMAIN p
    BY <1>2, FormAssumption
  <2>2. name \in Clean /\ Decode(name) = p.name /\ name # <<>> /\ value \in Clean /\ Decode(value) = p.value
    BY <2>1, EncodedDecoded
  <2>3. Piece(p) = front \o value
    BY <2>1 DEF Piece
  <2> HIDE DEF name, value
  <2>4. /\ <<EQUALS>> \in Strings /\ Plain(<<EQUALS>>, AMPERSAND) /\ EQUALS \in Int
    BY DEF Strings, Plain, AMPERSAND, EQUALS
  <2>5. front \in Strings /\ Plain(front, AMPERSAND)
    BY <2>2, <2>4, StringsConcat, PlainConcat DEF Clean
  <2>6. Splitted(front \o value, EQUALS) = Append(<<name>>, value)
    <3>1. Splitted(name, EQUALS) = <<name>>
      BY <2>2, SplitOne DEF Clean
    <3>2. Splitted((name \o <<EQUALS>>) \o value, EQUALS) = Append(Splitted(name, EQUALS), value)
      BY <2>2, <2>4, SplitJoined DEF Clean
    <3> QED BY <3>1, <3>2
  <2>7. Append(<<name>>, value) = sides /\ Len(sides) = 2 /\ sides[1] = name /\ sides[2] = value
    <3> DEFINE one == <<name>>
    <3>1. name \in Strings /\ value \in Strings
      BY <2>2 DEF Clean
    <3>2. one \in Seq(Strings) /\ Len(one) = 1 /\ one[1] = name
      BY <3>1
    <3> HIDE DEF one
    <3>3. Append(one, value) = <<one[1], value>>
      BY <3>1, <3>2, AppendToOne
    <3>4. Append(one, value) = sides
      BY <3>2, <3>3
    <3> QED BY <3>4 DEF one
  <2> HIDE DEF front, sides
  <2>8. front \o value \in Strings /\ Plain(front \o value, AMPERSAND)
    BY <2>2, <2>5, StringsConcat, PlainConcat DEF Clean
  <2>9. front \o value # <<>>
    <3>1. Splitted(<<>>, EQUALS) # sides
      <4> DEFINE one == << <<>> >>
      <4>1. Splitted(<<>>, EQUALS) = one /\ Len(one) = 1
        BY SplitEmpty
      <4> QED BY <2>7, <4>1
    <3> QED BY <2>6, <2>7, <3>1
  <2>10. Split(Piece(p), EQUALS) = sides
    BY <2>3, <2>6, <2>7, <2>9 DEF Split, Splitted
  <2>11. p.name # NULL /\ p.value # NULL
    BY <2>1, FormAssumption
  <2>12. IsParam(sides)
    BY <2>2, <2>7, <2>11 DEF IsParam
  <2>13. ReadParam(sides) = p
    BY <2>1, <2>2, <2>7 DEF ReadParam
  <2> QED BY <2>1, <2>3, <2>8, <2>10, <2>12, <2>13
<1> QED BY <1>1, <1>2 DEF Pieces

\* A body is put together piece by piece.
BodyGrows(body, form) ==
    /\ body[0] = Piece(form[1])
    /\ \A k \in 1 .. Len(form) - 1 : body[k] = (body[k - 1] \o <<AMPERSAND>>) \o Piece(form[k + 1])
    /\ Body(form) = body[Len(form) - 1]

LEMMA BodyUp ==
    ASSUME NEW form \in Seq(Pieces), form # <<>>
    PROVE  \E body \in [0 .. Len(form) - 1 -> Strings] : BodyGrows(body, form)
<1> DEFINE V == Strings
           rest == Tail(form)
           n == Len(form) - 1
           base == Piece(form[1])
           Op(body, p) == (body \o <<AMPERSAND>>) \o Piece(p)
           step == [k \in 1 .. n |-> [d \in V |-> Op(d, rest[k])]]
           fold == CHOOSE iter : iter = [t \in SUBSET DOMAIN rest |->
                      IF t = {} THEN base ELSE Op(iter[t \ {Max(t)}], rest[Max(t)])]
           up == Upward(fold, n)
<1>1. Body(form) = fold[DOMAIN rest]
  BY DEF Body, FoldLeft, MapThenFoldSet
<1>2. /\ n \in Nat /\ DOMAIN rest = 1 .. n /\ form[1] \in Pieces
      /\ \A k \in 1 .. n : rest[k] \in Pieces /\ rest[k] = form[k + 1]
  <2>1. Len(form) \in Nat /\ Len(form) # 0
    OBVIOUS
  <2>2. rest \in Seq(Pieces) /\ Len(rest) = n /\ \A k \in 1 .. Len(rest) : rest[k] = form[k + 1]
    BY HeadTailProperties
  <2> HIDE DEF rest
  <2>3. DOMAIN rest = 1 .. n /\ \A k \in 1 .. n : rest[k] \in Pieces
    BY <2>1, <2>2
  <2>4. 1 \in 1 .. Len(form)
    BY <2>1
  <2> QED BY <2>1, <2>2, <2>3, <2>4
<1> HIDE DEF rest
<1>3. base \in V
  BY <1>2, PieceRead
<1>4. \A d \in V, k \in 1 .. n : Op(d, rest[k]) \in V
  <2>1. <<AMPERSAND>> \in Strings
    BY DEF Strings, AMPERSAND
  <2> HIDE DEF n
  <2> QED BY <1>2, <2>1, PieceRead, StringsConcat
<1>5. step \in [1 .. n -> [V -> V]]
  <2> HIDE DEF V, Op, n
  <2> QED BY <1>4
<1>6. \A k \in 1 .. n, d \in V : step[k][d] = Op(d, rest[k])
  <2> HIDE DEF V, Op, n
  <2> QED OBVIOUS
<1>7. fold = [t \in SUBSET (1 .. n) |-> IF t = {} THEN base ELSE Op(fold[t \ {Max(t)}], rest[Max(t)])]
  <2> HIDE DEF V, Op, base, step, n
  <2>1. PICK iter \in [SUBSET (1 .. n) -> V] : Folds(iter, base, step, n)
    BY <1>2, <1>3, <1>5, FoldExists
  <2>2. ASSUME NEW t \in SUBSET (1 .. n), t # {}
        PROVE  iter[t] = Op(iter[t \ {Max(t)}], rest[Max(t)])
    BY <1>2, <1>6, <2>1, <2>2, MaxOfSet DEF Folds
  <2>3. iter = [t \in SUBSET (1 .. n) |-> IF t = {} THEN base ELSE Op(iter[t \ {Max(t)}], rest[Max(t)])]
    BY <2>1, <2>2 DEF Folds
  <2>4. DOMAIN rest = 1 .. n
    BY <1>2
  <2> QED BY <2>3, <2>4
<1>8. up \in [0 .. n -> V] /\ GoesUp(up, base, step, n)
  <2> HIDE DEF V, Op, base, step, fold, n
  <2>1. \A t \in SUBSET (1 .. n) : t # {} => Max(t) \in 1 .. n
    BY <1>2, MaxOfSet
  <2>2. FoldsWithin(fold, V, base, step, n)
    BY <1>6, <1>7, <2>1 DEF FoldsWithin
  <2> QED BY <1>2, <1>3, <1>5, <2>2, FoldUp
<1>9. up[n] = fold[DOMAIN rest]
  <2> HIDE DEF V, fold, n
  <2> QED BY <1>2 DEF Upward
<1>10. \A k \in 1 .. n : up[k] = Op(up[k - 1], rest[k])
  <2> HIDE DEF V, Op, base, step, up, n
  <2>1. \A k \in 1 .. n : up[k - 1] \in V
    BY <1>2, <1>8
  <2> QED BY <1>6, <1>8, <2>1 DEF GoesUp
<1> HIDE DEF up, fold, step
<1>11. up[0] = base
  BY <1>8 DEF GoesUp
<1>12. BodyGrows(up, form)
  BY <1>1, <1>2, <1>9, <1>10, <1>11 DEF BodyGrows
<1> QED BY <1>8, <1>12

\* It is cut into its pieces.
LEMMA BodySplit ==
    ASSUME NEW form \in Seq(Pieces), form # <<>>
    PROVE  Splitted(Body(form), AMPERSAND) = [i \in 1 .. Len(form) |-> Piece(form[i])]
<1> DEFINE n == Len(form)
           First(k) == [i \in 1 .. k |-> Piece(form[i])]
           Cut(s) == Splitted(s, AMPERSAND)
<1>1. n \in Nat /\ n > 0
  OBVIOUS
<1>2. \A i \in 1 .. n : form[i] \in Pieces
  OBVIOUS
<1>3. \A i \in 1 .. n : Piece(form[i]) \in Strings /\ Plain(Piece(form[i]), AMPERSAND)
  <2> HIDE DEF n
  <2> QED BY <1>2, PieceRead
<1>4. PICK body \in [0 .. n - 1 -> Strings] : BodyGrows(body, form)
  BY BodyUp
<1>5. /\ body[0] = Piece(form[1])
      /\ \A k \in 1 .. n - 1 : body[k] = (body[k - 1] \o <<AMPERSAND>>) \o Piece(form[k + 1])
      /\ Body(form) = body[n - 1]
  BY <1>4 DEF BodyGrows
<1> HIDE DEF n, Cut
<1> DEFINE holds == {k \in 0 .. n - 1 : Cut(body[k]) = First(k + 1)}
<1>6. 0 \in holds
  <2>1. 1 \in 1 .. n /\ 0 \in 0 .. n - 1
    BY <1>1
  <2>2. Cut(body[0]) = <<Piece(form[1])>>
    BY <1>3, <1>5, <2>1, SplitOne DEF Cut
  <2>3. First(0 + 1) = <<Piece(form[1])>>
    OBVIOUS
  <2> QED BY <2>1, <2>2, <2>3
<1>7. ASSUME NEW k \in 0 .. (n - 1) - 1, k \in holds PROVE k + 1 \in holds
  <2>1. /\ k + 1 \in 1 .. n - 1 /\ (k + 1) - 1 = k /\ k + 1 \in 0 .. n - 1 /\ k \in 0 .. n - 1
        /\ (k + 1) + 1 \in 1 .. n /\ k \in Nat
    BY <1>1
  <2>2. body[k + 1] = (body[k] \o <<AMPERSAND>>) \o Piece(form[(k + 1) + 1]) /\ body[k] \in Strings
    BY <1>4, <1>5, <2>1
  <2>3. Cut(body[k + 1]) = Append(Cut(body[k]), Piece(form[(k + 1) + 1]))
    <3>1. AMPERSAND \in Int
      BY DEF AMPERSAND
    <3>2. Piece(form[(k + 1) + 1]) \in Strings /\ Plain(Piece(form[(k + 1) + 1]), AMPERSAND)
      BY <1>3, <2>1
    <3> QED BY <2>2, <3>1, <3>2, SplitJoined DEF Cut
  <2>4. Append(First(k + 1), Piece(form[(k + 1) + 1])) = First((k + 1) + 1)
    <3>0. PICK m \in 1 .. n - 1 : m = k + 1
      BY <2>1
    <3> DEFINE P(i) == Piece(form[i])
               longer == Append(First(m), P(m + 1))
               next == First(m + 1)
    <3>1. m \in Nat /\ m + 1 \in 1 .. n /\ \A i \in 1 .. n : P(i) \in Strings
      BY <1>1, <1>3
    <3> HIDE DEF P
    <3>2. \A i \in 1 .. m + 1 : i \in 1 .. n /\ (i \in 1 .. m \/ i = m + 1)
      BY <1>1
    <3>3. First(m) \in Seq(Strings) /\ Len(First(m)) = m /\ \A i \in 1 .. m : First(m)[i] = P(i)
      BY <1>1, <3>1, <3>2 DEF P
    <3>4. next \in Seq(Strings) /\ Len(next) = m + 1 /\ \A i \in 1 .. m + 1 : next[i] = P(i)
      BY <1>1, <3>1, <3>2 DEF P
    <3> HIDE DEF First
    <3>5. longer \in Seq(Strings) /\ Len(longer) = m + 1 /\ longer[m + 1] = P(m + 1)
          /\ \A i \in 1 .. m : longer[i] = P(i)
      BY <3>1, <3>3, AppendProperties
    <3> HIDE DEF longer, next
    <3>6. longer = next
      BY <3>2, <3>4, <3>5, SeqEqual
    <3> QED BY <3>0, <3>6 DEF longer, next, P
  <2> HIDE DEF First
  <2> QED BY <1>7, <2>1, <2>3, <2>4
<1>8. n - 1 \in holds
  <2> HIDE DEF holds
  <2>1. n - 1 \in Nat /\ n - 1 \in 0 .. n - 1
    BY <1>1
  <2>2. \A k \in 0 .. n - 1 : k \in holds
    BY <1>6, <1>7, <2>1, UpTo
  <2> QED BY <2>1, <2>2
<1>9. (n - 1) + 1 = n
  BY <1>1
<1>10. Cut(body[n - 1]) = First((n - 1) + 1)
  BY <1>8
<1> QED BY <1>5, <1>9, <1>10 DEF n, Cut

-----------------------------------------------------------------------------
(* Forms: what is read of them. *)

\* The parameters of a form, one piece after the other.
KeptUp(up, form) ==
    /\ up[0] = <<>>
    /\ \A k \in 1 .. Len(form) :
          up[k] = IF "junk" \in DOMAIN form[k] THEN up[k - 1] ELSE Append(up[k - 1], form[k])

ReadPieces(pieces) ==
    FoldLeft(LAMBDA params, piece :
                 IF IsParam(Split(piece, EQUALS)) THEN Append(params, ReadParam(Split(piece, EQUALS))) ELSE params,
             <<>>, pieces)

LEMMA ParamsUp ==
    ASSUME NEW form \in Seq(Pieces)
    PROVE  \E up \in [0 .. Len(form) -> Seq(Pieces)] : KeptUp(up, form) /\ ParamsOf(form) = up[Len(form)]
<1> DEFINE V == Seq(Pieces)
           n == Len(form)
           base == <<>>
           Op(params, p) == IF "junk" \in DOMAIN p THEN params ELSE Append(params, p)
           step == [k \in 1 .. n |-> [d \in V |-> Op(d, form[k])]]
           fold == CHOOSE iter : iter = [t \in SUBSET DOMAIN form |->
                      IF t = {} THEN base ELSE Op(iter[t \ {Max(t)}], form[Max(t)])]
           up == Upward(fold, n)
<1>1. ParamsOf(form) = fold[DOMAIN form]
  BY DEF ParamsOf, FoldLeft, MapThenFoldSet
<1>2. n \in Nat /\ DOMAIN form = 1 .. n /\ \A k \in 1 .. n : form[k] \in Pieces
  OBVIOUS
<1>3. base \in V
  OBVIOUS
<1>4. \A d \in V, k \in 1 .. n : Op(d, form[k]) \in V
  <2> SUFFICES ASSUME NEW d \in V, NEW k \in 1 .. n PROVE Append(d, form[k]) \in V
    OBVIOUS
  <2>1. form[k] \in Pieces
    BY <1>2
  <2> QED BY <2>1
<1>5. step \in [1 .. n -> [V -> V]]
  <2> HIDE DEF V, Op, n
  <2> QED BY <1>4
<1>6. \A k \in 1 .. n, d \in V : step[k][d] = Op(d, form[k])
  <2> HIDE DEF V, Op, n
  <2> QED OBVIOUS
<1>7. fold = [t \in SUBSET (1 .. n) |-> IF t = {} THEN base ELSE Op(fold[t \ {Max(t)}], form[Max(t)])]
  <2> HIDE DEF V, Op, base, step, n
  <2>1. PICK iter \in [SUBSET (1 .. n) -> V] : Folds(iter, base, step, n)
    BY <1>2, <1>3, <1>5, FoldExists
  <2>2. ASSUME NEW t \in SUBSET (1 .. n), t # {}
        PROVE  iter[t] = Op(iter[t \ {Max(t)}], form[Max(t)])
    BY <1>2, <1>6, <2>1, <2>2, MaxOfSet DEF Folds
  <2>3. iter = [t \in SUBSET (1 .. n) |-> IF t = {} THEN base ELSE Op(iter[t \ {Max(t)}], form[Max(t)])]
    BY <2>1, <2>2 DEF Folds
  <2>4. DOMAIN form = 1 .. n
    BY <1>2
  <2> QED BY <2>3, <2>4
<1>8. up \in [0 .. n -> V] /\ GoesUp(up, base, step, n)
  <2> HIDE DEF V, Op, base, step, fold, n
  <2>1. \A t \in SUBSET (1 .. n) : t # {} => Max(t) \in 1 .. n
    BY <1>2, MaxOfSet
  <2>2. FoldsWithin(fold, V, base, step, n)
    BY <1>6, <1>7, <2>1 DEF FoldsWithin
  <2> QED BY <1>2, <1>3, <1>5, <2>2, FoldUp
<1>9. up[n] = fold[DOMAIN form]
  <2> HIDE DEF V, fold, n
  <2> QED BY <1>2 DEF Upward
<1>10. up[0] = <<>> /\ \A k \in 1 .. n : up[k] = Op(up[k - 1], form[k])
  <2> HIDE DEF V, Op, step, up, n
  <2>1. \A k \in 1 .. n : up[k - 1] \in V
    BY <1>2, <1>8
  <2> QED BY <1>2, <1>6, <1>8, <2>1 DEF GoesUp
<1> HIDE DEF up, fold, step
<1>11. KeptUp(up, form)
  BY <1>10 DEF KeptUp
<1> QED BY <1>1, <1>8, <1>9, <1>11

PiecesOf(pieces, form) == pieces = [i \in 1 .. Len(form) |-> Piece(form[i])]

LEMMA ReadUp ==
    ASSUME NEW form \in Seq(Pieces), NEW pieces, PiecesOf(pieces, form)
    PROVE  \E up \in [0 .. Len(form) -> Seq(Pieces)] : KeptUp(up, form) /\ ReadPieces(pieces) = up[Len(form)]
<1> DEFINE V == Seq(Pieces)
           n == Len(form)
           base == <<>>
           Op(params, piece) ==
               IF IsParam(Split(piece, EQUALS)) THEN Append(params, ReadParam(Split(piece, EQUALS))) ELSE params
           step == [k \in 1 .. n |-> [d \in V |-> Op(d, pieces[k])]]
           fold == CHOOSE iter : iter = [t \in SUBSET DOMAIN pieces |->
                      IF t = {} THEN base ELSE Op(iter[t \ {Max(t)}], pieces[Max(t)])]
           up == Upward(fold, n)
<1>1. ReadPieces(pieces) = fold[DOMAIN pieces]
  BY DEF ReadPieces, FoldLeft, MapThenFoldSet
<1>2. n \in Nat /\ DOMAIN pieces = 1 .. n
  BY DEF PiecesOf
<1>3. base \in V
  OBVIOUS
<1>4. \A d \in V, k \in 1 .. n :
         /\ Op(d, pieces[k]) = IF "junk" \in DOMAIN form[k] THEN d ELSE Append(d, form[k])
         /\ Op(d, pieces[k]) \in V
  <2> TAKE d \in V, k \in 1 .. n
  <2>1. form[k] \in Pieces /\ pieces[k] = Piece(form[k])
    BY DEF PiecesOf
  <2>2. Append(d, form[k]) \in V
    BY <2>1
  <2>3. IsParam(Split(pieces[k], EQUALS)) <=> "junk" \notin DOMAIN form[k]
    BY <2>1, PieceRead
  <2>4. "junk" \notin DOMAIN form[k] => ReadParam(Split(pieces[k], EQUALS)) = form[k]
    BY <2>1, PieceRead
  <2> HIDE DEF V
  <2> QED BY <2>2, <2>3, <2>4
<1>5. step \in [1 .. n -> [V -> V]]
  <2> HIDE DEF V, Op, n
  <2> QED BY <1>4
<1>6. \A k \in 1 .. n, d \in V : step[k][d] = Op(d, pieces[k])
  <2> HIDE DEF V, Op, n
  <2> QED OBVIOUS
<1>7. fold = [t \in SUBSET (1 .. n) |-> IF t = {} THEN base ELSE Op(fold[t \ {Max(t)}], pieces[Max(t)])]
  <2> HIDE DEF V, Op, base, step, n
  <2>1. PICK iter \in [SUBSET (1 .. n) -> V] : Folds(iter, base, step, n)
    BY <1>2, <1>3, <1>5, FoldExists
  <2>2. ASSUME NEW t \in SUBSET (1 .. n), t # {}
        PROVE  iter[t] = Op(iter[t \ {Max(t)}], pieces[Max(t)])
    BY <1>2, <1>6, <2>1, <2>2, MaxOfSet DEF Folds
  <2>3. iter = [t \in SUBSET (1 .. n) |-> IF t = {} THEN base ELSE Op(iter[t \ {Max(t)}], pieces[Max(t)])]
    BY <2>1, <2>2 DEF Folds
  <2>4. DOMAIN pieces = 1 .. n
    BY <1>2
  <2> QED BY <2>3, <2>4
<1>8. up \in [0 .. n -> V] /\ GoesUp(up, base, step, n)
  <2> HIDE DEF V, Op, base, step, fold, n
  <2>1. \A t \in SUBSET (1 .. n) : t # {} => Max(t) \in 1 .. n
    BY <1>2, MaxOfSet
  <2>2. FoldsWithin(fold, V, base, step, n)
    BY <1>6, <1>7, <2>1 DEF FoldsWithin
  <2> QED BY <1>2, <1>3, <1>5, <2>2, FoldUp
<1>9. up[n] = fold[DOMAIN pieces]
  <2> HIDE DEF V, fold, n
  <2> QED BY <1>2 DEF Upward
<1>10. up[0] = <<>> /\ \A k \in 1 .. n : up[k] = Op(up[k - 1], pieces[k]) /\ up[k - 1] \in V
  <2> HIDE DEF V, Op, step, up, n
  <2>1. \A k \in 1 .. n : up[k - 1] \in V
    BY <1>2, <1>8
  <2> QED BY <1>2, <1>6, <1>8, <2>1 DEF GoesUp
<1> HIDE DEF up, fold, step, Op, V
<1>11. KeptUp(up, form)
  BY <1>4, <1>10 DEF KeptUp
<1> QED BY <1>1, <1>8, <1>9, <1>11 DEF V

LEMMA KeptSame ==
    ASSUME NEW form, Len(form) \in Nat, NEW f, NEW g, KeptUp(f, form), KeptUp(g, form)
    PROVE  f[Len(form)] = g[Len(form)]
<1> DEFINE n == Len(form)
           holds == {k \in 0 .. n : f[k] = g[k]}
<1>1. 0 \in holds
  BY DEF KeptUp
<1>2. ASSUME NEW k \in 0 .. n - 1, k \in holds PROVE k + 1 \in holds
  <2>1. k + 1 \in 1 .. n /\ (k + 1) - 1 = k /\ k + 1 \in 0 .. n
    OBVIOUS
  <2> QED BY <1>2, <2>1 DEF KeptUp
<1>3. n \in holds
  <2> HIDE DEF holds
  <2>1. \A k \in 0 .. n : k \in holds
    BY <1>1, <1>2, UpTo
  <2> QED BY <2>1
<1> QED BY <1>3

LEMMA PiecesRead ==
    ASSUME NEW form \in Seq(Pieces)
    PROVE  ReadPieces([i \in 1 .. Len(form) |-> Piece(form[i])]) = ParamsOf(form)
<1> DEFINE pieces == [i \in 1 .. Len(form) |-> Piece(form[i])]
<1>1. PICK f \in [0 .. Len(form) -> Seq(Pieces)] : KeptUp(f, form) /\ ReadPieces(pieces) = f[Len(form)]
  BY ReadUp DEF PiecesOf
<1>2. PICK g \in [0 .. Len(form) -> Seq(Pieces)] : KeptUp(g, form) /\ ParamsOf(form) = g[Len(form)]
  BY ParamsUp
<1>3. Len(form) \in Nat
  OBVIOUS
<1> QED BY <1>1, <1>2, <1>3, KeptSame

\* The body of a form, whatever its length, is read as the parameters in it.
LEMMA FormRead ==
    ASSUME NEW form \in Seq(Pieces), form # <<>>
    PROVE  Parse(Body(form)) = ParamsOf(form)
<1> DEFINE n == Len(form)
           pieces == [i \in 1 .. n |-> Piece(form[i])]
<1>1. n \in Nat /\ n > 0 /\ 1 \in 1 .. n /\ form[1] \in Pieces
  OBVIOUS
<1>2. Parse(Body(form)) = ReadPieces(Split(Body(form), AMPERSAND))
  BY DEF Parse, ReadPieces
<1>3. Splitted(Body(form), AMPERSAND) = pieces
  BY BodySplit
<1>4. ReadPieces(pieces) = ParamsOf(form)
  BY PiecesRead
<1>5. CASE Body(form) # <<>>
  <2>1. Split(Body(form), AMPERSAND) = pieces
    BY <1>3, <1>5 DEF Split, Splitted
  <2> QED BY <1>2, <1>4, <2>1
<1>6. CASE Body(form) = <<>>
  <2> DEFINE one == << <<>> >>
             none == <<>>
  <2>1. pieces = one /\ Len(one) = 1 /\ one[1] = <<>>
    BY <1>3, <1>6, SplitEmpty
  <2>2. n = 1 /\ Piece(form[1]) = <<>>
    <3> HIDE DEF one
    <3>1. Len(pieces) = n /\ pieces[1] = Piece(form[1])
      BY <1>1
    <3> QED BY <2>1, <3>1
  <2>3. "junk" \in DOMAIN form[1]
    <3>1. Split(<<>>, EQUALS) = <<>> /\ Len(<<>>) = 0
      BY DEF Split
    <3>2. ~IsParam(Split(<<>>, EQUALS))
      BY <3>1 DEF IsParam
    <3> QED BY <1>1, <2>2, <3>2, PieceRead
  <2>4. ParamsOf(form) = <<>>
    <3>1. PICK g \in [0 .. n -> Seq(Pieces)] : KeptUp(g, form) /\ ParamsOf(form) = g[n]
      BY ParamsUp
    <3>2. g[1] = g[0] /\ g[0] = <<>>
      BY <1>1, <2>3, <3>1 DEF KeptUp
    <3> QED BY <2>2, <3>1, <3>2
  <2>5. ReadPieces(<<>>) = <<>>
    <3>1. none \in Seq(Pieces) /\ Len(none) = 0 /\ <<>> = [i \in 1 .. Len(none) |-> Piece(none[i])]
      OBVIOUS
    <3>2. PICK g \in [0 .. Len(none) -> Seq(Pieces)] : KeptUp(g, none) /\ ReadPieces(<<>>) = g[Len(none)]
      BY <3>1, ReadUp DEF PiecesOf
    <3> QED BY <3>1, <3>2 DEF KeptUp
  <2>6. Split(Body(form), AMPERSAND) = <<>>
    BY <1>6 DEF Split
  <2> QED BY <1>2, <2>4, <2>5, <2>6
<1> QED BY <1>5, <1>6

LEMMA AllFormsRead == BodiesParsed
<1> SUFFICES ASSUME NEW form \in SeqOf(Pieces, MAX_LENGTH), form # <<>>
             PROVE  Parse(Body(form)) = ParamsOf(form)
  BY DEF BodiesParsed
<1>1. PICK n \in 0 .. MAX_LENGTH : form \in [1 .. n -> Pieces]
  BY FormAssumption DEF SeqOf
<1>2. form \in Seq(Pieces)
  BY <1>1, FormAssumption
<1> QED BY <1>2, FormRead

-----------------------------------------------------------------------------
(* Texts, and what is left of them. *)

\* What the iterator may hold of a text.
Iterators(S) == [state : {"IDLE", "END_OK", "END_FAIL"}, rest : Seq(S),
                 parts : Seq(S \cup {Bad(k) : k \in Kinds})]

\* What the search for the first label of a text finds.
LEMMA FirstLabel ==
    ASSUME NEW S, NEW text \in Seq(S)
    PROVE  /\ SelectInSeq(text, IsLabel) \in 0 .. Len(text)
           /\ SelectInSeq(text, IsLabel) = 0 => \A i \in 1 .. Len(text) : ~IsLabel(text[i])
           /\ SelectInSeq(text, IsLabel) # 0 =>
                 /\ IsLabel(text[SelectInSeq(text, IsLabel)])
                 /\ \A i \in 1 .. SelectInSeq(text, IsLabel) - 1 : ~IsLabel(text[i])
<1> DEFINE labels == {i \in 1 .. Len(text) : IsLabel(text[i])}
           first == SelectInSeq(text, IsLabel)
<1>1. first = IF labels # {} THEN Min(labels) ELSE 0
  BY DEF SelectInSeq
<1>2. Len(text) \in Nat /\ labels \subseteq Nat
  OBVIOUS
<1> HIDE DEF first
<1>3. CASE labels = {}
  <2>1. first = 0
    BY <1>1, <1>3
  <2>2. \A i \in 1 .. Len(text) : ~IsLabel(text[i])
    BY <1>3
  <2> QED BY <1>2, <2>1, <2>2 DEF first
<1>4. CASE labels # {}
  <2>1. first \in labels /\ \A i \in labels : first <= i
    <3> HIDE DEF labels
    <3> QED BY <1>1, <1>2, <1>4, MinOfSet
  <2>2. first \in 1 .. Len(text) /\ IsLabel(text[first])
    BY <2>1
  <2>3. \A i \in 1 .. first - 1 : ~IsLabel(text[i])
    BY <1>2, <2>1, <2>2
  <2>4. first # 0 /\ first \in 0 .. Len(text)
    BY <1>2, <2>2
  <2> QED BY <2>2, <2>3, <2>4 DEF first
<1> QED BY <1>3, <1>4

\* The same of what is left of a text from some place on.
LEMMA Suffix ==
    ASSUME NEW S, NEW text \in Seq(S), NEW p \in 0 .. Len(text)
    PROVE  /\ SubSeq(text, p + 1, Len(text)) \in Seq(S)
           /\ Len(SubSeq(text, p + 1, Len(text))) = Len(text) - p
           /\ \A i \in 1 .. Len(text) - p : SubSeq(text, p + 1, Len(text))[i] = text[p + i]
<1>1. Len(text) \in Nat /\ p \in Nat /\ p + 1 \in Nat
  OBVIOUS
<1>2. \A i \in p + 1 .. Len(text) : text[i] \in S
  BY <1>1
<1>3. \A i \in 1 .. Len(text) - p : (p + 1) + (i - 1) = p + i
  BY <1>1
<1> QED
  BY <1>1, <1>2, <1>3, SubSeqProperties

LEMMA SuffixOfSuffix ==
    ASSUME NEW S, NEW text \in Seq(S), NEW p \in 0 .. Len(text), NEW q \in p .. Len(text)
    PROVE  SubSeq(SubSeq(text, p + 1, Len(text)), (q - p) + 1, Len(text) - p) = SubSeq(text, q + 1, Len(text))
<1> DEFINE n == Len(text)
           rest == SubSeq(text, p + 1, n)
           left == SubSeq(rest, (q - p) + 1, n - p)
           right == SubSeq(text, q + 1, n)
<1>1. n \in Nat /\ p \in Nat /\ q \in 0 .. n /\ q - p \in 0 .. n - p /\ (n - p) - (q - p) = n - q
      /\ n - q \in Nat
  OBVIOUS
<1>2. rest \in Seq(S) /\ Len(rest) = n - p /\ \A i \in 1 .. n - p : rest[i] = text[p + i]
  BY Suffix
<1> HIDE DEF rest
<1>3. left \in Seq(S) /\ Len(left) = n - q /\ \A i \in 1 .. n - q : left[i] = rest[(q - p) + i]
  <2> DEFINE o == q - p
  <2> HIDE DEF o, left
  <2>1. o \in 0 .. Len(rest) /\ Len(rest) - o = n - q
    BY <1>1, <1>2 DEF o
  <2>2. /\ SubSeq(rest, o + 1, Len(rest)) \in Seq(S)
        /\ Len(SubSeq(rest, o + 1, Len(rest))) = Len(rest) - o
        /\ \A i \in 1 .. Len(rest) - o : SubSeq(rest, o + 1, Len(rest))[i] = rest[o + i]
    BY <1>2, <2>1, Suffix
  <2>3. left = SubSeq(rest, o + 1, Len(rest))
    BY <1>2 DEF left, o
  <2> QED BY <2>1, <2>2, <2>3 DEF o
<1>4. right \in Seq(S) /\ Len(right) = n - q /\ \A i \in 1 .. n - q : right[i] = text[q + i]
  BY <1>1, Suffix
<1> HIDE DEF left, right
<1>5. ASSUME NEW i \in 1 .. n - q PROVE left[i] = right[i]
  <2>1. (q - p) + i \in 1 .. n - p /\ p + ((q - p) + i) = q + i
    BY <1>1
  <2> QED BY <1>2, <1>3, <1>4, <2>1
<1>6. left = right
  BY <1>1, <1>3, <1>4, <1>5, SeqEqual
<1> QED BY <1>6 DEF left, right, rest

LEMMA PieceOfSuffix ==
    ASSUME NEW S, NEW text \in Seq(S), NEW p \in 0 .. Len(text), NEW q \in p + 1 .. Len(text)
    PROVE  /\ SubSeq(SubSeq(text, p + 1, Len(text)), 1, (q - p) - 1) = SubSeq(text, p + 1, q - 1)
           /\ SubSeq(text, p + 1, q - 1) \in Seq(S)
<1> DEFINE n == Len(text)
           rest == SubSeq(text, p + 1, n)
           left == SubSeq(rest, 1, (q - p) - 1)
           right == SubSeq(text, p + 1, q - 1)
           l == (q - p) - 1
<1>1. n \in Nat /\ p \in Nat /\ l \in Nat /\ l <= n - p /\ p + 1 \in Nat /\ q - 1 \in Nat /\ q \in Nat
  OBVIOUS
<1>2. rest \in Seq(S) /\ Len(rest) = n - p /\ \A i \in 1 .. n - p : rest[i] = text[p + i]
  BY Suffix
<1> HIDE DEF rest
<1>3. left \in Seq(S) /\ Len(left) = l /\ \A i \in 1 .. l : left[i] = rest[i]
  <2>1. \A i \in 1 .. l : rest[i] \in S
    BY <1>1, <1>2
  <2>2. /\ left \in Seq(S) /\ Len(left) = IF 1 <= l THEN l - 1 + 1 ELSE 0
        /\ \A i \in 1 .. l - 1 + 1 : left[i] = rest[1 + i - 1]
    BY <1>1, <2>1, SubSeqProperties
  <2>3. l - 1 + 1 = l /\ \A i \in 1 .. l : 1 + i - 1 = i
    BY <1>1
  <2> HIDE DEF left, l
  <2> QED BY <1>1, <2>2, <2>3
<1>4. right \in Seq(S) /\ Len(right) = l /\ \A i \in 1 .. l : right[i] = text[p + i]
  <2>1. \A i \in p + 1 .. q - 1 : text[i] \in S
    BY <1>1
  <2>2. (q - 1) - (p + 1) + 1 = l /\ (p + 1 <= q - 1 <=> 1 <= l) /\ \A i \in 1 .. l : (p + 1) + (i - 1) = p + i
    BY <1>1
  <2>3. /\ right \in Seq(S) /\ Len(right) = IF p + 1 <= q - 1 THEN (q - 1) - (p + 1) + 1 ELSE 0
        /\ \A i \in 1 .. (q - 1) - (p + 1) + 1 : right[i] = text[(p + 1) + i - 1]
    BY <1>1, <2>1, SubSeqProperties
  <2>4. \A i \in 1 .. l : (p + 1) + i - 1 = p + i
    BY <1>1
  <2> HIDE DEF right, l
  <2> QED BY <1>1, <2>2, <2>3, <2>4
<1> HIDE DEF left, right
<1>5. \A i \in 1 .. l : left[i] = right[i]
  BY <1>1, <1>2, <1>3, <1>4
<1>6. left = right
  BY <1>1, <1>3, <1>4, <1>5, SeqEqual
<1> QED BY <1>4, <1>6 DEF left, right, rest
-----------------------------------------------------------------------------
(* The labels of a text. *)

\* The first i tokens of a text have these labels.
Marks(text, at, i) ==
    /\ at \in Seq(Nat) /\ Len(at) <= i
    /\ \A b \in 1 .. Len(at) : at[b] \in 1 .. i /\ IsLabel(text[at[b]])
    /\ \A b, c \in 1 .. Len(at) : b < c => at[b] < at[c]
    /\ \A j \in 1 .. i : IsLabel(text[j]) => \E b \in 1 .. Len(at) : at[b] = j

LEMMA MarkedNext ==
    ASSUME NEW text, NEW i \in Nat, NEW at, Marks(text, at, i)
    PROVE  Marks(text, IF IsLabel(text[i + 1]) THEN Append(at, i + 1) ELSE at, i + 1)
<1> DEFINE m == Len(at)
           longer == Append(at, i + 1)
<1>1. at \in Seq(Nat) /\ m \in Nat /\ m <= i /\ \A b \in 1 .. m : at[b] \in Nat /\ at[b] <= i /\ at[b] >= 1
  BY DEF Marks
<1>2. CASE ~IsLabel(text[i + 1])
  <2>1. \A b \in 1 .. m : at[b] \in 1 .. i + 1
    BY <1>1
  <2>2. \A j \in 1 .. i + 1 : IsLabel(text[j]) => j \in 1 .. i
    BY <1>2
  <2> QED BY <1>1, <1>2, <2>1, <2>2 DEF Marks
<1>3. CASE IsLabel(text[i + 1])
  <2>1. /\ longer \in Seq(Nat) /\ Len(longer) = m + 1 /\ longer[m + 1] = i + 1
        /\ \A b \in 1 .. m : longer[b] = at[b]
    BY <1>1
  <2> HIDE DEF longer, m
  <2>2. \A b \in 1 .. m + 1 : b \in 1 .. m \/ b = m + 1
    BY <1>1
  <2>3. \A b \in 1 .. m + 1 : longer[b] \in 1 .. i + 1 /\ IsLabel(text[longer[b]])
    <3> SUFFICES ASSUME NEW b \in 1 .. m + 1 PROVE longer[b] \in 1 .. i + 1 /\ IsLabel(text[longer[b]])
      OBVIOUS
    <3>1. CASE b = m + 1
      BY <1>3, <2>1, <3>1
    <3>2. CASE b \in 1 .. m
      <4>1. longer[b] = at[b] /\ at[b] \in 1 .. i /\ IsLabel(text[at[b]])
        BY <2>1, <3>2 DEF Marks, m
      <4> QED BY <4>1
    <3> QED BY <2>2, <3>1, <3>2
  <2>4. \A b, c \in 1 .. m + 1 : b < c => longer[b] < longer[c]
    <3> SUFFICES ASSUME NEW b \in 1 .. m + 1, NEW c \in 1 .. m + 1, b < c PROVE longer[b] < longer[c]
      OBVIOUS
    <3>1. b \in 1 .. m
      BY <1>1
    <3>2. CASE c = m + 1
      <4>1. longer[b] = at[b] /\ at[b] \in Nat /\ at[b] <= i
        BY <1>1, <2>1, <3>1
      <4>2. longer[c] = i + 1
        BY <2>1, <3>2
      <4> QED BY <4>1, <4>2
    <3>3. CASE c \in 1 .. m
      <4>1. at[b] < at[c]
        BY <3>1, <3>3 DEF Marks, m
      <4> QED BY <2>1, <3>1, <3>3, <4>1
    <3> QED BY <2>2, <3>2, <3>3
  <2>5. \A j \in 1 .. i + 1 : IsLabel(text[j]) => \E b \in 1 .. m + 1 : longer[b] = j
    <3> SUFFICES ASSUME NEW j \in 1 .. i + 1, IsLabel(text[j]) PROVE \E b \in 1 .. m + 1 : longer[b] = j
      OBVIOUS
    <3>1. CASE j = i + 1
      BY <1>1, <2>1, <3>1
    <3>2. CASE j \in 1 .. i
      <4>1. PICK b \in 1 .. m : at[b] = j
        BY <3>2 DEF Marks, m
      <4> QED BY <1>1, <2>1, <4>1
    <3> QED BY <3>1, <3>2
  <2>6. m + 1 <= i + 1
    BY <1>1
  <2>7. Marks(text, longer, i + 1)
    BY <2>1, <2>3, <2>4, <2>5, <2>6 DEF Marks
  <2> QED BY <1>3, <2>7 DEF longer
<1> QED BY <1>2, <1>3

\* The labels of a text are its labels, in order.
LEMMA LabelsMarked ==
    ASSUME NEW S, NEW text \in Seq(S)
    PROVE  Marks(text, Labels(text), Len(text))
<1> DEFINE V == Seq(Nat)
           n == Len(text)
           places == [i \in DOMAIN text |-> i]
           base == <<>>
           Op(at, i) == IF IsLabel(text[i]) THEN Append(at, i) ELSE at
           step == [k \in 1 .. n |-> [at \in V |-> Op(at, places[k])]]
           fold == CHOOSE iter : iter = [t \in SUBSET DOMAIN places |->
                      IF t = {} THEN base ELSE Op(iter[t \ {Max(t)}], places[Max(t)])]
           up == Upward(fold, n)
<1>1. Labels(text) = fold[DOMAIN places]
  BY DEF Labels, FoldLeft, MapThenFoldSet
<1>2. n \in Nat /\ DOMAIN places = 1 .. n /\ \A k \in 1 .. n : places[k] = k
  OBVIOUS
<1>3. base \in V
  OBVIOUS
<1>4. \A at \in V, k \in 1 .. n : Op(at, places[k]) \in V
  BY <1>2
<1>5. step \in [1 .. n -> [V -> V]]
  <2> HIDE DEF V, Op, n, places
  <2> QED BY <1>4
<1>6. \A k \in 1 .. n, at \in V : step[k][at] = Op(at, places[k])
  <2> HIDE DEF V, Op, n, places
  <2> QED OBVIOUS
<1>7. fold = [t \in SUBSET (1 .. n) |-> IF t = {} THEN base ELSE Op(fold[t \ {Max(t)}], places[Max(t)])]
  <2> HIDE DEF V, Op, base, step, n
  <2>1. PICK iter \in [SUBSET (1 .. n) -> V] : Folds(iter, base, step, n)
    BY <1>2, <1>3, <1>5, FoldExists
  <2>2. ASSUME NEW t \in SUBSET (1 .. n), t # {}
        PROVE  iter[t] = Op(iter[t \ {Max(t)}], places[Max(t)])
    <3> HIDE DEF places
    <3> QED BY <1>2, <1>6, <2>1, <2>2, MaxOfSet DEF Folds
  <2>3. iter = [t \in SUBSET (1 .. n) |-> IF t = {} THEN base ELSE Op(iter[t \ {Max(t)}], places[Max(t)])]
    <3> HIDE DEF places
    <3> QED BY <2>1, <2>2 DEF Folds
  <2>4. DOMAIN places = 1 .. n
    BY <1>2
  <2> HIDE DEF places
  <2> QED BY <2>3, <2>4
<1>8. up \in [0 .. n -> V] /\ GoesUp(up, base, step, n)
  <2> HIDE DEF V, Op, base, step, fold, n, places
  <2>1. \A t \in SUBSET (1 .. n) : t # {} => Max(t) \in 1 .. n
    BY <1>2, MaxOfSet
  <2>2. FoldsWithin(fold, V, base, step, n)
    BY <1>6, <1>7, <2>1 DEF FoldsWithin
  <2> QED BY <1>2, <1>3, <1>5, <2>2, FoldUp
<1>9. up[n] = fold[DOMAIN places]
  <2> HIDE DEF V, fold, n, places
  <2> QED BY <1>2 DEF Upward
<1>10. up[0] = <<>> /\ \A k \in 1 .. n : up[k] = Op(up[k - 1], k)
  <2> HIDE DEF V, Op, step, up, n, places
  <2>1. \A k \in 1 .. n : up[k - 1] \in V
    BY <1>2, <1>8
  <2> QED BY <1>2, <1>6, <1>8, <2>1 DEF GoesUp
<1> HIDE DEF up, fold, step, n, V, places
<1> DEFINE holds == {k \in 0 .. n : Marks(text, up[k], k)}
<1>11. 0 \in holds
  <2>1. Marks(text, <<>>, 0)
    BY DEF Marks
  <2> QED BY <1>2, <1>10, <2>1
<1>12. ASSUME NEW k \in 0 .. n - 1, k \in holds PROVE k + 1 \in holds
  <2>1. k + 1 \in 1 .. n /\ k \in Nat /\ (k + 1) - 1 = k /\ k + 1 \in 0 .. n
    BY <1>2
  <2>2. up[k + 1] = IF IsLabel(text[k + 1]) THEN Append(up[k], k + 1) ELSE up[k]
    BY <1>10, <2>1
  <2>3. Marks(text, up[k + 1], k + 1)
    BY <1>12, <2>1, <2>2, MarkedNext
  <2> QED BY <2>1, <2>3
<1>13. n \in holds
  <2> HIDE DEF holds
  <2>1. \A k \in 0 .. n : k \in holds
    BY <1>2, <1>11, <1>12, UpTo
  <2> QED BY <1>2, <2>1
<1> QED BY <1>1, <1>9, <1>13 DEF n

\* Where label j is; before the first one there is none.
Mark(at, j) == IF j = 0 THEN 0 ELSE at[j]

LEMMA MarkPlace ==
    ASSUME NEW text, NEW n \in Nat, NEW at, Marks(text, at, n), NEW j \in 0 .. Len(at)
    PROVE  /\ Mark(at, j) \in 0 .. n
           /\ j < Len(at) => /\ Mark(at, j + 1) = at[j + 1] /\ at[j + 1] \in 1 .. n
                             /\ at[j + 1] > Mark(at, j) /\ IsLabel(text[at[j + 1]])
<1>1. Len(at) \in Nat /\ \A b \in 1 .. Len(at) : at[b] \in 1 .. n
  BY DEF Marks
<1>2. Mark(at, j) \in 0 .. n
  BY <1>1 DEF Mark
<1>3. ASSUME j < Len(at)
      PROVE  /\ Mark(at, j + 1) = at[j + 1] /\ at[j + 1] \in 1 .. n
             /\ at[j + 1] > Mark(at, j) /\ IsLabel(text[at[j + 1]])
  <2>1. j + 1 \in 1 .. Len(at) /\ j + 1 # 0
    BY <1>1, <1>3
  <2>2. at[j + 1] \in 1 .. n /\ IsLabel(text[at[j + 1]])
    BY <2>1 DEF Marks
  <2>3. at[j + 1] > Mark(at, j)
    <3>1. CASE j = 0
      BY <2>2, <3>1 DEF Mark
    <3>2. CASE j # 0
      <4>1. j \in 1 .. Len(at) /\ j < j + 1
        BY <3>2
      <4>2. at[j] < at[j + 1] /\ at[j] \in 1 .. n
        BY <2>1, <4>1 DEF Marks
      <4> QED BY <2>2, <3>2, <4>2 DEF Mark
    <3> QED BY <3>1, <3>2
  <2> QED BY <2>1, <2>2, <2>3 DEF Mark
<1> QED BY <1>2, <1>3

\* The search from a label on finds the next one.
LEMMA NextLabel ==
    ASSUME NEW S, NEW text \in Seq(S), NEW at, Marks(text, at, Len(text)), NEW j \in 0 .. Len(at)
    PROVE  SelectInSeq(SubSeq(text, Mark(at, j) + 1, Len(text)), IsLabel)
              = IF j < Len(at) THEN at[j + 1] - Mark(at, j) ELSE 0
<1> DEFINE n == Len(text)
           p == Mark(at, j)
           rest == SubSeq(text, p + 1, n)
           first == SelectInSeq(rest, IsLabel)
<1>1. n \in Nat /\ Len(at) \in Nat
  BY DEF Marks
<1>2. p \in 0 .. n
  BY <1>1, MarkPlace
<1> HIDE DEF p
<1>3. rest \in Seq(S) /\ Len(rest) = n - p /\ \A i \in 1 .. n - p : rest[i] = text[p + i]
  BY <1>2, Suffix
<1> HIDE DEF rest
<1>4. /\ first \in 0 .. n - p
      /\ first = 0 => \A i \in 1 .. n - p : ~IsLabel(rest[i])
      /\ first # 0 => IsLabel(rest[first]) /\ \A i \in 1 .. first - 1 : ~IsLabel(rest[i])
  BY <1>3, FirstLabel
<1> HIDE DEF first
<1>5. ASSUME j < Len(at)
      PROVE  at[j + 1] - p \in 1 .. n - p /\ IsLabel(rest[at[j + 1] - p])
  <2>1. at[j + 1] \in 1 .. n /\ at[j + 1] > p /\ IsLabel(text[at[j + 1]])
    BY <1>1, <1>5, MarkPlace DEF p
  <2>2. at[j + 1] - p \in 1 .. n - p /\ p + (at[j + 1] - p) = at[j + 1]
    BY <1>1, <1>2, <2>1
  <2> QED BY <1>3, <2>1, <2>2
<1>6. CASE first = 0
  BY <1>4, <1>5, <1>6 DEF first, rest, p
<1>7. CASE first # 0
  <2>1. first \in 1 .. n - p /\ p + first \in 1 .. n /\ IsLabel(text[p + first])
    BY <1>1, <1>2, <1>3, <1>4, <1>7
  <2>2. PICK b \in 1 .. Len(at) : at[b] = p + first
    BY <2>1 DEF Marks
  <2>3. b > j
    <3> SUFFICES ASSUME b <= j PROVE FALSE
      BY <1>1
    <3>1. j \in 1 .. Len(at) /\ j # 0 /\ p = at[j]
      BY <1>1 DEF Mark, p
    <3>2. b = j \/ at[b] < at[j]
      BY <3>1 DEF Marks
    <3> QED BY <1>2, <2>1, <2>2, <3>1, <3>2
  <2>4. j < Len(at) /\ j + 1 \in 1 .. Len(at)
    BY <1>1, <2>3
  <2>5. at[j + 1] - p \in 1 .. n - p /\ IsLabel(rest[at[j + 1] - p]) /\ at[j + 1] \in Nat
    <3>1. at[j + 1] \in 1 .. n
      BY <2>4 DEF Marks
    <3> QED BY <1>5, <2>4, <3>1
  <2>6. j + 1 = b \/ at[j + 1] < at[b]
    <3>1. j + 1 = b \/ j + 1 < b
      BY <2>3
    <3> QED BY <2>4, <3>1 DEF Marks
  <2>7. ~ (at[j + 1] - p \in 1 .. first - 1)
    BY <1>4, <1>7, <2>5
  <2>8. at[j + 1] - p = first
    <3>1. PICK v \in Int : v = at[j + 1] - p
      BY <2>5
    <3>2. at[j + 1] <= at[b]
      <4>1. at[b] \in Nat
        BY <1>1, <2>1, <2>2
      <4>2. CASE j + 1 = b
        BY <2>5, <4>2
      <4>3. CASE at[j + 1] < at[b]
        BY <2>5, <4>1, <4>3
      <4> QED BY <2>6, <4>2, <4>3
    <3>3. v <= first
      BY <1>1, <1>2, <2>1, <2>2, <2>5, <3>1, <3>2
    <3>4. v \in 1 .. n - p /\ ~ (v \in 1 .. first - 1)
      BY <2>5, <2>7, <3>1
    <3> QED BY <1>1, <1>2, <2>1, <3>1, <3>3, <3>4
  <2> QED BY <2>4, <2>8 DEF first, rest, p
<1> QED BY <1>6, <1>7

\* What is left of a text is made of what the text is made of.
LEMMA PieceTyped ==
    ASSUME NEW S, NEW text \in Seq(S), NEW first \in Nat \ {0}, NEW last \in Nat, last <= Len(text)
    PROVE  SubSeq(text, first, last) \in Seq(S)
<1>1. \A i \in first .. last : text[i] \in S
  BY ElementOfSeq
<1> QED
  BY <1>1, SubSeqProperties

\* A call of the iterator leaves a rest and parts of what there was.
LEMMA IterNextTyped ==
    ASSUME NEW S, NEW it \in Iterators(S)
    PROVE  IterNext(it) \in Iterators(S)
<1> DEFINE P == S \cup {Bad(k) : k \in Kinds}
           V == [state : {"IDLE", "END_OK", "END_FAIL"}, rest : Seq(S), parts : Seq(P)]
           opening == SelectInSeq(it.rest, IsLabel)
           label == it.rest[opening]
           rest == SubSeq(it.rest, opening + 1, Len(it.rest))
           closing == SelectInSeq(rest, IsLabel)
           left == SubSeq(rest, closing + 1, Len(rest))
           data == SubSeq(rest, 1, closing - 1)
           opens == /\ label \in {Begin(k) : k \in Kinds}
                    /\ closing # 0 /\ rest[closing] = End(label.kind)
<1>1. it.rest \in Seq(S) /\ it.parts \in Seq(P)
  BY DEF Iterators
<1>2. opening \in Nat /\ opening + 1 \in Nat \ {0} /\ Len(it.rest) \in Nat
  <2> DEFINE r == it.rest
  <2>1. r \in Seq(S)
    BY <1>1
  <2> HIDE DEF r
  <2>2. SelectInSeq(r, IsLabel) \in 0 .. Len(r)
    BY <2>1, FirstLabel
  <2>3. Len(r) \in Nat
    BY <2>1
  <2> QED BY <2>2, <2>3 DEF r
<1>3. rest \in Seq(S)
  BY <1>1, <1>2, PieceTyped
<1>4. closing \in 0 .. Len(rest)
  BY <1>3, FirstLabel
<1>5. Len(rest) \in Nat /\ closing \in Nat /\ closing + 1 \in Nat \ {0}
  <2> HIDE DEF rest, closing
  <2>1. Len(rest) \in Nat
    BY <1>3
  <2> QED BY <1>4, <2>1
<1>6. left \in Seq(S)
  <2> HIDE DEF rest, closing
  <2> QED BY <1>3, <1>5, PieceTyped
<1>7. ASSUME opens PROVE Append(it.parts, Part(label.kind, data)) \in Seq(P)
  <2>1. label.kind \in Kinds
    BY <1>7 DEF Begin
  <2>2. closing - 1 \in Nat /\ closing - 1 <= Len(rest)
    <3> HIDE DEF closing, rest
    <3> QED BY <1>4, <1>5, <1>7
  <2>3. data \in Seq(S)
    <3> HIDE DEF closing, rest
    <3> QED BY <1>3, <2>2, PieceTyped
  <2> HIDE DEF data, label
  <2>4. Part(label.kind, data) \in P
    BY <2>1, <2>3 DEF Part
  <2> HIDE DEF P
  <2> QED BY <1>1, <2>4
<1>8. IterNext(it) = CASE it.state # "IDLE" -> it
         [] it.state = "IDLE" /\ opening = 0 -> [it EXCEPT !.state = "END_OK"]
         [] it.state = "IDLE" /\ opening # 0 ->
              IF opens
              THEN [it EXCEPT !.rest = left, !.parts = Append(@, Part(label.kind, data))]
              ELSE [it EXCEPT !.state = "END_FAIL"]
  BY DEF IterNext
<1>9. it \in V
  BY DEF Iterators
<1> HIDE DEF P, opening, label, rest, closing, left, data, opens
<1>10. ASSUME opens
       PROVE  [it EXCEPT !.rest = left, !.parts = Append(@, Part(label.kind, data))] \in V
  BY <1>6, <1>7, <1>9, <1>10
<1> QED
  BY <1>8, <1>9, <1>10 DEF P, Iterators

\* The calls of the iterator, one after the other.
LEMMA IteratedUp ==
    ASSUME NEW S, NEW text \in Seq(S)
    PROVE  \E up \in [0 .. Len(text) + 1 -> Iterators(S)] :
              /\ up[0] = IterInit(text)
              /\ \A c \in 1 .. Len(text) + 1 : up[c] = IterNext(up[c - 1])
              /\ Iterated(text) = up[Len(text) + 1]
<1> DEFINE V == Iterators(S)
           calls == Append(text, Dash)
           n == Len(text) + 1
           base == IterInit(text)
           Op(it, call) == IterNext(it)
           step == [k \in 1 .. n |-> [it \in V |-> Op(it, calls[k])]]
           fold == CHOOSE iter : iter = [s \in SUBSET DOMAIN calls |->
                      IF s = {} THEN base ELSE Op(iter[s \ {Max(s)}], calls[Max(s)])]
           up == Upward(fold, n)
<1>1. Iterated(text) = fold[DOMAIN calls]
  BY DEF Iterated, FoldLeft, MapThenFoldSet
<1>2. n \in Nat /\ DOMAIN calls = 1 .. n
  OBVIOUS
<1>3. base \in V
  BY DEF IterInit, Iterators
<1>4. \A it \in V, k \in 1 .. n : Op(it, calls[k]) \in V
  <2> HIDE DEF calls, n
  <2> QED BY IterNextTyped
<1>5. step \in [1 .. n -> [V -> V]]
  <2> HIDE DEF V, Op, calls, n
  <2> QED BY <1>4
<1>6. \A k \in 1 .. n, it \in V : step[k][it] = Op(it, calls[k])
  <2> HIDE DEF V, Op, calls, n
  <2> QED OBVIOUS
<1>7. fold = [s \in SUBSET (1 .. n) |-> IF s = {} THEN base ELSE Op(fold[s \ {Max(s)}], calls[Max(s)])]
  <2> HIDE DEF V, Op, base, step, n
  <2>1. PICK iter \in [SUBSET (1 .. n) -> V] : Folds(iter, base, step, n)
    BY <1>2, <1>3, <1>5, FoldExists
  <2>2. ASSUME NEW s \in SUBSET (1 .. n), s # {}
        PROVE  iter[s] = Op(iter[s \ {Max(s)}], calls[Max(s)])
    <3> HIDE DEF calls
    <3> QED BY <1>2, <1>6, <2>1, <2>2, MaxOfSet DEF Folds
  <2>3. iter = [s \in SUBSET (1 .. n) |-> IF s = {} THEN base ELSE Op(iter[s \ {Max(s)}], calls[Max(s)])]
    <3> HIDE DEF calls
    <3> QED BY <2>1, <2>2 DEF Folds
  <2> HIDE DEF calls
  <2>4. DOMAIN calls = 1 .. n
    BY <1>2
  <2> QED BY <2>3, <2>4
<1>8. up \in [0 .. n -> V] /\ GoesUp(up, base, step, n)
  <2> HIDE DEF V, Op, calls, base, step, fold, n
  <2>1. \A t \in SUBSET (1 .. n) : t # {} => Max(t) \in 1 .. n
    BY <1>2, MaxOfSet
  <2>2. FoldsWithin(fold, V, base, step, n)
    BY <1>6, <1>7, <2>1 DEF FoldsWithin
  <2> QED BY <1>2, <1>3, <1>5, <2>2, FoldUp
<1>9. up[n] = fold[DOMAIN calls]
  <2> HIDE DEF V, calls, fold, n
  <2> QED BY <1>2 DEF Upward
<1>10. up[0] = base /\ \A k \in 1 .. n : up[k] = IterNext(up[k - 1])
  <2> HIDE DEF V, step, up, n, calls, base
  <2>1. \A k \in 1 .. n : up[k - 1] \in V
    BY <1>2, <1>8
  <2> QED BY <1>2, <1>6, <1>8, <2>1 DEF GoesUp
<1> HIDE DEF up, fold, step, calls, base
<1> QED BY <1>1, <1>8, <1>9, <1>10 DEF base

-----------------------------------------------------------------------------
(* The blocks of a text. *)

Good(text, at, b) == \E k \in Kinds : text[at[2 * b - 1]] = Begin(k) /\ text[at[2 * b]] = End(k)
Block(text, at, b) == Part(text[at[2 * b]].kind, SubSeq(text, at[2 * b - 1] + 1, at[2 * b] - 1))
FirstBlocks(text, at, c) == [b \in 1 .. c |-> Block(text, at, b)]

\* The labels of a text open and close h blocks.
Made(text, at, h) == Len(at) = 2 * h /\ \A b \in 1 .. h : Good(text, at, b)

\* After c calls, the iterator is behind block c, or it has come to an end.
Comes(text, at, c, it) ==
    \/ /\ it.state = "IDLE"
       /\ 2 * c <= Len(at) /\ \A b \in 1 .. c : Good(text, at, b)
       /\ it.rest = SubSeq(text, Mark(at, 2 * c) + 1, Len(text))
       /\ it.parts = FirstBlocks(text, at, c)
    \/ /\ it.state = "END_OK"
       /\ \E h \in Nat : Made(text, at, h) /\ it.parts = FirstBlocks(text, at, h)
    \/ /\ it.state = "END_FAIL"
       /\ \A h \in Nat : ~Made(text, at, h)

\* A call at the end of the text.
LEMMA CallAtEnd ==
    ASSUME NEW S, NEW text \in Seq(S), NEW at, Marks(text, at, Len(text)), NEW c \in Nat,
           NEW it \in Iterators(S), it.state = "IDLE", Comes(text, at, c, it), Len(at) = 2 * c
    PROVE  Comes(text, at, c + 1, IterNext(it))
<1>1. /\ it.rest = SubSeq(text, Mark(at, 2 * c) + 1, Len(text))
      /\ it.parts = FirstBlocks(text, at, c) /\ \A b \in 1 .. c : Good(text, at, b)
  BY DEF Comes
<1>2. SelectInSeq(it.rest, IsLabel) = 0
  <2> DEFINE j == 2 * c
  <2>1. j \in 0 .. Len(at) /\ ~(j < Len(at))
    OBVIOUS
  <2> HIDE DEF j
  <2>2. SelectInSeq(SubSeq(text, Mark(at, j) + 1, Len(text)), IsLabel) = 0
    BY <2>1, NextLabel
  <2> QED BY <1>1, <2>2 DEF j
<1>3. IterNext(it) = [it EXCEPT !.state = "END_OK"]
  BY <1>2 DEF IterNext
<1>4. IterNext(it).state = "END_OK" /\ IterNext(it).parts = it.parts
  BY <1>3 DEF Iterators
<1>5. Made(text, at, c)
  BY <1>1 DEF Made
<1> QED
  BY <1>1, <1>4, <1>5 DEF Comes

\* After c blocks, the next call finds labels 2c + 1 and 2c + 2 of the text.
Finds(text, at, c, it) ==
    LET opening == SelectInSeq(it.rest, IsLabel)
        rest == SubSeq(it.rest, opening + 1, Len(it.rest))
    IN /\ opening # 0
       /\ it.rest[opening] = text[at[2 * c + 1]]
       /\ rest = SubSeq(text, at[2 * c + 1] + 1, Len(text))
       /\ SelectInSeq(rest, IsLabel) = IF 2 * c + 2 <= Len(at) THEN at[2 * c + 2] - at[2 * c + 1] ELSE 0

\* What a call finds before the end: the next label, and the one after it if there is.
LEMMA CallFinds ==
    ASSUME NEW S, NEW text \in Seq(S), NEW at, Marks(text, at, Len(text)), NEW c \in Nat,
           NEW it \in Iterators(S), it.state = "IDLE", Comes(text, at, c, it), 2 * c + 1 <= Len(at)
    PROVE  Finds(text, at, c, it)
<1> DEFINE n == Len(text)
           j == 2 * c
           p == Mark(at, j)
           q == at[j + 1]
           whole == SubSeq(text, p + 1, n)
           opening == SelectInSeq(whole, IsLabel)
           rest == SubSeq(whole, opening + 1, Len(whole))
<1>1. n \in Nat /\ Len(at) \in Nat /\ j \in 0 .. Len(at) /\ j < Len(at) /\ j + 1 \in 0 .. Len(at)
  BY DEF Marks
<1>2. it.rest = whole
  BY DEF Comes
<1> HIDE DEF j
<1>3. p \in 0 .. n /\ q \in 1 .. n /\ q > p /\ Mark(at, j + 1) = q
  BY <1>1, MarkPlace
<1>4. opening = q - p
  BY <1>1, NextLabel
<1>5. whole \in Seq(S) /\ Len(whole) = n - p /\ \A i \in 1 .. n - p : whole[i] = text[p + i]
  BY <1>3, Suffix
<1> HIDE DEF p, q, whole, opening
<1>6. opening # 0 /\ opening \in 1 .. n - p /\ p + opening = q
  BY <1>1, <1>3, <1>4
<1>7. whole[opening] = text[q]
  BY <1>5, <1>6
<1>8. rest = SubSeq(text, q + 1, n)
  <2>1. q \in p .. n
    BY <1>1, <1>3
  <2>2. SubSeq(SubSeq(text, p + 1, Len(text)), (q - p) + 1, Len(text) - p) = SubSeq(text, q + 1, Len(text))
    BY <1>3, <2>1, SuffixOfSuffix
  <2> QED BY <1>4, <1>5, <2>2 DEF whole
<1> HIDE DEF rest
<1>9. SelectInSeq(rest, IsLabel) = IF j + 1 < Len(at) THEN at[(j + 1) + 1] - q ELSE 0
  <2> DEFINE l == j + 1
  <2>1. l \in 0 .. Len(at)
    BY <1>1
  <2> HIDE DEF l, n
  <2>2. SelectInSeq(SubSeq(text, Mark(at, l) + 1, Len(text)), IsLabel)
           = IF l < Len(at) THEN at[l + 1] - Mark(at, l) ELSE 0
    BY <2>1, NextLabel
  <2> QED BY <1>3, <1>8, <2>2 DEF l, n
<1>10. (j + 1) + 1 = 2 * c + 2 /\ j + 1 = 2 * c + 1 /\ (j + 1 < Len(at) <=> 2 * c + 2 <= Len(at))
  BY <1>1 DEF j
<1>11. q = at[2 * c + 1]
  BY <1>10 DEF q
<1>12. SelectInSeq(rest, IsLabel) = IF 2 * c + 2 <= Len(at) THEN at[2 * c + 2] - at[2 * c + 1] ELSE 0
  BY <1>9, <1>10, <1>11
<1> QED
  BY <1>2, <1>6, <1>7, <1>8, <1>11, <1>12 DEF Finds, opening, rest

\* A call that finds one label only, or two that make no block.
LEMMA CallFails ==
    ASSUME NEW S, NEW text \in Seq(S), NEW at, Marks(text, at, Len(text)), NEW c \in Nat,
           NEW it \in Iterators(S), it.state = "IDLE", Comes(text, at, c, it), 2 * c + 1 <= Len(at),
           2 * c + 2 <= Len(at) => ~Good(text, at, c + 1)
    PROVE  Comes(text, at, c + 1, IterNext(it))
<1> DEFINE opening == SelectInSeq(it.rest, IsLabel)
           label == it.rest[opening]
           rest == SubSeq(it.rest, opening + 1, Len(it.rest))
           closing == SelectInSeq(rest, IsLabel)
           opens == /\ label \in {Begin(k) : k \in Kinds}
                    /\ closing # 0 /\ rest[closing] = End(label.kind)
<1>1. /\ opening # 0 /\ label = text[at[2 * c + 1]]
      /\ rest = SubSeq(text, at[2 * c + 1] + 1, Len(text))
      /\ closing = IF 2 * c + 2 <= Len(at) THEN at[2 * c + 2] - at[2 * c + 1] ELSE 0
  <2>1. Finds(text, at, c, it)
    BY CallFinds
  <2> QED BY <2>1 DEF Finds
<1>2. IterNext(it) = IF opens
         THEN [it EXCEPT !.rest = SubSeq(rest, closing + 1, Len(rest)),
                         !.parts = Append(@, Part(label.kind, SubSeq(rest, 1, closing - 1)))]
         ELSE [it EXCEPT !.state = "END_FAIL"]
  BY <1>1 DEF IterNext
<1> HIDE DEF opening, label, rest, closing
<1>3. Len(at) \in Nat /\ Len(text) \in Nat
  BY DEF Marks
<1>4. ~opens
  <2> SUFFICES ASSUME opens PROVE FALSE
    OBVIOUS
  <2>1. 2 * c + 2 <= Len(at)
    BY <1>1
  <2>2. PICK k \in Kinds : label = Begin(k)
    OBVIOUS
  <2>3. label.kind = k
    BY <2>2 DEF Begin
  <2>4. rest[closing] = text[at[2 * c + 2]]
    <3> DEFINE p == at[2 * c + 1]
               q == at[2 * c + 2]
    <3>1. p \in 1 .. Len(text) /\ q \in 1 .. Len(text) /\ p < q
      <4>1. 2 * c + 1 \in 1 .. Len(at) /\ 2 * c + 2 \in 1 .. Len(at) /\ 2 * c + 1 < 2 * c + 2
        BY <1>3, <2>1
      <4> QED BY <4>1 DEF Marks
    <3>2. rest = SubSeq(text, p + 1, Len(text)) /\ closing = q - p
      BY <1>1, <2>1
    <3> HIDE DEF p, q
    <3>3. p \in 0 .. Len(text) /\ q - p \in 1 .. Len(text) - p /\ p + (q - p) = q
      BY <1>3, <3>1
    <3>4. \A i \in 1 .. Len(text) - p : rest[i] = text[p + i]
      BY <3>2, <3>3, Suffix
    <3>5. rest[q - p] = text[q]
      BY <3>3, <3>4
    <3> QED BY <3>2, <3>5 DEF q
  <2>5. text[at[2 * (c + 1) - 1]] = Begin(k) /\ text[at[2 * (c + 1)]] = End(k)
    <3>1. 2 * (c + 1) - 1 = 2 * c + 1 /\ 2 * (c + 1) = 2 * c + 2
      OBVIOUS
    <3> QED BY <1>1, <2>2, <2>3, <2>4, <3>1
  <2> QED BY <2>1, <2>5 DEF Good
<1>5. IterNext(it).state = "END_FAIL"
  <2> HIDE DEF opens
  <2> QED BY <1>2, <1>4 DEF Iterators
<1>6. ASSUME NEW h \in Nat, Made(text, at, h) PROVE FALSE
  <2>1. Len(at) = 2 * h /\ \A b \in 1 .. h : Good(text, at, b)
    BY <1>6 DEF Made
  <2>2. 2 * c + 2 <= Len(at) /\ c + 1 \in 1 .. h
    BY <2>1
  <2> QED BY <2>1, <2>2
<1> QED
  BY <1>5, <1>6 DEF Comes

\* A call that finds a block.
LEMMA CallFindsBlock ==
    ASSUME NEW S, NEW text \in Seq(S), NEW at, Marks(text, at, Len(text)), NEW c \in Nat,
           NEW it \in Iterators(S), it.state = "IDLE", Comes(text, at, c, it), 2 * c + 2 <= Len(at),
           Good(text, at, c + 1)
    PROVE  Comes(text, at, c + 1, IterNext(it))
<1> DEFINE opening == SelectInSeq(it.rest, IsLabel)
           label == it.rest[opening]
           rest == SubSeq(it.rest, opening + 1, Len(it.rest))
           closing == SelectInSeq(rest, IsLabel)
           left == SubSeq(rest, closing + 1, Len(rest))
           part == Part(label.kind, SubSeq(rest, 1, closing - 1))
           opens == /\ label \in {Begin(k) : k \in Kinds}
                    /\ closing # 0 /\ rest[closing] = End(label.kind)
           p == at[2 * c + 1]
           q == at[2 * c + 2]
<1>1. /\ opening # 0 /\ label = text[p]
      /\ rest = SubSeq(text, p + 1, Len(text))
      /\ closing = q - p
  <2>1. 2 * c + 1 <= Len(at)
    BY DEF Marks
  <2>2. Finds(text, at, c, it)
    BY <2>1, CallFinds
  <2> QED BY <2>2 DEF Finds
<1>2. IterNext(it) = IF opens THEN [it EXCEPT !.rest = left, !.parts = Append(@, part)]
                     ELSE [it EXCEPT !.state = "END_FAIL"]
  BY <1>1 DEF IterNext
<1>3. Len(at) \in Nat /\ Len(text) \in Nat
  BY DEF Marks
<1>4. p \in 1 .. Len(text) /\ q \in 1 .. Len(text) /\ p < q
  <2>1. 2 * c + 1 \in 1 .. Len(at) /\ 2 * c + 2 \in 1 .. Len(at) /\ 2 * c + 1 < 2 * c + 2
    BY <1>3
  <2> QED BY <2>1 DEF Marks
<1>5. 2 * (c + 1) - 1 = 2 * c + 1 /\ 2 * (c + 1) = 2 * c + 2
  OBVIOUS
<1>6. PICK k \in Kinds : text[p] = Begin(k) /\ text[q] = End(k)
  BY <1>5 DEF Good
<1> HIDE DEF opening, label, rest, closing, left, part
<1>7. Block(text, at, c + 1) = Part(text[q].kind, SubSeq(text, p + 1, q - 1))
  BY <1>5 DEF Block
<1> HIDE DEF p, q
<1>8. p \in 0 .. Len(text) /\ q \in p .. Len(text) /\ q \in p + 1 .. Len(text)
      /\ q - p \in 1 .. Len(text) - p /\ p + (q - p) = q
  BY <1>3, <1>4
<1>9. /\ Len(rest) = Len(text) - p
      /\ \A i \in 1 .. Len(text) - p : rest[i] = text[p + i]
  BY <1>1, <1>8, Suffix
<1>10. opens
  <2>1. rest[closing] = text[q]
    BY <1>1, <1>8, <1>9
  <2>2. label.kind = k /\ label = Begin(k)
    BY <1>1, <1>6 DEF Begin
  <2> QED BY <1>1, <1>6, <1>8, <2>1, <2>2
<1>11. left = SubSeq(text, q + 1, Len(text))
  <2>1. SubSeq(SubSeq(text, p + 1, Len(text)), (q - p) + 1, Len(text) - p) = SubSeq(text, q + 1, Len(text))
    BY <1>8, SuffixOfSuffix
  <2> QED BY <1>1, <1>9, <2>1 DEF left
<1>12. part = Block(text, at, c + 1)
  <2>1. label.kind = k /\ text[q].kind = k
    BY <1>1, <1>6 DEF Begin, End
  <2>2. SubSeq(SubSeq(text, p + 1, Len(text)), 1, (q - p) - 1) = SubSeq(text, p + 1, q - 1)
    BY <1>8, PieceOfSuffix
  <2> QED BY <1>1, <1>7, <2>1, <2>2 DEF part
<1>13. IterNext(it).state = "IDLE" /\ IterNext(it).rest = left /\ IterNext(it).parts = Append(it.parts, part)
  <2> HIDE DEF opens
  <2> QED BY <1>2, <1>10 DEF Iterators
<1>14. Append(it.parts, part) = FirstBlocks(text, at, c + 1)
  <2> DEFINE F(b) == Block(text, at, b)
  <2>1. it.parts = [b \in 1 .. c |-> F(b)]
    BY DEF Comes, FirstBlocks
  <2>2. FirstBlocks(text, at, c + 1) = [b \in 1 .. c + 1 |-> F(b)]
    BY DEF FirstBlocks
  <2> HIDE DEF F
  <2>3. Append([b \in 1 .. c |-> F(b)], F(c + 1)) = [b \in 1 .. c + 1 |-> F(b)]
    OBVIOUS
  <2> QED BY <1>12, <2>1, <2>2, <2>3 DEF F
<1>15. Mark(at, 2 * (c + 1)) = q
  BY <1>5 DEF Mark, q
<1>16. \A b \in 1 .. c + 1 : Good(text, at, b)
  <2>1. \A b \in 1 .. c : Good(text, at, b)
    BY DEF Comes
  <2>2. \A b \in 1 .. c + 1 : b \in 1 .. c \/ b = c + 1
    OBVIOUS
  <2> QED BY <2>1, <2>2
<1> QED
  BY <1>5, <1>11, <1>13, <1>14, <1>15, <1>16 DEF Comes

\* Every call.
LEMMA CallComes ==
    ASSUME NEW S, NEW text \in Seq(S), NEW at, Marks(text, at, Len(text)), NEW c \in Nat,
           NEW it \in Iterators(S), Comes(text, at, c, it)
    PROVE  Comes(text, at, c + 1, IterNext(it))
<1>1. CASE it.state # "IDLE"
  <2>1. IterNext(it) = it
    BY <1>1 DEF IterNext
  <2> QED BY <1>1, <2>1 DEF Comes
<1>2. CASE it.state = "IDLE"
  <2>1. Len(at) \in Nat /\ 2 * c <= Len(at)
    BY <1>2 DEF Comes, Marks
  <2>2. CASE Len(at) = 2 * c
    BY <1>2, <2>2, CallAtEnd
  <2>3. CASE 2 * c + 2 <= Len(at) /\ Good(text, at, c + 1)
    BY <1>2, <2>3, CallFindsBlock
  <2>4. CASE 2 * c + 1 <= Len(at) /\ (2 * c + 2 <= Len(at) => ~Good(text, at, c + 1))
    BY <1>2, <2>4, CallFails
  <2> QED BY <2>1, <2>2, <2>3, <2>4
<1> QED
  BY <1>1, <1>2

\* The iterator finds the blocks of every well formed text, of any length, and
\* refuses the others.
LEMMA AllTextsIterated ==
    ASSUME NEW S, NEW text \in Seq(S)
    PROVE  /\ Iterated(text).state = (IF WellFormed(text) THEN "END_OK" ELSE "END_FAIL")
           /\ Iterated(text).state = "END_OK" => Iterated(text).parts = Blocks(text)
<1> DEFINE at == Labels(text)
           n == Len(text)
           m == Len(at)
<1>1. Marks(text, at, n)
  BY LabelsMarked
<1>2. n \in Nat /\ m \in Nat /\ m <= n
  BY <1>1 DEF Marks
<1>3. PICK up \in [0 .. n + 1 -> Iterators(S)] :
         /\ up[0] = IterInit(text)
         /\ \A c \in 1 .. n + 1 : up[c] = IterNext(up[c - 1])
         /\ Iterated(text) = up[n + 1]
  BY IteratedUp
<1> HIDE DEF at, n
<1> DEFINE holds == {c \in 0 .. n + 1 : Comes(text, at, c, up[c])}
<1>4. 0 \in holds
  <2>1. up[0].state = "IDLE" /\ up[0].rest = text /\ up[0].parts = <<>>
    BY <1>3 DEF IterInit
  <2>2. SubSeq(text, 1, Len(text)) = text
    OBVIOUS
  <2>3. FirstBlocks(text, at, 0) = <<>>
    BY DEF FirstBlocks
  <2>4. Mark(at, 2 * 0) + 1 = 1 /\ 2 * 0 <= m /\ 0 \in 0 .. n + 1
    BY <1>2 DEF Mark
  <2>5. Comes(text, at, 0, up[0])
    BY <2>1, <2>2, <2>3, <2>4 DEF Comes
  <2> QED BY <2>4, <2>5
<1>5. ASSUME NEW c \in 0 .. (n + 1) - 1, c \in holds PROVE c + 1 \in holds
  <2>1. c + 1 \in 1 .. n + 1 /\ c \in Nat /\ (c + 1) - 1 = c /\ c + 1 \in 0 .. n + 1 /\ c \in 0 .. n + 1
    BY <1>2
  <2>2. up[c + 1] = IterNext(up[c]) /\ up[c] \in Iterators(S)
    BY <1>3, <2>1
  <2>3. Comes(text, at, c + 1, up[c + 1])
    BY <1>1, <1>5, <2>1, <2>2, CallComes DEF n
  <2> QED BY <2>1, <2>3
<1>6. Comes(text, at, n + 1, up[n + 1])
  <2> HIDE DEF holds
  <2>1. n + 1 \in Nat /\ n + 1 \in 0 .. n + 1
    BY <1>2
  <2>2. \A c \in 0 .. n + 1 : c \in holds
    BY <1>4, <1>5, <2>1, UpTo
  <2>3. n + 1 \in holds
    BY <2>1, <2>2
  <2> QED BY <2>3 DEF holds
<1>7. ~(2 * (n + 1) <= m)
  BY <1>2
<1>8. WellFormed(text) <=> \E h \in Nat : Made(text, at, h)
  <2>1. WellFormed(text) <=> m % 2 = 0 /\ \A b \in 1 .. m \div 2 : Good(text, at, b)
    BY DEF WellFormed, Good, at
  <2>2. ASSUME m % 2 = 0 PROVE m \div 2 \in Nat /\ m = 2 * (m \div 2)
    BY <1>2, <2>2
  <2>3. ASSUME NEW h \in Nat, m = 2 * h PROVE m % 2 = 0 /\ m \div 2 = h
    BY <2>3
  <2> QED BY <2>1, <2>2, <2>3 DEF Made
<1>9. ASSUME NEW h \in Nat, Made(text, at, h) PROVE Blocks(text) = FirstBlocks(text, at, h)
  <2>1. m \div 2 = h
    BY <1>9 DEF Made
  <2>2. Blocks(text) = [b \in 1 .. m \div 2 |-> Block(text, at, b)]
    BY DEF Blocks, Block, at
  <2> QED BY <2>1, <2>2 DEF FirstBlocks
<1> DEFINE it == up[n + 1]
<1> HIDE DEF m, it
<1>10. \/ it.state = "END_OK" /\ \E h \in Nat : Made(text, at, h) /\ it.parts = FirstBlocks(text, at, h)
       \/ it.state = "END_FAIL" /\ \A h \in Nat : ~Made(text, at, h)
  BY <1>6, <1>7 DEF Comes, it, m
<1>11. Iterated(text) = it
  BY <1>3 DEF it
<1> QED
  BY <1>8, <1>9, <1>10, <1>11

LEMMA AllTexts == TextsIterated
<1> SUFFICES ASSUME NEW text \in Texts
             PROVE  /\ Iterated(text).state = (IF WellFormed(text) THEN "END_OK" ELSE "END_FAIL")
                    /\ Iterated(text).state = "END_OK" => Iterated(text).parts = Blocks(text)
  BY DEF TextsIterated
<1>1. text \in Seq(Range(text))
  BY CertificatesAssumption
<1> QED
  BY <1>1, AllTextsIterated

-----------------------------------------------------------------------------
(* Certificates and keys: what is accepted of a bundle. *)

\* Whether a part is taken behind those found, and what is found after each part.
Room(found, part, kind) == part.kind = kind /\ Len(found) < MAX_PART

Picks(up, bundle, kind) ==
    /\ up[0] = <<>>
    /\ \A k \in 1 .. Len(bundle) :
          up[k] = IF Room(up[k - 1], bundle[k], kind) THEN Append(up[k - 1], bundle[k]) ELSE up[k - 1]
    /\ Found(bundle, kind) = up[Len(bundle)]

\* The search for the parts of a kind, part by part.
LEMMA FoundUp ==
    ASSUME NEW P, NEW bundle \in Seq(P), NEW kind
    PROVE  \E up \in [0 .. Len(bundle) -> Seq(P)] : Picks(up, bundle, kind)
<1> DEFINE V == Seq(P)
           n == Len(bundle)
           base == <<>>
           Op(found, part) == IF part.kind = kind /\ Len(found) < MAX_PART THEN Append(found, part) ELSE found
           step == [k \in 1 .. n |-> [found \in V |-> Op(found, bundle[k])]]
           fold == CHOOSE iter : iter = [s \in SUBSET DOMAIN bundle |->
                      IF s = {} THEN base ELSE Op(iter[s \ {Max(s)}], bundle[Max(s)])]
           up == Upward(fold, n)
<1>1. Found(bundle, kind) = fold[DOMAIN bundle]
  BY DEF Found, FoldLeft, MapThenFoldSet
<1>2. n \in Nat /\ DOMAIN bundle = 1 .. n
  OBVIOUS
<1>3. base \in V
  OBVIOUS
<1>4. \A found \in V, k \in 1 .. n : Op(found, bundle[k]) \in V
  <2> SUFFICES ASSUME NEW found \in V, NEW k \in 1 .. n PROVE Append(found, bundle[k]) \in V
    OBVIOUS
  <2>1. bundle[k] \in P
    OBVIOUS
  <2> QED BY <2>1
<1>5. step \in [1 .. n -> [V -> V]]
  <2> HIDE DEF V, Op, n
  <2> QED BY <1>4
<1>6. \A k \in 1 .. n, found \in V : step[k][found] = Op(found, bundle[k])
  <2> HIDE DEF V, Op, n
  <2> QED OBVIOUS
<1>7. fold = [s \in SUBSET (1 .. n) |-> IF s = {} THEN base ELSE Op(fold[s \ {Max(s)}], bundle[Max(s)])]
  <2> HIDE DEF V, Op, base, step, n
  <2>1. PICK iter \in [SUBSET (1 .. n) -> V] : Folds(iter, base, step, n)
    BY <1>2, <1>3, <1>5, FoldExists
  <2>2. ASSUME NEW s \in SUBSET (1 .. n), s # {}
        PROVE  iter[s] = Op(iter[s \ {Max(s)}], bundle[Max(s)])
    BY <1>2, <1>6, <2>1, <2>2, MaxOfSet DEF Folds
  <2>3. iter = [s \in SUBSET (1 .. n) |-> IF s = {} THEN base ELSE Op(iter[s \ {Max(s)}], bundle[Max(s)])]
    BY <2>1, <2>2 DEF Folds
  <2>4. DOMAIN bundle = 1 .. n
    BY <1>2
  <2> QED BY <2>3, <2>4
<1>8. up \in [0 .. n -> V] /\ GoesUp(up, base, step, n)
  <2> HIDE DEF V, Op, base, step, fold, n
  <2>1. \A t \in SUBSET (1 .. n) : t # {} => Max(t) \in 1 .. n
    BY <1>2, MaxOfSet
  <2>2. FoldsWithin(fold, V, base, step, n)
    BY <1>6, <1>7, <2>1 DEF FoldsWithin
  <2> QED BY <1>2, <1>3, <1>5, <2>2, FoldUp
<1>9. n \in 0 .. n /\ up[n] = fold[DOMAIN bundle]
  <2> HIDE DEF V, fold, n
  <2> QED BY <1>2 DEF Upward
<1>10. up[0] = <<>> /\ \A k \in 1 .. n : up[k] = Op(up[k - 1], bundle[k])
  <2> HIDE DEF V, Op, step, up, n
  <2>1. \A k \in 1 .. n : up[k - 1] \in V
    BY <1>2, <1>8
  <2> QED BY <1>2, <1>6, <1>8, <2>1 DEF GoesUp
<1> HIDE DEF up, fold, step
<1>11. Picks(up, bundle, kind)
  BY <1>1, <1>9, <1>10 DEF Picks, Room
<1> QED BY <1>8, <1>11

LEMMA FoundTyped ==
    ASSUME NEW P, NEW bundle \in Seq(P), NEW kind
    PROVE  Found(bundle, kind) \in Seq(P)
<1>1. PICK up \in [0 .. Len(bundle) -> Seq(P)] : Found(bundle, kind) = up[Len(bundle)]
  BY FoundUp DEF Picks
<1>2. Len(bundle) \in 0 .. Len(bundle)
  OBVIOUS
<1> QED BY <1>1, <1>2

\* In a bundle of certificates and, at the end, a key.
LEMMA FoundInOrder ==
    ASSUME NEW P, NEW bundle \in Seq(P), NEW m \in Nat, m > 0, m <= MAX_PART, Len(bundle) = m + 1,
           \A i \in 1 .. m : bundle[i].kind = "cert", bundle[m + 1].kind = "key"
    PROVE  Certs(bundle) = [i \in 1 .. m |-> bundle[i]] /\ Keys(bundle) = <<bundle[m + 1]>>
<1> DEFINE First(k) == [i \in 1 .. k |-> bundle[i]]
<1>1. MAX_PART \in Nat /\ m \in 0 .. m + 1
  BY CertificatesAssumption
<1>2. ASSUME NEW k \in 0 .. m - 1
      PROVE  k + 1 \in 1 .. m /\ k + 1 \in 1 .. Len(bundle) /\ (k + 1) - 1 = k /\ k \in Nat
  <2> HIDE DEF First
  <2>1. k \in Nat /\ k + 1 \in 1 .. m /\ (k + 1) - 1 = k
    BY SMT
  <2>2. k + 1 \in 1 .. Len(bundle)
    BY <2>1, SMT
  <2> QED BY <2>1, <2>2
<1>3. m + 1 \in 1 .. Len(bundle) /\ (m + 1) - 1 = m
  OBVIOUS
<1>4. Certs(bundle) = First(m)
  <2> DEFINE kind == "cert"
  <2>1. Certs(bundle) = Found(bundle, kind) /\ bundle[m + 1].kind # kind /\ \A i \in 1 .. m : bundle[i].kind = kind
    BY DEF Certs
  <2> HIDE DEF kind
  <2>0. PICK up \in [0 .. Len(bundle) -> Seq(P)] : Picks(up, bundle, kind)
    BY FoundUp
  <2>2. /\ up[0] = <<>>
        /\ \A k \in 1 .. Len(bundle) :
              up[k] = IF Room(up[k - 1], bundle[k], kind) THEN Append(up[k - 1], bundle[k]) ELSE up[k - 1]
        /\ Found(bundle, kind) = up[Len(bundle)]
    BY <2>0 DEF Picks
  <2> DEFINE holds == {k \in 0 .. m : up[k] = First(k)}
  <2>3. 0 \in holds
    BY <2>2
  <2>4. ASSUME NEW k \in 0 .. m - 1, k \in holds PROVE k + 1 \in holds
    <3>0. up[k] = First(k)
      BY <2>4
    <3>1. up[k + 1] = IF Room(up[k], bundle[k + 1], kind) THEN Append(up[k], bundle[k + 1]) ELSE up[k]
      BY <1>2, <2>2
    <3>2. Len(First(k)) = k /\ k < MAX_PART /\ bundle[k + 1].kind = kind
      BY <1>1, <1>2, <2>1
    <3>3. Append(First(k), bundle[k + 1]) = First(k + 1)
      BY <1>2
    <3> HIDE DEF First
    <3>4. up[k + 1] = First(k + 1)
      BY <3>0, <3>1, <3>2, <3>3 DEF Room
    <3> QED BY <1>2, <3>4
  <2>5. up[m] = First(m)
    <3> HIDE DEF holds
    <3>1. \A k \in 0 .. m : k \in holds
      BY <2>3, <2>4, UpTo
    <3>2. m \in holds
      BY <3>1
    <3> QED BY <3>2 DEF holds
  <2>6. up[m + 1] = up[m]
    <3>1. up[m + 1] = IF Room(up[m], bundle[m + 1], kind) THEN Append(up[m], bundle[m + 1]) ELSE up[m]
      BY <1>3, <2>2
    <3> QED BY <2>1, <3>1 DEF Room
  <2> QED BY <2>1, <2>2, <2>5, <2>6
<1>5. Keys(bundle) = <<bundle[m + 1]>>
  <2> DEFINE kind == "key"
  <2>1. Keys(bundle) = Found(bundle, kind) /\ bundle[m + 1].kind = kind /\ \A i \in 1 .. m : bundle[i].kind # kind
    BY DEF Keys
  <2> HIDE DEF kind
  <2>0. PICK up \in [0 .. Len(bundle) -> Seq(P)] : Picks(up, bundle, kind)
    BY FoundUp
  <2>2. /\ up[0] = <<>>
        /\ \A k \in 1 .. Len(bundle) :
              up[k] = IF Room(up[k - 1], bundle[k], kind) THEN Append(up[k - 1], bundle[k]) ELSE up[k - 1]
        /\ Found(bundle, kind) = up[Len(bundle)]
    BY <2>0 DEF Picks
  <2> DEFINE holds == {k \in 0 .. m : up[k] = <<>>}
  <2>3. 0 \in holds
    BY <2>2
  <2>4. ASSUME NEW k \in 0 .. m - 1, k \in holds PROVE k + 1 \in holds
    <3>1. up[k + 1] = IF Room(up[k], bundle[k + 1], kind) THEN Append(up[k], bundle[k + 1]) ELSE up[k]
      BY <1>2, <2>2
    <3>2. up[k + 1] = up[k] /\ up[k] = <<>>
      BY <1>2, <2>1, <2>4, <3>1 DEF Room
    <3> QED BY <1>2, <3>2
  <2>5. up[m] = <<>>
    <3> HIDE DEF holds
    <3>1. \A k \in 0 .. m : k \in holds
      BY <2>3, <2>4, UpTo
    <3>2. m \in holds
      BY <3>1
    <3> QED BY <3>2 DEF holds
  <2>6. up[m + 1] = Append(up[m], bundle[m + 1])
    <3>1. up[m + 1] = IF Room(up[m], bundle[m + 1], kind) THEN Append(up[m], bundle[m + 1]) ELSE up[m]
      BY <1>3, <2>2
    <3>2. Len(up[m]) = 0
      BY <2>5
    <3> QED BY <1>1, <2>1, <3>1, <3>2 DEF Room
  <2>7. Append(<<>>, bundle[m + 1]) = <<bundle[m + 1]>>
    OBVIOUS
  <2> QED BY <2>1, <2>2, <2>5, <2>6, <2>7
<1> QED BY <1>4, <1>5

\* A path of certificates, each signed by the next one.
Climbs(certs, path) ==
    /\ path \in Seq(1 .. Len(certs))
    /\ Len(path) > 0
    /\ \A i \in 1 .. Len(path) - 1 : certs[path[i]].by = certs[path[i + 1]].of

\* A search adds a certificate that signed the last one, or nothing.
LEMMA ClimbLinked ==
    ASSUME NEW certs, Len(certs) \in Nat, NEW name, NEW path, Climbs(certs, path), NEW from \in {1, 2}
    PROVE  /\ Climbs(certs, Climb(certs, name, path, from))
           /\ Climb(certs, name, path, from)[1] = path[1]
<1> DEFINE n == Len(certs)
           signers == {i \in from .. n : /\ i \notin Matching(certs, name) \cup Range(path)
                                         /\ certs[i].of = certs[Last(path)].by}
           next == Append(path, Min(signers))
<1>1. Climb(certs, name, path, from) = IF signers = {} THEN path ELSE next
  BY DEF Climb
<1>2. ASSUME signers # {} PROVE Climbs(certs, next) /\ next[1] = path[1]
  <2>1. signers \subseteq Nat
    OBVIOUS
  <2> DEFINE added == Min(signers)
  <2>2. added \in signers
    <3> HIDE DEF signers
    <3> QED BY <1>2, <2>1, MinOfSet
  <2>3. added \in 1 .. n /\ certs[added].of = certs[path[Len(path)]].by
    <3> HIDE DEF added
    <3> QED BY <2>2 DEF Last
  <2>4. path \in Seq(1 .. n) /\ Len(path) \in Nat \ {0}
    BY DEF Climbs
  <2> HIDE DEF added, n
  <2> DEFINE longer == Append(path, added)
  <2>5. /\ longer \in Seq(1 .. n) /\ Len(longer) = Len(path) + 1
        /\ \A i \in 1 .. Len(path) : longer[i] = path[i]
        /\ longer[Len(path) + 1] = added
    BY <2>3, <2>4, AppendProperties
  <2> HIDE DEF longer
  <2>6. ASSUME NEW i \in 1 .. Len(longer) - 1
        PROVE  certs[longer[i]].by = certs[longer[i + 1]].of
    <3>1. CASE i = Len(path)
      <4>1. i \in 1 .. Len(path)
        BY <2>4, <3>1
      <4>2. longer[i] = path[Len(path)] /\ longer[i + 1] = added
        BY <2>5, <3>1, <4>1
      <4> QED BY <2>3, <4>2
    <3>2. CASE i \in 1 .. Len(path) - 1
      <4>1. i \in 1 .. Len(path) /\ i + 1 \in 1 .. Len(path)
        BY <2>4, <3>2
      <4>2. longer[i] = path[i] /\ longer[i + 1] = path[i + 1]
        BY <2>5, <4>1
      <4> QED BY <3>2, <4>2 DEF Climbs
    <3>3. i = Len(path) \/ i \in 1 .. Len(path) - 1
      BY <2>4, <2>5
    <3> QED BY <3>1, <3>2, <3>3
  <2>7. longer[1] = path[1] /\ Len(longer) > 0
    BY <2>4, <2>5
  <2> QED BY <2>5, <2>6, <2>7 DEF Climbs, longer, n, added
<1> HIDE DEF signers
<1> QED BY <1>1, <1>2

\* The paths that go up from a certificate.
PathsFrom(certs, leaf) == {path \in Seq(1 .. Len(certs)) : Climbs(certs, path) /\ path[1] = leaf}

\* The search for the chain, round by round.
LEMMA PathUp ==
    ASSUME NEW P, NEW certs \in Seq(P), NEW name, Leaf(certs, name) \in 1 .. Len(certs)
    PROVE  \E up \in [0 .. Len(certs) -> PathsFrom(certs, Leaf(certs, name))] :
              /\ up[0] = <<Leaf(certs, name)>>
              /\ \A k \in 1 .. Len(certs) : up[k] = Climb(certs, name, up[k - 1], IF k = 1 THEN 1 ELSE 2)
              /\ Path(certs, name) = up[Len(certs)]
<1> DEFINE n == Len(certs)
           leaf == Leaf(certs, name)
           V == PathsFrom(certs, leaf)
           rounds == [round \in DOMAIN certs |-> round]
           base == <<leaf>>
           Op(path, round) == Climb(certs, name, path, IF round = 1 THEN 1 ELSE 2)
           step == [k \in 1 .. n |-> [path \in V |-> Op(path, rounds[k])]]
           fold == CHOOSE iter : iter = [s \in SUBSET DOMAIN rounds |->
                      IF s = {} THEN base ELSE Op(iter[s \ {Max(s)}], rounds[Max(s)])]
           up == Upward(fold, n)
<1>1. Path(certs, name) = fold[DOMAIN rounds]
  BY DEF Path, FoldLeft, MapThenFoldSet
<1>2. n \in Nat /\ DOMAIN rounds = 1 .. n
  OBVIOUS
<1>3. base \in V
  BY DEF Climbs, PathsFrom
<1>4. \A path \in V, k \in 1 .. n : Op(path, rounds[k]) \in V
  <2> SUFFICES ASSUME NEW path \in V, NEW k \in 1 .. n PROVE Op(path, rounds[k]) \in V
    OBVIOUS
  <2> DEFINE from == IF rounds[k] = 1 THEN 1 ELSE 2
  <2>1. from \in {1, 2} /\ Climbs(certs, path) /\ path[1] = leaf
    BY DEF PathsFrom
  <2> HIDE DEF from, n, leaf
  <2>2. /\ Climbs(certs, Climb(certs, name, path, from))
        /\ Climb(certs, name, path, from)[1] = leaf
    BY <1>2, <2>1, ClimbLinked DEF n
  <2>3. Op(path, rounds[k]) = Climb(certs, name, path, from)
    BY DEF from
  <2> HIDE DEF Op
  <2> QED BY <2>2, <2>3 DEF Climbs, PathsFrom, n
<1>5. step \in [1 .. n -> [V -> V]]
  <2> HIDE DEF V, Op, n, rounds
  <2> QED BY <1>4
<1>6. \A k \in 1 .. n, path \in V : step[k][path] = Op(path, rounds[k])
  <2> HIDE DEF V, Op, n, rounds
  <2> QED OBVIOUS
<1>7. fold = [s \in SUBSET (1 .. n) |-> IF s = {} THEN base ELSE Op(fold[s \ {Max(s)}], rounds[Max(s)])]
  <2> HIDE DEF V, Op, base, step, n
  <2>1. PICK iter \in [SUBSET (1 .. n) -> V] : Folds(iter, base, step, n)
    BY <1>2, <1>3, <1>5, FoldExists
  <2>2. ASSUME NEW s \in SUBSET (1 .. n), s # {}
        PROVE  iter[s] = Op(iter[s \ {Max(s)}], rounds[Max(s)])
    <3> HIDE DEF rounds
    <3> QED BY <1>2, <1>6, <2>1, <2>2, MaxOfSet DEF Folds
  <2>3. iter = [s \in SUBSET (1 .. n) |-> IF s = {} THEN base ELSE Op(iter[s \ {Max(s)}], rounds[Max(s)])]
    <3> HIDE DEF rounds
    <3> QED BY <2>1, <2>2 DEF Folds
  <2> HIDE DEF rounds
  <2>4. DOMAIN rounds = 1 .. n
    BY <1>2
  <2> QED BY <2>3, <2>4
<1>8. up \in [0 .. n -> V] /\ GoesUp(up, base, step, n)
  <2> HIDE DEF V, Op, base, step, fold, n, rounds
  <2>1. \A t \in SUBSET (1 .. n) : t # {} => Max(t) \in 1 .. n
    BY <1>2, MaxOfSet
  <2>2. FoldsWithin(fold, V, base, step, n)
    BY <1>6, <1>7, <2>1 DEF FoldsWithin
  <2> QED BY <1>2, <1>3, <1>5, <2>2, FoldUp
<1>9. n \in 0 .. n /\ up[n] = fold[DOMAIN rounds]
  <2> HIDE DEF V, fold, n, rounds
  <2> QED BY <1>2 DEF Upward
<1>10. \A k \in 1 .. n : rounds[k] = k
  OBVIOUS
<1>11. up[0] = base /\ \A k \in 1 .. n : up[k] = Climb(certs, name, up[k - 1], IF k = 1 THEN 1 ELSE 2)
  <2> HIDE DEF V, step, up, n, rounds, base
  <2>1. \A k \in 1 .. n : up[k - 1] \in V
    BY <1>2, <1>8
  <2> QED BY <1>2, <1>6, <1>8, <1>10, <2>1 DEF GoesUp
<1> HIDE DEF up, fold, rounds, step, base
<1> QED BY <1>1, <1>8, <1>9, <1>11 DEF base

\* The chain goes up from the certificate of the key.
LEMMA PathClimbs ==
    ASSUME NEW P, NEW certs \in Seq(P), NEW name, Leaf(certs, name) \in 1 .. Len(certs)
    PROVE  Climbs(certs, Path(certs, name)) /\ Path(certs, name)[1] = Leaf(certs, name)
<1>1. PICK up \in [0 .. Len(certs) -> PathsFrom(certs, Leaf(certs, name))] :
         Path(certs, name) = up[Len(certs)]
  BY PathUp
<1>2. Len(certs) \in 0 .. Len(certs)
  OBVIOUS
<1>3. Path(certs, name) \in PathsFrom(certs, Leaf(certs, name))
  BY <1>1, <1>2
<1> QED BY <1>3 DEF PathsFrom

-----------------------------------------------------------------------------
(* A bundle that begins with the certificate of its key. *)

\* An order of the m certificates that goes up from the first of them; no two are
\* of one name.
Upwards(certs, m, order) ==
    /\ order \in [1 .. m -> 1 .. m] /\ order[1] = 1
    /\ \A i, j \in 1 .. m : order[i] = order[j] => i = j
    /\ \A i \in 1 .. m : \E j \in 1 .. m : order[j] = i
    /\ \A i, j \in 1 .. m : certs[i].of = certs[j].of => i = j
    /\ \A i \in 1 .. m - 1 : certs[order[i]].by = certs[order[i + 1]].of

FirstOfOrder(order, k) == [i \in 1 .. k |-> order[i]]

\* A search for the next one finds it wherever it begins.
LEMMA ClimbInOrder ==
    ASSUME NEW P, NEW certs \in Seq(P), NEW m \in Nat, m > 0, Len(certs) = m, NEW order, Upwards(certs, m, order),
           NEW name, Matching(certs, name) = {1}, NEW k \in 1 .. m, NEW from \in {1, 2}
    PROVE  /\ k < m => Climb(certs, name, FirstOfOrder(order, k), from) = FirstOfOrder(order, k + 1)
           /\ k = m => Climb(certs, name, FirstOfOrder(order, k), from) = FirstOfOrder(order, k)
<1> DEFINE path == FirstOfOrder(order, k)
           signers == {i \in from .. Len(certs) :
                          /\ i \notin Matching(certs, name) \cup Range(path)
                          /\ certs[i].of = certs[Last(path)].by}
<1>1. Climb(certs, name, path, from) = IF signers = {} THEN path ELSE Append(path, Min(signers))
  BY DEF Climb
<1>2. order \in [1 .. m -> 1 .. m] /\ order[1] = 1 /\ k \in Nat /\ \A i \in 1 .. k : i \in 1 .. m
  <2>1. order \in [1 .. m -> 1 .. m] /\ order[1] = 1
    BY DEF Upwards
  <2>2. k \in Nat /\ \A i \in 1 .. k : i \in 1 .. m
    OBVIOUS
  <2> QED BY <2>1, <2>2
<1>3. Range(path) = {order[i] : i \in 1 .. k} /\ Last(path) = order[k]
  BY <1>2 DEF Range, Last, FirstOfOrder
<1>4. signers = {i \in from .. m : i # 1 /\ i \notin {order[j] : j \in 1 .. k} /\ certs[i].of = certs[order[k]].by}
  <2> HIDE DEF path
  <2> QED BY <1>3
<1> HIDE DEF signers
<1>5. CASE k = m
  <2>1. signers = {}
    <3> SUFFICES ASSUME NEW i \in signers PROVE FALSE
      OBVIOUS
    <3>1. i \in 1 .. m /\ i \notin {order[j] : j \in 1 .. k}
      BY <1>4
    <3>2. \E j \in 1 .. m : order[j] = i
      BY <3>1 DEF Upwards
    <3> QED BY <1>5, <3>1, <3>2
  <2> QED BY <1>1, <1>5, <2>1
<1>6. CASE k < m
  <2> DEFINE l == k + 1
             next == order[l]
  <2>1. l \in 1 .. m /\ k \in 1 .. m - 1 /\ l # 1
    BY <1>2, <1>6
  <2>2. certs[order[k]].by = certs[next].of
    BY <2>1 DEF Upwards
  <2> HIDE DEF l
  <2>3. next \in 1 .. m /\ next # 1
    <3>1. next \in 1 .. m
      BY <1>2, <2>1
    <3>2. next # order[1]
      <4>1. 1 \in 1 .. m
        OBVIOUS
      <4> QED BY <2>1, <4>1 DEF Upwards
    <3> QED BY <1>2, <3>1, <3>2
  <2>4. ASSUME NEW j \in 1 .. k PROVE order[j] # next
    <3>1. j \in 1 .. m /\ j # l
      BY <1>2 DEF l
    <3> QED BY <2>1, <3>1 DEF Upwards
  <2> HIDE DEF next
  <2>5. next \in signers
    <3>1. next \in from .. m
      BY <2>3
    <3> QED BY <1>4, <2>2, <2>3, <2>4, <3>1
  <2>6. \A i \in signers : i = next
    <3> SUFFICES ASSUME NEW i \in signers PROVE i = next
      OBVIOUS
    <3>1. i \in 1 .. m /\ certs[i].of = certs[next].of
      BY <1>4, <2>2
    <3> QED BY <2>3, <3>1 DEF Upwards
  <2>7. signers \subseteq Nat /\ signers # {}
    BY <1>4, <2>5
  <2>8. Min(signers) = next
    BY <2>6, <2>7, MinOfSet
  <2>9. Append(path, next) = FirstOfOrder(order, k + 1)
    <3> DEFINE F(i) == order[i]
    <3>1. path = [i \in 1 .. k |-> F(i)] /\ FirstOfOrder(order, k + 1) = [i \in 1 .. k + 1 |-> F(i)] /\ next = F(k + 1)
      BY DEF FirstOfOrder, next, l
    <3> HIDE DEF F, path
    <3>2. Append([i \in 1 .. k |-> F(i)], F(k + 1)) = [i \in 1 .. k + 1 |-> F(i)]
      BY <1>2
    <3> QED BY <3>1, <3>2
  <2>10. Climb(certs, name, path, from) = FirstOfOrder(order, k + 1)
    <3> HIDE DEF path
    <3> QED BY <1>1, <2>7, <2>8, <2>9
  <2> QED BY <1>6, <2>10
<1> QED BY <1>5, <1>6, <1>2

LEMMA PathInOrder ==
    ASSUME NEW P, NEW certs \in Seq(P), NEW m \in Nat, m > 0, Len(certs) = m, NEW order, Upwards(certs, m, order),
           NEW name, name = certs[1].of
    PROVE  Matching(certs, name) = {1} /\ Path(certs, name) = FirstOfOrder(order, m)
<1>1. Matching(certs, name) = {1}
  <2>1. DOMAIN certs = 1 .. m /\ 1 \in 1 .. m
    OBVIOUS
  <2>2. \A i \in 1 .. m : certs[i].of = name => i = 1
    BY <2>1 DEF Upwards
  <2> QED BY <2>1, <2>2 DEF Matching
<1>2. Leaf(certs, name) = 1
  BY <1>1 DEF Leaf
<1>3. PICK up \in [0 .. Len(certs) -> PathsFrom(certs, Leaf(certs, name))] :
         /\ up[0] = <<Leaf(certs, name)>>
         /\ \A k \in 1 .. Len(certs) : up[k] = Climb(certs, name, up[k - 1], IF k = 1 THEN 1 ELSE 2)
         /\ Path(certs, name) = up[Len(certs)]
  <2>1. Leaf(certs, name) \in 1 .. Len(certs)
    BY <1>2
  <2> QED BY <2>1, PathUp
<1> DEFINE Found1(k) == FirstOfOrder(order, IF k + 1 <= m THEN k + 1 ELSE m)
           holds == {k \in 0 .. m : up[k] = Found1(k)}
<1>4. 0 \in holds
  <2>1. FirstOfOrder(order, 1) = <<1>>
    BY DEF FirstOfOrder, Upwards
  <2> QED BY <1>2, <1>3, <2>1
<1>5. ASSUME NEW k \in 0 .. m - 1, k \in holds PROVE k + 1 \in holds
  <2> DEFINE l == k + 1
             from == IF l = 1 THEN 1 ELSE 2
  <2>1. l \in 1 .. m /\ l \in 1 .. Len(certs) /\ l - 1 = k /\ from \in {1, 2} /\ l + 1 = k + 2
    OBVIOUS
  <2> HIDE DEF from
  <2>2. up[l] = Climb(certs, name, up[k], from)
    BY <1>3, <2>1 DEF from
  <2>3. up[k] = FirstOfOrder(order, l)
    BY <1>5, <2>1
  <2> HIDE DEF l
  <2>4. /\ l < m => Climb(certs, name, FirstOfOrder(order, l), from) = FirstOfOrder(order, l + 1)
        /\ l = m => Climb(certs, name, FirstOfOrder(order, l), from) = FirstOfOrder(order, l)
    BY <1>1, <2>1, ClimbInOrder
  <2>5. (l < m /\ l + 1 <= m) \/ (l = m /\ ~(l + 1 <= m))
    BY <2>1
  <2>6. up[l] = Found1(l)
    BY <2>2, <2>3, <2>4, <2>5
  <2> USE DEF l
  <2> QED BY <2>1, <2>6
<1>6. up[m] = FirstOfOrder(order, m)
  <2> HIDE DEF holds
  <2>1. \A k \in 0 .. m : k \in holds
    BY <1>4, <1>5, UpTo
  <2>2. m \in holds /\ ~(m + 1 <= m)
    BY <2>1
  <2> QED BY <2>2 DEF holds
<1> QED BY <1>1, <1>3, <1>6

\* It is accepted whatever the order of the other certificates.
LEMMA ServerFirstAccepted ==
    ASSUME NEW S, NEW text \in Seq(S), IsServerFirst(text)
    PROVE  Accepted(text)
<1> DEFINE bundle == Blocks(text)
           h == Len(Labels(text)) \div 2
           m == h - 1
           all == [i \in 1 .. m |-> bundle[i]]
           name == all[1].of
<1>1. h \in Nat /\ bundle = [b \in 1 .. h |-> bundle[b]]
  <2>1. Len(Labels(text)) \in Nat
    BY LabelsMarked DEF Marks
  <2> QED BY <2>1 DEF Blocks
<1> HIDE DEF bundle, h
<1> DEFINE P == Range(bundle)
<1>2. bundle \in Seq(P) /\ Len(bundle) = h /\ DOMAIN bundle = 1 .. h
  BY <1>1 DEF Range
<1>3. Front(bundle) = all
  BY <1>1, <1>2 DEF Front
<1>4. /\ WellFormed(text)
      /\ all # <<>> /\ Len(all) <= MAX_PART
      /\ \A i \in DOMAIN all : all[i].kind = "cert"
      /\ Last(bundle) = PrivateKey(all[1].of)
      /\ Range(bundle) \cap {Bad(k) : k \in Kinds} = {}
      /\ IsInjective([i \in DOMAIN all |-> all[i].of])
      /\ \E order \in Bijection(DOMAIN all, DOMAIN all) :
            order[1] = 1 /\ IsChain([i \in DOMAIN all |-> all[order[i]]])
  <2> HIDE DEF all
  <2> QED BY <1>3 DEF IsServerFirst, bundle
<1>5. m \in Nat /\ m > 0 /\ Len(all) = m /\ DOMAIN all = 1 .. m
  BY <1>1, <1>4
<1>6. h = m + 1 /\ Last(bundle) = bundle[m + 1]
  BY <1>1, <1>2, <1>5 DEF Last
<1> HIDE DEF m
<1>7. \A i \in 1 .. m : all[i] = bundle[i]
  BY <1>5
<1>8. all \in Seq(P)
  BY <1>2, <1>5, <1>6
<1> HIDE DEF all
<1>9. Certs(bundle) = all /\ Keys(bundle) = <<bundle[m + 1]>>
  <2>1. \A i \in 1 .. m : bundle[i].kind = "cert"
    BY <1>4, <1>5, <1>7
  <2>2. bundle[m + 1].kind = "key"
    BY <1>4, <1>6 DEF PrivateKey
  <2>3. m <= MAX_PART
    BY <1>4, <1>5
  <2> HIDE DEF P
  <2>4. Certs(bundle) = [i \in 1 .. m |-> bundle[i]] /\ Keys(bundle) = <<bundle[m + 1]>>
    BY <1>2, <1>5, <1>6, <2>1, <2>2, <2>3, FoundInOrder
  <2> QED BY <2>4 DEF all
<1>10. Iterated(text).state = "END_OK" /\ Iterated(text).parts = bundle
  BY <1>4, AllTextsIterated DEF bundle
<1>11. PICK order \in Bijection(1 .. m, 1 .. m) : order[1] = 1 /\ IsChain([i \in 1 .. m |-> all[order[i]]])
  BY <1>4, <1>5
<1>12. Upwards(all, m, order)
  <2>1. /\ order \in [1 .. m -> 1 .. m]
        /\ \A i, j \in 1 .. m : order[i] = order[j] => i = j
        /\ \A i \in 1 .. m : \E j \in 1 .. m : order[j] = i
    BY DEF Bijection, Injection, Surjection, IsInjective
  <2>2. \A i, j \in 1 .. m : all[i].of = all[j].of => i = j
    BY <1>4, <1>5 DEF IsInjective
  <2>3. \A i \in 1 .. m - 1 : all[order[i]].by = all[order[i + 1]].of
    <3> DEFINE chain == [i \in 1 .. m |-> all[order[i]]]
    <3>1. Len(chain) = m
      BY <1>5
    <3> SUFFICES ASSUME NEW i \in 1 .. m - 1 PROVE all[order[i]].by = all[order[i + 1]].of
      OBVIOUS
    <3>2. i \in 1 .. m /\ i + 1 \in 1 .. m
      BY <1>5
    <3>3. chain[i].by = chain[i + 1].of
      <4> HIDE DEF chain
      <4> QED BY <1>11, <3>1 DEF IsChain, chain
    <3> QED BY <3>2, <3>3
  <2> QED BY <1>11, <2>1, <2>2, <2>3 DEF Upwards
<1>13. Keys(bundle)[1].of = name /\ Len(Keys(bundle)) = 1
  BY <1>4, <1>6, <1>9 DEF PrivateKey
<1>14. Matching(all, name) = {1} /\ Path(all, name) = FirstOfOrder(order, m)
  <2> HIDE DEF P
  <2> QED BY <1>5, <1>8, <1>12, PathInOrder
<1> HIDE DEF name
<1>15. Range(Path(all, name)) = 1 .. m
  BY <1>12, <1>14 DEF Upwards, Range, FirstOfOrder
<1> HIDE DEF P
<1>16. all \o Keys(bundle) = bundle
  <2> DEFINE last == bundle[m + 1]
             both == all \o <<last>>
  <2>1. last \in P
    BY <1>2, <1>5, <1>6
  <2> HIDE DEF last
  <2>2. <<last>> \in Seq(P) /\ Len(<<last>>) = 1 /\ <<last>>[1] = last
    BY <2>1
  <2>3. both \in Seq(P) /\ Len(both) = m + 1 /\ both[m + 1] = last /\ \A i \in 1 .. m : both[i] = all[i]
    BY <1>5, <1>8, <2>2
  <2> HIDE DEF both
  <2>4. \A i \in 1 .. m + 1 : both[i] = bundle[i]
    BY <1>5, <1>7, <2>3 DEF last
  <2>5. both = bundle
    BY <1>2, <1>5, <1>6, <2>3, <2>4, SeqEqual
  <2> QED BY <1>9, <2>5 DEF both, last
<1>17. Matching(all, name) \cup Range(Path(all, name)) = DOMAIN all
  BY <1>5, <1>14, <1>15
<1>18. Accepted(text) <=>
         /\ Iterated(text).state = "END_OK"
         /\ Range(Certs(bundle) \o Keys(bundle)) \cap {Bad(k) : k \in Kinds} = {}
         /\ Len(Keys(bundle)) = 1
         /\ Matching(Certs(bundle), Keys(bundle)[1].of) # {}
         /\ Matching(Certs(bundle), Keys(bundle)[1].of) \cup Range(Path(Certs(bundle), Keys(bundle)[1].of))
               = DOMAIN Certs(bundle)
  BY <1>10 DEF Accepted
<1>19. Matching(all, name) # {}
  BY <1>14
<1>20. Certs(bundle) = all /\ Keys(bundle)[1].of = name
  BY <1>9, <1>13
<1> QED
  BY <1>4, <1>10, <1>13, <1>16, <1>17, <1>18, <1>19, <1>20

-----------------------------------------------------------------------------
(* Integers. *)

\* What parse_int makes of digits, one after the other.
Horner(digits) == FoldLeft(LAMBDA n, c : 10 * n + HexValue(c), 0, digits)

\* A number made digit by digit.
Counts(h, digits) ==
    /\ h[0] = 0
    /\ \A k \in 1 .. Len(digits) : h[k] = 10 * h[k - 1] + (digits[k] - 48)

\* A sum made place by place.
Sums(p, digits, worth) ==
    /\ p[0] = 0
    /\ \A k \in 1 .. Len(digits) : p[k] = p[k - 1] + (digits[k] - 48) * worth[Len(digits) - k]

\* What digits count: one for the last, each other ten times as much as the next.
Tens(worth, n) ==
    /\ worth[0] = 1
    /\ \A k \in 1 .. n : worth[k] = 10 * worth[k - 1]

\* The recursive definition has the values it is written to have.
LEMMA WorthTens ==
    ASSUME NEW n \in Nat
    PROVE  Worth(n) \in [0 .. n -> Int] /\ Tens(Worth(n), n)
<1> DEFINE V == Int
           Next10(w) == 10 * w
           step == [k \in 1 .. n |-> [w \in V |-> Next10(w)]]
           worth == CHOOSE f : f = [k \in 0 .. n |-> IF k = 0 THEN 1 ELSE 10 * f[k - 1]]
<1>1. Worth(n) = worth
  BY DEF Worth
<1>2. step \in [1 .. n -> [V -> V]] /\ \A k \in 1 .. n, w \in V : step[k][w] = 10 * w
  OBVIOUS
<1>3. worth = [k \in 0 .. n |-> IF k = 0 THEN 1 ELSE 10 * worth[k - 1]] /\ worth \in [0 .. n -> Int]
  <2> HIDE DEF step
  <2>1. 1 \in V
    OBVIOUS
  <2>2. PICK f \in [0 .. n -> V] : GoesUp(f, 1, step, n)
    BY <1>2, <2>1, RecursionExists, Zenon
  <2>3. \A k \in 1 .. n : f[k - 1] \in V /\ k # 0
    BY <2>2
  <2>4. \A k \in 1 .. n : f[k] = 10 * f[k - 1]
    BY <1>2, <2>2, <2>3 DEF GoesUp
  <2>5. \A k \in 0 .. n : f[k] = IF k = 0 THEN 1 ELSE 10 * f[k - 1]
    BY <2>2, <2>4 DEF GoesUp
  <2>6. f = [k \in 0 .. n |-> IF k = 0 THEN 1 ELSE 10 * f[k - 1]]
    BY <2>5
  <2>7. worth = [k \in 0 .. n |-> IF k = 0 THEN 1 ELSE 10 * worth[k - 1]]
    BY <2>6
  <2>8. \A k \in 0 .. n : worth[k] = IF k = 0 THEN 1 ELSE 10 * worth[k - 1]
    BY <2>7
  <2>9. DOMAIN worth = 0 .. n /\ worth = [k \in 0 .. n |-> worth[k]]
    BY <2>7, Zenon
  <2> HIDE DEF worth
  <2> DEFINE holds == {k \in 0 .. n : worth[k] \in Int}
  <2>10. 0 \in holds
    BY <2>8
  <2>11. ASSUME NEW k \in 0 .. n - 1, k \in holds PROVE k + 1 \in holds
    <3>1. k + 1 \in 0 .. n /\ k + 1 # 0 /\ (k + 1) - 1 = k
      OBVIOUS
    <3>2. worth[k + 1] = 10 * worth[k]
      BY <2>8, <3>1
    <3> QED BY <2>11, <3>1, <3>2
  <2>12. \A k \in 0 .. n : k \in holds
    <3> HIDE DEF holds
    <3> QED BY <2>10, <2>11, UpTo
  <2>13. worth \in [0 .. n -> Int]
    BY <2>9, <2>12
  <2> QED BY <2>7, <2>13
<1> HIDE DEF worth
<1>4. worth[0] = 1 /\ \A k \in 1 .. n : worth[k] = 10 * worth[k - 1]
  <2>1. \A k \in 0 .. n : worth[k] = IF k = 0 THEN 1 ELSE 10 * worth[k - 1]
    BY <1>3
  <2> QED BY <2>1
<1> QED BY <1>1, <1>3, <1>4 DEF Tens

\* Digits are read one by one.
LEMMA HornerUp ==
    ASSUME NEW digits \in Seq(Digit)
    PROVE  \E h \in [0 .. Len(digits) -> Int] : Counts(h, digits) /\ Horner(digits) = h[Len(digits)]
<1> DEFINE V == Int
           s == digits
           n == Len(s)
           base == 0
           Op(m, c) == 10 * m + HexValue(c)
           step == [k \in 1 .. n |-> [d \in V |-> Op(d, s[k])]]
           fold == CHOOSE iter : iter = [t \in SUBSET DOMAIN s |->
                      IF t = {} THEN base ELSE Op(iter[t \ {Max(t)}], s[Max(t)])]
           up == Upward(fold, n)
<1>1. Horner(digits) = fold[DOMAIN s]
  BY DEF Horner, FoldLeft, MapThenFoldSet
<1>2. n \in Nat /\ DOMAIN s = 1 .. n /\ \A k \in 1 .. n : s[k] \in 48 .. 57
  BY DEF Digit
<1>3. base \in V
  OBVIOUS
<1>4. \A d \in V, k \in 1 .. n : Op(d, s[k]) \in V /\ Op(d, s[k]) = 10 * d + (s[k] - 48)
  <2> HIDE DEF n
  <2>1. ASSUME NEW k \in 1 .. n PROVE HexValue(s[k]) = s[k] - 48 /\ s[k] \in Int
    <3> HIDE DEF s
    <3>1. s[k] \in 48 .. 57
      BY <1>2
    <3>2. s[k] \in Int
      BY <3>1
    <3> QED BY <3>1, <3>2, HexValues
  <2> QED BY <2>1
<1>5. step \in [1 .. n -> [V -> V]]
  <2> HIDE DEF V, Op, n
  <2> QED BY <1>4
<1>6. \A k \in 1 .. n, d \in V : step[k][d] = Op(d, s[k])
  <2> HIDE DEF V, Op, n
  <2> QED OBVIOUS
<1>7. fold = [t \in SUBSET (1 .. n) |-> IF t = {} THEN base ELSE Op(fold[t \ {Max(t)}], s[Max(t)])]
  <2> HIDE DEF V, Op, base, step, n
  <2>1. PICK iter \in [SUBSET (1 .. n) -> V] : Folds(iter, base, step, n)
    BY <1>2, <1>3, <1>5, FoldExists
  <2>2. ASSUME NEW t \in SUBSET (1 .. n), t # {}
        PROVE  iter[t] = Op(iter[t \ {Max(t)}], s[Max(t)])
    BY <1>2, <1>6, <2>1, <2>2, MaxOfSet DEF Folds
  <2>3. iter = [t \in SUBSET (1 .. n) |-> IF t = {} THEN base ELSE Op(iter[t \ {Max(t)}], s[Max(t)])]
    BY <2>1, <2>2 DEF Folds
  <2>4. DOMAIN s = 1 .. n
    BY <1>2
  <2> QED BY <2>3, <2>4
<1>8. up \in [0 .. n -> V] /\ GoesUp(up, base, step, n)
  <2> HIDE DEF V, Op, base, step, fold, n
  <2>1. \A t \in SUBSET (1 .. n) : t # {} => Max(t) \in 1 .. n
    BY <1>2, MaxOfSet
  <2>2. FoldsWithin(fold, V, base, step, n)
    BY <1>6, <1>7, <2>1 DEF FoldsWithin
  <2> QED BY <1>2, <1>3, <1>5, <2>2, FoldUp
<1>9. up[n] = fold[DOMAIN s]
  <2> HIDE DEF V, fold, n
  <2> QED BY <1>2 DEF Upward
<1>10. \A k \in 1 .. n : up[k] = Op(up[k - 1], s[k]) /\ up[k - 1] \in V
  <2> HIDE DEF V, Op, base, step, up, n
  <2>1. \A k \in 1 .. n : up[k - 1] \in V
    BY <1>2, <1>8
  <2> QED BY <1>6, <1>8, <2>1 DEF GoesUp
<1>11. Counts(up, digits)
  <2> HIDE DEF V, Op, up
  <2>1. up[0] = 0
    BY <1>8 DEF GoesUp
  <2>2. \A k \in 1 .. n : up[k] = 10 * up[k - 1] + (s[k] - 48)
    BY <1>4, <1>10
  <2> QED BY <2>1, <2>2 DEF Counts
<1> HIDE DEF up, fold, step
<1> QED BY <1>1, <1>8, <1>9, <1>11

\* The reference adds them place by place.
LEMMA PositionalUp ==
    ASSUME NEW digits \in Seq(Digit)
    PROVE  \E p \in [0 .. Len(digits) -> Int] :
              Sums(p, digits, Worth(Len(digits))) /\ Positional(digits) = p[Len(digits)]
<1> DEFINE V == Int
           n == Len(digits)
           worth == Worth(n)
           base == 0
           s == [i \in DOMAIN digits |-> i]
           Op(sum, i) == sum + (digits[i] - 48) * worth[n - i]
           step == [k \in 1 .. n |-> [d \in V |-> Op(d, s[k])]]
           fold == CHOOSE iter : iter = [t \in SUBSET DOMAIN s |->
                      IF t = {} THEN base ELSE Op(iter[t \ {Max(t)}], s[Max(t)])]
           up == Upward(fold, n)
<1>1. Positional(digits) = fold[DOMAIN s]
  BY DEF Positional, FoldLeft, MapThenFoldSet
<1>2. n \in Nat /\ DOMAIN s = 1 .. n /\ \A k \in 1 .. n : s[k] = k /\ digits[k] \in 48 .. 57
  BY DEF Digit
<1>3. base \in V
  OBVIOUS
<1>4. \A d \in V, k \in 1 .. n : Op(d, s[k]) \in V
  <2> HIDE DEF n, s
  <2>1. worth \in [0 .. n -> Int]
    BY <1>2, WorthTens
  <2> HIDE DEF worth
  <2>2. ASSUME NEW k \in 1 .. n PROVE s[k] = k /\ digits[k] - 48 \in Int /\ worth[n - k] \in Int
    <3>1. n - k \in 0 .. n
      BY <1>2
    <3>2. s[k] = k /\ digits[k] \in 48 .. 57
      BY <1>2
    <3> HIDE DEF Op
    <3>3. digits[k] - 48 \in Int
      BY <3>2
    <3> QED BY <2>1, <3>1, <3>2, <3>3
  <2>3. ASSUME NEW d \in Int, NEW a \in Int, NEW b \in Int PROVE d + a * b \in Int
    OBVIOUS
  <2> QED BY <2>2, <2>3
<1>5. step \in [1 .. n -> [V -> V]]
  <2> HIDE DEF V, Op, n, s
  <2> QED BY <1>4
<1>6. \A k \in 1 .. n, d \in V : step[k][d] = Op(d, s[k])
  <2> HIDE DEF V, Op, n, s
  <2> QED OBVIOUS
<1>7. fold = [t \in SUBSET (1 .. n) |-> IF t = {} THEN base ELSE Op(fold[t \ {Max(t)}], s[Max(t)])]
  <2> HIDE DEF V, Op, base, step, n, s
  <2>1. PICK iter \in [SUBSET (1 .. n) -> V] : Folds(iter, base, step, n)
    BY <1>2, <1>3, <1>5, FoldExists
  <2>2. ASSUME NEW t \in SUBSET (1 .. n), t # {}
        PROVE  iter[t] = Op(iter[t \ {Max(t)}], s[Max(t)])
    BY <1>2, <1>6, <2>1, <2>2, MaxOfSet DEF Folds
  <2>3. iter = [t \in SUBSET (1 .. n) |-> IF t = {} THEN base ELSE Op(iter[t \ {Max(t)}], s[Max(t)])]
    BY <2>1, <2>2 DEF Folds
  <2>4. DOMAIN s = 1 .. n
    BY <1>2
  <2> QED BY <2>3, <2>4
<1>8. up \in [0 .. n -> V] /\ GoesUp(up, base, step, n)
  <2> HIDE DEF V, Op, base, step, fold, n, s
  <2>1. \A t \in SUBSET (1 .. n) : t # {} => Max(t) \in 1 .. n
    BY <1>2, MaxOfSet
  <2>2. FoldsWithin(fold, V, base, step, n)
    BY <1>6, <1>7, <2>1 DEF FoldsWithin
  <2> QED BY <1>2, <1>3, <1>5, <2>2, FoldUp
<1>9. up[n] = fold[DOMAIN s]
  <2> HIDE DEF V, fold, n, s
  <2> QED BY <1>2 DEF Upward
<1>10. \A k \in 1 .. n : up[k] = Op(up[k - 1], s[k]) /\ up[k - 1] \in V
  <2> HIDE DEF V, Op, base, step, up, n, s
  <2>1. \A k \in 1 .. n : up[k - 1] \in V
    BY <1>2, <1>8
  <2> QED BY <1>6, <1>8, <2>1 DEF GoesUp
<1>11. Sums(up, digits, worth)
  <2> HIDE DEF V, up, worth, s
  <2>1. up[0] = 0
    BY <1>8 DEF GoesUp
  <2>2. \A k \in 1 .. n : up[k] = up[k - 1] + (digits[k] - 48) * worth[n - k]
    BY <1>2, <1>10
  <2> QED BY <2>1, <2>2 DEF Sums
<1> HIDE DEF up, fold, step, s
<1> QED BY <1>1, <1>8, <1>9, <1>11

\* Digit by digit or place by place, the number is the same.
LEMMA HornerPositional ==
    ASSUME NEW digits \in Seq(Digit)
    PROVE  Horner(digits) \in Int /\ Horner(digits) = Positional(digits)
<1> DEFINE n == Len(digits)
           worth == Worth(n)
<1>1. n \in Nat /\ \A k \in 1 .. n : digits[k] - 48 \in Int
  BY DEF Digit
<1>2. worth \in [0 .. n -> Int] /\ Tens(worth, n)
  BY <1>1, WorthTens
<1>3. PICK h \in [0 .. n -> Int] : Counts(h, digits) /\ Horner(digits) = h[n]
  BY HornerUp
<1>4. PICK p \in [0 .. n -> Int] : Sums(p, digits, worth) /\ Positional(digits) = p[n]
  BY PositionalUp
<1> HIDE DEF worth
<1> DEFINE holds == {k \in 0 .. n : p[k] = h[k] * worth[n - k]}
<1>5. 0 \in holds
  <2>1. p[0] = 0 /\ h[0] = 0 /\ n - 0 = n /\ worth[n] \in Int /\ 0 \in 0 .. n
    BY <1>1, <1>2, <1>3, <1>4 DEF Counts, Sums
  <2> QED BY <2>1
<1>6. ASSUME NEW k \in 0 .. n - 1, k \in holds PROVE k + 1 \in holds
  <2>1. /\ k + 1 \in 1 .. n /\ k + 1 \in 0 .. n /\ (k + 1) - 1 = k /\ k \in 0 .. n
        /\ n - k \in 1 .. n /\ (n - k) - 1 = n - (k + 1) /\ n - (k + 1) \in 0 .. n
    BY <1>1
  <2>2. p[k + 1] = p[k] + (digits[k + 1] - 48) * worth[n - (k + 1)]
    BY <1>4, <2>1 DEF Sums
  <2>3. h[k + 1] = 10 * h[k] + (digits[k + 1] - 48)
    BY <1>3, <2>1 DEF Counts
  <2>4. worth[n - k] = 10 * worth[n - (k + 1)]
    BY <1>2, <2>1 DEF Tens
  <2>5. p[k] = h[k] * worth[n - k]
    BY <1>6
  <2>6. h[k] \in Int /\ digits[k + 1] - 48 \in Int /\ worth[n - (k + 1)] \in Int
    BY <1>1, <1>2, <1>3, <2>1
  <2>7. PICK a \in Int, b \in Int, c \in Int :
             a = h[k] /\ b = digits[k + 1] - 48 /\ c = worth[n - (k + 1)]
    BY <2>6
  <2>8. p[k + 1] = h[k + 1] * worth[n - (k + 1)]
    <3>1. p[k + 1] = a * (10 * c) + b * c
      BY <2>2, <2>4, <2>5, <2>7
    <3>2. h[k + 1] * worth[n - (k + 1)] = (10 * a + b) * c
      BY <2>3, <2>7
    <3>3. a * (10 * c) + b * c = (10 * a + b) * c
      BY SMT
    <3> QED BY <3>1, <3>2, <3>3
  <2> QED BY <2>1, <2>8
<1>7. n \in holds
  <2> HIDE DEF holds
  <2>1. \A k \in 0 .. n : k \in holds
    BY <1>1, <1>5, <1>6, UpTo
  <2> QED BY <1>1, <2>1
<1>8. n - n = 0 /\ worth[0] = 1 /\ h[n] \in Int
  BY <1>1, <1>2, <1>3 DEF Tens
<1> QED BY <1>3, <1>4, <1>7, <1>8

LEMMA OneBefore ==
    ASSUME NEW c \in Int, NEW t \in Seq(Int)
    PROVE  <<c>> \o t # <<>> /\ (<<c>> \o t)[1] = c /\ Tail(<<c>> \o t) = t
<1> DEFINE one == <<c>>
           m == Len(t)
           s == one \o t
<1>1. one \in Seq(Int) /\ Len(one) = 1 /\ one[1] = c /\ m \in Nat
  OBVIOUS
<1> HIDE DEF one
<1>2. s \in Seq(Int) /\ Len(s) = 1 + m /\ \A i \in 1 .. 1 + m : s[i] = IF i <= 1 THEN one[i] ELSE t[i - 1]
  <2>1. /\ s \in Seq(Int) /\ Len(s) = Len(one) + m
        /\ \A i \in 1 .. Len(one) + m : s[i] = IF i <= Len(one) THEN one[i] ELSE t[i - Len(one)]
    BY <1>1, ConcatProperties
  <2> HIDE DEF s, m
  <2> QED BY <1>1, <2>1
<1> HIDE DEF s
<1>3. s # <<>> /\ s[1] = c
  <2>1. 1 \in 1 .. 1 + m /\ 1 + m # 0
    BY <1>1
  <2>2. s[1] = c
    BY <1>1, <1>2, <2>1
  <2>3. s # <<>>
    BY <1>2, <2>1
  <2> QED BY <2>2, <2>3
<1>4. Tail(s) \in Seq(Int) /\ Len(Tail(s)) = m /\ \A i \in 1 .. m : Tail(s)[i] = s[i + 1]
  <2>1. /\ Tail(s) \in Seq(Int) /\ Len(Tail(s)) = Len(s) - 1
        /\ \A i \in 1 .. Len(Tail(s)) : Tail(s)[i] = s[i + 1]
    BY <1>2, <1>3, HeadTailProperties
  <2> HIDE DEF m
  <2> QED BY <1>1, <1>2, <2>1
<1>5. ASSUME NEW i \in 1 .. m PROVE Tail(s)[i] = t[i]
  <2> HIDE DEF m
  <2>1. i + 1 \in 1 .. 1 + m /\ ~ (i + 1 <= 1) /\ (i + 1) - 1 = i
    BY <1>1
  <2>2. s[i + 1] = t[i]
    BY <1>2, <2>1
  <2> QED BY <1>4, <2>2
<1>6. Tail(s) = t
  BY <1>4, <1>5, SeqEqual
<1> QED BY <1>3, <1>6 DEF s, one

\* What parse_int makes of an optional sign and what follows it.
LEMMA SignRead ==
    ASSUME NEW digits \in Seq(Int), NEW sign \in Signs,
           sign = <<>> => digits = <<>> \/ digits[1] \notin {PLUS, MINUS}
    PROVE  ParseInt(sign \o digits) =
              IF digits = <<>> \/ ~(ToSet(digits) \subseteq Digit) THEN NULL
              ELSE Saturated(IF sign = <<MINUS>> THEN -Horner(digits) ELSE Horner(digits))
<1> DEFINE s == sign \o digits
<1> USE DEF PLUS, MINUS
<1>1. CASE sign = <<>>
  <2>1. s = digits
    BY <1>1, ConcatEmptySeq
  <2>2. ~ (s # <<>> /\ s[1] \in {PLUS, MINUS})
    BY <1>1, <2>1
  <2>3. sign # <<MINUS>>
    BY <1>1
  <2> HIDE DEF s
  <2>4. ParseInt(s) = IF digits = <<>> \/ ~(ToSet(digits) \subseteq Digit) THEN NULL
                      ELSE Saturated(Horner(digits))
    BY <2>1, <2>2 DEF ParseInt, Horner
  <2> QED BY <2>3, <2>4 DEF s
<1>2. CASE sign # <<>>
  <2>1. PICK c \in {PLUS, MINUS} : sign = <<c>>
    BY <1>2 DEF Signs
  <2>2. s # <<>> /\ s[1] = c /\ Tail(s) = digits
    <3>1. c \in Int /\ digits \in Seq(Int)
      BY <2>1 DEF PLUS, MINUS, Digit
    <3> QED BY <2>1, <3>1, OneBefore
  <2>3. sign = <<MINUS>> <=> s[1] = MINUS
    BY <2>1, <2>2
  <2> HIDE DEF s
  <2>4. s # <<>> /\ s[1] \in {PLUS, MINUS}
    BY <2>2
  <2>5. ParseInt(s) = IF digits = <<>> \/ ~(ToSet(digits) \subseteq Digit) THEN NULL
                      ELSE Saturated(IF s[1] = MINUS THEN -Horner(digits) ELSE Horner(digits))
    BY <2>2, <2>4 DEF ParseInt, Horner
  <2> QED BY <2>3, <2>5 DEF s
<1> QED BY <1>1, <1>2

\* What does not fit is a limit, and a number still.
LEMMA SaturatedTyped == \A n \in Int : Saturated(n) \in Int
BY FormAssumption DEF Saturated

\* Digits parse to their number, and only digits parse, behind a sign or not.
LEMMA NumberRead ==
    ASSUME NEW sign \in Signs, NEW digits \in Seq(Digit), digits # <<>>
    PROVE  /\ ParseInt(sign \o digits) =
                 Saturated(IF sign = <<MINUS>> THEN -Positional(digits) ELSE Positional(digits))
           /\ ParseInt(sign \o digits) # NULL
<1>1. digits \in Seq(Int) /\ ToSet(digits) \subseteq Digit /\ digits[1] \notin {PLUS, MINUS}
  BY DEF Digit, ToSet, PLUS, MINUS
<1>2. Horner(digits) \in Int /\ Horner(digits) = Positional(digits)
  BY HornerPositional
<1>3. ParseInt(sign \o digits) = Saturated(IF sign = <<MINUS>> THEN -Horner(digits) ELSE Horner(digits))
  BY <1>1, SignRead
<1>4. Saturated(IF sign = <<MINUS>> THEN -Horner(digits) ELSE Horner(digits)) \in Int
  BY <1>2, SaturatedTyped
<1> QED BY <1>2, <1>3, <1>4, FormAssumption

\* A text that parses is a sign or none, and digits.
LEMMA NumberShape ==
    ASSUME NEW text \in Seq(Byte), ParseInt(text) # NULL
    PROVE  \E sign \in Signs, first \in DOMAIN text :
              /\ text = sign \o SubSeq(text, first, Len(text))
              /\ ToSet(SubSeq(text, first, Len(text))) \subseteq Digit
<1> DEFINE n == Len(text)
<1>1. n \in Nat /\ DOMAIN text = 1 .. n /\ text \in Seq(Int)
  <2>1. Byte \subseteq Int
    BY ByteFacts
  <2>2. text \in Seq(Int)
    BY <2>1, SeqMonotonic, Zenon
  <2> QED BY <2>2
<1>2. text # <<>>
  <2>1. SUFFICES ASSUME text = <<>> PROVE FALSE
    OBVIOUS
  <2>2. ParseInt(<<>>) = NULL
    BY DEF ParseInt
  <2> QED BY <2>1, <2>2
<1>3. n > 0 /\ 1 \in 1 .. n
  BY <1>1, <1>2
<1>4. CASE text[1] \in {PLUS, MINUS}
  <2> DEFINE rest == Tail(text)
  <2>1. rest # <<>> /\ ToSet(rest) \subseteq Digit
    BY <1>2, <1>4 DEF ParseInt
  <2>2. rest = SubSeq(text, 2, n) /\ Len(rest) = n - 1
    <3>1. rest \in Seq(Int) /\ Len(rest) = n - 1 /\ \A i \in 1 .. n - 1 : rest[i] = text[i + 1]
      BY <1>1, <1>2, HeadTailProperties
    <3>2. 1 \in 0 .. n /\ 1 + 1 = 2
      BY <1>3
    <3>3. /\ SubSeq(text, 2, n) \in Seq(Int) /\ Len(SubSeq(text, 2, n)) = n - 1
          /\ \A i \in 1 .. n - 1 : SubSeq(text, 2, n)[i] = text[1 + i]
      BY <1>1, <3>2, Suffix
    <3>4. \A i \in 1 .. n - 1 : rest[i] = SubSeq(text, 2, n)[i]
      BY <1>1, <3>1, <3>3
    <3> HIDE DEF rest
    <3> QED BY <3>1, <3>3, <3>4, SeqEqual
  <2>3. n > 1
    BY <1>1, <2>1, <2>2
  <2>4. text = <<text[1]>> \o rest
    <3>1. rest \in Seq(Int) /\ Len(rest) = n - 1 /\ \A i \in 1 .. n - 1 : rest[i] = text[i + 1]
      BY <1>1, <1>2, HeadTailProperties
    <3> HIDE DEF rest
    <3>2. text[1] \in Int /\ <<text[1]>> \in Seq(Int) /\ Len(<<text[1]>>) = 1
      BY <1>1, <1>3
    <3> DEFINE whole == <<text[1]>> \o rest
    <3>3. whole \in Seq(Int) /\ Len(whole) = 1 + (n - 1)
          /\ \A i \in 1 .. 1 + (n - 1) : whole[i] = IF i <= 1 THEN <<text[1]>>[i] ELSE rest[i - 1]
      BY <3>1, <3>2, ConcatProperties
    <3>4. \A i \in 1 .. n : whole[i] = text[i]
      BY <1>1, <3>1, <3>3
    <3> HIDE DEF whole, n
    <3>5. Len(whole) = n
      BY <1>1, <3>3
    <3> USE DEF n
    <3>6. whole = text
      BY <1>1, <3>3, <3>4, <3>5, SeqEqual
    <3> QED BY <3>6 DEF whole
  <2>5. <<text[1]>> \in Signs /\ 2 \in DOMAIN text
    BY <1>1, <1>4, <2>3 DEF Signs
  <2> HIDE DEF rest
  <2> QED BY <2>1, <2>2, <2>4, <2>5
<1>5. CASE text[1] \notin {PLUS, MINUS}
  <2>1. ToSet(text) \subseteq Digit
    BY <1>2, <1>5 DEF ParseInt
  <2>2. SubSeq(text, 1, n) = text
    <3>1. 0 \in 0 .. n /\ 0 + 1 = 1 /\ n - 0 = n
      BY <1>1
    <3>2. /\ SubSeq(text, 1, n) \in Seq(Int) /\ Len(SubSeq(text, 1, n)) = n
          /\ \A i \in 1 .. n : SubSeq(text, 1, n)[i] = text[0 + i]
      BY <1>1, <3>1, Suffix
    <3>3. \A i \in 1 .. n : SubSeq(text, 1, n)[i] = text[i]
      BY <1>1, <3>2
    <3> QED BY <1>1, <3>2, <3>3, SeqEqual
  <2>3. <<>> \in Signs /\ <<>> \o text = text
    BY <1>1 DEF Signs
  <2> QED BY <1>1, <1>3, <2>1, <2>2, <2>3
<1> QED BY <1>4, <1>5

\* The end of a text that is digits is a sequence of digits.
LEMMA DigitsOfText ==
    ASSUME NEW text \in Seq(Byte), NEW first \in DOMAIN text,
           ToSet(SubSeq(text, first, Len(text))) \subseteq Digit
    PROVE  SubSeq(text, first, Len(text)) \in Seq(Digit) \ {<<>>}
<1> DEFINE digits == SubSeq(text, first, Len(text))
<1>1. first - 1 \in 0 .. Len(text) /\ (first - 1) + 1 = first /\ Len(text) - (first - 1) > 0
      /\ Len(text) \in Nat
  OBVIOUS
<1>2. digits \in Seq(Byte) /\ Len(digits) = Len(text) - (first - 1)
  BY <1>1, Suffix
<1> HIDE DEF digits
<1>3. \A i \in 1 .. Len(digits) : digits[i] \in ToSet(digits)
  BY <1>2 DEF ToSet
<1>4. ToSet(digits) \subseteq Digit
  BY DEF digits
<1>5. Len(digits) \in Nat /\ \A i \in 1 .. Len(digits) : digits[i] \in Digit
  BY <1>2, <1>3, <1>4
<1>6. digits \in Seq(Digit) /\ digits # <<>>
  BY <1>1, <1>2, <1>5
<1> QED BY <1>6 DEF digits

\* What parses is an integer.
LEMMA ParsedTyped ==
    ASSUME NEW text \in Seq(Byte), ParseInt(text) # NULL
    PROVE  ParseInt(text) \in Int
<1>1. PICK sign \in Signs, first \in DOMAIN text :
              /\ text = sign \o SubSeq(text, first, Len(text))
              /\ ToSet(SubSeq(text, first, Len(text))) \subseteq Digit
  BY NumberShape
<1> DEFINE digits == SubSeq(text, first, Len(text))
<1>2. digits \in Seq(Digit) /\ digits # <<>>
  BY <1>1, DigitsOfText
<1>3. text = sign \o digits
  BY <1>1
<1> HIDE DEF digits
<1>4. ParseInt(text) = Saturated(IF sign = <<MINUS>> THEN -Positional(digits) ELSE Positional(digits))
  BY <1>2, <1>3, NumberRead
<1>5. Positional(digits) \in Int
  BY <1>2, HornerPositional
<1> QED BY <1>4, <1>5, SaturatedTyped

\* Every number is read, and nothing else.
LEMMA AllIntegersParsed == DigitsParsed
<1>0. MAX_LENGTH \in Nat /\ \A c \in Bytes : c \in Byte
  BY FormAssumption DEF Byte
<1>1. ASSUME NEW sign \in Signs, NEW digits \in SeqOf({48, 51, 57}, 6) \ {<<>>}
      PROVE  ParseInt(sign \o digits) =
                Saturated(IF sign = <<MINUS>> THEN -Positional(digits) ELSE Positional(digits))
  <2>1. PICK n \in 0 .. 6 : digits \in [1 .. n -> {48, 51, 57}]
    BY DEF SeqOf
  <2>2. digits \in Seq(Digit)
    BY <2>1 DEF Digit
  <2> QED BY <2>2, NumberRead
<1>2. ASSUME NEW text \in SeqOf(Bytes, MAX_LENGTH)
      PROVE  ParseInt(text) # NULL <=>
                \E sign \in Signs, first \in DOMAIN text :
                    /\ text = sign \o SubSeq(text, first, Len(text))
                    /\ ToSet(SubSeq(text, first, Len(text))) \subseteq Digit
  <2>1. PICK n \in 0 .. MAX_LENGTH : text \in [1 .. n -> Bytes]
    BY <1>0 DEF SeqOf
  <2>2. text \in Seq(Byte)
    BY <1>0, <2>1
  <2>3. ASSUME NEW sign \in Signs, NEW first \in DOMAIN text,
               text = sign \o SubSeq(text, first, Len(text)),
               ToSet(SubSeq(text, first, Len(text))) \subseteq Digit
        PROVE  ParseInt(text) # NULL
    <3> DEFINE digits == SubSeq(text, first, Len(text))
    <3>1. digits \in Seq(Digit) /\ digits # <<>>
      BY <2>2, <2>3, DigitsOfText
    <3>2. text = sign \o digits
      BY <2>3
    <3> HIDE DEF digits
    <3> QED BY <3>1, <3>2, NumberRead
  <2> QED BY <2>2, <2>3, NumberShape
<1> QED BY <1>1, <1>2 DEF DigitsParsed
=============================================================================
