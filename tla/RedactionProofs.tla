--------------------------- MODULE RedactionProofs ---------------------------
(***************************************************************************)
(* Theorems about Redaction: what ReplaceAllString makes of a value, and    *)
(* with it what Sanitize returns, for every set of tokens, every attribute *)
(* map and every list of patterns.                                         *)
(*                                                                         *)
(* ReplaceAllString is a recursive function over the positions of a value, *)
(* from the last to the first.  Facts about it are proved by induction     *)
(* over sets of positions (Downward), which needs no operator parameter.   *)
(***************************************************************************)
EXTENDS Redaction, SequenceTheorems, WellFoundedInduction, TLAPS

-----------------------------------------------------------------------------
(* Induction.                                                              *)

\* A set of natural numbers that is not empty has a least element.
LEMMA LeastElement ==
    ASSUME NEW T \in SUBSET Nat, T # {}
    PROVE  \E x \in T : \A y \in T : x <= y
<1> DEFINE R == OpToRel(<, Nat)
<1>1. IsWellFoundedOn(R, Nat)
    BY NatLessThanWellFounded
<1>2. \A x, y \in Nat : y < x => <<y, x>> \in R
    BY DEF OpToRel
<1> HIDE DEF R
<1>3. PICK x \in T : \A y \in T : ~(<<y, x>> \in R)
    BY <1>1, WFMin
<1>4. ASSUME NEW y \in T PROVE x <= y
    <2>1. x \in Nat /\ y \in Nat /\ ~(y < x)
        BY <1>2, <1>3
    <2> QED BY <2>1
<1> QED BY <1>4

\* A set of natural numbers below a bound that is not empty has a largest one.
LEMMA LargestElement ==
    ASSUME NEW L \in Nat, NEW T \in SUBSET (0..L), T # {}
    PROVE  \E x \in T : \A y \in T : y <= x
<1> DEFINE U == {n \in Nat : \E x \in T : n = L - x}
<1>1. U \in SUBSET Nat /\ U # {}
    <2>1. PICK x \in T : TRUE
        OBVIOUS
    <2>2. L - x \in U
        OBVIOUS
    <2> QED BY <2>2
<1>2. PICK n \in U : \A m \in U : n <= m
    BY <1>1, LeastElement
<1>3. PICK x \in T : n = L - x
    BY <1>2
<1>4. ASSUME NEW y \in T PROVE y <= x
    <2>1. L - y \in U
        OBVIOUS
    <2> QED BY <2>1, <1>2, <1>3
<1> QED BY <1>4

\* What holds of a position whenever it holds of every later one, up to the one
\* past the end, holds of all of them.
LEMMA Downward ==
    ASSUME NEW L \in Nat, NEW S,
           \A i \in 1..(L + 1) : (\A k \in (i + 1)..(L + 1) : k \in S) => i \in S
    PROVE  \A i \in 1..(L + 1) : i \in S
<1> DEFINE T == {i \in 1..(L + 1) : i \notin S}
<1>1. SUFFICES ASSUME T # {} PROVE FALSE
    OBVIOUS
<1>2. T \in SUBSET (0..(L + 1))
    OBVIOUS
<1> L + 1 \in Nat
    OBVIOUS
<1> HIDE DEF T
<1>3. PICK x \in T : \A y \in T : y <= x
    BY <1>1, <1>2, LargestElement
<1>4. x \in 1..(L + 1) /\ x \notin S
    BY DEF T
<1>5. ASSUME NEW k \in (x + 1)..(L + 1) PROVE k \in S
    <2>1. k \notin T
        BY <1>3, <1>4
    <2> QED BY <2>1, <1>4 DEF T
<1> QED BY <1>4, <1>5

-----------------------------------------------------------------------------
(* Matching and replacing.                                                 *)

\* A match stays within the value, and MatchLength finds one if there is one.
LEMMA MatchLengthBounds ==
    ASSUME NEW T, NEW r, NEW v \in Seq(T), NEW i \in 1..Len(v)
    PROVE  /\ MatchLength(r, v, i) \in 0..Len(v)
           /\ i + MatchLength(r, v, i) <= Len(v) + 1
           /\ \A n \in 1..Len(v) : Matches(r, v, i, n) => MatchLength(r, v, i) > 0
<1> DEFINE lengths == {n \in 1..Len(v) : Matches(r, v, i, n)}
<1>1. Len(v) \in Nat /\ lengths \in SUBSET (0..Len(v))
    OBVIOUS
<1>2. CASE lengths = {}
    <2>1. MatchLength(r, v, i) = 0
        BY <1>2 DEF MatchLength
    <2> QED BY <1>1, <1>2, <2>1
<1>3. CASE lengths # {}
    <2>1. \E n \in lengths : \A m \in lengths : m <= n
        <3> HIDE DEF lengths
        <3> QED BY <1>1, <1>3, LargestElement
    <2>2. MatchLength(r, v, i) = CHOOSE n \in lengths : \A m \in lengths : m <= n
        BY <1>3 DEF MatchLength
    <2>3. MatchLength(r, v, i) \in lengths
        BY <2>1, <2>2
    <2> QED BY <2>3, <1>1 DEF Matches
<1> QED BY <1>2, <1>3

\* One token in front of a value: its length and its tokens.
LEMMA Prefixed ==
    ASSUME NEW T, NEW x \in T, NEW s \in Seq(T)
    PROVE  /\ <<x>> \o s \in Seq(T)
           /\ Len(<<x>> \o s) = Len(s) + 1
           /\ (<<x>> \o s)[1] = x
           /\ \A j \in 1..Len(s) : (<<x>> \o s)[j + 1] = s[j]
<1>1. <<x>> \in Seq(T) /\ Len(<<x>>) = 1 /\ <<x>>[1] = x /\ Len(s) \in Nat
    OBVIOUS
<1> DEFINE t == <<x>>
<1>2. t \in Seq(T) /\ Len(t) = 1 /\ t[1] = x
    BY <1>1
<1> HIDE DEF t
<1>3. /\ t \o s \in Seq(T)
      /\ Len(t \o s) = Len(t) + Len(s)
      /\ \A i \in 1 .. Len(t) + Len(s) :
            (t \o s)[i] = IF i <= Len(t) THEN t[i] ELSE s[i - Len(t)]
    BY <1>2, ConcatProperties
<1>4. \A j \in 1..Len(s) : (t \o s)[j + 1] = s[j]
    BY <1>1, <1>2, <1>3
<1>5. (t \o s)[1] = x
    BY <1>1, <1>2, <1>3
<1> QED BY <1>2, <1>3, <1>4, <1>5 DEF t

\* The values a replacement goes through: what is left of v from each position on.
Front(r, v, m, i) == IF MatchLength(r, v, i) > 0 THEN m ELSE v[i]
After(r, v, i) == i + (IF MatchLength(r, v, i) > 0 THEN MatchLength(r, v, i) ELSE 1)
IsRest(r, v, m, rest) ==
    rest = [i \in 1..(Len(v) + 1) |->
                IF i > Len(v) THEN <<>>
                ELSE IF MatchLength(r, v, i) > 0
                     THEN <<m>> \o rest[i + MatchLength(r, v, i)]
                     ELSE <<v[i]>> \o rest[i + 1]]

\* ReplaceAllString goes on behind the match, or one token on without one.
LEMMA AfterBounds ==
    ASSUME NEW T, NEW r, NEW v \in Seq(T), NEW i \in 1..Len(v)
    PROVE  After(r, v, i) \in (i + 1)..(Len(v) + 1)
<1>1. Len(v) \in Nat
    OBVIOUS
<1> QED BY <1>1, MatchLengthBounds DEF After

\* The last of them is empty.
LEMMA RestEnd ==
    ASSUME NEW r, NEW v, Len(v) \in Nat, NEW m, NEW rest, IsRest(r, v, m, rest)
    PROVE  rest[Len(v) + 1] = <<>>
BY DEF IsRest

RestFrom(r, v, m, rest, i) ==
    rest[i] = <<Front(r, v, m, i)>> \o rest[After(r, v, i)]

\* The others are a token in front of a later one.
LEMMA RestStep ==
    ASSUME NEW r, NEW v, Len(v) \in Nat, NEW m, NEW rest, IsRest(r, v, m, rest),
           NEW i \in 1..Len(v)
    PROVE  RestFrom(r, v, m, rest, i)
<1>1. \A k \in 1..(Len(v) + 1) :
        rest[k] = IF k > Len(v) THEN <<>>
                  ELSE IF MatchLength(r, v, k) > 0
                       THEN <<m>> \o rest[k + MatchLength(r, v, k)]
                       ELSE <<v[k]>> \o rest[k + 1]
    BY Zenon DEF IsRest
<1>2. i \in 1..(Len(v) + 1) /\ ~(i > Len(v))
    OBVIOUS
<1>3. rest[i] = IF MatchLength(r, v, i) > 0
                THEN <<m>> \o rest[i + MatchLength(r, v, i)]
                ELSE <<v[i]>> \o rest[i + 1]
    BY <1>1, <1>2, Zenon
<1>4. CASE MatchLength(r, v, i) > 0
    BY <1>3, <1>4 DEF Front, After, RestFrom
<1>5. CASE ~(MatchLength(r, v, i) > 0)
    BY <1>3, <1>5 DEF Front, After, RestFrom
<1> QED BY <1>4, <1>5

\* There are such values.
LEMMA RestExists ==
    ASSUME NEW T, NEW r, NEW v \in Seq(T), NEW m
    PROVE  \E rest : IsRest(r, v, m, rest)
<1> DEFINE L == Len(v)
           Step(f, i) == IF i > L THEN <<>>
                         ELSE IF MatchLength(r, v, i) > 0
                              THEN <<m>> \o f[i + MatchLength(r, v, i)]
                              ELSE <<v[i]>> \o f[i + 1]
           Upto(f, i) == /\ f = [k \in i..(L + 1) |-> f[k]]
                         /\ \A k \in i..(L + 1) : f[k] = Step(f, k)
           S == {i \in 1..(L + 1) : \E f : Upto(f, i)}
<1>1. L \in Nat
    OBVIOUS
<1>2. ASSUME NEW i \in 1..(L + 1), \A k \in (i + 1)..(L + 1) : k \in S
      PROVE  i \in S
    <2>1. PICK f : i = L + 1 \/ Upto(f, i + 1)
        <3>1. i # L + 1 => i + 1 \in S
            <4> HIDE DEF S
            <4> QED BY <1>1, <1>2
        <3> HIDE DEF Upto
        <3> QED BY <3>1
    <2> DEFINE g == [k \in i..(L + 1) |-> IF k = i THEN Step(f, i) ELSE f[k]]
    <2>2. ASSUME NEW k \in i..(L + 1) PROVE g[k] = Step(g, k)
        <3>1. CASE k > L
            <4>1. Step(f, i) = <<>> \/ i # k
                BY <3>1
            <4>2. i # k => f[k] = <<>>
                <5>1. i # k => i # L + 1 /\ k \in (i + 1)..(L + 1)
                    BY <1>1
                <5>2. i # k => f[k] = Step(f, k)
                    <6> HIDE DEF Step
                    <6> QED BY <5>1, <2>1
                <5> QED BY <5>2, <3>1
            <4> QED BY <4>1, <4>2, <3>1
        <3>2. CASE k <= L
            <4>1. k \in 1..Len(v)
                BY <3>2, <1>1
            <4>2. k + MatchLength(r, v, k) \in 1..(L + 1) /\ MatchLength(r, v, k) \in Nat
                <5>1. /\ MatchLength(r, v, k) \in 0..Len(v)
                      /\ k + MatchLength(r, v, k) <= Len(v) + 1
                    BY <4>1, MatchLengthBounds
                <5> QED BY <4>1, <5>1, <1>1
            <4>3. g[k + 1] = f[k + 1]
                BY <4>1, <1>1
            <4>4. MatchLength(r, v, k) > 0
                  => g[k + MatchLength(r, v, k)] = f[k + MatchLength(r, v, k)]
                BY <4>1, <4>2, <1>1
            <4>5. Step(g, k) = Step(f, k)
                BY <4>3, <4>4
            <4>6. g[k] = Step(f, k)
                <5>1. CASE k = i
                    BY <5>1
                <5>2. CASE k # i
                    BY <5>2, <2>1, <3>2, <1>1
                <5> QED BY <5>1, <5>2
            <4> QED BY <4>5, <4>6
        <3> QED BY <3>1, <3>2, <1>1
    <2>3. Upto(g, i)
        BY <2>2
    <2> QED BY <2>3
<1>3. 1 \in S
    <2> HIDE DEF S
    <2>1. \A i \in 1..(L + 1) : i \in S
        BY <1>1, <1>2, Downward
    <2> QED BY <2>1, <1>1
<1>4. PICK f : Upto(f, 1)
    BY <1>3
<1>5. \A k \in 1..(L + 1) : f[k] = Step(f, k)
    BY <1>4
<1>6. f = [k \in 1..(L + 1) |-> f[k]]
    BY <1>4
<1>7. f = [k \in 1..(L + 1) |-> Step(f, k)]
    <2> HIDE DEF Step
    <2>1. [k \in 1..(L + 1) |-> f[k]] = [k \in 1..(L + 1) |-> Step(f, k)]
        BY <1>5, Zenon
    <2> QED BY <1>6, <2>1, Zenon
<1> QED BY <1>7, Zenon DEF IsRest

\* ReplaceAllString is the first of them.
LEMMA ReplaceIsRest ==
    ASSUME NEW T, NEW r, NEW v \in Seq(T), NEW m
    PROVE  \E rest : IsRest(r, v, m, rest) /\ ReplaceAllString(r, v, m) = rest[1]
<1> DEFINE rest == CHOOSE f : IsRest(r, v, m, f)
<1>1. ReplaceAllString(r, v, m) = rest[1]
    BY Zenon DEF ReplaceAllString, IsRest
<1>2. IsRest(r, v, m, rest)
    BY RestExists, Zenon
<1> HIDE DEF rest
<1> QED BY <1>1, <1>2, Zenon

\* They are values, made of the tokens of v and of the marker.
LEMMA RestType ==
    ASSUME NEW T, NEW r, NEW v \in Seq(T), NEW m, NEW rest, IsRest(r, v, m, rest)
    PROVE  \A i \in 1..(Len(v) + 1) : rest[i] \in Seq(T \cup {m})
<1> DEFINE L == Len(v)
           S == {i \in 1..(L + 1) : rest[i] \in Seq(T \cup {m})}
<1>1. L \in Nat
    OBVIOUS
<1>2. ASSUME NEW i \in 1..(L + 1), \A k \in (i + 1)..(L + 1) : k \in S
      PROVE  i \in S
    <2>1. CASE i = L + 1
        <3>1. rest[L + 1] = <<>>
            BY <1>1, RestEnd
        <3>2. <<>> \in Seq(T \cup {m})
            OBVIOUS
        <3> QED BY <2>1, <3>1, <3>2
    <2>2. CASE i # L + 1
        <3>1. i \in 1..Len(v)
            BY <2>2, <1>1
        <3>2. After(r, v, i) \in (i + 1)..(L + 1)
            BY <3>1, AfterBounds
        <3>3. rest[After(r, v, i)] \in Seq(T \cup {m})
            BY <3>2, <1>2
        <3>4. Front(r, v, m, i) \in T \cup {m}
            <4>1. v[i] \in T
                BY <3>1
            <4> QED BY <4>1 DEF Front
        <3>5. <<Front(r, v, m, i)>> \o rest[After(r, v, i)] \in Seq(T \cup {m})
            BY <3>3, <3>4, Prefixed
        <3>6. rest[i] = <<Front(r, v, m, i)>> \o rest[After(r, v, i)]
            <4>1. RestFrom(r, v, m, rest, i)
                BY <1>1, <3>1, RestStep
            <4> QED BY <4>1 DEF RestFrom
        <3> QED BY <3>5, <3>6
    <2> QED BY <2>1, <2>2
<1> HIDE DEF S
<1>3. \A i \in 1..(L + 1) : i \in S
    BY <1>1, <1>2, Downward
<1> QED BY <1>3 DEF S

\* What ReplaceAllString adds at position i of v, and what it leaves behind it.
LEMMA RestShape ==
    ASSUME NEW T, NEW r, NEW v \in Seq(T), NEW m, NEW rest, IsRest(r, v, m, rest),
           NEW i \in 1..Len(v)
    PROVE  /\ After(r, v, i) \in (i + 1)..(Len(v) + 1)
           /\ Len(rest[After(r, v, i)]) \in Nat
           /\ Len(rest[i]) = Len(rest[After(r, v, i)]) + 1
           /\ rest[i][1] = Front(r, v, m, i)
           /\ \A j \in 1..Len(rest[After(r, v, i)]) :
                 rest[i][j + 1] = rest[After(r, v, i)][j]
<1>1. After(r, v, i) \in (i + 1)..(Len(v) + 1)
    BY AfterBounds
<1>2. rest[After(r, v, i)] \in Seq(T \cup {m})
    <2>1. After(r, v, i) \in 1..(Len(v) + 1)
        BY <1>1
    <2> QED BY <2>1, RestType
<1>3. Front(r, v, m, i) \in T \cup {m}
    <2>1. v[i] \in T
        OBVIOUS
    <2> QED BY <2>1 DEF Front
<1>4. rest[i] = <<Front(r, v, m, i)>> \o rest[After(r, v, i)]
    <2>1. Len(v) \in Nat
        OBVIOUS
    <2>2. RestFrom(r, v, m, rest, i)
        BY <2>1, RestStep
    <2> QED BY <2>2 DEF RestFrom
<1> DEFINE s == rest[After(r, v, i)]
           x == Front(r, v, m, i)
<1>5. s \in Seq(T \cup {m}) /\ x \in T \cup {m} /\ rest[i] = <<x>> \o s
    BY <1>2, <1>3, <1>4
<1>6. Len(s) \in Nat
    BY <1>2
<1> HIDE DEF s, x
<1>7. /\ Len(rest[i]) = Len(s) + 1
      /\ rest[i][1] = x
      /\ \A j \in 1..Len(s) : rest[i][j + 1] = s[j]
    BY <1>5, Prefixed
<1> QED BY <1>1, <1>6, <1>7 DEF s, x

Contains(s, m) == \E j \in 1..Len(s) : s[j] = m

\* A match leaves its marker behind.
LEMMA MarkerLeft ==
    ASSUME NEW T, NEW r, NEW v \in Seq(T), NEW m, NEW rest, IsRest(r, v, m, rest)
    PROVE  \A i \in 1..(Len(v) + 1) :
              (\E k \in i..Len(v) : MatchLength(r, v, k) > 0) => Contains(rest[i], m)
<1> DEFINE L == Len(v)
           Marked(i) == (\E k \in i..L : MatchLength(r, v, k) > 0) => Contains(rest[i], m)
           S == {i \in 1..(L + 1) : Marked(i)}
<1>1. L \in Nat
    OBVIOUS
<1>2. ASSUME NEW i \in 1..(L + 1), \A k \in (i + 1)..(L + 1) : k \in S
      PROVE  i \in S
    <2>1. SUFFICES ASSUME NEW k \in i..L, MatchLength(r, v, k) > 0
                   PROVE  Contains(rest[i], m)
        OBVIOUS
    <2>2. i \in 1..Len(v)
        BY <1>1
    <2>3. PICK a \in (i + 1)..(L + 1) :
             /\ a = After(r, v, i)
             /\ Len(rest[a]) \in Nat
             /\ Len(rest[i]) = Len(rest[a]) + 1
             /\ rest[i][1] = Front(r, v, m, i)
             /\ \A j \in 1..Len(rest[a]) : rest[i][j + 1] = rest[a][j]
        <3>1. /\ After(r, v, i) \in (i + 1)..(Len(v) + 1)
              /\ Len(rest[After(r, v, i)]) \in Nat
              /\ Len(rest[i]) = Len(rest[After(r, v, i)]) + 1
              /\ rest[i][1] = Front(r, v, m, i)
              /\ \A j \in 1..Len(rest[After(r, v, i)]) :
                    rest[i][j + 1] = rest[After(r, v, i)][j]
            BY <2>2, RestShape
        <3> QED BY <3>1
    <2>4. CASE MatchLength(r, v, i) > 0
        <3>1. rest[i][1] = m
            BY <2>3, <2>4 DEF Front
        <3>2. 1 \in 1..Len(rest[i])
            BY <2>3
        <3> QED BY <3>1, <3>2 DEF Contains
    <2>5. CASE ~(MatchLength(r, v, i) > 0)
        <3>1. a = i + 1
            BY <2>3, <2>5 DEF After
        <3>2. k # i
            BY <2>1, <2>5
        <3>3. k \in a..L
            BY <3>1, <3>2, <1>1
        <3>4. Marked(a)
            BY <1>2, <2>3
        <3>5. Contains(rest[a], m)
            BY <3>3, <3>4, <2>1
        <3>6. PICK j \in 1..Len(rest[a]) : rest[a][j] = m
            BY <3>5 DEF Contains
        <3>7. j + 1 \in 1..Len(rest[i]) /\ rest[i][j + 1] = m
            <4>1. Len(rest[a]) \in Nat /\ Len(rest[i]) = Len(rest[a]) + 1
                BY <2>3
            <4>2. j + 1 \in 1..Len(rest[i])
                BY <4>1
            <4>3. rest[i][j + 1] = rest[a][j]
                BY <2>3
            <4> QED BY <4>2, <4>3, <3>6
        <3> QED BY <3>7 DEF Contains
    <2> QED BY <2>4, <2>5
<1> HIDE DEF S
<1>3. \A i \in 1..(L + 1) : i \in S
    BY <1>1, <1>2, Downward
<1> QED BY <1>3 DEF S

\* The n tokens of s from p on hold no marker.
Unmarked(s, p, n, m) == p + n - 1 <= Len(s) /\ \A d \in 0..(n - 1) : s[p + d] # m

\* They are those of v from q on, where r has no match.
Copied(r, v, s, p, n, q) ==
    /\ q + n - 1 <= Len(v)
    /\ MatchLength(r, v, q) = 0
    /\ \A d \in 0..(n - 1) : s[p + d] = v[q + d]

\* Before the first marker, the result is the value it was made from.
LEMMA FrontCopied ==
    ASSUME NEW T, NEW r, NEW v \in Seq(T), NEW m, NEW rest, IsRest(r, v, m, rest)
    PROVE  \A i \in 1..(Len(v) + 1) : \A n \in Nat \ {0} :
              Unmarked(rest[i], 1, n, m) => Copied(r, v, rest[i], 1, n, i)
<1> DEFINE L == Len(v)
           Copies(i) == \A n \in Nat \ {0} :
                            Unmarked(rest[i], 1, n, m) => Copied(r, v, rest[i], 1, n, i)
           S == {i \in 1..(L + 1) : Copies(i)}
<1>1. L \in Nat
    OBVIOUS
<1>2. ASSUME NEW i \in 1..(L + 1), \A k \in (i + 1)..(L + 1) : k \in S
      PROVE  i \in S
    <2>1. SUFFICES ASSUME NEW n \in Nat \ {0}, Unmarked(rest[i], 1, n, m)
                   PROVE  Copied(r, v, rest[i], 1, n, i)
        OBVIOUS
    <2>2. i \in 1..Len(v)
        <3>1. CASE i = L + 1
            <4>1. rest[i] = <<>>
                BY <3>1, <1>1, RestEnd
            <4> QED BY <4>1, <2>1 DEF Unmarked
        <3> QED BY <3>1, <1>1
    <2>3. /\ After(r, v, i) \in (i + 1)..(Len(v) + 1)
          /\ Len(rest[After(r, v, i)]) \in Nat
          /\ Len(rest[i]) = Len(rest[After(r, v, i)]) + 1
          /\ rest[i][1] = Front(r, v, m, i)
          /\ \A j \in 1..Len(rest[After(r, v, i)]) :
                rest[i][j + 1] = rest[After(r, v, i)][j]
        BY <2>2, RestShape
    <2>4. n <= Len(rest[i]) /\ \A d \in 0..(n - 1) : rest[i][1 + d] # m
        BY <2>1 DEF Unmarked
    <2>5. rest[i][1] # m
        <3>1. 0 \in 0..(n - 1) /\ 1 + 0 = 1
            OBVIOUS
        <3> QED BY <2>4, <3>1
    <2>6. MatchLength(r, v, i) = 0
        <3>1. MatchLength(r, v, i) \in 0..Len(v)
            BY <2>2, MatchLengthBounds
        <3>2. ~(MatchLength(r, v, i) > 0)
            BY <2>3, <2>5 DEF Front
        <3> QED BY <3>1, <3>2
    <2>7. After(r, v, i) = i + 1 /\ rest[i][1] = v[i]
        BY <2>6, <2>3 DEF After, Front
    <2>8. CASE n = 1
        BY <2>8, <2>6, <2>7, <2>2 DEF Copied
    <2>9. CASE n # 1
        <3>1. n - 1 \in Nat \ {0}
            BY <2>9
        <3>2. \A d \in 0..(n - 2) : rest[i][1 + (d + 1)] = rest[i + 1][1 + d]
            BY <2>3, <2>4, <2>7
        <3>3. Unmarked(rest[i + 1], 1, n - 1, m)
            <4>1. \A d \in 0..(n - 2) : rest[i][1 + (d + 1)] # m
                BY <2>4
            <4>2. \A d \in 0..(n - 2) : rest[i + 1][1 + d] # m
                BY <4>1, <3>2
            <4>3. 1 + (n - 1) - 1 <= Len(rest[i + 1])
                BY <2>3, <2>4, <2>7
            <4> QED BY <4>2, <4>3 DEF Unmarked
        <3>4. Copied(r, v, rest[i + 1], 1, n - 1, i + 1)
            <4>1. Copies(i + 1)
                BY <1>2, <2>2
            <4> QED BY <4>1, <3>1, <3>3
        <3>5. /\ i + n - 1 <= Len(v)
              /\ \A d \in 0..(n - 2) : rest[i + 1][1 + d] = v[(i + 1) + d]
            BY <3>4, <1>1 DEF Copied
        <3>6. ASSUME NEW d \in 0..(n - 1) PROVE rest[i][1 + d] = v[i + d]
            <4>1. CASE d = 0
                BY <4>1, <2>7
            <4>2. CASE d # 0
                <5>1. d - 1 \in 0..(n - 2)
                    BY <4>2
                <5>2. rest[i][1 + ((d - 1) + 1)] = v[(i + 1) + (d - 1)]
                    BY <5>1, <3>2, <3>5
                <5>3. (d - 1) + 1 = d /\ (i + 1) + (d - 1) = i + d
                    OBVIOUS
                <5> QED BY <5>2, <5>3
            <4> QED BY <4>1, <4>2
        <3> QED BY <2>6, <3>5, <3>6 DEF Copied
    <2> QED BY <2>8, <2>9
<1> HIDE DEF S
<1>3. \A i \in 1..(L + 1) : i \in S
    BY <1>1, <1>2, Downward
<1> QED BY <1>3 DEF S

\* Anywhere in the result, what holds no marker is copied from the value.
LEMMA SliceCopied ==
    ASSUME NEW T, NEW r, NEW v \in Seq(T), NEW m, NEW rest, IsRest(r, v, m, rest)
    PROVE  \A i \in 1..(Len(v) + 1) : \A p, n \in Nat \ {0} :
              Unmarked(rest[i], p, n, m)
              => \E q \in i..Len(v) : Copied(r, v, rest[i], p, n, q)
<1> DEFINE L == Len(v)
           Copies(i) == \A p, n \in Nat \ {0} :
                            Unmarked(rest[i], p, n, m)
                            => \E q \in i..L : Copied(r, v, rest[i], p, n, q)
           S == {i \in 1..(L + 1) : Copies(i)}
<1>1. L \in Nat
    OBVIOUS
<1>2. ASSUME NEW i \in 1..(L + 1), \A k \in (i + 1)..(L + 1) : k \in S
      PROVE  i \in S
    <2>1. SUFFICES ASSUME NEW p \in Nat \ {0}, NEW n \in Nat \ {0},
                          Unmarked(rest[i], p, n, m)
                   PROVE  \E q \in i..L : Copied(r, v, rest[i], p, n, q)
        OBVIOUS
    <2>2. i \in 1..Len(v)
        <3>1. CASE i = L + 1
            <4>1. rest[i] = <<>>
                BY <3>1, <1>1, RestEnd
            <4> QED BY <4>1, <2>1 DEF Unmarked
        <3> QED BY <3>1, <1>1
    <2>3. CASE p = 1
        <3>1. Copied(r, v, rest[i], p, n, i)
            BY <2>1, <2>3, FrontCopied
        <3> QED BY <3>1, <2>2
    <2>4. CASE p # 1
        <3>1. PICK a \in (i + 1)..(L + 1) :
                 /\ Len(rest[a]) \in Nat
                 /\ Len(rest[i]) = Len(rest[a]) + 1
                 /\ \A j \in 1..Len(rest[a]) : rest[i][j + 1] = rest[a][j]
            <4>1. /\ After(r, v, i) \in (i + 1)..(Len(v) + 1)
                  /\ Len(rest[After(r, v, i)]) \in Nat
                  /\ Len(rest[i]) = Len(rest[After(r, v, i)]) + 1
                  /\ rest[i][1] = Front(r, v, m, i)
                  /\ \A j \in 1..Len(rest[After(r, v, i)]) :
                        rest[i][j + 1] = rest[After(r, v, i)][j]
                BY <2>2, RestShape
            <4> QED BY <4>1
        <3>2. Copies(a)
            BY <1>2, <3>1
        <3>3. p - 1 \in Nat \ {0}
            BY <2>4
        <3>4. p + n - 1 <= Len(rest[i]) /\ \A d \in 0..(n - 1) : rest[i][p + d] # m
            BY <2>1 DEF Unmarked
        <3>5. ASSUME NEW d \in 0..(n - 1) PROVE rest[i][p + d] = rest[a][(p - 1) + d]
            <4>1. (p - 1) + d \in 1..Len(rest[a]) /\ ((p - 1) + d) + 1 = p + d
                BY <3>1, <3>3, <3>4
            <4> QED BY <4>1, <3>1
        <3>6. Unmarked(rest[a], p - 1, n, m)
            <4>1. (p - 1) + n - 1 <= Len(rest[a])
                BY <3>1, <3>3, <3>4
            <4>2. \A d \in 0..(n - 1) : rest[a][(p - 1) + d] # m
                BY <3>4, <3>5
            <4> QED BY <4>1, <4>2 DEF Unmarked
        <3>7. PICK q \in a..L : Copied(r, v, rest[a], p - 1, n, q)
            BY <3>2, <3>3, <3>6
        <3>8. Copied(r, v, rest[i], p, n, q)
            BY <3>5, <3>7 DEF Copied
        <3>9. q \in i..L
            BY <3>1, <3>7
        <3> QED BY <3>8, <3>9
    <2> QED BY <2>3, <2>4
<1> HIDE DEF S
<1>3. \A i \in 1..(L + 1) : i \in S
    BY <1>1, <1>2, Downward
<1> QED BY <1>3 DEF S

-----------------------------------------------------------------------------
(* What the redactors rely on.                                             *)

\* MatchString holds as soon as some words match somewhere.
LEMMA MatchFound ==
    ASSUME NEW T, NEW r, NEW v \in Seq(T), NEW i \in 1..Len(v), NEW n \in 1..Len(v),
           Matches(r, v, i, n)
    PROVE  MatchLength(r, v, i) > 0 /\ MatchString(r, v)
<1>1. MatchLength(r, v, i) > 0
    BY MatchLengthBounds
<1> QED BY <1>1 DEF MatchString

\* MatchString: there is a word of the pattern to match somewhere.
LEMMA MatchWitness ==
    ASSUME NEW T, NEW r, NEW v \in Seq(T), MatchString(r, v)
    PROVE  \E i \in 1..Len(v), n \in 1..Len(v) : Matches(r, v, i, n)
<1>1. PICK i \in 1..Len(v) : MatchLength(r, v, i) > 0
    BY DEF MatchString
<1> DEFINE lengths == {n \in 1..Len(v) : Matches(r, v, i, n)}
<1>2. lengths # {}
    <2>1. lengths = {} => MatchLength(r, v, i) = 0
        BY DEF MatchLength
    <2> QED BY <1>1, <2>1
<1> QED BY <1>2

\* ReplaceAllString returns a value, with the marker in it when there was a match.
LEMMA Replaced ==
    ASSUME NEW T, NEW r, NEW v \in Seq(T), NEW m
    PROVE  /\ ReplaceAllString(r, v, m) \in Seq(T \cup {m})
           /\ MatchString(r, v) => Contains(ReplaceAllString(r, v, m), m)
<1>1. PICK rest : IsRest(r, v, m, rest) /\ ReplaceAllString(r, v, m) = rest[1]
    BY ReplaceIsRest
<1>2. Len(v) \in Nat /\ 1 \in 1..(Len(v) + 1)
    OBVIOUS
<1>3. rest[1] \in Seq(T \cup {m})
    BY <1>1, <1>2, RestType
<1>4. MatchString(r, v) => Contains(rest[1], m)
    BY <1>1, <1>2, MarkerLeft DEF MatchString
<1> QED BY <1>1, <1>3, <1>4

\* An expression without a boundary condition, whose words hold no marker.
PlainPattern(r) ==
    /\ r.notBefore = {}
    /\ \A w \in r.words : ~Contains(w, RedactedPattern)

\* What a plain pattern matches in the result, it matches in the value, at a
\* place where the replaced pattern matches nothing.
LEMMA NoNewMatch ==
    ASSUME NEW T, NEW r, NEW v \in Seq(T), NEW p, PlainPattern(p),
           MatchString(p, ReplaceAllString(r, v, RedactedPattern))
    PROVE  \E q \in 1..Len(v), n \in 1..Len(v) :
              Matches(p, v, q, n) /\ MatchLength(r, v, q) = 0
<1> DEFINE m == RedactedPattern
<1>1. PICK rest : IsRest(r, v, m, rest) /\ ReplaceAllString(r, v, m) = rest[1]
    BY ReplaceIsRest
<1> DEFINE s == rest[1]
<1>2. Len(v) \in Nat /\ 1 \in 1..(Len(v) + 1)
    OBVIOUS
<1>3. s \in Seq(T \cup {m}) /\ MatchString(p, s)
    BY <1>1, <1>2, RestType
<1> HIDE DEF s
<1>4. PICK i \in 1..Len(s) : \E n \in 1..Len(s) : Matches(p, s, i, n)
    BY <1>3, MatchWitness
<1>5. PICK n \in 1..Len(s) : Matches(p, s, i, n)
    BY <1>4
<1>6. i + n - 1 <= Len(s) /\ Word(s, i, n) \in p.words
    BY <1>5 DEF Matches
<1>7. /\ Len(Word(s, i, n)) = n
      /\ \A d \in 0..(n - 1) : Word(s, i, n)[d + 1] = s[i + d]
    BY <1>3, <1>6 DEF Word
<1>8. Unmarked(s, i, n, m)
    <2>1. ~Contains(Word(s, i, n), m)
        BY <1>6 DEF PlainPattern
    <2>2. ASSUME NEW d \in 0..(n - 1) PROVE s[i + d] # m
        <3>1. d + 1 \in 1..Len(Word(s, i, n))
            BY <1>7
        <3> QED BY <3>1, <2>1, <1>7 DEF Contains
    <2> QED BY <1>6, <2>2 DEF Unmarked
<1>9. PICK q \in 1..Len(v) : Copied(r, v, s, i, n, q)
    <2>1. i \in Nat \ {0} /\ n \in Nat \ {0}
        OBVIOUS
    <2> QED BY <1>1, <1>2, <1>8, <2>1, SliceCopied DEF s
<1>10. /\ q + n - 1 <= Len(v) /\ MatchLength(r, v, q) = 0
       /\ \A d \in 0..(n - 1) : s[i + d] = v[q + d]
    BY <1>9 DEF Copied
<1>11. Word(v, q, n) = Word(s, i, n)
    <2>1. /\ Word(v, q, n) \in Seq(T \cup {m}) /\ Len(Word(v, q, n)) = n
          /\ \A d \in 0..(n - 1) : Word(v, q, n)[d + 1] = v[q + d]
        BY <1>10 DEF Word
    <2>2. Word(s, i, n) \in Seq(T \cup {m})
        BY <1>3, <1>6 DEF Word
    <2>3. ASSUME NEW j \in 1..n PROVE Word(v, q, n)[j] = Word(s, i, n)[j]
        <3>1. j - 1 \in 0..(n - 1) /\ (j - 1) + 1 = j
            OBVIOUS
        <3> QED BY <3>1, <2>1, <1>7, <1>10
    <2> QED BY <2>1, <2>2, <2>3, <1>7, SeqEqual
<1>12. Matches(p, v, q, n)
    BY <1>6, <1>10, <1>11 DEF Matches, PlainPattern
<1>13. n \in 1..Len(v)
    BY <1>2, <1>10
<1> QED BY <1>10, <1>12, <1>13

\* Having replaced the matches of a plain pattern leaves none of it, and none of
\* another plain pattern that had none.
LEMMA StaysClean ==
    ASSUME NEW T, NEW r, PlainPattern(r), NEW v \in Seq(T)
    PROVE  LET w == ReplaceAllString(r, v, RedactedPattern) IN
           /\ ~MatchString(r, w)
           /\ \A p : PlainPattern(p) /\ ~MatchString(p, v) => ~MatchString(p, w)
<1> DEFINE w == ReplaceAllString(r, v, RedactedPattern)
<1>1. ASSUME MatchString(r, w) PROVE FALSE
    <2>1. PICK q \in 1..Len(v) :
                \E n \in 1..Len(v) : Matches(r, v, q, n) /\ MatchLength(r, v, q) = 0
        BY <1>1, NoNewMatch
    <2>2. MatchLength(r, v, q) > 0
        BY <2>1, MatchFound
    <2> QED BY <2>1, <2>2
<1>2. ASSUME NEW p, PlainPattern(p), ~MatchString(p, v), MatchString(p, w) PROVE FALSE
    <2>1. PICK q \in 1..Len(v) : \E n \in 1..Len(v) : Matches(p, v, q, n)
        BY <1>2, NoNewMatch
    <2> QED BY <2>1, <1>2, MatchFound
<1> QED BY <1>1, <1>2

-----------------------------------------------------------------------------
(* Types, and where the loop over the attributes stands.                   *)

\* The tokens a value may be made of on its way through the redactors.
Sanitized == Tokens \cup {RedactedEmail, RedactedPattern}

ShapeInv ==
    /\ TypeOK
    /\ patterns \in Seq(Expressions)
    /\ pc # "pattern" => key = NoKey /\ step = 0
    /\ pc = "pattern" => key \in Attributes \ (todo \cup SensitiveKeys)
    /\ pc = "pattern" => value \in Seq(Sanitized)
    /\ pc = "policy" => todo = Attributes
    /\ pc = "done" => todo = {}

\* An attribute's value as received is a sequence of tokens.
LEMMA RawValue ==
    ASSUME raw \in Inputs, NEW k \in Attributes
    PROVE  raw[k] \in Seq(Tokens) /\ raw[k] \in Seq(Sanitized)
<1>1. raw \in [Attributes -> Seq(Tokens)]
    BY InputAssumption
<1>2. raw[k] \in Seq(Tokens)
    BY <1>1
<1> QED BY <1>2, SeqMonotonic DEF Sanitized

\* The composed patterns are expressions somebody configured: all of those.
LEMMA Composition ==
    ASSUME policy \in TenantPolicies \cup {NoPolicy}
    PROVE  Compose \in Seq(Expressions) /\ Range(Compose) = Configured
<1>1. Deployment \in Seq(Expressions)
    BY PolicyAssumption
<1>2. CASE policy = NoPolicy
    BY <1>1, <1>2 DEF Compose, Configured
<1>3. CASE policy # NoPolicy
    <2>1. policy \in Seq(Expressions)
        BY <1>3, PolicyAssumption
    <2>2. /\ Deployment \o policy \in Seq(Expressions)
          /\ Range(Deployment \o policy) = Range(Deployment) \cup Range(policy)
        BY <1>1, <2>1, ConcatProperties, RangeConcatenation
    <2> QED BY <1>3, <2>2 DEF Compose, Configured
<1> QED BY <1>2, <1>3

\* Every redactor makes a value of a value.
LEMMA RedactorType ==
    ASSUME NEW r, NEW v \in Seq(Sanitized)
    PROVE  /\ ReplaceAllString(r, v, RedactedEmail) \in Seq(Sanitized)
           /\ ReplaceAllString(r, v, RedactedPattern) \in Seq(Sanitized)
<1>1. /\ Sanitized \cup {RedactedEmail} = Sanitized
      /\ Sanitized \cup {RedactedPattern} = Sanitized
    BY DEF Sanitized
<1>2. /\ ReplaceAllString(r, v, RedactedEmail) \in Seq(Sanitized \cup {RedactedEmail})
      /\ ReplaceAllString(r, v, RedactedPattern) \in Seq(Sanitized \cup {RedactedPattern})
    BY Replaced
<1> QED BY <1>1, <1>2

\* Initially nothing has been taken from the map.
LEMMA ShapeInit == Init => ShapeInv
<1> SUFFICES ASSUME Init PROVE ShapeInv
    OBVIOUS
<1>1. <<>> \in Seq(Expressions) /\ Len(<<>>) = 0 /\ DOMAIN <<>> = {}
    OBVIOUS
<1>2. TypeOK
    <2>1. DOMAIN out = {} /\ step \in 0..Len(patterns)
        BY <1>1 DEF Init
    <2>2. Attributes \ (todo \cup {key}) = {}
        BY DEF Init
    <2> QED BY <2>1, <2>2 DEF Init, TypeOK
<1> QED BY <1>1, <1>2 DEF Init, ShapeInv

\* Every step of Sanitize keeps the shape of its state.
LEMMA ShapeStep == ShapeInv /\ [Next]_vars => ShapeInv'
<1> SUFFICES ASSUME ShapeInv, [Next]_vars PROVE ShapeInv'
    OBVIOUS
<1> USE DEF ShapeInv, TypeOK
<1>1. CASE ResolvePolicy
    <2>1. policy \in TenantPolicies \cup {NoPolicy}
        BY <1>1 DEF ResolvePolicy
    <2>2. patterns' \in Seq(Expressions)
        BY <2>1, <1>1, Composition DEF ResolvePolicy
    <2>3. step' \in 0..Len(patterns')
        BY <2>2, <1>1 DEF ResolvePolicy
    <2> QED BY <2>2, <2>3, <1>1 DEF ResolvePolicy
<1>2. CASE RefusePolicy
    BY <1>2 DEF RefusePolicy
<1>3. CASE RedactSensitive
    <2>1. PICK k \in todo \cap SensitiveKeys :
              /\ pc = "attribute"
              /\ out' = Put(k, <<Redacted>>)
              /\ receipt' = receipt \cup {k}
              /\ todo' = todo \ {k}
              /\ UNCHANGED <<raw, policy, patterns, pc, key, step, value, redacted>>
        BY <1>3 DEF RedactSensitive
    <2>2. DOMAIN out' = Attributes \ (todo' \cup {key'})
        BY <2>1, InputAssumption DEF Put
    <2>3. receipt' \subseteq DOMAIN out'
        BY <2>1 DEF Put
    <2> QED BY <2>1, <2>2, <2>3
<1>4. CASE RedactEmail
    <2>1. PICK k \in todo \ SensitiveKeys :
              /\ pc = "attribute"
              /\ key' = k /\ todo' = todo \ {k}
              /\ redacted' = MatchString(Email, raw[k])
              /\ value' = IF MatchString(Email, raw[k])
                          THEN ReplaceAllString(Email, raw[k], RedactedEmail) ELSE raw[k]
              /\ step' = 0
              /\ pc' = "pattern"
              /\ UNCHANGED <<raw, policy, patterns, out, receipt>>
        BY <1>4 DEF RedactEmail
    <2>2. DOMAIN out' = Attributes \ (todo' \cup {key'})
        BY <2>1, InputAssumption
    <2>3. value' \in Seq(Sanitized)
        BY <2>1, RawValue, RedactorType
    <2>4. step' \in 0..Len(patterns')
        BY <2>1
    <2>5. redacted' \in BOOLEAN
        BY <2>1 DEF MatchString
    <2> QED BY <2>1, <2>2, <2>3, <2>4, <2>5
<1>5. CASE RedactPattern
    <2>1. value' \in Seq(Sanitized)
        BY <1>5, RedactorType DEF RedactPattern
    <2>2. step' \in 0..Len(patterns')
        BY <1>5 DEF RedactPattern
    <2>3. redacted' \in BOOLEAN
        BY <1>5 DEF RedactPattern, MatchString
    <2> QED BY <1>5, <2>1, <2>2, <2>3 DEF RedactPattern
<1>6. CASE FinishAttribute
    <2>1. DOMAIN out' = Attributes \ (todo' \cup {key'})
        BY <1>6, InputAssumption DEF FinishAttribute, Put
    <2>2. receipt' \subseteq DOMAIN out'
        BY <1>6 DEF FinishAttribute, Put
    <2>3. step' \in 0..Len(patterns')
        BY <1>6 DEF FinishAttribute
    <2> QED BY <1>6, <2>1, <2>2, <2>3 DEF FinishAttribute
<1>7. CASE Return
    BY <1>7 DEF Return
<1>8. CASE UNCHANGED vars
    BY <1>8 DEF vars
<1> QED BY <1>1, <1>2, <1>3, <1>4, <1>5, <1>6, <1>7, <1>8 DEF Next

\* Type correctness: Sanitize's state keeps its types, and its output holds exactly
\* the attributes the loop is done with (redaction.Sanitize, redaction.go).
THEOREM TypeCorrect == Spec => []TypeOK
<1>1. ShapeInv => TypeOK
    BY DEF ShapeInv
<1> QED BY ShapeInit, ShapeStep, <1>1, PTL DEF Spec

-----------------------------------------------------------------------------
(* The receipt.                                                            *)

\* What is not in the receipt was kept.
ReportInv ==
    /\ pc = "pattern" /\ ~redacted => value = raw[key]
    /\ \A k \in DOMAIN out \ receipt : k \notin SensitiveKeys /\ out[k] = raw[k]

\* Initially there is no output.
LEMMA ReportInit == Init => ReportInv
    BY DEF Init, ReportInv

\* What a redactor takes from an attribute, it marks as redacted, and the receipt
\* then names the attribute.
LEMMA ReportStep == ShapeInv /\ ReportInv /\ [Next]_vars => ReportInv'
<1> SUFFICES ASSUME ShapeInv, ReportInv, [Next]_vars PROVE ReportInv'
    OBVIOUS
<1> USE DEF ReportInv
<1>1. CASE ResolvePolicy
    BY <1>1 DEF ResolvePolicy
<1>2. CASE RefusePolicy
    BY <1>2 DEF RefusePolicy
<1>3. CASE RedactSensitive
    <2>1. PICK k \in todo \cap SensitiveKeys :
              /\ pc = "attribute"
              /\ out' = Put(k, <<Redacted>>)
              /\ receipt' = receipt \cup {k}
              /\ UNCHANGED <<raw, pc, key, value, redacted>>
        BY <1>3 DEF RedactSensitive
    <2> QED BY <2>1 DEF Put
<1>4. CASE RedactEmail
    BY <1>4 DEF RedactEmail
<1>5. CASE RedactPattern
    BY <1>5 DEF RedactPattern
<1>6. CASE FinishAttribute
    <2>1. key \notin SensitiveKeys
        BY <1>6 DEF FinishAttribute, ShapeInv
    <2>2. ASSUME NEW k \in DOMAIN out' \ receipt'
          PROVE  k \notin SensitiveKeys /\ out'[k] = raw'[k]
        <3>1. CASE k = key
            BY <1>6, <2>1, <2>2, <3>1 DEF FinishAttribute, Put
        <3>2. CASE k # key
            BY <1>6, <2>2, <3>2 DEF FinishAttribute, Put
        <3> QED BY <3>1, <3>2
    <2> QED BY <1>6, <2>2 DEF FinishAttribute
<1>7. CASE Return
    BY <1>7 DEF Return
<1>8. CASE UNCHANGED vars
    BY <1>8 DEF vars
<1> QED BY <1>1, <1>2, <1>3, <1>4, <1>5, <1>6, <1>7, <1>8 DEF Next

\* The markers are no tokens of a value: a client that sends the text of one can
\* have it replaced by itself.
MarkersForeign == RedactedEmail \notin Tokens /\ RedactedPattern \notin Tokens

\* A redacted value is not the one received: it holds a marker.
Marked(v) == Contains(v, RedactedEmail) \/ Contains(v, RedactedPattern)
MarkedInv ==
    /\ pc = "pattern" /\ redacted => Marked(value)
    /\ \A k \in receipt \ SensitiveKeys : Marked(out[k])

\* Initially the receipt is empty.
LEMMA MarkedInit == Init => MarkedInv
    BY DEF Init, MarkedInv

\* Every redactor that replaces something leaves its marker, over whichever one it
\* may have replaced.
LEMMA MarkedStep == ShapeInv /\ MarkedInv /\ [Next]_vars => MarkedInv'
<1> SUFFICES ASSUME ShapeInv, MarkedInv, [Next]_vars PROVE MarkedInv'
    OBVIOUS
<1> USE DEF MarkedInv
<1>1. CASE ResolvePolicy
    BY <1>1 DEF ResolvePolicy
<1>2. CASE RefusePolicy
    BY <1>2 DEF RefusePolicy
<1>3. CASE RedactSensitive
    <2>1. PICK k \in todo \cap SensitiveKeys :
              /\ pc = "attribute"
              /\ out' = Put(k, <<Redacted>>)
              /\ receipt' = receipt \cup {k}
              /\ UNCHANGED <<raw, pc, key, value, redacted>>
        BY <1>3 DEF RedactSensitive
    <2>2. receipt \subseteq DOMAIN out
        BY DEF ShapeInv, TypeOK
    <2> QED BY <2>1, <2>2 DEF Put
<1>4. CASE RedactEmail
    <2>1. PICK k \in todo \ SensitiveKeys :
              /\ redacted' = MatchString(Email, raw[k])
              /\ value' = IF MatchString(Email, raw[k])
                          THEN ReplaceAllString(Email, raw[k], RedactedEmail) ELSE raw[k]
              /\ UNCHANGED <<out, receipt>>
        BY <1>4 DEF RedactEmail
    <2>2. raw[k] \in Seq(Tokens)
        BY RawValue DEF ShapeInv, TypeOK
    <2>3. redacted' => Contains(value', RedactedEmail)
        BY <2>1, <2>2, Replaced
    <2> QED BY <2>1, <2>3 DEF Marked
<1>5. CASE RedactPattern
    <2> DEFINE r == patterns[step + 1]
    <2>1. /\ pc = "pattern"
          /\ redacted' = (redacted \/ MatchString(r, value))
          /\ value' = IF MatchString(r, value)
                      THEN ReplaceAllString(r, value, RedactedPattern) ELSE value
          /\ UNCHANGED <<out, receipt>>
        BY <1>5 DEF RedactPattern
    <2>2. value \in Seq(Sanitized)
        BY <2>1 DEF ShapeInv
    <2>3. CASE MatchString(r, value)
        <3>1. Contains(value', RedactedPattern)
            BY <2>1, <2>2, <2>3, Replaced
        <3> QED BY <2>1, <3>1 DEF Marked
    <2>4. CASE ~MatchString(r, value)
        BY <2>1, <2>4 DEF Marked
    <2> QED BY <2>3, <2>4
<1>6. CASE FinishAttribute
    <2>1. receipt \subseteq DOMAIN out
        BY DEF ShapeInv, TypeOK
    <2>2. ASSUME NEW k \in receipt' \ SensitiveKeys PROVE Marked(out'[k])
        <3>1. CASE k = key
            <4>1. k \notin receipt
                BY <3>1, <1>6, <2>1 DEF FinishAttribute, ShapeInv, TypeOK
            <4> QED BY <1>6, <2>2, <3>1, <4>1 DEF FinishAttribute, Put
        <3>2. CASE k # key
            BY <1>6, <2>1, <2>2, <3>2 DEF FinishAttribute, Put
        <3> QED BY <3>1, <3>2
    <2> QED BY <1>6, <2>2 DEF FinishAttribute
<1>7. CASE Return
    BY <1>7 DEF Return
<1>8. CASE UNCHANGED vars
    BY <1>8 DEF vars
<1> QED BY <1>1, <1>2, <1>3, <1>4, <1>5, <1>6, <1>7, <1>8 DEF Next

\* Once the loop is done, every attribute has been sanitized.
LEMMA DoneComplete == ShapeInv /\ pc = "done" => DOMAIN out = Attributes
    BY InputAssumption DEF ShapeInv, TypeOK

\* An attribute that RedactedPaths does not name was not sensitive and is returned
\* as it was received, whatever the client sent and whatever is configured.
THEOREM NothingUnreported ==
    Spec => [](pc = "done" =>
                 \A k \in Attributes \ receipt : k \notin SensitiveKeys /\ out[k] = raw[k])
<1> DEFINE Kept == pc = "done" =>
                 \A k \in Attributes \ receipt : k \notin SensitiveKeys /\ out[k] = raw[k]
<1>1. ShapeInv /\ ReportInv => Kept
    BY DoneComplete DEF ReportInv
<1> HIDE DEF Kept
<1>2. Spec => []Kept
    BY ShapeInit, ShapeStep, ReportInit, ReportStep, <1>1, PTL DEF Spec
<1> QED BY <1>2 DEF Kept

\* Where no client sends the text of a marker, RedactedPaths names exactly the
\* attributes whose value was replaced (RedactedPaths, redaction.go).
THEOREM ReceiptIsExact ==
    ASSUME MarkersForeign
    PROVE  Spec => []ReceiptExact
<1>1. ASSUME ShapeInv, ReportInv, MarkedInv PROVE ReceiptExact
    <2>1. SUFFICES ASSUME pc = "done"
                   PROVE  receipt = {k \in Attributes : k \in SensitiveKeys \/ out[k] # raw[k]}
        BY DEF ReceiptExact
    <2>2. DOMAIN out = Attributes /\ receipt \subseteq Attributes
        BY <1>1, <2>1, DoneComplete DEF ShapeInv, TypeOK
    <2>3. ASSUME NEW k \in receipt, k \notin SensitiveKeys PROVE out[k] # raw[k]
        <3>1. Marked(out[k])
            BY <1>1, <2>3 DEF MarkedInv
        <3>2. raw[k] \in Seq(Tokens)
            BY <1>1, <2>2, RawValue DEF ShapeInv, TypeOK
        <3>3. ~Marked(raw[k])
            <4>1. \A j \in 1..Len(raw[k]) : raw[k][j] \in Tokens
                BY <3>2
            <4> QED BY <4>1 DEF Marked, Contains, MarkersForeign
        <3> QED BY <3>1, <3>3
    <2> QED BY <1>1, <2>2, <2>3 DEF ReportInv
<1> QED BY ShapeInit, ShapeStep, ReportInit, ReportStep, MarkedInit, MarkedStep, <1>1, PTL DEF Spec

-----------------------------------------------------------------------------
(* The patterns.                                                           *)

\* No configured expression has a boundary condition or matches a marker: what \b
\* kept from a match, or a marker, could otherwise be matched after a replacement.
PatternsPlain == \A r \in Expressions : PlainPattern(r)

\* What is sanitized holds no match of a configured pattern; the value at work on
\* holds none of those that have run.
CleanInv ==
    /\ pc \notin {"policy", "refused"} => Range(patterns) = Configured
    /\ pc = "pattern" => \A j \in 1..step : ~MatchString(patterns[j], value)
    /\ \A k \in DOMAIN out \ SensitiveKeys :
          \A j \in 1..Len(patterns) : ~MatchString(patterns[j], out[k])

\* Initially nothing has been composed and nothing sanitized.
LEMMA CleanInit == Init => CleanInv
    BY DEF Init, CleanInv

\* A pattern that runs leaves no match of itself and brings about none of the ones
\* before it.
LEMMA CleanStep ==
    ASSUME PatternsPlain
    PROVE  ShapeInv /\ ReportInv /\ CleanInv /\ [Next]_vars => CleanInv'
<1> SUFFICES ASSUME ShapeInv, ReportInv, CleanInv, [Next]_vars PROVE CleanInv'
    OBVIOUS
<1> USE DEF CleanInv
<1>1. CASE ResolvePolicy
    <2>1. DOMAIN out = {}
        BY <1>1 DEF ResolvePolicy, ShapeInv, TypeOK
    <2>2. policy \in TenantPolicies \cup {NoPolicy}
        BY <1>1 DEF ResolvePolicy, ShapeInv, TypeOK
    <2>3. Range(patterns') = Configured'
        BY <1>1, <2>2, Composition DEF ResolvePolicy, Configured
    <2> QED BY <1>1, <2>1, <2>3 DEF ResolvePolicy
<1>2. CASE RefusePolicy
    BY <1>2 DEF RefusePolicy
<1>3. CASE RedactSensitive
    <2>1. PICK k \in todo \cap SensitiveKeys :
              /\ pc = "attribute"
              /\ out' = Put(k, <<Redacted>>)
              /\ UNCHANGED <<policy, patterns, pc, key, step, value>>
        BY <1>3 DEF RedactSensitive
    <2> QED BY <2>1 DEF Put, Configured
<1>4. CASE RedactEmail
    BY <1>4 DEF RedactEmail, Configured
<1>5. CASE RedactPattern
    <2> DEFINE r == patterns[step + 1]
    <2>1. /\ pc = "pattern" /\ step < Len(patterns)
          /\ step' = step + 1
          /\ value' = IF MatchString(r, value)
                      THEN ReplaceAllString(r, value, RedactedPattern) ELSE value
          /\ UNCHANGED <<policy, patterns, pc, out>>
        BY <1>5 DEF RedactPattern
    <2>2. /\ value \in Seq(Sanitized) /\ patterns \in Seq(Expressions)
          /\ step \in 0..Len(patterns)
        BY <2>1 DEF ShapeInv, TypeOK
    <2>3. \A j \in 1..Len(patterns) : PlainPattern(patterns[j])
        BY <2>2 DEF PatternsPlain
    <2>4. step + 1 \in 1..Len(patterns)
        BY <2>1, <2>2
    <2>5. PlainPattern(r)
        BY <2>3, <2>4
    <2>6. ~MatchString(r, value')
          /\ \A p : PlainPattern(p) /\ ~MatchString(p, value) => ~MatchString(p, value')
        <3>1. CASE MatchString(r, value)
            <4>1. value' = ReplaceAllString(r, value, RedactedPattern)
                BY <2>1, <3>1
            <4> HIDE DEF r
            <4> QED BY <4>1, <2>2, <2>5, StaysClean
        <3>2. CASE ~MatchString(r, value)
            <4>1. value' = value
                BY <2>1, <3>2
            <4> QED BY <3>2, <4>1
        <3> QED BY <3>1, <3>2
    <2>7. ASSUME NEW j \in 1..step' PROVE ~MatchString(patterns[j], value')
        <3>1. CASE j = step + 1
            BY <3>1, <2>6
        <3>2. CASE j # step + 1
            <4>1. j \in 1..step /\ j \in 1..Len(patterns)
                BY <3>2, <2>1, <2>2
            <4> QED BY <4>1, <2>1, <2>3, <2>6
        <3> QED BY <3>1, <3>2
    <2> QED BY <2>1, <2>7 DEF Configured
<1>6. CASE FinishAttribute
    <2>1. /\ pc = "pattern" /\ step = Len(patterns)
          /\ out' = Put(key, IF redacted THEN value ELSE raw[key])
          /\ pc' = "attribute"
          /\ UNCHANGED <<policy, patterns>>
        BY <1>6 DEF FinishAttribute
    <2>2. out' = Put(key, value)
        BY <2>1 DEF ReportInv
    <2>3. ASSUME NEW k \in DOMAIN out' \ SensitiveKeys, NEW j \in 1..Len(patterns)
          PROVE  ~MatchString(patterns[j], out'[k])
        <3>1. CASE k = key
            <4>1. out'[k] = value
                BY <2>2, <2>3, <3>1 DEF Put
            <4> QED BY <4>1, <2>1, <2>3
        <3>2. CASE k # key
            <4>1. k \in DOMAIN out \ SensitiveKeys /\ out'[k] = out[k]
                BY <2>2, <2>3, <3>2 DEF Put
            <4> QED BY <4>1, <2>3
        <3> QED BY <3>1, <3>2
    <2> QED BY <2>1, <2>3 DEF Configured
<1>7. CASE Return
    BY <1>7 DEF Return, Configured
<1>8. CASE UNCHANGED vars
    BY <1>8 DEF vars, Configured
<1> QED BY <1>1, <1>2, <1>3, <1>4, <1>5, <1>6, <1>7, <1>8 DEF Next

\* Where the configured expressions are plain, a sanitized value holds no match of
\* any of them, in whatever order they ran and however they overlap (Sanitize's
\* loop over the patterns, redaction.go).
THEOREM PatternsStayClean ==
    ASSUME PatternsPlain
    PROVE  Spec => []PatternsClean
<1>1. ASSUME ShapeInv, CleanInv PROVE PatternsClean
    <2>1. SUFFICES ASSUME pc = "done", NEW k \in Plain, NEW r \in Configured
                   PROVE  ~MatchString(r, out[k])
        BY DEF PatternsClean, PatternFree
    <2>2. k \in DOMAIN out \ SensitiveKeys
        BY <1>1, <2>1, DoneComplete DEF Plain
    <2>3. r \in Range(patterns) /\ patterns \in Seq(Expressions)
        BY <1>1, <2>1 DEF CleanInv, ShapeInv
    <2>4. PICK j \in 1..Len(patterns) : patterns[j] = r
        BY <2>3, RangeEquality
    <2> QED BY <1>1, <2>2, <2>4 DEF CleanInv
<1>2. ShapeInv /\ ReportInv /\ CleanInv /\ [Next]_vars => CleanInv'
    BY CleanStep
<1> QED BY ShapeInit, ShapeStep, ReportInit, ReportStep, CleanInit, <1>1, <1>2, PTL DEF Spec

-----------------------------------------------------------------------------
(* All replacements at once.                                               *)

\* A match is the longest there is.
LEMMA MatchLengthLongest ==
    ASSUME NEW T, NEW r, NEW v \in Seq(T), NEW i \in 1..Len(v)
    PROVE  /\ MatchLength(r, v, i) > 0 => Matches(r, v, i, MatchLength(r, v, i))
           /\ \A n \in 1..Len(v) : Matches(r, v, i, n) => n <= MatchLength(r, v, i)
<1> DEFINE lengths == {n \in 1..Len(v) : Matches(r, v, i, n)}
<1>1. CASE lengths = {}
    <2>1. MatchLength(r, v, i) = 0
        BY <1>1 DEF MatchLength
    <2> QED BY <1>1, <2>1
<1>2. CASE lengths # {}
    <2>1. Len(v) \in Nat /\ lengths \in SUBSET (0..Len(v))
        OBVIOUS
    <2>2. MatchLength(r, v, i) = CHOOSE n \in lengths : \A m \in lengths : m <= n
        BY <1>2 DEF MatchLength
    <2>3. MatchLength(r, v, i) \in lengths /\ \A m \in lengths : m <= MatchLength(r, v, i)
        <3> HIDE DEF lengths
        <3>1. \E n \in lengths : \A m \in lengths : m <= n
            BY <1>2, <2>1, LargestElement
        <3> QED BY <2>2, <3>1
    <2> QED BY <2>3
<1> QED BY <1>1, <1>2

\* What a scan of v finds from each position on.
FoundFrom(r, v, f, i) ==
    IF MatchLength(r, v, i) > 0
    THEN {<<i, MatchLength(r, v, i)>>} \cup f[i + MatchLength(r, v, i)]
    ELSE f[i + 1]
IsFound(r, v, f) ==
    f = [i \in 1..(Len(v) + 1) |-> IF i > Len(v) THEN {} ELSE FoundFrom(r, v, f, i)]

\* There is such a function.
LEMMA FoundExists ==
    ASSUME NEW T, NEW r, NEW v \in Seq(T)
    PROVE  \E f : IsFound(r, v, f)
<1> DEFINE L == Len(v)
           Step(f, i) == IF i > L THEN {} ELSE FoundFrom(r, v, f, i)
           Upto(f, i) == /\ f = [k \in i..(L + 1) |-> f[k]]
                         /\ \A k \in i..(L + 1) : f[k] = Step(f, k)
           S == {i \in 1..(L + 1) : \E f : Upto(f, i)}
<1>1. L \in Nat
    OBVIOUS
<1>2. ASSUME NEW i \in 1..(L + 1), \A k \in (i + 1)..(L + 1) : k \in S
      PROVE  i \in S
    <2>1. PICK f : i = L + 1 \/ Upto(f, i + 1)
        <3>1. i # L + 1 => i + 1 \in S
            <4> HIDE DEF S
            <4> QED BY <1>1, <1>2
        <3> HIDE DEF Upto
        <3> QED BY <3>1
    <2> DEFINE g == [k \in i..(L + 1) |-> IF k = i THEN Step(f, i) ELSE f[k]]
    <2>2. ASSUME NEW k \in i..(L + 1) PROVE g[k] = Step(g, k)
        <3>0. k # i => f[k] = Step(f, k)
            <4>1. k # i => i # L + 1 /\ k \in (i + 1)..(L + 1)
                BY <1>1
            <4> HIDE DEF Step
            <4> QED BY <4>1, <2>1
        <3>1. g[k] = Step(f, k)
            <4> HIDE DEF Step
            <4> QED BY <3>0
        <3>2. CASE k > L
            BY <3>1, <3>2
        <3>3. CASE k <= L
            <4>1. k \in 1..Len(v)
                BY <3>3, <1>1
            <4>2. k + MatchLength(r, v, k) \in 1..(L + 1) /\ MatchLength(r, v, k) \in Nat
                <5>1. /\ MatchLength(r, v, k) \in 0..Len(v)
                      /\ k + MatchLength(r, v, k) <= Len(v) + 1
                    BY <4>1, MatchLengthBounds
                <5> QED BY <4>1, <5>1, <1>1
            <4>3. g[k + 1] = f[k + 1]
                BY <4>1, <1>1
            <4>4. MatchLength(r, v, k) > 0
                  => g[k + MatchLength(r, v, k)] = f[k + MatchLength(r, v, k)]
                BY <4>1, <4>2, <1>1
            <4>5. Step(g, k) = Step(f, k)
                BY <4>3, <4>4 DEF FoundFrom
            <4> QED BY <3>1, <4>5
        <3> QED BY <3>2, <3>3, <1>1
    <2>3. Upto(g, i)
        BY <2>2
    <2> QED BY <2>3
<1>3. 1 \in S
    <2> HIDE DEF S
    <2>1. \A i \in 1..(L + 1) : i \in S
        BY <1>1, <1>2, Downward
    <2> QED BY <2>1, <1>1
<1>4. PICK f : Upto(f, 1)
    BY <1>3
<1>5. \A k \in 1..(L + 1) : f[k] = Step(f, k)
    BY <1>4
<1>6. f = [k \in 1..(L + 1) |-> f[k]]
    BY <1>4
<1>7. f = [k \in 1..(L + 1) |-> Step(f, k)]
    <2> HIDE DEF Step
    <2>1. [k \in 1..(L + 1) |-> f[k]] = [k \in 1..(L + 1) |-> Step(f, k)]
        BY <1>5, Zenon
    <2> QED BY <1>6, <2>1, Zenon
<1> QED BY <1>7, Zenon DEF IsFound

\* Found is what it finds from the first position on.
LEMMA FoundIsFound ==
    ASSUME NEW T, NEW r, NEW v \in Seq(T)
    PROVE  \E f : IsFound(r, v, f) /\ Found(r, v) = f[1]
<1> DEFINE start == CHOOSE f : IsFound(r, v, f)
<1>1. Found(r, v) = start[1]
    BY Zenon DEF Found, IsFound, FoundFrom
<1>2. IsFound(r, v, start)
    BY FoundExists, Zenon
<1> HIDE DEF start
<1> QED BY <1>1, <1>2, Zenon

\* At the end it finds nothing.
LEMMA FoundEnd ==
    ASSUME NEW r, NEW v, Len(v) \in Nat, NEW f, IsFound(r, v, f)
    PROVE  f[Len(v) + 1] = {}
BY DEF IsFound

\* Elsewhere a match and what comes behind it, or what comes from the next one on.
LEMMA FoundStep ==
    ASSUME NEW r, NEW v, Len(v) \in Nat, NEW f, IsFound(r, v, f), NEW i \in 1..Len(v)
    PROVE  f[i] = FoundFrom(r, v, f, i)
<1>1. \A k \in 1..(Len(v) + 1) : f[k] = IF k > Len(v) THEN {} ELSE FoundFrom(r, v, f, k)
    BY Zenon DEF IsFound
<1>2. i \in 1..(Len(v) + 1) /\ ~(i > Len(v))
    OBVIOUS
<1> QED BY <1>1, <1>2, Zenon

\* What is found is a match, and what is found behind it is found as well.
LEMMA FoundBehind ==
    ASSUME NEW T, NEW r, NEW v \in Seq(T), NEW f, IsFound(r, v, f)
    PROVE  \A i \in 1..(Len(v) + 1) : \A h \in f[i] :
              \E a \in i..Len(v) : /\ h = <<a, MatchLength(r, v, a)>>
                                   /\ MatchLength(r, v, a) > 0
                                   /\ f[a + MatchLength(r, v, a)] \subseteq f[i]
<1> DEFINE L == Len(v)
           Behind(i, h, a) == /\ h = <<a, MatchLength(r, v, a)>>
                              /\ MatchLength(r, v, a) > 0
                              /\ f[a + MatchLength(r, v, a)] \subseteq f[i]
           S == {i \in 1..(L + 1) : \A h \in f[i] : \E a \in i..L : Behind(i, h, a)}
<1>1. L \in Nat
    OBVIOUS
<1>2. f[L + 1] = {} /\ \A i \in 1..L : f[i] = FoundFrom(r, v, f, i)
    BY <1>1, FoundEnd, FoundStep
<1>3. ASSUME NEW i \in 1..(L + 1), \A k \in (i + 1)..(L + 1) : k \in S
      PROVE  i \in S
    <2>1. SUFFICES ASSUME NEW h \in f[i] PROVE \E a \in i..L : Behind(i, h, a)
        OBVIOUS
    <2>2. i \in 1..L
        BY <1>1, <1>2, <2>1
    <2>3. ASSUME NEW k \in (i + 1)..(L + 1), f[k] \subseteq f[i], h \in f[k]
          PROVE  \E a \in i..L : Behind(i, h, a)
        <3>1. PICK a \in k..L : Behind(k, h, a)
            BY <1>3, <2>3
        <3>2. a \in i..L /\ Behind(i, h, a)
            BY <3>1, <2>3
        <3> QED BY <3>2
    <2>4. CASE MatchLength(r, v, i) > 0
        <3>1. i + MatchLength(r, v, i) \in (i + 1)..(L + 1)
            <4>1. MatchLength(r, v, i) \in 0..L /\ i + MatchLength(r, v, i) <= L + 1
                BY <2>2, MatchLengthBounds
            <4> QED BY <4>1, <2>4, <2>2
        <3>2. f[i] = {<<i, MatchLength(r, v, i)>>} \cup f[i + MatchLength(r, v, i)]
            BY <1>2, <2>2, <2>4 DEF FoundFrom
        <3>3. CASE h = <<i, MatchLength(r, v, i)>>
            <4>1. Behind(i, h, i) /\ i \in i..L
                BY <2>2, <2>4, <3>2, <3>3
            <4> QED BY <4>1
        <3>4. CASE h # <<i, MatchLength(r, v, i)>>
            <4>1. /\ f[i + MatchLength(r, v, i)] \subseteq f[i]
                  /\ h \in f[i + MatchLength(r, v, i)]
                BY <2>1, <3>2, <3>4
            <4> HIDE DEF Behind
            <4> QED BY <4>1, <3>1, <2>3
        <3> QED BY <3>3, <3>4
    <2>5. CASE ~(MatchLength(r, v, i) > 0)
        <3>1. f[i] = f[i + 1]
            BY <1>2, <2>2, <2>5 DEF FoundFrom
        <3>2. i + 1 \in (i + 1)..(L + 1)
            BY <2>2, <1>1
        <3> HIDE DEF Behind
        <3> QED BY <3>1, <3>2, <2>1, <2>3
    <2> QED BY <2>4, <2>5
<1> HIDE DEF S
<1>4. \A i \in 1..(L + 1) : i \in S
    BY <1>1, <1>3, Downward
<1> QED BY <1>4 DEF S

\* What holds of a position whenever it holds of every earlier one holds of all.
LEMMA Upward ==
    ASSUME NEW L \in Nat, NEW S,
           \A i \in 1..(L + 1) : (\A k \in 1..(i - 1) : k \in S) => i \in S
    PROVE  \A i \in 1..(L + 1) : i \in S
<1> DEFINE U == {i \in 1..(L + 1) : i \notin S}
<1>1. SUFFICES ASSUME U # {} PROVE FALSE
    OBVIOUS
<1>2. U \in SUBSET Nat
    OBVIOUS
<1> HIDE DEF U
<1>3. PICK x \in U : \A y \in U : x <= y
    BY <1>1, <1>2, LeastElement
<1>4. x \in 1..(L + 1) /\ x \notin S
    BY DEF U
<1>5. ASSUME NEW k \in 1..(x - 1) PROVE k \in S
    <2>1. k \notin U
        BY <1>3, <1>4
    <2> QED BY <2>1, <1>4 DEF U
<1> QED BY <1>4, <1>5

\* A position is within what is found, or the scan comes by it.
LEMMA FoundReached ==
    ASSUME NEW T, NEW r, NEW v \in Seq(T), NEW f, IsFound(r, v, f)
    PROVE  \A i \in 1..(Len(v) + 1) :
              \/ f[i] \subseteq f[1]
              \/ \E a \in 1..Len(v) : /\ <<a, MatchLength(r, v, a)>> \in f[1]
                                      /\ a < i /\ i < a + MatchLength(r, v, a)
<1> DEFINE L == Len(v)
           Over(i, a) == /\ <<a, MatchLength(r, v, a)>> \in f[1]
                         /\ a < i /\ i < a + MatchLength(r, v, a)
           S == {i \in 1..(L + 1) : f[i] \subseteq f[1] \/ \E a \in 1..L : Over(i, a)}
<1>1. L \in Nat
    OBVIOUS
<1>2. \A i \in 1..L : f[i] = FoundFrom(r, v, f, i)
    BY <1>1, FoundStep
<1>3. ASSUME NEW i \in 1..(L + 1), \A k \in 1..(i - 1) : k \in S
      PROVE  i \in S
    <2>1. CASE i = 1
        BY <2>1
    <2>2. CASE i # 1
        <3> DEFINE b == i - 1
        <3>1. b \in 1..L /\ b \in 1..(i - 1) /\ b + 1 = i
            BY <2>2, <1>1
        <3>2. b \in S
            BY <1>3, <3>1
        <3> HIDE DEF b
        <3>3. /\ MatchLength(r, v, b) \in 0..L
              /\ b + MatchLength(r, v, b) <= L + 1
            BY <3>1, MatchLengthBounds
        <3>4. CASE f[b] \subseteq f[1]
            <4>1. CASE ~(MatchLength(r, v, b) > 0)
                BY <4>1, <1>2, <3>1, <3>4 DEF FoundFrom
            <4>2. CASE MatchLength(r, v, b) > 0
                <5>1. /\ <<b, MatchLength(r, v, b)>> \in f[1]
                      /\ f[b + MatchLength(r, v, b)] \subseteq f[1]
                    BY <4>2, <1>2, <3>1, <3>4 DEF FoundFrom
                <5>2. CASE MatchLength(r, v, b) = 1
                    BY <5>1, <5>2, <3>1
                <5>3. CASE MatchLength(r, v, b) # 1
                    <6>1. Over(i, b)
                        BY <5>1, <5>3, <4>2, <3>1, <3>3
                    <6> HIDE DEF Over
                    <6> QED BY <6>1, <3>1
                <5> QED BY <5>2, <5>3
            <4> QED BY <4>1, <4>2
        <3>5. ASSUME NEW a \in 1..L, Over(b, a) PROVE i \in S
            <4>1. /\ MatchLength(r, v, a) \in 0..L
                  /\ a + MatchLength(r, v, a) <= L + 1
                BY MatchLengthBounds
            <4>2. CASE i < a + MatchLength(r, v, a)
                <5>1. Over(i, a)
                    BY <3>5, <4>2, <3>1
                <5> HIDE DEF Over
                <5> QED BY <5>1
            <4>3. CASE ~(i < a + MatchLength(r, v, a))
                <5>1. i = a + MatchLength(r, v, a)
                    BY <3>5, <4>1, <4>3, <3>1
                <5>2. PICK c \in 1..L :
                          /\ <<a, MatchLength(r, v, a)>> = <<c, MatchLength(r, v, c)>>
                          /\ f[c + MatchLength(r, v, c)] \subseteq f[1]
                    <6>1. 1 \in 1..(L + 1)
                        BY <1>1
                    <6> QED BY <3>5, <6>1, FoundBehind
                <5>3. c = a
                    BY <5>2
                <5> QED BY <5>1, <5>2, <5>3
            <4> QED BY <4>2, <4>3
        <3> QED BY <3>2, <3>4, <3>5
    <2> QED BY <2>1, <2>2
<1> HIDE DEF S
<1>4. \A i \in 1..(L + 1) : i \in S
    BY <1>1, <1>3, Upward
<1> QED BY <1>4 DEF S

\* The hits of one redactor: Hits is made of these.
HitsOf(r, v, m) == {[at |-> h[1], size |-> h[2], marker |-> m] : h \in Found(r, v)}
Inside(H, i) == \E h \in H : h.at < i /\ i < h.at + h.size

\* They are matches.
LEMMA HitsMatch ==
    ASSUME NEW T, NEW r, NEW v \in Seq(T), NEW m
    PROVE  \A h \in HitsOf(r, v, m) :
              /\ h.at \in 1..Len(v) /\ h.size = MatchLength(r, v, h.at)
              /\ h.size > 0 /\ h.marker = m
<1>1. PICK f : IsFound(r, v, f) /\ Found(r, v) = f[1]
    BY FoundIsFound
<1>2. 1 \in 1..(Len(v) + 1)
    OBVIOUS
<1>3. ASSUME NEW h \in HitsOf(r, v, m)
      PROVE  /\ h.at \in 1..Len(v) /\ h.size = MatchLength(r, v, h.at)
             /\ h.size > 0 /\ h.marker = m
    <2>1. PICK g \in f[1] : h = [at |-> g[1], size |-> g[2], marker |-> m]
        BY <1>1 DEF HitsOf
    <2>2. PICK a \in 1..Len(v) :
              g = <<a, MatchLength(r, v, a)>> /\ MatchLength(r, v, a) > 0
        BY <1>1, <1>2, FoundBehind
    <2> QED BY <2>1, <2>2
<1> QED BY <1>3

\* Where the scan comes by a match, it is among them.
LEMMA HitsScan ==
    ASSUME NEW T, NEW r, NEW v \in Seq(T), NEW m
    PROVE  \A i \in 1..Len(v) : MatchLength(r, v, i) > 0 /\ ~Inside(HitsOf(r, v, m), i) =>
              [at |-> i, size |-> MatchLength(r, v, i), marker |-> m] \in HitsOf(r, v, m)
<1>1. PICK f : IsFound(r, v, f) /\ Found(r, v) = f[1]
    BY FoundIsFound
<1>2. Len(v) \in Nat /\ 1 \in 1..(Len(v) + 1)
    OBVIOUS
<1>3. ASSUME NEW i \in 1..Len(v), MatchLength(r, v, i) > 0, ~Inside(HitsOf(r, v, m), i)
      PROVE  [at |-> i, size |-> MatchLength(r, v, i), marker |-> m] \in HitsOf(r, v, m)
    <2>1. ASSUME NEW a \in 1..Len(v), <<a, MatchLength(r, v, a)>> \in f[1],
                 a < i, i < a + MatchLength(r, v, a)
          PROVE  FALSE
        <3>1. [at |-> a, size |-> MatchLength(r, v, a), marker |-> m] \in HitsOf(r, v, m)
            BY <1>1, <2>1 DEF HitsOf
        <3> QED BY <3>1, <2>1, <1>3 DEF Inside
    <2>2. f[i] \subseteq f[1]
        <3>1. i \in 1..(Len(v) + 1)
            BY <1>2
        <3> QED BY <1>1, <2>1, <3>1, FoundReached, Zenon
    <2>3. <<i, MatchLength(r, v, i)>> \in f[i]
        <3>1. f[i] = FoundFrom(r, v, f, i)
            BY <1>1, <1>2, FoundStep
        <3> QED BY <1>3, <3>1 DEF FoundFrom
    <2> QED BY <2>2, <2>3, <1>1 DEF HitsOf
<1> QED BY <1>3

\* Hits within a value, which do not overlap.
Apart(H, v) ==
    /\ \A h \in H : /\ h.at \in 1..Len(v) /\ h.size \in 1..Len(v)
                    /\ h.at + h.size <= Len(v) + 1
    /\ Disjoint(H)

\* What is left of v from each position on when all hits of H are replaced at once.
ComposedFrom(v, H, f, i) ==
    IF \E h \in H : h.at = i
    THEN LET h == CHOOSE g \in H : g.at = i IN <<h.marker>> \o f[i + h.size]
    ELSE <<v[i]>> \o f[i + 1]
IsComposed(v, H, f) ==
    f = [i \in 1..(Len(v) + 1) |-> IF i > Len(v) THEN <<>> ELSE ComposedFrom(v, H, f, i)]

\* There is such a function.
LEMMA ComposedExists ==
    ASSUME NEW v, Len(v) \in Nat, NEW H, Apart(H, v)
    PROVE  \E f : IsComposed(v, H, f)
<1> DEFINE L == Len(v)
           Step(f, i) == IF i > L THEN <<>> ELSE ComposedFrom(v, H, f, i)
           Upto(f, i) == /\ f = [k \in i..(L + 1) |-> f[k]]
                         /\ \A k \in i..(L + 1) : f[k] = Step(f, k)
           S == {i \in 1..(L + 1) : \E f : Upto(f, i)}
<1>1. L \in Nat
    OBVIOUS
<1>2. ASSUME NEW i \in 1..(L + 1), \A k \in (i + 1)..(L + 1) : k \in S
      PROVE  i \in S
    <2>1. PICK f : i = L + 1 \/ Upto(f, i + 1)
        <3>1. i # L + 1 => i + 1 \in S
            <4> HIDE DEF S
            <4> QED BY <1>1, <1>2
        <3> HIDE DEF Upto
        <3> QED BY <3>1
    <2> DEFINE g == [k \in i..(L + 1) |-> IF k = i THEN Step(f, i) ELSE f[k]]
    <2>2. ASSUME NEW k \in i..(L + 1) PROVE g[k] = Step(g, k)
        <3>0. k # i => f[k] = Step(f, k)
            <4>1. k # i => i # L + 1 /\ k \in (i + 1)..(L + 1)
                BY <1>1
            <4> HIDE DEF Step
            <4> QED BY <4>1, <2>1
        <3>1. g[k] = Step(f, k)
            <4> HIDE DEF Step
            <4> QED BY <3>0
        <3>2. CASE k > L
            BY <3>1, <3>2
        <3>3. CASE k <= L
            <4>1. \A n \in (k + 1)..(L + 1) : g[n] = f[n]
                <5> HIDE DEF Step
                <5> QED BY <1>1
            <4>2. CASE \E h \in H : h.at = k
                <5> DEFINE h == CHOOSE h \in H : h.at = k
                <5>1. h \in H /\ h.at = k
                    BY <4>2
                <5> HIDE DEF h
                <5>2. k + h.size \in (k + 1)..(L + 1)
                    BY <5>1, <1>1 DEF Apart
                <5>3. g[k + h.size] = f[k + h.size]
                    <6> HIDE DEF g
                    <6> QED BY <4>1, <5>2
                <5>4. ComposedFrom(v, H, g, k) = ComposedFrom(v, H, f, k)
                    <6> HIDE DEF g
                    <6> QED BY <4>2, <5>3 DEF ComposedFrom, h
                <5> QED BY <3>1, <3>3, <5>4
            <4>3. CASE ~\E h \in H : h.at = k
                <5>1. g[k + 1] = f[k + 1]
                    <6>1. k + 1 \in (k + 1)..(L + 1)
                        BY <3>3, <1>1
                    <6> HIDE DEF g
                    <6> QED BY <4>1, <6>1
                <5>2. ComposedFrom(v, H, g, k) = ComposedFrom(v, H, f, k)
                    <6> HIDE DEF g
                    <6> QED BY <4>3, <5>1 DEF ComposedFrom
                <5> QED BY <3>1, <3>3, <5>2
            <4> QED BY <4>2, <4>3
        <3> QED BY <3>2, <3>3, <1>1
    <2>3. Upto(g, i)
        BY <2>2
    <2> QED BY <2>3
<1>3. 1 \in S
    <2> HIDE DEF S
    <2>1. \A i \in 1..(L + 1) : i \in S
        BY <1>1, <1>2, Downward
    <2> QED BY <2>1, <1>1
<1>4. PICK f : Upto(f, 1)
    BY <1>3
<1>5. \A k \in 1..(L + 1) : f[k] = Step(f, k)
    BY <1>4
<1>6. f = [k \in 1..(L + 1) |-> f[k]]
    BY <1>4
<1>7. f = [k \in 1..(L + 1) |-> Step(f, k)]
    <2> HIDE DEF Step
    <2>1. [k \in 1..(L + 1) |-> f[k]] = [k \in 1..(L + 1) |-> Step(f, k)]
        BY <1>5, Zenon
    <2> QED BY <1>6, <2>1, Zenon
<1> QED BY <1>7, Zenon DEF IsComposed

\* AllAtOnce is what is left from the first position on.
LEMMA AllAtOnceIsComposed ==
    ASSUME NEW v, Len(v) \in Nat, Apart(Hits(v), v)
    PROVE  \E f : IsComposed(v, Hits(v), f) /\ AllAtOnce(v) = f[1]
<1> DEFINE rest == CHOOSE f : IsComposed(v, Hits(v), f)
<1>1. AllAtOnce(v) = rest[1]
    BY Zenon DEF AllAtOnce, IsComposed, ComposedFrom
<1>2. IsComposed(v, Hits(v), rest)
    BY ComposedExists, Zenon
<1> HIDE DEF rest
<1> QED BY <1>1, <1>2, Zenon

\* At the end nothing is left.
LEMMA ComposedEnd ==
    ASSUME NEW v, Len(v) \in Nat, NEW H, NEW f, IsComposed(v, H, f)
    PROVE  f[Len(v) + 1] = <<>>
BY DEF IsComposed

\* Elsewhere there is something in front of what is left later on.
LEMMA ComposedStep ==
    ASSUME NEW v, Len(v) \in Nat, NEW H, NEW f, IsComposed(v, H, f), NEW i \in 1..Len(v)
    PROVE  f[i] = ComposedFrom(v, H, f, i)
<1>1. \A k \in 1..(Len(v) + 1) :
        f[k] = IF k > Len(v) THEN <<>> ELSE ComposedFrom(v, H, f, k)
    BY Zenon DEF IsComposed
<1>2. i \in 1..(Len(v) + 1) /\ ~(i > Len(v))
    OBVIOUS
<1> QED BY <1>1, <1>2, Zenon

\* Where a hit begins, its marker is in front of what is left behind the hit.
LEMMA ComposedHit ==
    ASSUME NEW v, Len(v) \in Nat, NEW H, Apart(H, v), NEW f, IsComposed(v, H, f), NEW h \in H
    PROVE  f[h.at] = <<h.marker>> \o f[h.at + h.size]
<1> DEFINE c == CHOOSE g \in H : g.at = h.at
<1>1. c \in H /\ c.at = h.at
    OBVIOUS
<1>2. f[h.at] = <<c.marker>> \o f[h.at + c.size]
    <2>1. f[h.at] = ComposedFrom(v, H, f, h.at)
        BY ComposedStep DEF Apart
    <2> QED BY <2>1 DEF ComposedFrom
<1> HIDE DEF c
<1>3. c = h
    BY <1>1 DEF Apart, Disjoint
<1> QED BY <1>2, <1>3

\* Where none begins, the value's own token is.
LEMMA ComposedFree ==
    ASSUME NEW v, Len(v) \in Nat, NEW H, NEW f, IsComposed(v, H, f),
           NEW i \in 1..Len(v), \A h \in H : h.at # i
    PROVE  f[i] = <<v[i]>> \o f[i + 1]
<1>1. f[i] = ComposedFrom(v, H, f, i)
    BY ComposedStep
<1>2. ~\E h \in H : h.at = i
    OBVIOUS
<1> QED BY <1>1, <1>2 DEF ComposedFrom

\* They are values.
LEMMA ComposedType ==
    ASSUME NEW T, NEW v \in Seq(T), NEW H, Apart(H, v), \A h \in H : h.marker \in T,
           NEW f, IsComposed(v, H, f)
    PROVE  \A i \in 1..(Len(v) + 1) : f[i] \in Seq(T)
<1> DEFINE L == Len(v)
           S == {i \in 1..(L + 1) : f[i] \in Seq(T)}
<1>1. L \in Nat
    OBVIOUS
<1>2. ASSUME NEW i \in 1..(L + 1), \A k \in (i + 1)..(L + 1) : k \in S
      PROVE  i \in S
    <2>1. CASE i = L + 1
        <3>1. f[L + 1] = <<>>
            BY <1>1, ComposedEnd
        <3>2. <<>> \in Seq(T)
            OBVIOUS
        <3> QED BY <2>1, <3>1, <3>2
    <2>2. CASE i # L + 1 /\ \E h \in H : h.at = i
        <3>1. PICK h \in H : h.at = i
            BY <2>2
        <3>2. i + h.size \in (i + 1)..(L + 1)
            BY <3>1, <1>1 DEF Apart
        <3>3. f[i] = <<h.marker>> \o f[i + h.size]
            <4>1. f[h.at] = <<h.marker>> \o f[h.at + h.size]
                BY <1>1, ComposedHit
            <4> QED BY <4>1, <3>1
        <3>4. f[i + h.size] \in Seq(T) /\ h.marker \in T
            BY <3>2, <1>2
        <3>5. <<h.marker>> \o f[i + h.size] \in Seq(T)
            BY <3>4, Prefixed
        <3> QED BY <3>3, <3>5
    <2>3. CASE i # L + 1 /\ \A h \in H : h.at # i
        <3>1. i \in 1..L /\ i + 1 \in (i + 1)..(L + 1)
            BY <2>3, <1>1
        <3>2. f[i] = <<v[i]>> \o f[i + 1]
            BY <3>1, <2>3, <1>1, ComposedFree
        <3>3. f[i + 1] \in Seq(T) /\ v[i] \in T
            BY <3>1, <1>2
        <3>4. <<v[i]>> \o f[i + 1] \in Seq(T)
            BY <3>3, Prefixed
        <3> QED BY <3>2, <3>4
    <2> QED BY <2>1, <2>2, <2>3
<1> HIDE DEF S
<1>3. \A i \in 1..(L + 1) : i \in S
    BY <1>1, <1>2, Downward
<1> QED BY <1>3 DEF S

\* s is the token x and then t.
Starts(s, x, t) ==
    /\ Len(t) \in Nat /\ Len(s) = Len(t) + 1 /\ s[1] = x
    /\ \A j \in 1..Len(t) : s[j + 1] = t[j]

\* So is what is left where a hit begins, and where none does.
LEMMA ComposedShape ==
    ASSUME NEW T, NEW v \in Seq(T), NEW H, Apart(H, v), \A h \in H : h.marker \in T,
           NEW f, IsComposed(v, H, f)
    PROVE  /\ \A h \in H : Starts(f[h.at], h.marker, f[h.at + h.size])
           /\ \A i \in 1..Len(v) : (\A h \in H : h.at # i) => Starts(f[i], v[i], f[i + 1])
<1>1. Len(v) \in Nat
    OBVIOUS
<1>2. ASSUME NEW n \in 1..(Len(v) + 1), NEW x \in T, NEW s, s = <<x>> \o f[n]
      PROVE  Starts(s, x, f[n])
    <2>1. f[n] \in Seq(T) /\ Len(f[n]) \in Nat
        <3>1. f[n] \in Seq(T)
            BY ComposedType
        <3> QED BY <3>1
    <2>2. /\ Len(<<x>> \o f[n]) = Len(f[n]) + 1 /\ (<<x>> \o f[n])[1] = x
          /\ \A j \in 1..Len(f[n]) : (<<x>> \o f[n])[j + 1] = f[n][j]
        BY <2>1, Prefixed
    <2> QED BY <2>1, <2>2, <1>2 DEF Starts
<1>3. ASSUME NEW h \in H PROVE Starts(f[h.at], h.marker, f[h.at + h.size])
    <2>1. h.at + h.size \in 1..(Len(v) + 1)
        BY <1>1 DEF Apart
    <2>2. f[h.at] = <<h.marker>> \o f[h.at + h.size]
        BY <1>1, ComposedHit
    <2> QED BY <2>1, <2>2, <1>2
<1>4. ASSUME NEW i \in 1..Len(v), \A h \in H : h.at # i PROVE Starts(f[i], v[i], f[i + 1])
    <2>1. i + 1 \in 1..(Len(v) + 1) /\ v[i] \in T
        BY <1>1
    <2>2. f[i] = <<v[i]>> \o f[i + 1]
        BY <1>1, <1>4, ComposedFree
    <2> QED BY <2>1, <2>2, <1>2
<1> QED BY <1>3, <1>4

\* What is left from i on are n tokens of v and what is left behind them.
Keeps(v, f, i, n) ==
    /\ Len(f[i]) = n + Len(f[i + n])
    /\ \A d \in 0..(n - 1) : f[i][1 + d] = v[i + d]
    /\ \A j \in 1..Len(f[i + n]) : f[i][n + j] = f[i + n][j]
Free(H, i, n) == \A h \in H : h.at < i \/ i + n <= h.at

\* So it is where no hit of H begins at one of them.
LEMMA ComposedKeeps ==
    ASSUME NEW T, NEW v \in Seq(T), NEW H, Apart(H, v), \A h \in H : h.marker \in T,
           NEW f, IsComposed(v, H, f)
    PROVE  \A i \in 1..(Len(v) + 1) : \A n \in Nat :
              i + n <= Len(v) + 1 /\ Free(H, i, n) => Keeps(v, f, i, n)
<1> DEFINE L == Len(v)
           S == {i \in 1..(L + 1) :
                   \A n \in Nat : i + n <= L + 1 /\ Free(H, i, n) => Keeps(v, f, i, n)}
<1>1. L \in Nat
    OBVIOUS
<1>2. ASSUME NEW i \in 1..(L + 1), \A k \in (i + 1)..(L + 1) : k \in S
      PROVE  i \in S
    <2>1. SUFFICES ASSUME NEW n \in Nat, i + n <= L + 1, Free(H, i, n)
                   PROVE  Keeps(v, f, i, n)
        OBVIOUS
    <2>2. \A k \in 1..(L + 1) : Len(f[k]) \in Nat
        <3>1. \A k \in 1..(L + 1) : f[k] \in Seq(T)
            BY ComposedType
        <3> QED BY <3>1
    <2>3. CASE n = 0
        <3>1. i + n = i
            BY <2>3
        <3> QED BY <2>3, <3>1, <2>2 DEF Keeps
    <2>4. CASE n # 0
        <3>1. i \in 1..L /\ i + 1 \in (i + 1)..(L + 1) /\ n - 1 \in Nat
              /\ (i + 1) + (n - 1) = i + n
            BY <2>1, <2>4, <1>1
        <3>2. \A h \in H : h.at # i
            BY <2>1, <3>1, <2>4 DEF Apart, Free
        <3>3. Starts(f[i], v[i], f[i + 1])
            BY <3>1, <3>2, ComposedShape
        <3>4. (i + 1) + (n - 1) <= L + 1 /\ Free(H, i + 1, n - 1)
            BY <2>1, <3>1, <3>2, <1>1 DEF Apart, Free
        <3>5. Keeps(v, f, i + 1, n - 1)
            BY <1>2, <3>1, <3>4
        <3>6. /\ Len(f[i]) = Len(f[i + 1]) + 1 /\ f[i][1] = v[i]
              /\ \A j \in 1..Len(f[i + 1]) : f[i][j + 1] = f[i + 1][j]
            BY <3>3 DEF Starts
        <3>7. /\ Len(f[i + 1]) = (n - 1) + Len(f[i + n])
              /\ \A d \in 0..(n - 2) : f[i + 1][1 + d] = v[(i + 1) + d]
              /\ \A j \in 1..Len(f[i + n]) : f[i + 1][(n - 1) + j] = f[i + n][j]
            BY <3>1, <3>5 DEF Keeps
        <3>8. Len(f[i + n]) \in Nat
            BY <2>1, <2>2
        <3>9. Len(f[i]) = n + Len(f[i + n])
            BY <3>6, <3>7, <3>8
        <3>10. ASSUME NEW d \in 0..(n - 1) PROVE f[i][1 + d] = v[i + d]
            <4>1. CASE d = 0
                BY <4>1, <3>6
            <4>2. CASE d # 0
                <5>1. d - 1 \in 0..(n - 2) /\ d \in 1..Len(f[i + 1])
                    BY <4>2, <3>7, <3>8
                <5>2. f[i][d + 1] = f[i + 1][d]
                    BY <5>1, <3>6
                <5>3. f[i + 1][1 + (d - 1)] = v[(i + 1) + (d - 1)]
                    BY <5>1, <3>7
                <5>4. 1 + (d - 1) = d /\ (i + 1) + (d - 1) = i + d /\ d + 1 = 1 + d
                    OBVIOUS
                <5> QED BY <5>2, <5>3, <5>4
            <4> QED BY <4>1, <4>2
        <3>11. ASSUME NEW j \in 1..Len(f[i + n]) PROVE f[i][n + j] = f[i + n][j]
            <4>1. (n - 1) + j \in 1..Len(f[i + 1]) /\ ((n - 1) + j) + 1 = n + j
                BY <3>1, <3>7, <3>8
            <4> QED BY <4>1, <3>6, <3>7
        <3> QED BY <3>9, <3>10, <3>11 DEF Keeps
    <2> QED BY <2>3, <2>4
<1> HIDE DEF S
<1>3. \A i \in 1..(L + 1) : i \in S
    BY <1>1, <1>2, Downward
<1> QED BY <1>3 DEF S

Blank(s, p, n) == Unmarked(s, p, n, RedactedEmail) /\ Unmarked(s, p, n, RedactedPattern)
EitherMarker(H) == \A h \in H : h.marker \in {RedactedEmail, RedactedPattern}

\* Before the first marker, what is left is the value.
LEMMA ComposedFront ==
    ASSUME NEW T, NEW v \in Seq(T), NEW H, Apart(H, v), \A h \in H : h.marker \in T,
           EitherMarker(H), NEW f, IsComposed(v, H, f)
    PROVE  \A i \in 1..(Len(v) + 1) : \A n \in Nat \ {0} :
              Blank(f[i], 1, n) =>
                 i + n - 1 <= Len(v) /\ \A d \in 0..(n - 1) : f[i][1 + d] = v[i + d]
<1> DEFINE L == Len(v)
           Same(i, n) == i + n - 1 <= L /\ \A d \in 0..(n - 1) : f[i][1 + d] = v[i + d]
           S == {i \in 1..(L + 1) : \A n \in Nat \ {0} : Blank(f[i], 1, n) => Same(i, n)}
<1>1. L \in Nat
    OBVIOUS
<1>2. ASSUME NEW i \in 1..(L + 1), \A k \in (i + 1)..(L + 1) : k \in S
      PROVE  i \in S
    <2>1. SUFFICES ASSUME NEW n \in Nat \ {0}, Blank(f[i], 1, n) PROVE Same(i, n)
        OBVIOUS
    <2>2. /\ n <= Len(f[i])
          /\ \A d \in 0..(n - 1) : f[i][1 + d] \notin {RedactedEmail, RedactedPattern}
        BY <2>1 DEF Blank, Unmarked
    <2>3. f[i][1] \notin {RedactedEmail, RedactedPattern}
        <3>1. 0 \in 0..(n - 1) /\ 1 + 0 = 1
            OBVIOUS
        <3> QED BY <2>2, <3>1
    <2>4. i \in 1..L
        <3>1. CASE i = L + 1
            <4>1. f[i] = <<>>
                BY <3>1, <1>1, ComposedEnd
            <4> QED BY <4>1, <2>2
        <3> QED BY <3>1, <1>1
    <2>5. ASSUME NEW h \in H PROVE h.at # i
        <3>1. Starts(f[h.at], h.marker, f[h.at + h.size])
            BY ComposedShape
        <3> QED BY <3>1, <2>3 DEF Starts, EitherMarker
    <2>6. Starts(f[i], v[i], f[i + 1])
        BY <2>4, <2>5, ComposedShape
    <2>7. /\ Len(f[i + 1]) \in Nat /\ Len(f[i]) = Len(f[i + 1]) + 1 /\ f[i][1] = v[i]
          /\ \A j \in 1..Len(f[i + 1]) : f[i][j + 1] = f[i + 1][j]
        BY <2>6 DEF Starts
    <2>8. CASE n = 1
        BY <2>8, <2>4, <2>7
    <2>9. CASE n # 1
        <3>1. n - 1 \in Nat \ {0} /\ i + 1 \in (i + 1)..(L + 1)
            BY <2>9, <2>4, <1>1
        <3>2. ASSUME NEW d \in 0..(n - 2) PROVE f[i + 1][1 + d] = f[i][1 + (d + 1)]
            <4>1. 1 + d \in 1..Len(f[i + 1]) /\ (1 + d) + 1 = 1 + (d + 1)
                BY <2>2, <2>7
            <4> QED BY <4>1, <2>7
        <3>3. Blank(f[i + 1], 1, n - 1)
            <4>1. \A d \in 0..(n - 2) : f[i + 1][1 + d] \notin {RedactedEmail, RedactedPattern}
                <5>1. ASSUME NEW d \in 0..(n - 2)
                      PROVE  f[i + 1][1 + d] \notin {RedactedEmail, RedactedPattern}
                    <6>1. d + 1 \in 0..(n - 1)
                        OBVIOUS
                    <6> QED BY <6>1, <2>2, <3>2
                <5> QED BY <5>1
            <4>2. 1 + (n - 1) - 1 <= Len(f[i + 1]) /\ (n - 1) - 1 = n - 2
                BY <2>2, <2>7
            <4> QED BY <4>1, <4>2 DEF Blank, Unmarked
        <3>4. Same(i + 1, n - 1)
            <4> HIDE DEF Same
            <4> QED BY <1>2, <3>1, <3>3
        <3>5. /\ i + n - 1 <= L
              /\ \A d \in 0..(n - 2) : f[i + 1][1 + d] = v[(i + 1) + d]
            BY <3>4, <1>1
        <3>6. ASSUME NEW d \in 0..(n - 1) PROVE f[i][1 + d] = v[i + d]
            <4>1. CASE d = 0
                BY <4>1, <2>7
            <4>2. CASE d # 0
                <5>1. d - 1 \in 0..(n - 2)
                    BY <4>2
                <5>2. f[i][1 + ((d - 1) + 1)] = v[(i + 1) + (d - 1)]
                    BY <5>1, <3>2, <3>5
                <5>3. (d - 1) + 1 = d /\ (i + 1) + (d - 1) = i + d
                    OBVIOUS
                <5> QED BY <5>2, <5>3
            <4> QED BY <4>1, <4>2
        <3> QED BY <3>5, <3>6
    <2> QED BY <2>8, <2>9
<1> HIDE DEF S
<1>3. \A i \in 1..(L + 1) : i \in S
    BY <1>1, <1>2, Downward
<1> QED BY <1>3 DEF S

SameAt(w, p, v, i, n) == \A d \in 0..(n - 1) : w[p + d] = v[i + d]

\* The same tokens are the same word.
LEMMA SameWord ==
    ASSUME NEW T, NEW v \in Seq(T), NEW w \in Seq(T),
           NEW i \in Nat \ {0}, NEW p \in Nat \ {0}, NEW n \in Nat \ {0},
           i + n - 1 <= Len(v), p + n - 1 <= Len(w), SameAt(w, p, v, i, n)
    PROVE  Word(w, p, n) = Word(v, i, n)
<1>1. /\ Word(v, i, n) \in Seq(T) /\ Len(Word(v, i, n)) = n
      /\ \A d \in 0..(n - 1) : Word(v, i, n)[d + 1] = v[i + d]
    BY DEF Word
<1>2. /\ Word(w, p, n) \in Seq(T) /\ Len(Word(w, p, n)) = n
      /\ \A d \in 0..(n - 1) : Word(w, p, n)[d + 1] = w[p + d]
    BY DEF Word
<1>3. ASSUME NEW j \in 1..n PROVE Word(w, p, n)[j] = Word(v, i, n)[j]
    <2>1. j - 1 \in 0..(n - 1) /\ (j - 1) + 1 = j
        OBVIOUS
    <2> QED BY <2>1, <1>1, <1>2 DEF SameAt
<1> QED BY <1>1, <1>2, <1>3, SeqEqual

\* s is w from p on.
TailIs(w, p, s) ==
    /\ p \in 1..(Len(w) + 1) /\ Len(s) \in Nat /\ Len(w) - p + 1 = Len(s)
    /\ \A j \in 1..Len(s) : w[p + j - 1] = s[j]

\* Going on by one token.
LEMMA TailNext ==
    ASSUME NEW w, Len(w) \in Nat, NEW p, NEW s, NEW x, NEW t,
           TailIs(w, p, s), Starts(s, x, t)
    PROVE  p \in 1..Len(w) /\ w[p] = x /\ TailIs(w, p + 1, t)
<1>1. /\ p \in 1..(Len(w) + 1) /\ Len(w) - p + 1 = Len(s)
      /\ \A j \in 1..Len(s) : w[p + j - 1] = s[j]
      /\ Len(t) \in Nat /\ Len(s) = Len(t) + 1 /\ s[1] = x
      /\ \A j \in 1..Len(t) : s[j + 1] = t[j]
    BY DEF TailIs, Starts
<1>2. p \in 1..Len(w)
    BY <1>1
<1>3. w[p] = x
    <2>1. 1 \in 1..Len(s) /\ p + 1 - 1 = p
        BY <1>1
    <2> QED BY <1>1, <2>1
<1>4. ASSUME NEW j \in 1..Len(t) PROVE w[(p + 1) + j - 1] = t[j]
    <2>1. j + 1 \in 1..Len(s) /\ p + (j + 1) - 1 = (p + 1) + j - 1
        BY <1>1
    <2> QED BY <2>1, <1>1
<1> QED BY <1>1, <1>2, <1>3, <1>4 DEF TailIs

\* What a blind pattern matches has no boundary condition and no marker in it.
Blind(r) == PlainPattern(r) /\ \A w \in r.words : ~Contains(w, RedactedEmail)

\* What it matches where hits have been replaced, it matches in the value.
LEMMA MatchBefore ==
    ASSUME NEW T, NEW v \in Seq(T), NEW H, Apart(H, v), \A h \in H : h.marker \in T,
           EitherMarker(H), NEW f, IsComposed(v, H, f), NEW w \in Seq(T),
           NEW r, Blind(r), NEW i \in 1..(Len(v) + 1), NEW p, TailIs(w, p, f[i]),
           NEW n \in 1..Len(w), Matches(r, w, p, n)
    PROVE  i \in 1..Len(v) /\ n \in 1..Len(v) /\ Matches(r, v, i, n)
<1>0. Len(v) \in Nat /\ Len(w) \in Nat
    OBVIOUS
<1>1. /\ p \in 1..(Len(w) + 1) /\ Len(f[i]) \in Nat /\ Len(w) - p + 1 = Len(f[i])
      /\ \A j \in 1..Len(f[i]) : w[p + j - 1] = f[i][j]
    BY DEF TailIs
<1>2. p + n - 1 <= Len(w) /\ Word(w, p, n) \in r.words
    BY DEF Matches
<1>3. n <= Len(f[i])
    BY <1>0, <1>1, <1>2
<1>4. ASSUME NEW d \in 0..(n - 1) PROVE f[i][1 + d] = w[p + d]
    <2>1. 1 + d \in 1..Len(f[i]) /\ p + (1 + d) - 1 = p + d
        BY <1>1, <1>3
    <2> QED BY <2>1, <1>1
<1>5. ASSUME NEW d \in 0..(n - 1)
      PROVE  f[i][1 + d] # RedactedEmail /\ f[i][1 + d] # RedactedPattern
    <2>1. ~Contains(Word(w, p, n), RedactedEmail) /\ ~Contains(Word(w, p, n), RedactedPattern)
        BY <1>2 DEF Blind, PlainPattern
    <2>2. d + 1 \in 1..Len(Word(w, p, n)) /\ Word(w, p, n)[d + 1] = w[p + d]
        BY <1>1, <1>2 DEF Word
    <2> QED BY <2>1, <2>2, <1>4 DEF Contains
<1>6. Blank(f[i], 1, n)
    BY <1>3, <1>5 DEF Blank, Unmarked
<1>7. i + n - 1 <= Len(v) /\ \A d \in 0..(n - 1) : f[i][1 + d] = v[i + d]
    <2>1. n \in Nat \ {0}
        OBVIOUS
    <2> QED BY <1>6, <2>1, ComposedFront
<1>8. i \in 1..Len(v) /\ n \in 1..Len(v)
    BY <1>0, <1>7
<1>9. Word(w, p, n) = Word(v, i, n)
    <2>1. i \in Nat \ {0} /\ p \in Nat \ {0} /\ n \in Nat \ {0}
        BY <1>1
    <2>2. SameAt(w, p, v, i, n)
        BY <1>4, <1>7 DEF SameAt
    <2> QED BY <1>2, <1>7, <2>1, <2>2, SameWord
<1> QED BY <1>2, <1>7, <1>8, <1>9 DEF Matches, Blind, PlainPattern

\* What it matches in the value outside of the hits, it matches where they have been
\* replaced.
LEMMA MatchAfter ==
    ASSUME NEW T, NEW v \in Seq(T), NEW H, Apart(H, v), \A h \in H : h.marker \in T,
           NEW f, IsComposed(v, H, f), NEW w \in Seq(T),
           NEW r, Blind(r), NEW i \in 1..Len(v), NEW p, TailIs(w, p, f[i]),
           NEW n \in 1..Len(v), Matches(r, v, i, n),
           Free(H, i, n)
    PROVE  /\ n \in 1..Len(w) /\ Matches(r, w, p, n)
           /\ i + n \in 1..(Len(v) + 1) /\ TailIs(w, p + n, f[i + n])
<1>0. Len(v) \in Nat /\ Len(w) \in Nat
    OBVIOUS
<1>1. /\ p \in 1..(Len(w) + 1) /\ Len(f[i]) \in Nat /\ Len(w) - p + 1 = Len(f[i])
      /\ \A j \in 1..Len(f[i]) : w[p + j - 1] = f[i][j]
    BY DEF TailIs
<1>2. i + n - 1 <= Len(v) /\ Word(v, i, n) \in r.words
    BY DEF Matches
<1>3. i + n \in 1..(Len(v) + 1) /\ i + n <= Len(v) + 1
    BY <1>0, <1>2
<1>4. /\ Len(f[i]) = n + Len(f[i + n])
      /\ \A d \in 0..(n - 1) : f[i][1 + d] = v[i + d]
      /\ \A j \in 1..Len(f[i + n]) : f[i][n + j] = f[i + n][j]
    <2>1. i \in 1..(Len(v) + 1) /\ n \in Nat
        BY <1>0
    <2>2. Keeps(v, f, i, n)
        BY <1>3, <2>1, ComposedKeeps
    <2> QED BY <2>2 DEF Keeps
<1>5. Len(f[i + n]) \in Nat
    <2>1. f[i + n] \in Seq(T)
        BY <1>3, ComposedType
    <2> QED BY <2>1
<1>6. p + n - 1 <= Len(w) /\ n \in 1..Len(w)
    BY <1>0, <1>1, <1>4, <1>5
<1>7. ASSUME NEW d \in 0..(n - 1) PROVE w[p + d] = v[i + d]
    <2>1. Len(f[i]) = n + Len(f[i + n])
        BY <1>4
    <2>2. 1 + d \in 1..Len(f[i])
        BY <2>1, <1>5
    <2>3. p + (1 + d) - 1 = p + d
        BY <1>1
    <2>4. w[p + (1 + d) - 1] = f[i][1 + d]
        BY <2>2, <1>1
    <2> QED BY <2>3, <2>4, <1>4
<1>8. Word(w, p, n) = Word(v, i, n)
    <2>1. i \in Nat \ {0} /\ p \in Nat \ {0} /\ n \in Nat \ {0}
        BY <1>1
    <2>2. SameAt(w, p, v, i, n)
        BY <1>7 DEF SameAt
    <2> QED BY <1>2, <1>6, <2>1, <2>2, SameWord
<1>9. Matches(r, w, p, n)
    BY <1>2, <1>6, <1>8 DEF Matches, Blind, PlainPattern
<1>10. ASSUME NEW j \in 1..Len(f[i + n]) PROVE w[(p + n) + j - 1] = f[i + n][j]
    <2>1. Len(f[i]) = n + Len(f[i + n])
        BY <1>4
    <2>2. n + j \in 1..Len(f[i])
        BY <1>5, <2>1
    <2>3. p + (n + j) - 1 = (p + n) + j - 1
        BY <1>1
    <2>4. w[p + (n + j) - 1] = f[i][n + j]
        BY <1>1, <2>2
    <2> QED BY <1>4, <2>3, <2>4
<1>11. p + n \in 1..(Len(w) + 1) /\ Len(w) - (p + n) + 1 = Len(f[i + n])
    BY <1>0, <1>1, <1>4, <1>5
<1> QED BY <1>3, <1>5, <1>6, <1>9, <1>10, <1>11 DEF TailIs

\* Outside of the hits it matches the same, and behind that the same goes on.
LEMMA LengthAfter ==
    ASSUME NEW T, NEW v \in Seq(T), NEW H, Apart(H, v), \A h \in H : h.marker \in T,
           EitherMarker(H), NEW f, IsComposed(v, H, f), NEW w \in Seq(T),
           NEW r, Blind(r), NEW i \in 1..Len(v), NEW p, TailIs(w, p, f[i]),
           \A h \in H : h.at # i
    PROVE  /\ p \in 1..Len(w)
           /\ MatchLength(r, v, i) = 0 => MatchLength(r, w, p) = 0
           /\ MatchLength(r, v, i) > 0 /\ Free(H, i, MatchLength(r, v, i)) =>
                 /\ MatchLength(r, w, p) = MatchLength(r, v, i)
                 /\ TailIs(w, p + MatchLength(r, v, i), f[i + MatchLength(r, v, i)])
<1>0. Len(v) \in Nat /\ Len(w) \in Nat /\ i \in 1..(Len(v) + 1)
    OBVIOUS
<1>1. p \in 1..Len(w)
    <2>1. Starts(f[i], v[i], f[i + 1])
        BY ComposedShape
    <2> QED BY <1>0, <2>1, TailNext
<1>2. /\ MatchLength(r, v, i) \in 0..Len(v) /\ MatchLength(r, w, p) \in 0..Len(w)
      /\ MatchLength(r, v, i) > 0 => Matches(r, v, i, MatchLength(r, v, i))
      /\ MatchLength(r, w, p) > 0 => Matches(r, w, p, MatchLength(r, w, p))
    BY <1>1, MatchLengthBounds, MatchLengthLongest
<1>3. ASSUME MatchLength(r, w, p) > 0
      PROVE  MatchLength(r, w, p) <= MatchLength(r, v, i)
    <2> DEFINE n == MatchLength(r, w, p)
    <2>1. n \in 1..Len(w) /\ Matches(r, w, p, n)
        BY <1>0, <1>2, <1>3
    <2> HIDE DEF n
    <2>2. n \in 1..Len(v) /\ Matches(r, v, i, n)
        BY <1>0, <2>1, MatchBefore
    <2> QED BY <2>2, MatchLengthLongest DEF n
<1>4. ASSUME MatchLength(r, v, i) > 0, Free(H, i, MatchLength(r, v, i))
      PROVE  /\ MatchLength(r, w, p) = MatchLength(r, v, i)
             /\ TailIs(w, p + MatchLength(r, v, i), f[i + MatchLength(r, v, i)])
    <2> DEFINE n == MatchLength(r, v, i)
    <2>1. n \in 1..Len(v) /\ Matches(r, v, i, n) /\ Free(H, i, n)
        BY <1>0, <1>2, <1>4
    <2> HIDE DEF n
    <2>2. n \in 1..Len(w) /\ Matches(r, w, p, n) /\ TailIs(w, p + n, f[i + n])
        BY <2>1, MatchAfter
    <2>3. n <= MatchLength(r, w, p)
        BY <1>1, <2>2, MatchLengthLongest
    <2>4. MatchLength(r, w, p) = n
        BY <1>0, <1>2, <1>3, <2>1, <2>3 DEF n
    <2> QED BY <2>2, <2>4 DEF n
<1> QED BY <1>0, <1>1, <1>2, <1>3, <1>4

\* On a marker it matches nothing.
LEMMA MarkerMatchless ==
    ASSUME NEW T, NEW w \in Seq(T), NEW r, Blind(r), NEW p \in 1..Len(w),
           w[p] \in {RedactedEmail, RedactedPattern}
    PROVE  MatchLength(r, w, p) = 0
<1> DEFINE n == MatchLength(r, w, p)
<1>0. Len(w) \in Nat
    OBVIOUS
<1>1. n \in 0..Len(w) /\ (n > 0 => Matches(r, w, p, n))
    BY MatchLengthBounds, MatchLengthLongest
<1> HIDE DEF n
<1>2. ASSUME n > 0 PROVE FALSE
    <2>1. p + n - 1 <= Len(w) /\ Word(w, p, n) \in r.words /\ n \in Nat \ {0}
        BY <1>0, <1>1, <1>2 DEF Matches
    <2>2. 1 \in 1..Len(Word(w, p, n)) /\ Word(w, p, n)[1] = w[p]
        BY <1>0, <2>1 DEF Word
    <2>3. ~Contains(Word(w, p, n), RedactedEmail) /\ ~Contains(Word(w, p, n), RedactedPattern)
        BY <2>1 DEF Blind, PlainPattern
    <2> QED BY <2>2, <2>3 DEF Contains
<1> QED BY <1>0, <1>1, <1>2 DEF n

\* The scan comes by the end of each hit, and goes on where there is none.
LEMMA InsideNext ==
    ASSUME NEW v, Len(v) \in Nat, NEW H, Apart(H, v)
    PROVE  /\ \A h \in H : ~Inside(H, h.at + h.size)
           /\ \A i \in 1..Len(v) : ~Inside(H, i) /\ (\A h \in H : h.at # i) => ~Inside(H, i + 1)
<1>1. \A h \in H : h.at \in 1..Len(v) /\ h.size \in 1..Len(v)
    BY DEF Apart
<1>2. ASSUME NEW h \in H, NEW g \in H, g.at < h.at + h.size, h.at + h.size < g.at + g.size
      PROVE  FALSE
    <2>1. g = h \/ g.at + g.size <= h.at \/ h.at + h.size <= g.at
        BY DEF Apart, Disjoint
    <2> QED BY <1>1, <1>2, <2>1
<1>3. ASSUME NEW i \in 1..Len(v), ~Inside(H, i), \A h \in H : h.at # i,
             NEW h \in H, h.at < i + 1, i + 1 < h.at + h.size
      PROVE  FALSE
    <2>1. h.at < i /\ i < h.at + h.size
        BY <1>1, <1>3
    <2> QED BY <1>3, <2>1 DEF Inside
<1> QED BY <1>2, <1>3 DEF Inside

Extends(G, H, new) == \A h : h \in G <=> h \in H \/ h \in new

\* A redactor running where hits have been replaced adds its own to them.
LEMMA ReplaceComposed ==
    ASSUME NEW T, NEW v \in Seq(T), NEW H, Apart(H, v), \A h \in H : h.marker \in T,
           EitherMarker(H), NEW f, IsComposed(v, H, f), NEW w \in Seq(T),
           NEW r, Blind(r), NEW rest, IsRest(r, w, RedactedPattern, rest),
           NEW G, Apart(G, v), NEW g, IsComposed(v, G, g),
           Extends(G, H, HitsOf(r, v, RedactedPattern))
    PROVE  \A i \in 1..(Len(v) + 1) : \A p \in 1..(Len(w) + 1) :
              ~Inside(G, i) /\ TailIs(w, p, f[i]) => rest[p] = g[i]
<1> DEFINE L == Len(v)
           S == {i \in 1..(L + 1) : \A p \in 1..(Len(w) + 1) :
                    ~Inside(G, i) /\ TailIs(w, p, f[i]) => rest[p] = g[i]}
<1>1. L \in Nat /\ Len(w) \in Nat
    OBVIOUS
<1>2. ASSUME NEW h \in G PROVE g[h.at] = <<h.marker>> \o g[h.at + h.size]
    BY <1>1, ComposedHit
<1>3. /\ \A h \in HitsOf(r, v, RedactedPattern) :
             h.size > 0 /\ h.size = MatchLength(r, v, h.at)
      /\ \A i \in 1..L : MatchLength(r, v, i) > 0 /\ ~Inside(HitsOf(r, v, RedactedPattern), i) =>
             [at |-> i, size |-> MatchLength(r, v, i), marker |-> RedactedPattern]
                \in HitsOf(r, v, RedactedPattern)
    <2> HIDE DEF L
    <2>1. L = Len(v)
        BY DEF L
    <2> QED BY <2>1, HitsMatch, HitsScan
<1>4. ASSUME NEW p \in 1..Len(w)
      PROVE  rest[p] = <<Front(r, w, RedactedPattern, p)>> \o rest[After(r, w, p)]
    <2>1. RestFrom(r, w, RedactedPattern, rest, p)
        BY <1>1, RestStep
    <2> QED BY <2>1 DEF RestFrom
<1>5. ASSUME NEW i \in 1..(L + 1), \A k \in (i + 1)..(L + 1) : k \in S
      PROVE  i \in S
    <2>1. SUFFICES ASSUME NEW p \in 1..(Len(w) + 1), ~Inside(G, i), TailIs(w, p, f[i])
                   PROVE  rest[p] = g[i]
        OBVIOUS
    <2>2. ASSUME NEW n, i + n \in (i + 1)..(L + 1), ~Inside(G, i + n),
                 NEW q \in 1..(Len(w) + 1), TailIs(w, q, f[i + n])
          PROVE  rest[q] = g[i + n]
        BY <1>5, <2>2
    <2> HIDE DEF S
    <2>3. CASE i = L + 1
        <3>1. f[i] = <<>> /\ g[i] = <<>>
            BY <1>1, <2>3, ComposedEnd
        <3>2. p = Len(w) + 1
            BY <1>1, <2>1, <3>1 DEF TailIs
        <3>3. rest[p] = <<>>
            BY <1>1, <3>2, RestEnd
        <3> QED BY <3>1, <3>3
    <2>4. ASSUME NEW h \in H, h.at = i PROVE rest[p] = g[i]
        <3>1. h \in G /\ h.size \in 1..L /\ i + h.size \in (i + 1)..(L + 1)
            BY <1>1, <2>4 DEF Apart, Extends
        <3>2. Starts(f[i], h.marker, f[i + h.size])
            <4>1. Starts(f[h.at], h.marker, f[h.at + h.size])
                BY ComposedShape
            <4> QED BY <2>4, <4>1
        <3>3. p \in 1..Len(w) /\ w[p] = h.marker /\ TailIs(w, p + 1, f[i + h.size])
            BY <1>1, <2>1, <3>2, TailNext
        <3>4. MatchLength(r, w, p) = 0
            BY <3>3, MarkerMatchless DEF EitherMarker
        <3>5. rest[p] = <<h.marker>> \o rest[p + 1]
            <4>1. rest[p] = <<Front(r, w, RedactedPattern, p)>> \o rest[After(r, w, p)]
                BY <1>4, <3>3
            <4> QED BY <3>3, <3>4, <4>1 DEF Front, After
        <3>6. ~Inside(G, i + h.size)
            BY <1>1, <2>4, <3>1, InsideNext
        <3>7. rest[p + 1] = g[i + h.size]
            <4>1. p + 1 \in 1..(Len(w) + 1)
                BY <1>1, <3>3
            <4> QED BY <2>2, <3>1, <3>3, <3>6, <4>1
        <3>8. g[i] = <<h.marker>> \o g[i + h.size]
            <4>1. g[h.at] = <<h.marker>> \o g[h.at + h.size]
                BY <1>2, <3>1
            <4> QED BY <2>4, <4>1
        <3> QED BY <3>5, <3>7, <3>8
    <2>5. ASSUME i # L + 1, \A h \in H : h.at # i, MatchLength(r, v, i) > 0
          PROVE  rest[p] = g[i]
        <3> DEFINE n == MatchLength(r, v, i)
                   h == [at |-> i, size |-> n, marker |-> RedactedPattern]
        <3>1. i \in 1..L /\ n \in 0..L /\ i + n <= L + 1
            <4>1. i \in 1..L
                BY <1>1, <2>5
            <4> QED BY <4>1, MatchLengthBounds
        <3>2. i + n \in (i + 1)..(L + 1)
            BY <1>1, <2>5, <3>1
        <3>3. h \in G
            <4>1. ~Inside(HitsOf(r, v, RedactedPattern), i)
                BY <2>1 DEF Inside, Extends
            <4>2. h \in HitsOf(r, v, RedactedPattern)
                BY <2>5, <3>1, <4>1, <1>3
            <4> QED BY <4>2 DEF Extends
        <3>4. Free(H, i, n)
            <4>1. ASSUME NEW k \in H PROVE k.at < i \/ i + n <= k.at
                <5>1. k \in G /\ k.at # i /\ k.at \in 1..L /\ k.size \in 1..L
                    BY <2>5 DEF Apart, Extends
                <5>2. k = h \/ k.at + k.size <= h.at \/ h.at + h.size <= k.at
                    BY <3>3, <5>1 DEF Apart, Disjoint
                <5>3. h.at = i /\ h.size = n
                    OBVIOUS
                <5> QED BY <3>1, <5>1, <5>2, <5>3
            <4> QED BY <4>1 DEF Free
        <3>5. p \in 1..Len(w) /\ MatchLength(r, w, p) = n /\ TailIs(w, p + n, f[i + n])
            BY <2>1, <2>5, <3>1, <3>4, LengthAfter
        <3>6. rest[p] = <<RedactedPattern>> \o rest[p + n]
            <4>1. rest[p] = <<Front(r, w, RedactedPattern, p)>> \o rest[After(r, w, p)]
                BY <1>4, <3>5
            <4> QED BY <2>5, <3>5, <4>1 DEF Front, After
        <3>7. ~Inside(G, i + n)
            <4>1. ~Inside(G, h.at + h.size)
                BY <1>1, <3>3, InsideNext
            <4> QED BY <4>1
        <3>8. g[i] = <<RedactedPattern>> \o g[i + n]
            <4>1. g[h.at] = <<h.marker>> \o g[h.at + h.size]
                BY <1>2, <3>3
            <4> QED BY <4>1
        <3>9. p + n \in 1..(Len(w) + 1)
            BY <3>5 DEF TailIs
        <3> HIDE DEF n
        <3>10. rest[p + n] = g[i + n]
            BY <2>2, <3>2, <3>5, <3>7, <3>9
        <3> QED BY <3>6, <3>8, <3>10
    <2>6. ASSUME i # L + 1, \A h \in H : h.at # i, ~(MatchLength(r, v, i) > 0)
          PROVE  rest[p] = g[i]
        <3>1. i \in 1..L /\ MatchLength(r, v, i) = 0
            <4>1. i \in 1..L
                BY <1>1, <2>6
            <4>2. MatchLength(r, v, i) \in 0..L
                BY <4>1, MatchLengthBounds
            <4> QED BY <2>6, <4>1, <4>2
        <3>2. \A h \in G : h.at # i
            BY <1>3, <2>6 DEF Extends
        <3>3. p \in 1..Len(w) /\ MatchLength(r, w, p) = 0
            BY <2>1, <2>6, <3>1, LengthAfter
        <3>4. w[p] = v[i] /\ TailIs(w, p + 1, f[i + 1])
            <4>1. Starts(f[i], v[i], f[i + 1])
                BY <2>6, <3>1, ComposedShape
            <4> QED BY <1>1, <2>1, <4>1, TailNext
        <3>5. rest[p] = <<v[i]>> \o rest[p + 1]
            <4>1. rest[p] = <<Front(r, w, RedactedPattern, p)>> \o rest[After(r, w, p)]
                BY <1>4, <3>3
            <4> QED BY <3>3, <3>4, <4>1 DEF Front, After
        <3>6. ~Inside(G, i + 1)
            BY <1>1, <2>1, <3>1, <3>2, InsideNext
        <3>7. rest[p + 1] = g[i + 1]
            <4>1. p + 1 \in 1..(Len(w) + 1) /\ i + 1 \in (i + 1)..(L + 1)
                BY <1>1, <3>1, <3>3
            <4> QED BY <2>2, <3>4, <3>6, <4>1
        <3>8. g[i] = <<v[i]>> \o g[i + 1]
            BY <1>1, <3>1, <3>2, ComposedFree
        <3> QED BY <3>5, <3>7, <3>8
    <2> QED BY <2>3, <2>4, <2>5, <2>6
<1> HIDE DEF S
<1>6. \A i \in 1..(L + 1) : i \in S
    BY <1>1, <1>5, Downward
<1> QED BY <1>6 DEF S

\* The first redactor replaces its own hits.
LEMMA FirstComposed ==
    ASSUME NEW T, NEW v \in Seq(T), NEW r, NEW m, NEW rest, IsRest(r, v, m, rest),
           NEW H, Apart(H, v), Extends(H, {}, HitsOf(r, v, m)), NEW f, IsComposed(v, H, f)
    PROVE  \A i \in 1..(Len(v) + 1) : ~Inside(H, i) => rest[i] = f[i]
<1> DEFINE L == Len(v)
           S == {i \in 1..(L + 1) : ~Inside(H, i) => rest[i] = f[i]}
<1>1. L \in Nat
    OBVIOUS
<1>2. /\ \A h \in HitsOf(r, v, m) :
             h.size > 0 /\ h.size = MatchLength(r, v, h.at) /\ h.marker = m
      /\ \A i \in 1..L : MatchLength(r, v, i) > 0 /\ ~Inside(HitsOf(r, v, m), i) =>
             [at |-> i, size |-> MatchLength(r, v, i), marker |-> m] \in HitsOf(r, v, m)
    <2> HIDE DEF L
    <2>1. L = Len(v)
        BY DEF L
    <2> QED BY <2>1, HitsMatch, HitsScan
<1>3. ASSUME NEW i \in 1..L
      PROVE  rest[i] = <<Front(r, v, m, i)>> \o rest[After(r, v, i)]
    <2>1. RestFrom(r, v, m, rest, i)
        BY <1>1, RestStep
    <2> QED BY <2>1 DEF RestFrom
<1>4. ASSUME NEW i \in 1..(L + 1), \A k \in (i + 1)..(L + 1) : k \in S
      PROVE  i \in S
    <2>1. SUFFICES ASSUME ~Inside(H, i) PROVE rest[i] = f[i]
        OBVIOUS
    <2>2. ASSUME NEW n, i + n \in (i + 1)..(L + 1), ~Inside(H, i + n)
          PROVE  rest[i + n] = f[i + n]
        BY <1>4, <2>2
    <2> HIDE DEF S
    <2>3. CASE i = L + 1
        BY <1>1, <2>3, RestEnd, ComposedEnd
    <2>4. ASSUME NEW h \in H, h.at = i PROVE rest[i] = f[i]
        <3>1. /\ h.size > 0 /\ h.size = MatchLength(r, v, i) /\ h.marker = m
              /\ i \in 1..L /\ i + h.size \in (i + 1)..(L + 1)
            BY <1>1, <1>2, <2>4 DEF Apart, Extends
        <3>2. rest[i] = <<m>> \o rest[i + h.size]
            BY <1>3, <3>1 DEF Front, After
        <3>3. f[i] = <<m>> \o f[i + h.size]
            <4>1. f[h.at] = <<h.marker>> \o f[h.at + h.size]
                BY <1>1, ComposedHit
            <4> QED BY <2>4, <3>1, <4>1
        <3>4. ~Inside(H, i + h.size)
            BY <1>1, <2>4, InsideNext
        <3> QED BY <2>2, <3>1, <3>2, <3>3, <3>4
    <2>5. ASSUME i # L + 1, \A h \in H : h.at # i PROVE rest[i] = f[i]
        <3>1. i \in 1..L /\ i + 1 \in (i + 1)..(L + 1)
            BY <1>1, <2>5
        <3>2. ~(MatchLength(r, v, i) > 0)
            <4>1. ~Inside(HitsOf(r, v, m), i)
                BY <2>1 DEF Inside, Extends
            <4>2. ASSUME MatchLength(r, v, i) > 0 PROVE FALSE
                <5> DEFINE h == [at |-> i, size |-> MatchLength(r, v, i), marker |-> m]
                <5>1. h \in HitsOf(r, v, m) /\ h.at = i
                    BY <1>2, <3>1, <4>1, <4>2
                <5> HIDE DEF h
                <5>2. h \in H
                    BY <5>1 DEF Extends
                <5> QED BY <2>5, <5>1, <5>2
            <4> QED BY <4>2
        <3>3. rest[i] = <<v[i]>> \o rest[i + 1]
            BY <1>3, <3>1, <3>2 DEF Front, After
        <3>4. f[i] = <<v[i]>> \o f[i + 1]
            BY <1>1, <2>5, <3>1, ComposedFree
        <3>5. ~Inside(H, i + 1)
            BY <1>1, <2>1, <2>5, <3>1, InsideNext
        <3> QED BY <2>2, <3>1, <3>3, <3>4, <3>5
    <2> QED BY <2>3, <2>4, <2>5
<1> HIDE DEF S
<1>5. \A i \in 1..(L + 1) : i \in S
    BY <1>1, <1>4, Downward
<1> QED BY <1>5 DEF S

\* A redactor that matches nothing would replace nothing.
LEMMA NothingToReplace ==
    ASSUME NEW T, NEW r, NEW v \in Seq(T), NEW m, ~MatchString(r, v)
    PROVE  ReplaceAllString(r, v, m) = v
<1>1. PICK rest : IsRest(r, v, m, rest) /\ ReplaceAllString(r, v, m) = rest[1]
    BY ReplaceIsRest
<1> DEFINE L == Len(v)
           S == {i \in 1..(L + 1) : TailIs(v, i, rest[i])}
<1>2. L \in Nat
    OBVIOUS
<1>3. \A i \in 1..(L + 1) : rest[i] \in Seq(T \cup {m})
    BY <1>1, RestType
<1>4. ASSUME NEW i \in 1..L
      PROVE  rest[i] = <<Front(r, v, m, i)>> \o rest[After(r, v, i)]
    <2>1. IsRest(r, v, m, rest) /\ Len(v) \in Nat
        BY <1>1
    <2>2. RestFrom(r, v, m, rest, i)
        BY <2>1, RestStep
    <2> QED BY <2>2 DEF RestFrom
<1>5. ASSUME NEW i \in 1..(L + 1), \A k \in (i + 1)..(L + 1) : k \in S
      PROVE  i \in S
    <2>1. CASE i = L + 1
        <3>1. rest[i] = <<>>
            BY <1>1, <1>2, <2>1, RestEnd
        <3> QED BY <1>2, <2>1, <3>1 DEF TailIs
    <2>2. CASE i # L + 1
        <3> DEFINE t == rest[i + 1]
                   s == rest[i]
        <3>1. i \in 1..L /\ i + 1 \in (i + 1)..(L + 1) /\ TailIs(v, i + 1, t)
            BY <1>2, <1>5, <2>2
        <3>2. ~(MatchLength(r, v, i) > 0)
            BY <3>1 DEF MatchString
        <3>3. s = <<v[i]>> \o t
            BY <3>1, <3>2, <1>4 DEF Front, After
        <3>4. t \in Seq(T \cup {m}) /\ v[i] \in T \cup {m}
            BY <1>2, <1>3, <3>1
        <3> HIDE DEF s, t
        <3>5. /\ Len(s) = Len(t) + 1 /\ s[1] = v[i] /\ Len(t) \in Nat
              /\ \A j \in 1..Len(t) : s[j + 1] = t[j]
            BY <3>3, <3>4, Prefixed
        <3>6. /\ Len(v) - (i + 1) + 1 = Len(t)
              /\ \A j \in 1..Len(t) : v[(i + 1) + j - 1] = t[j]
            BY <3>1 DEF TailIs
        <3>7. ASSUME NEW j \in 1..Len(s) PROVE v[i + j - 1] = s[j]
            <4>1. CASE j = 1
                BY <3>1, <3>5, <4>1
            <4>2. CASE j # 1
                <5>1. j - 1 \in 1..Len(t) /\ (j - 1) + 1 = j /\ (i + 1) + (j - 1) - 1 = i + j - 1
                    BY <3>5, <4>2
                <5> QED BY <3>5, <3>6, <5>1
            <4> QED BY <4>1, <4>2
        <3>8. Len(s) \in Nat /\ Len(v) - i + 1 = Len(s)
            <4>1. Len(s) = Len(t) + 1 /\ Len(t) \in Nat /\ Len(v) - (i + 1) + 1 = Len(t)
                BY <3>5, <3>6
            <4> QED BY <1>2, <3>1, <4>1
        <3>9. TailIs(v, i, s)
            BY <1>2, <3>7, <3>8 DEF TailIs
        <3> QED BY <3>9 DEF s
    <2> QED BY <2>1, <2>2
<1> HIDE DEF S
<1>6. \A i \in 1..(L + 1) : i \in S
    BY <1>2, <1>5, Downward
<1>7. TailIs(v, 1, rest[1]) /\ rest[1] \in Seq(T \cup {m}) /\ v \in Seq(T \cup {m})
    BY <1>2, <1>3, <1>6, SeqMonotonic DEF S
<1>8. Len(rest[1]) = Len(v) /\ \A j \in 1..Len(v) : rest[1][j] = v[j]
    <2>1. Len(v) - 1 + 1 = Len(rest[1]) /\ \A j \in 1..Len(rest[1]) : v[1 + j - 1] = rest[1][j]
        BY <1>7 DEF TailIs
    <2>2. \A j \in 1..Len(v) : 1 + j - 1 = j
        OBVIOUS
    <2> QED BY <1>2, <2>1, <2>2
<1> QED BY <1>1, <1>7, <1>8, SeqEqual

\* w is v with the hits of H replaced at once.
ComposedTo(v, H, w) == \A f : IsComposed(v, H, f) => w = f[1]

\* The scan begins outside of every hit.
LEMMA BeginsOutside ==
    ASSUME NEW v, Len(v) \in Nat, NEW H, Apart(H, v)
    PROVE  ~Inside(H, 1) /\ 1 \in 1..(Len(v) + 1)
    BY DEF Apart, Inside

\* The first redactor.
LEMMA FirstReplaces ==
    ASSUME NEW T, NEW v \in Seq(T), NEW r, NEW m, NEW H, Apart(H, v),
           Extends(H, {}, HitsOf(r, v, m))
    PROVE  ComposedTo(v, H, ReplaceAllString(r, v, m))
<1>1. PICK rest : IsRest(r, v, m, rest) /\ ReplaceAllString(r, v, m) = rest[1]
    BY ReplaceIsRest
<1>2. ~Inside(H, 1) /\ 1 \in 1..(Len(v) + 1)
    <2>1. Len(v) \in Nat
        OBVIOUS
    <2> QED BY <2>1, BeginsOutside
<1>3. ASSUME NEW f, IsComposed(v, H, f) PROVE rest[1] = f[1]
    <2>1. IsRest(r, v, m, rest)
        BY <1>1
    <2> QED BY <1>2, <1>3, <2>1, FirstComposed
<1> QED BY <1>1, <1>3 DEF ComposedTo

\* One that runs where hits have been replaced.
LEMMA NextReplaces ==
    ASSUME NEW T, NEW v \in Seq(T), NEW H, Apart(H, v), \A h \in H : h.marker \in T,
           EitherMarker(H), NEW w \in Seq(T), ComposedTo(v, H, w), NEW r, Blind(r),
           NEW G, Apart(G, v), Extends(G, H, HitsOf(r, v, RedactedPattern))
    PROVE  ComposedTo(v, G, ReplaceAllString(r, w, RedactedPattern))
<1>0. Len(v) \in Nat /\ Len(w) \in Nat
    OBVIOUS
<1>1. PICK rest : /\ IsRest(r, w, RedactedPattern, rest)
                  /\ ReplaceAllString(r, w, RedactedPattern) = rest[1]
    BY ReplaceIsRest
<1>2. PICK f : IsComposed(v, H, f)
    BY <1>0, ComposedExists
<1>3. w = f[1]
    BY <1>2 DEF ComposedTo
<1>4. TailIs(w, 1, f[1]) /\ 1 \in 1..(Len(w) + 1)
    <2>1. Len(w) - 1 + 1 = Len(w) /\ \A j \in 1..Len(w) : 1 + j - 1 = j
        BY <1>0
    <2> QED BY <1>0, <1>3, <2>1 DEF TailIs
<1>5. ~Inside(G, 1) /\ 1 \in 1..(Len(v) + 1)
    BY <1>0, BeginsOutside
<1>6. ASSUME NEW g, IsComposed(v, G, g) PROVE rest[1] = g[1]
    <2>1. IsRest(r, w, RedactedPattern, rest)
        BY <1>1
    <2>2. \A i \in 1..(Len(v) + 1) : \A p \in 1..(Len(w) + 1) :
              ~Inside(G, i) /\ TailIs(w, p, f[i]) => rest[p] = g[i]
        BY <1>2, <1>6, <2>1, ReplaceComposed
    <2> QED BY <1>4, <1>5, <2>2
<1> QED BY <1>1, <1>6 DEF ComposedTo

-----------------------------------------------------------------------------
(* The composition.                                                        *)

\* The hits of the e-mail pattern and of the first j of the patterns ps.
HitsUpTo(ps, v, j) ==
    HitsOf(Email, v, RedactedEmail)
    \cup UNION {HitsOf(ps[l], v, RedactedPattern) : l \in 1..j}

\* Hits are those of the e-mail pattern and of all configured ones.
LEMMA HitsAre ==
    ASSUME NEW v
    PROVE  Hits(v) = HitsOf(Email, v, RedactedEmail)
                     \cup UNION {HitsOf(r, v, RedactedPattern) : r \in Configured}
    BY DEF Hits, HitsOf

\* The patterns' hits are among them: all of them in the end.
LEMMA HitsUpToAmong ==
    ASSUME NEW v, NEW ps \in Seq(Expressions), Range(ps) = Configured
    PROVE  /\ \A j \in 0..Len(ps) : HitsUpTo(ps, v, j) \subseteq Hits(v)
           /\ HitsUpTo(ps, v, Len(ps)) = Hits(v)
           /\ Extends(HitsUpTo(ps, v, 0), {}, HitsOf(Email, v, RedactedEmail))
           /\ \A j \in 0..(Len(ps) - 1) :
                 Extends(HitsUpTo(ps, v, j + 1), HitsUpTo(ps, v, j),
                         HitsOf(ps[j + 1], v, RedactedPattern))
<1>1. Len(ps) \in Nat
    OBVIOUS
<1>2. /\ \A l \in 1..Len(ps) : ps[l] \in Configured
      /\ \A r \in Configured : \E l \in 1..Len(ps) : ps[l] = r
    BY RangeEquality
<1>3. ASSUME NEW h
      PROVE  h \in Hits(v) <=>
                \/ h \in HitsOf(Email, v, RedactedEmail)
                \/ \E r \in Configured : h \in HitsOf(r, v, RedactedPattern)
    BY HitsAre
<1>4. ASSUME NEW j, NEW h
      PROVE  h \in HitsUpTo(ps, v, j) <=>
                \/ h \in HitsOf(Email, v, RedactedEmail)
                \/ \E l \in 1..j : h \in HitsOf(ps[l], v, RedactedPattern)
    BY DEF HitsUpTo
<1>5. ASSUME NEW j \in 0..Len(ps) PROVE HitsUpTo(ps, v, j) \subseteq Hits(v)
    <2>1. \A l \in 1..j : l \in 1..Len(ps)
        BY <1>1
    <2> QED BY <1>2, <1>3, <1>4, <2>1
<1>6. Hits(v) \subseteq HitsUpTo(ps, v, Len(ps))
    BY <1>2, <1>3, <1>4
<1>7. Extends(HitsUpTo(ps, v, 0), {}, HitsOf(Email, v, RedactedEmail))
    BY <1>4 DEF Extends
<1>8. ASSUME NEW j \in 0..(Len(ps) - 1)
      PROVE  Extends(HitsUpTo(ps, v, j + 1), HitsUpTo(ps, v, j),
                     HitsOf(ps[j + 1], v, RedactedPattern))
    <2>1. \A l : l \in 1..(j + 1) <=> l \in 1..j \/ l = j + 1
        BY <1>1
    <2> QED BY <1>4, <2>1 DEF Extends
<1>9. Len(ps) \in 0..Len(ps)
    BY <1>1
<1> QED BY <1>5, <1>6, <1>7, <1>8, <1>9

\* Where no two of them overlap, they are apart.
LEMMA HitsApart ==
    ASSUME NEW T, NEW v \in Seq(T), Disjoint(Hits(v)), NEW H, H \subseteq Hits(v)
    PROVE  Apart(H, v) /\ EitherMarker(H)
<1>1. ASSUME NEW r, NEW m, NEW h \in HitsOf(r, v, m)
      PROVE  /\ h.at \in 1..Len(v) /\ h.size \in 1..Len(v)
             /\ h.at + h.size <= Len(v) + 1 /\ h.marker = m
    <2>1. h.at \in 1..Len(v) /\ h.size = MatchLength(r, v, h.at) /\ h.size > 0 /\ h.marker = m
        BY HitsMatch
    <2>2. /\ MatchLength(r, v, h.at) \in 0..Len(v)
          /\ h.at + MatchLength(r, v, h.at) <= Len(v) + 1
        BY <2>1, MatchLengthBounds
    <2> QED BY <2>1, <2>2
<1>2. ASSUME NEW h \in H
      PROVE  /\ h.at \in 1..Len(v) /\ h.size \in 1..Len(v) /\ h.at + h.size <= Len(v) + 1
             /\ h.marker \in {RedactedEmail, RedactedPattern}
    <2>1. \/ h \in HitsOf(Email, v, RedactedEmail)
          \/ \E r \in Configured : h \in HitsOf(r, v, RedactedPattern)
        BY HitsAre
    <2> QED BY <1>1, <2>1
<1> QED BY <1>2 DEF Apart, Disjoint, EitherMarker

\* No configured expression has a boundary condition or matches one of the markers:
\* it would see more or less than before where something has been replaced.
PatternsBlind == \A r \in Expressions : Blind(r)

\* The value at work on is the received one with the hits so far replaced, a
\* sanitized one is that with all of them replaced; unless some of them overlap.
ComposedInv ==
    /\ pc \notin {"policy", "refused"} => Range(patterns) = Configured
    /\ pc = "pattern" /\ Disjoint(Hits(raw[key])) =>
          ComposedTo(raw[key], HitsUpTo(patterns, raw[key], step), value)
    /\ \A k \in DOMAIN out \ SensitiveKeys :
          Disjoint(Hits(raw[k])) => ComposedTo(raw[k], Hits(raw[k]), out[k])

\* Initially nothing has been composed and nothing sanitized.
LEMMA CompositionInit == Init => ComposedInv
    BY DEF Init, ComposedInv

\* What the two kinds of redactor make of a received value.
LEMMA RedactorsCompose ==
    ASSUME PatternsBlind, raw \in Inputs, NEW k \in Attributes, Disjoint(Hits(raw[k])),
           patterns \in Seq(Expressions), Range(patterns) = Configured
    PROVE  /\ ComposedTo(raw[k], HitsUpTo(patterns, raw[k], 0),
                         ReplaceAllString(Email, raw[k], RedactedEmail))
           /\ \A j \in 0..(Len(patterns) - 1) : \A w \in Seq(Sanitized) :
                 ComposedTo(raw[k], HitsUpTo(patterns, raw[k], j), w) =>
                    ComposedTo(raw[k], HitsUpTo(patterns, raw[k], j + 1),
                               ReplaceAllString(patterns[j + 1], w, RedactedPattern))
<1> DEFINE v == raw[k]
           H(j) == HitsUpTo(patterns, v, j)
<1>1. v \in Seq(Sanitized) /\ Len(patterns) \in Nat
    BY RawValue
<1>2. /\ \A j \in 0..Len(patterns) : H(j) \subseteq Hits(v)
      /\ Extends(H(0), {}, HitsOf(Email, v, RedactedEmail))
      /\ \A j \in 0..(Len(patterns) - 1) :
            Extends(H(j + 1), H(j), HitsOf(patterns[j + 1], v, RedactedPattern))
    BY HitsUpToAmong
<1>3. Disjoint(Hits(v))
    OBVIOUS
<1> HIDE DEF v, H
<1>4. ASSUME NEW j \in 0..Len(patterns)
      PROVE  Apart(H(j), v) /\ EitherMarker(H(j)) /\ \A h \in H(j) : h.marker \in Sanitized
    <2>1. Apart(H(j), v) /\ EitherMarker(H(j))
        BY <1>1, <1>2, <1>3, HitsApart
    <2> QED BY <2>1 DEF EitherMarker, Sanitized
<1>5. ComposedTo(v, H(0), ReplaceAllString(Email, v, RedactedEmail))
    <2>1. 0 \in 0..Len(patterns)
        BY <1>1
    <2> QED BY <1>1, <1>2, <1>4, <2>1, FirstReplaces
<1>6. ASSUME NEW j \in 0..(Len(patterns) - 1), NEW w \in Seq(Sanitized),
             ComposedTo(v, H(j), w)
      PROVE  ComposedTo(v, H(j + 1), ReplaceAllString(patterns[j + 1], w, RedactedPattern))
    <2>1. j \in 0..Len(patterns) /\ j + 1 \in 0..Len(patterns) /\ j + 1 \in 1..Len(patterns)
        BY <1>1
    <2>2. Blind(patterns[j + 1])
        BY <2>1 DEF PatternsBlind
    <2> QED BY <1>1, <1>2, <1>4, <1>6, <2>1, <2>2, NextReplaces
<1> QED BY <1>5, <1>6 DEF v, H

\* Every redactor adds the replacements of its own hits.
LEMMA CompositionStep ==
    ASSUME PatternsBlind
    PROVE  ShapeInv /\ ReportInv /\ ComposedInv /\ [Next]_vars => ComposedInv'
<1> SUFFICES ASSUME ShapeInv, ReportInv, ComposedInv, [Next]_vars PROVE ComposedInv'
    OBVIOUS
<1> USE DEF ComposedInv
<1>0. ASSUME UNCHANGED policy PROVE Configured' = Configured /\ \A v : Hits(v)' = Hits(v)
    BY <1>0 DEF Configured, Hits, Found
<1>1. CASE ResolvePolicy
    <2>1. DOMAIN out = {}
        BY <1>1 DEF ResolvePolicy, ShapeInv, TypeOK
    <2>2. policy \in TenantPolicies \cup {NoPolicy}
        BY <1>1 DEF ResolvePolicy, ShapeInv, TypeOK
    <2>3. Range(patterns') = Configured'
        BY <1>1, <2>2, Composition DEF ResolvePolicy, Configured
    <2> QED BY <1>1, <2>1, <2>3 DEF ResolvePolicy
<1>2. CASE RefusePolicy
    BY <1>0, <1>2 DEF RefusePolicy
<1>3. CASE RedactSensitive
    <2>1. PICK k \in todo \cap SensitiveKeys :
              /\ pc = "attribute"
              /\ out' = Put(k, <<Redacted>>)
              /\ UNCHANGED <<raw, policy, patterns, pc, key, step, value>>
        BY <1>3 DEF RedactSensitive
    <2>2. \A j \in DOMAIN out' \ SensitiveKeys :
             j \in DOMAIN out \ SensitiveKeys /\ out'[j] = out[j]
        BY <2>1 DEF Put
    <2> QED BY <1>0, <2>1, <2>2
<1>4. CASE RedactEmail
    <2>1. PICK k \in todo \ SensitiveKeys :
              /\ pc = "attribute"
              /\ key' = k
              /\ value' = IF MatchString(Email, raw[k])
                          THEN ReplaceAllString(Email, raw[k], RedactedEmail) ELSE raw[k]
              /\ step' = 0
              /\ pc' = "pattern"
              /\ UNCHANGED <<raw, policy, patterns, out>>
        BY <1>4 DEF RedactEmail
    <2>2. k \in Attributes /\ raw \in Inputs /\ patterns \in Seq(Expressions)
        BY <2>1 DEF ShapeInv, TypeOK
    <2>3. value' = ReplaceAllString(Email, raw[k], RedactedEmail)
        <3>1. CASE MatchString(Email, raw[k])
            BY <2>1, <3>1
        <3>2. CASE ~MatchString(Email, raw[k])
            <4>1. raw[k] \in Seq(Tokens)
                BY <2>2, RawValue
            <4>2. ReplaceAllString(Email, raw[k], RedactedEmail) = raw[k]
                BY <3>2, <4>1, NothingToReplace
            <4> QED BY <2>1, <3>2, <4>2
        <3> QED BY <3>1, <3>2
    <2>4. Disjoint(Hits(raw[k])) => ComposedTo(raw[k], HitsUpTo(patterns, raw[k], 0), value')
        BY <2>1, <2>2, <2>3, RedactorsCompose
    <2> QED BY <1>0, <2>1, <2>4
<1>5. CASE RedactPattern
    <2> DEFINE r == patterns[step + 1]
    <2>1. /\ pc = "pattern" /\ step < Len(patterns)
          /\ step' = step + 1
          /\ value' = IF MatchString(r, value)
                      THEN ReplaceAllString(r, value, RedactedPattern) ELSE value
          /\ UNCHANGED <<raw, policy, patterns, pc, key, out>>
        BY <1>5 DEF RedactPattern
    <2>2. /\ key \in Attributes /\ raw \in Inputs /\ patterns \in Seq(Expressions)
          /\ value \in Seq(Sanitized) /\ step \in 0..(Len(patterns) - 1)
        BY <2>1 DEF ShapeInv, TypeOK
    <2>3. value' = ReplaceAllString(r, value, RedactedPattern)
        <3>1. CASE MatchString(r, value)
            BY <2>1, <3>1
        <3>2. CASE ~MatchString(r, value)
            <4> HIDE DEF r
            <4>1. ReplaceAllString(r, value, RedactedPattern) = value
                BY <2>2, <3>2, NothingToReplace
            <4> QED BY <2>1, <3>2, <4>1
        <3> QED BY <3>1, <3>2
    <2>4. Disjoint(Hits(raw[key])) =>
             ComposedTo(raw[key], HitsUpTo(patterns, raw[key], step + 1), value')
        <3>1. Disjoint(Hits(raw[key])) =>
                 ComposedTo(raw[key], HitsUpTo(patterns, raw[key], step), value)
            BY <2>1
        <3> QED BY <2>1, <2>2, <2>3, <3>1, RedactorsCompose
    <2> QED BY <1>0, <2>1, <2>4
<1>6. CASE FinishAttribute
    <2>1. /\ pc = "pattern" /\ step = Len(patterns)
          /\ out' = Put(key, IF redacted THEN value ELSE raw[key])
          /\ pc' = "attribute"
          /\ UNCHANGED <<raw, policy, patterns>>
        BY <1>6 DEF FinishAttribute
    <2>2. out' = Put(key, value)
        BY <2>1 DEF ReportInv
    <2>3. HitsUpTo(patterns, raw[key], step) = Hits(raw[key])
        <3>1. patterns \in Seq(Expressions) /\ Range(patterns) = Configured
            BY <2>1 DEF ShapeInv
        <3> QED BY <2>1, <3>1, HitsUpToAmong
    <2>4. ASSUME NEW k \in DOMAIN out' \ SensitiveKeys, Disjoint(Hits(raw[k]))
          PROVE  ComposedTo(raw[k], Hits(raw[k]), out'[k])
        <3>1. CASE k = key
            <4>1. out'[k] = value
                BY <2>2, <2>4, <3>1 DEF Put
            <4> QED BY <2>1, <2>3, <2>4, <3>1, <4>1
        <3>2. CASE k # key
            <4>1. k \in DOMAIN out \ SensitiveKeys /\ out'[k] = out[k]
                BY <2>2, <2>4, <3>2 DEF Put
            <4> QED BY <2>4, <4>1
        <3> QED BY <3>1, <3>2
    <2> QED BY <1>0, <2>1, <2>4
<1>7. CASE Return
    BY <1>0, <1>7 DEF Return
<1>8. CASE UNCHANGED vars
    BY <1>0, <1>8 DEF vars
<1> QED BY <1>1, <1>2, <1>3, <1>4, <1>5, <1>6, <1>7, <1>8 DEF Next

\* Where no configured expression sees the markers, and no two matches in a received
\* value overlap, running the e-mail pattern and then every other over what the ones
\* before it have left (Sanitize, redaction.go) returns what replacing all matches at
\* once would: each of them exactly once, and nothing else.
THEOREM AllReplacementsComposed ==
    ASSUME PatternsBlind
    PROVE  Spec => []Composed
<1>1. ASSUME ShapeInv, ComposedInv PROVE Composed
    <2>1. SUFFICES ASSUME pc = "done", NEW k \in Plain, Disjoint(Hits(raw[k]))
                   PROVE  out[k] = AllAtOnce(raw[k])
        BY DEF Composed
    <2>2. k \in DOMAIN out \ SensitiveKeys /\ k \in Attributes /\ raw \in Inputs
        BY <1>1, <2>1, DoneComplete DEF Plain, ShapeInv, TypeOK
    <2>3. raw[k] \in Seq(Tokens)
        BY <2>2, RawValue
    <2> DEFINE v == raw[k]
    <2>4. v \in Seq(Tokens) /\ Len(v) \in Nat /\ Disjoint(Hits(v))
        BY <2>1, <2>3
    <2>5. ComposedTo(v, Hits(v), out[k])
        BY <1>1, <2>1, <2>2 DEF ComposedInv
    <2> HIDE DEF v
    <2>6. Apart(Hits(v), v)
        BY <2>4, HitsApart
    <2>7. PICK f : IsComposed(v, Hits(v), f) /\ AllAtOnce(v) = f[1]
        BY <2>4, <2>6, AllAtOnceIsComposed
    <2>8. out[k] = AllAtOnce(v)
        BY <2>5, <2>7 DEF ComposedTo
    <2> QED BY <2>8 DEF v
<1>2. ShapeInv /\ ReportInv /\ ComposedInv /\ [Next]_vars => ComposedInv'
    BY CompositionStep
<1> QED BY ShapeInit, ShapeStep, ReportInit, ReportStep, CompositionInit, <1>1, <1>2, PTL DEF Spec

=============================================================================
