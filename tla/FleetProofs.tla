----------------------------- MODULE FleetProofs ----------------------------
(* What the drift engine reports and what ExpandTargets returns are right,  *)
(* for every inventory a tenant can leave in the store and for every        *)
(* specification of targets, at any width, limit and number of resources.   *)
(* The loops of the code are recursive functions: Recursion and Unfolding   *)
(* say what they compute, Induction that a property of their prefixes       *)
(* carries to the end.  Then, in this order: Select and LatestVersion, the  *)
(* comparison of versions, the report, the inventory whose invariant says   *)
(* where rows come from, blocks of addresses, tokens, and specifications.   *)
EXTENDS Fleet, SequenceTheorems, FiniteSetTheorems, WellFoundedInduction, TLAPS

-----------------------------------------------------------------------------
(* Induction and recursion on the numbers, without operator parameters: the *)
(* property and the step of a loop are a set and a function.                *)

LEMMA Least ==
    ASSUME NEW S \in SUBSET Nat, S # {}
    PROVE  \E m \in S : \A n \in S : m <= n
<1> DEFINE R == OpToRel(<, Nat)
<1>1. PICK m \in S : \A n \in S : <<n, m>> \notin R
    <2>1. IsWellFoundedOn(R, Nat)
        BY NatLessThanWellFounded
    <2> HIDE DEF R
    <2> QED BY <2>1, WFMin
<1>2. \A n \in S : ~(n < m)
    BY <1>1 DEF OpToRel
<1> QED BY <1>2

LEMMA Induction ==
    ASSUME NEW n \in Nat, NEW S, 0 \in S, \A i \in 1..n : i - 1 \in S => i \in S
    PROVE  0..n \subseteq S
<1> DEFINE T == {i \in 0..n : i \notin S}
<1>1. SUFFICES ASSUME T # {} PROVE FALSE
    OBVIOUS
<1>2. PICK m \in T : \A i \in T : m <= i
    <2>1. T \in SUBSET Nat
        OBVIOUS
    <2> HIDE DEF T
    <2> QED BY <1>1, <2>1, Least
<1>3. m \in 1..n /\ m - 1 \in 0..n /\ ~(m <= m - 1)
    OBVIOUS
<1>4. m - 1 \in S
    BY <1>2, <1>3
<1> QED BY <1>3, <1>4

Steps(n, V) == [(1..n) \X V -> V]
Run(n, V, v, G, f) ==
    f \in [0..n -> V] /\ f[0] = v /\ \A i \in 1..n : f[i] = G[<<i, f[i - 1]>>]

LEMMA Recursion ==
    ASSUME NEW n \in Nat, NEW V, NEW v \in V, NEW G \in Steps(n, V)
    PROVE  \E f : Run(n, V, v, G, f)
<1> DEFINE S == {k \in 0..n : \E f : Run(k, V, v, G, f)}
<1>1. 0 \in S
    <2> DEFINE f == [j \in 0..0 |-> v]
    <2>1. f \in [0..0 -> V] /\ f[0] = v
        OBVIOUS
    <2> HIDE DEF f
    <2> QED BY <2>1 DEF Run
<1>2. ASSUME NEW k \in 1..n, k - 1 \in S PROVE k \in S
    <2>1. PICK f : Run(k - 1, V, v, G, f)
        BY <1>2
    <2> DEFINE g == [j \in 0..k |-> IF j = k THEN G[<<k, f[k - 1]>>] ELSE f[j]]
    <2>2. f[k - 1] \in V /\ G[<<k, f[k - 1]>>] \in V
        BY <2>1 DEF Run, Steps
    <2>3. g \in [0..k -> V]
        BY <2>1, <2>2 DEF Run
    <2>4. g[0] = v /\ g[k] = G[<<k, f[k - 1]>>] /\ \A j \in 0..(k - 1) : g[j] = f[j]
        BY <2>1 DEF Run
    <2> HIDE DEF g
    <2>5. \A i \in 1..k : g[i] = G[<<i, g[i - 1]>>]
        <3> TAKE i \in 1..k
        <3>1. i - 1 \in 0..(k - 1) /\ g[i - 1] = f[i - 1]
            BY <2>4
        <3>2. CASE i = k
            BY <2>4, <3>1, <3>2
        <3>3. CASE i # k
            <4>1. i \in 1..(k - 1) /\ i \in 0..(k - 1)
                BY <3>3
            <4> QED BY <2>1, <2>4, <3>1, <4>1 DEF Run
        <3> QED BY <3>2, <3>3
    <2> QED BY <2>3, <2>4, <2>5 DEF Run
<1>3. n \in S
    <2> HIDE DEF S
    <2> QED BY <1>1, <1>2, Induction
<1> QED BY <1>3

\* A function that takes these steps is such a run.
LEMMA Unfolding ==
    ASSUME NEW n \in Nat, NEW V, NEW v \in V, NEW G \in Steps(n, V), NEW h,
           h = [i \in 0..n |-> h[i]], h[0] = v,
           \A i \in 1..n : h[i - 1] \in V => h[i] = G[<<i, h[i - 1]>>]
    PROVE  Run(n, V, v, G, h)
<1> DEFINE S == {i \in 0..n : h[i] \in V}
<1>1. 0 \in S
    OBVIOUS
<1>2. ASSUME NEW i \in 1..n, i - 1 \in S PROVE i \in S
    <2>1. <<i, h[i - 1]>> \in (1..n) \X V
        BY <1>2
    <2>2. h[i] \in V
        BY <1>2, <2>1 DEF Steps
    <2> QED BY <2>2
<1>3. 0..n \subseteq S
    <2> HIDE DEF S
    <2> QED BY <1>1, <1>2, Induction
<1>4. h \in [0..n -> V]
    BY <1>3
<1>5. \A i \in 1..n : h[i - 1] \in V
    BY <1>4
<1> QED BY <1>4, <1>5 DEF Run

-----------------------------------------------------------------------------
(* Select and the counts of the drift engine.                               *)

\* The loop of Select: f[i] is what it keeps of the first i elements.
SelectRun(S, s, T, f) ==
    /\ f \in [0..Len(s) -> Seq(S)] /\ f[0] = <<>>
    /\ \A i \in 1..Len(s) : f[i] = IF s[i] \in T THEN Append(f[i - 1], s[i]) ELSE f[i - 1]
    /\ Select(s, T) = f[Len(s)]

LEMMA SelectLoop ==
    ASSUME NEW S, NEW s \in Seq(S), NEW T
    PROVE  \E f : SelectRun(S, s, T, f)
<1> DEFINE n == Len(s)
           V == Seq(S)
           e == <<>>
           step(i, x) == IF s[i] \in T THEN Append(x, s[i]) ELSE x
           kept(f) == [i \in 0..n |-> IF i = 0 THEN e ELSE step(i, f[i - 1])]
           h == CHOOSE f : f = kept(f)
           G == [y \in (1..n) \X V |-> step(y[1], y[2])]
<1>1. n \in Nat /\ e \in V
    OBVIOUS
<1>2. ASSUME NEW i \in 1..n, NEW x \in V PROVE step(i, x) \in V
    <2>1. s[i] \in S
        OBVIOUS
    <2> QED BY <2>1, AppendProperties
<1>3. Select(s, T) = h[n]
    BY DEF Select
<1>4. SUFFICES \E f \in [0..n -> V] :
          f[0] = e /\ (\A i \in 1..n : f[i] = step(i, f[i - 1])) /\ Select(s, T) = f[n]
    BY DEF SelectRun
<1> HIDE DEF n, V, e, step
<1>5. G \in Steps(n, V)
    BY <1>2 DEF Steps
<1>6. \A i \in 1..n, x \in V : G[<<i, x>>] = step(i, x)
    OBVIOUS
<1> HIDE DEF G
<1>7. \E f : f = kept(f)
    <2>1. PICK f : Run(n, V, e, G, f)
        BY <1>1, <1>5, Recursion
    <2>2. f \in [0..n -> V] /\ \A i \in 1..n : f[i] = step(i, f[i - 1])
        <3>1. \A i \in 1..n : i - 1 \in 0..n
            BY <1>1
        <3> QED BY <1>6, <2>1, <3>1 DEF Run
    <2> QED BY <1>1, <2>1, <2>2 DEF Run
<1>8. h = kept(h)
    BY <1>7
<1> HIDE DEF h
<1>9. Run(n, V, e, G, h)
    <2>1. h = [i \in 0..n |-> h[i]] /\ h[0] = e /\ \A i \in 1..n : h[i] = step(i, h[i - 1])
        BY <1>1, <1>8
    <2> QED BY <1>1, <1>5, <1>6, <2>1, Unfolding
<1>10. \A i \in 1..n : h[i - 1] \in V
    BY <1>1, <1>9 DEF Run
<1> QED BY <1>3, <1>6, <1>9, <1>10 DEF Run
LEMMA RangeOfAppend ==
    ASSUME NEW S, NEW s \in Seq(S), NEW a \in S
    PROVE  /\ Append(s, a) \in Seq(S) /\ Len(Append(s, a)) = Len(s) + 1
           /\ Range(Append(s, a)) = Range(s) \cup {a}
<1>1. /\ Append(s, a) \in Seq(S) /\ Len(Append(s, a)) = Len(s) + 1
      /\ \A i \in 1..Len(s) : Append(s, a)[i] = s[i]
      /\ Append(s, a)[Len(s) + 1] = a
    BY AppendProperties
<1>2. DOMAIN s = 1..Len(s) /\ DOMAIN Append(s, a) = 1..(Len(s) + 1) /\ Len(s) \in Nat
    BY <1>1
<1> DEFINE t == Append(s, a)
<1> HIDE DEF t
<1>3. ASSUME NEW x PROVE x \in Range(t) <=> x \in Range(s) \cup {a}
    <2>1. x \in Range(t) <=> \E i \in 1..(Len(s) + 1) : t[i] = x
        BY <1>2 DEF Range, t
    <2>2. x \in Range(s) <=> \E i \in 1..Len(s) : s[i] = x
        BY <1>2 DEF Range
    <2>3. \A i \in 1..(Len(s) + 1) : i \in 1..Len(s) \/ i = Len(s) + 1
        BY <1>2
    <2>4. Len(s) + 1 \in 1..(Len(s) + 1) /\ \A i \in 1..Len(s) : i \in 1..(Len(s) + 1)
        BY <1>2
    <2> QED BY <1>1, <2>1, <2>2, <2>3, <2>4 DEF t
<1> QED BY <1>1, <1>3 DEF t

\* Select keeps the elements of the sequence that are in the set, and no other.
LEMMA SelectRange ==
    ASSUME NEW S, NEW s \in Seq(S), NEW T
    PROVE  Select(s, T) \in Seq(S \cap T) /\ Range(Select(s, T)) = Range(s) \cap T
<1>1. PICK f : SelectRun(S, s, T, f)
    BY SelectLoop
<1> DEFINE n == Len(s)
           seen(i) == {s[j] : j \in 1..i}
           Q == {i \in 0..n : Range(f[i]) = seen(i) \cap T}
<1>2. n \in Nat /\ n = Len(s) /\ (\A i \in 1..n : s[i] \in S) /\ DOMAIN s = 1..n
    OBVIOUS
<1>3. Range(s) = seen(n)
    BY <1>2 DEF Range
<1>4. 0 \in Q
    <2>1. 0 \in 0..n /\ Range(<<>>) = {} /\ seen(0) = {}
        BY <1>2 DEF Range
    <2> QED BY <1>1, <2>1 DEF SelectRun
<1>5. ASSUME NEW i \in 1..n, i - 1 \in Q PROVE i \in Q
    <2>1. f[i - 1] \in Seq(S) /\ s[i] \in S /\ Range(f[i - 1]) = seen(i - 1) \cap T
        BY <1>1, <1>2, <1>5 DEF SelectRun
    <2>2. seen(i) = seen(i - 1) \cup {s[i]}
        <3>1. \A j \in 1..i : j = i \/ j \in 1..(i - 1)
            BY <1>2
        <3>2. i \in 1..i /\ \A j \in 1..(i - 1) : j \in 1..i
            BY <1>2
        <3> QED BY <3>1, <3>2
    <2> HIDE DEF seen
    <2>3. CASE s[i] \in T
        <3>1. f[i] = Append(f[i - 1], s[i])
            BY <1>1, <1>2, <2>3 DEF SelectRun
        <3>2. Range(f[i]) = Range(f[i - 1]) \cup {s[i]}
            BY <2>1, <3>1, RangeOfAppend
        <3> QED BY <2>1, <2>2, <2>3, <3>2
    <2>4. CASE s[i] \notin T
        <3>1. f[i] = f[i - 1]
            BY <1>1, <1>2, <2>4 DEF SelectRun
        <3> QED BY <2>1, <2>2, <2>4, <3>1
    <2> QED BY <2>3, <2>4
<1>6. n \in Q
    <2> HIDE DEF Q, n
    <2>1. 0..n \subseteq Q
        BY <1>2, <1>4, <1>5, Induction
    <2> QED BY <1>2, <2>1
<1>7. Range(Select(s, T)) = Range(s) \cap T
    BY <1>1, <1>3, <1>6 DEF SelectRun
<1>8. Select(s, T) \in Seq(S \cap T)
    <2>1. Select(s, T) \in Seq(S)
        BY <1>1, <1>2 DEF SelectRun
    <2> DEFINE t == Select(s, T)
    <2> HIDE DEF t
    <2>2. t \in Seq(S) /\ Range(t) \subseteq T
        BY <1>7, <2>1 DEF t
    <2>3. Len(t) \in Nat /\ t \in [1..Len(t) -> S \cap T]
        BY <2>2 DEF Range
    <2>4. t \in Seq(S \cap T)
        BY <2>3
    <2> QED BY <2>4 DEF t
<1> QED BY <1>7, <1>8

\* The elements are distributed over selections that are disjoint.
LEMMA SelectCounts ==
    ASSUME NEW S, NEW s \in Seq(S), NEW A, NEW B, NEW C,
           \A i \in 1..Len(s) : \/ s[i] \in A /\ s[i] \notin B /\ s[i] \notin C
                                \/ s[i] \notin A /\ s[i] \in B /\ s[i] \notin C
                                \/ s[i] \notin A /\ s[i] \notin B /\ s[i] \in C
    PROVE  Len(Select(s, A)) + Len(Select(s, B)) + Len(Select(s, C)) = Len(s)
<1>1. PICK a : SelectRun(S, s, A, a)
    BY SelectLoop
<1>2. PICK b : SelectRun(S, s, B, b)
    BY SelectLoop
<1>3. PICK c : SelectRun(S, s, C, c)
    BY SelectLoop
<1> DEFINE n == Len(s)
           count(i) == Len(a[i]) + Len(b[i]) + Len(c[i])
           Q == {i \in 0..n : count(i) = i}
<1>4. n \in Nat /\ n = Len(s) /\ \A i \in 1..n : s[i] \in S
    OBVIOUS
<1>5. 0 \in Q
    <2>1. 0 \in 0..n /\ Len(<<>>) = 0
        BY <1>4
    <2> QED BY <1>1, <1>2, <1>3, <2>1 DEF SelectRun
<1>6. ASSUME NEW i \in 1..n, i - 1 \in Q PROVE i \in Q
    <2>1. /\ a[i - 1] \in Seq(S) /\ b[i - 1] \in Seq(S) /\ c[i - 1] \in Seq(S)
          /\ Len(a[i - 1]) + Len(b[i - 1]) + Len(c[i - 1]) = i - 1 /\ s[i] \in S
        BY <1>1, <1>2, <1>3, <1>4, <1>6 DEF SelectRun
    <2>2. \A x \in Seq(S) : Len(Append(x, s[i])) = Len(x) + 1 /\ Len(x) \in Nat
        BY <2>1, RangeOfAppend
    <2>3. /\ Len(a[i]) = IF s[i] \in A THEN Len(a[i - 1]) + 1 ELSE Len(a[i - 1])
          /\ Len(b[i]) = IF s[i] \in B THEN Len(b[i - 1]) + 1 ELSE Len(b[i - 1])
          /\ Len(c[i]) = IF s[i] \in C THEN Len(c[i - 1]) + 1 ELSE Len(c[i - 1])
        BY <1>1, <1>2, <1>3, <2>1, <2>2 DEF SelectRun
    <2>4. /\ Len(a[i - 1]) \in Nat /\ Len(b[i - 1]) \in Nat /\ Len(c[i - 1]) \in Nat
          /\ \/ s[i] \in A /\ s[i] \notin B /\ s[i] \notin C
             \/ s[i] \notin A /\ s[i] \in B /\ s[i] \notin C
             \/ s[i] \notin A /\ s[i] \notin B /\ s[i] \in C
        BY <2>1
    <2> DEFINE x == Len(a[i - 1])
               y == Len(b[i - 1])
               z == Len(c[i - 1])
               x1 == Len(a[i])
               y1 == Len(b[i])
               z1 == Len(c[i])
    <2>5. /\ x \in Nat /\ y \in Nat /\ z \in Nat /\ x + y + z = i - 1
          /\ \/ x1 = x + 1 /\ y1 = y /\ z1 = z
             \/ x1 = x /\ y1 = y + 1 /\ z1 = z
             \/ x1 = x /\ y1 = y /\ z1 = z + 1
        BY <2>1, <2>3, <2>4
    <2>6. count(i) = x1 + y1 + z1
        OBVIOUS
    <2>7. i \in Int
        BY <1>4
    <2>8. count(i) = i
        <3> HIDE DEF x, y, z, x1, y1, z1, count, n
        <3> QED BY <2>5, <2>6, <2>7
    <2> HIDE DEF count
    <2> QED BY <1>4, <2>8
<1>7. n \in Q
    <2> HIDE DEF Q, n
    <2>1. 0..n \subseteq Q
        BY <1>4, <1>5, <1>6, Induction
    <2> QED BY <1>4, <2>1
<1> QED BY <1>1, <1>2, <1>3, <1>7 DEF SelectRun
-----------------------------------------------------------------------------
(* The order of versions.                                                   *)

Versions == DOMAIN Digits

LEMMA AtoiType ==
    ASSUME NEW ds \in Seq(0..9)
    PROVE  atoi(ds) \in Nat
<1> DEFINE n == Len(ds)
           step(i, x) == IF x > AtoiLimit THEN x ELSE x * 10 + ds[i]
           V == Nat
           e == 0
           sum(f) == [i \in 0..n |-> IF i = 0 THEN e ELSE step(i, f[i - 1])]
           h == CHOOSE f : f = sum(f)
           G == [y \in (1..n) \X V |-> step(y[1], y[2])]
<1>1. n \in Nat /\ e \in V /\ \A i \in 1..n : ds[i] \in 0..9
    OBVIOUS
<1>2. ASSUME NEW i \in 1..n, NEW x \in V PROVE step(i, x) \in V
    <2> HIDE DEF n
    <2> QED BY <1>1
<1>3. atoi(ds) = h[n]
    BY DEF atoi
<1> HIDE DEF n, V, e, step
<1>4. G \in Steps(n, V)
    BY <1>2 DEF Steps
<1>5. \A i \in 1..n, x \in V : G[<<i, x>>] = step(i, x)
    OBVIOUS
<1> HIDE DEF G
<1>6. \E f : f = sum(f)
    <2>1. PICK f : Run(n, V, e, G, f)
        BY <1>1, <1>4, Recursion
    <2>2. f \in [0..n -> V] /\ \A i \in 1..n : f[i] = step(i, f[i - 1])
        <3>1. \A i \in 1..n : i - 1 \in 0..n
            BY <1>1
        <3> QED BY <1>5, <2>1, <3>1 DEF Run
    <2> QED BY <1>1, <2>1, <2>2 DEF Run
<1>7. h = sum(h)
    BY <1>6
<1> HIDE DEF h
<1>8. Run(n, V, e, G, h)
    <2>1. h = [i \in 0..n |-> h[i]] /\ h[0] = e /\ \A i \in 1..n : h[i] = step(i, h[i - 1])
        BY <1>1, <1>7
    <2> QED BY <1>1, <1>4, <1>5, <2>1, Unfolding
<1> QED BY <1>1, <1>3, <1>8 DEF Run, V

LEMMA FieldType ==
    ASSUME NEW v \in Versions, NEW i \in Nat \ {0}
    PROVE  /\ Field(v, i) \in Nat
           /\ Len(Digits[v]) \in Nat /\ DOMAIN Digits[v] = 1..Len(Digits[v])
           /\ i > Len(Digits[v]) => Field(v, i) = 0
<1>1. Digits[v] \in Seq(Seq(0..9))
    BY DigitsAssumption DEF Versions
<1>2. Len(Digits[v]) \in Nat /\ DOMAIN Digits[v] = 1..Len(Digits[v])
    BY <1>1
<1>3. CASE i <= Len(Digits[v])
    <2>1. Digits[v][i] \in Seq(0..9)
        BY <1>1, <1>3
    <2> QED BY <1>2, <1>3, <2>1, AtoiType DEF Field
<1>4. CASE ~(i <= Len(Digits[v]))
    BY <1>2, <1>4 DEF Field
<1> QED BY <1>2, <1>3, <1>4

\* Field i decides between two versions.
Ahead(v, w, i) ==
    i \in Nat \ {0} /\ Field(v, i) > Field(w, i) /\ \A j \in 1..(i - 1) : Field(v, j) = Field(w, j)

LEMMA NewerAhead ==
    ASSUME NEW v \in Versions, NEW w \in Versions
    PROVE  Newer(v, w) <=> \E i : Ahead(v, w, i)
<1>1. ASSUME NEW i, Ahead(v, w, i) PROVE Newer(v, w)
    <2>1. i \in Nat \ {0} /\ Field(v, i) > Field(w, i)
        BY <1>1 DEF Ahead
    <2>2. i \in DOMAIN Digits[v]
        <3>1. Field(v, i) \in Nat /\ Field(w, i) \in Nat /\ Field(v, i) # 0
            BY <2>1, FieldType
        <3>2. ~(i > Len(Digits[v])) /\ Len(Digits[v]) \in Nat
            BY <2>1, <3>1, FieldType
        <3>3. i \in 1..Len(Digits[v])
            BY <2>1, <3>2
        <3> QED BY <2>1, <3>3, FieldType
    <2> QED BY <1>1, <2>2 DEF Newer, Ahead
<1>2. ASSUME Newer(v, w) PROVE \E i : Ahead(v, w, i)
    <2>1. PICK i \in DOMAIN Digits[v] :
              Field(v, i) > Field(w, i) /\ \A j \in 1..(i - 1) : Field(v, j) = Field(w, j)
        BY <1>2 DEF Newer
    <2>2. 1 \in Nat \ {0}
        OBVIOUS
    <2>3. i \in Nat \ {0}
        BY <2>2, FieldType
    <2> QED BY <2>1, <2>3 DEF Ahead
<1> QED BY <1>1, <1>2

LEMMA Extremes ==
    ASSUME NEW x \in Nat, NEW y \in Nat
    PROVE  Max({x, y}) \in Nat /\ Max({x, y}) >= x /\ Max({x, y}) >= y
<1>1. \E m \in {x, y} : \A k \in {x, y} : m >= k
    OBVIOUS
<1>2. Max({x, y}) \in {x, y} /\ \A k \in {x, y} : Max({x, y}) >= k
    BY <1>1 DEF Max
<1> QED BY <1>2

LEMMA MinOf ==
    ASSUME NEW S \in SUBSET Nat, S # {}
    PROVE  Min(S) \in S /\ \A x \in S : Min(S) <= x
BY Least DEF Min

\* compareVersion is the order by the first field that differs.
LEMMA CompareNewer ==
    ASSUME NEW v \in Versions, NEW w \in Versions
    PROVE  /\ compareVersion(v, w) > 0 <=> Newer(v, w)
           /\ compareVersion(v, w) < 0 <=> Newer(w, v)
           /\ ~(Newer(v, w) /\ Newer(w, v))
<1> DEFINE n == Max({Len(Digits[v]), Len(Digits[w])})
           differ == {i \in 1..n : Field(v, i) # Field(w, i)}
           m == Min(differ)
<1>1. n \in Nat /\ \A i \in Nat \ {0} : i > n => Field(v, i) = Field(w, i)
    <2>1. 1 \in Nat \ {0}
        OBVIOUS
    <2>2. Len(Digits[v]) \in Nat /\ Len(Digits[w]) \in Nat
        BY <2>1, FieldType
    <2>3. n \in Nat /\ n >= Len(Digits[v]) /\ n >= Len(Digits[w])
        BY <2>2, Extremes
    <2> HIDE DEF n
    <2>4. ASSUME NEW i \in Nat \ {0}, i > n PROVE Field(v, i) = Field(w, i)
        <3>1. i > Len(Digits[v]) /\ i > Len(Digits[w])
            BY <2>2, <2>3, <2>4
        <3> QED BY <3>1, FieldType
    <2> QED BY <2>3, <2>4
<1>2. compareVersion(v, w) =
          IF v = w \/ differ = {} THEN 0 ELSE IF Field(v, m) < Field(w, m) THEN -1 ELSE 1
    BY DEF compareVersion
<1> HIDE DEF n
<1>3. \A i \in Nat \ {0} : i \notin differ => Field(v, i) = Field(w, i)
    BY <1>1
<1>4. CASE differ = {}
    <2>1. \A i : ~Ahead(v, w, i) /\ ~Ahead(w, v, i)
        BY <1>3, <1>4, FieldType DEF Ahead
    <2> QED BY <1>2, <1>4, <2>1, NewerAhead
<1>5. CASE differ # {}
    <2>1. differ \in SUBSET Nat /\ \A i \in differ : i \in Nat \ {0} /\ Field(v, i) # Field(w, i)
        BY <1>1
    <2> HIDE DEF differ
    <2>2. m \in differ /\ \A i \in differ : m <= i
        BY <1>5, <2>1, MinOf
    <2> HIDE DEF m
    <2>3. m \in Nat \ {0} /\ Field(v, m) \in Nat /\ Field(w, m) \in Nat /\ Field(v, m) # Field(w, m)
        BY <2>1, <2>2, FieldType
    <2>4. \A j \in 1..(m - 1) : Field(v, j) = Field(w, j)
        BY <1>3, <2>2, <2>3
    <2>5. \A i : Ahead(v, w, i) \/ Ahead(w, v, i) => i = m
        <3> SUFFICES ASSUME NEW i, Ahead(v, w, i) \/ Ahead(w, v, i) PROVE i = m
            OBVIOUS
        <3>1. i \in Nat \ {0} /\ Field(v, i) \in Nat /\ Field(w, i) \in Nat /\ Field(v, i) # Field(w, i)
            BY FieldType DEF Ahead
        <3>2. ~(i < m)
            BY <2>3, <2>4, <3>1
        <3>3. ~(m < i)
            BY <2>3, <3>1 DEF Ahead
        <3> QED BY <2>3, <3>1, <3>2, <3>3
    <2>6. Ahead(v, w, m) <=> Field(v, m) > Field(w, m)
        BY <2>3, <2>4 DEF Ahead
    <2>7. Ahead(w, v, m) <=> Field(w, m) > Field(v, m)
        BY <2>3, <2>4 DEF Ahead
    <2>8. /\ Newer(v, w) <=> Field(v, m) > Field(w, m)
          /\ Newer(w, v) <=> Field(w, m) > Field(v, m)
        BY <2>5, <2>6, <2>7, NewerAhead
    <2>9. v # w
        BY <2>3
    <2> QED BY <1>2, <1>5, <2>3, <2>8, <2>9
<1> QED BY <1>4, <1>5

LEMMA NewerOrder ==
    ASSUME NEW u \in Versions, NEW v \in Versions, NEW w \in Versions, Newer(u, w)
    PROVE  Newer(u, v) \/ Newer(v, w)
<1>1. PICK i : Ahead(u, w, i)
    BY NewerAhead
<1> DEFINE S == {j \in 1..i : Field(v, j) # Field(u, j) \/ Field(v, j) # Field(w, j)}
<1>2. /\ i \in Nat \ {0}
      /\ \A j \in 1..i : j \in Nat \ {0} /\ Field(u, j) \in Nat /\ Field(v, j) \in Nat /\ Field(w, j) \in Nat
    BY <1>1, FieldType DEF Ahead
<1>3. i \in S
    BY <1>1, <1>2 DEF Ahead
<1>4. PICK m \in S : \A j \in S : m <= j
    <2>1. S \in SUBSET Nat /\ S # {}
        BY <1>2, <1>3
    <2> HIDE DEF S
    <2> QED BY <2>1, Least
<1>5. m \in 1..i /\ m \in Nat \ {0} /\ \A j \in 1..(m - 1) : j \in 1..i /\ j < m
    BY <1>2, <1>4
<1>6. \A j \in 1..(m - 1) : Field(v, j) = Field(u, j) /\ Field(v, j) = Field(w, j)
    BY <1>2, <1>4, <1>5
<1>7. Field(u, m) >= Field(w, m)
    <2>1. m = i \/ m \in 1..(i - 1)
        BY <1>2, <1>5
    <2> QED BY <1>1, <1>2, <1>5, <2>1 DEF Ahead
<1>8. Field(u, m) > Field(v, m) \/ Field(v, m) > Field(w, m)
    BY <1>2, <1>4, <1>5, <1>7
<1>9. Ahead(u, v, m) \/ Ahead(v, w, m)
    BY <1>5, <1>6, <1>8 DEF Ahead
<1> QED BY <1>9, NewerAhead

-----------------------------------------------------------------------------
(* The latest version.                                                      *)

Known(a) == a.version \notin {Blank, Unknown}

\* The known versions of the first i agents, none newer than v; v is the first
\* that is as new.
Latest(s, i, v) ==
    \/ v = Blank /\ \A k \in 1..i : Known(s[k]) => ~Newer(s[k].version, Blank)
    \/ \E j \in 1..i :
           /\ Known(s[j]) /\ v = s[j].version /\ Newer(v, Blank)
           /\ \A k \in 1..i : Known(s[k]) => ~Newer(s[k].version, v)
           /\ \A k \in 1..(j - 1) : Known(s[k]) => Newer(v, s[k].version)

LEMMA LatestLoop ==
    ASSUME NEW S, NEW s \in Seq(S), \A a \in S : a.version \in Versions
    PROVE  \E f : /\ f \in [0..Len(s) -> Versions] /\ f[0] = Blank
                  /\ \A i \in 1..Len(s) : f[i] = newest(f[i - 1], s[i])
                  /\ LatestVersion(s) = f[Len(s)]
<1> DEFINE n == Len(s)
           V == Versions
           e == Blank
           step(i, x) == newest(x, s[i])
           best(f) == [i \in 0..n |-> IF i = 0 THEN e ELSE step(i, f[i - 1])]
           h == CHOOSE f : f = best(f)
           G == [y \in (1..n) \X V |-> step(y[1], y[2])]
<1>1. n \in Nat /\ e \in V
    BY DigitsAssumption DEF Versions
<1>2. ASSUME NEW i \in 1..n, NEW x \in V PROVE step(i, x) \in V
    <2>1. s[i] \in S
        OBVIOUS
    <2> QED BY <2>1 DEF newest
<1>3. LatestVersion(s) = h[n]
    BY DEF LatestVersion
<1>4. SUFFICES \E f : /\ f \in [0..n -> V] /\ f[0] = e
                      /\ \A i \in 1..n : f[i] = step(i, f[i - 1])
                      /\ LatestVersion(s) = f[n]
    OBVIOUS
<1> HIDE DEF n, V, e, step
<1>5. G \in Steps(n, V)
    BY <1>2 DEF Steps
<1>6. \A i \in 1..n, x \in V : G[<<i, x>>] = step(i, x)
    OBVIOUS
<1> HIDE DEF G
<1>7. \E f : f = best(f)
    <2>1. PICK f : Run(n, V, e, G, f)
        BY <1>1, <1>5, Recursion
    <2>2. f \in [0..n -> V] /\ \A i \in 1..n : f[i] = step(i, f[i - 1])
        <3>1. \A i \in 1..n : i - 1 \in 0..n
            BY <1>1
        <3> QED BY <1>6, <2>1, <3>1 DEF Run
    <2> QED BY <1>1, <2>1, <2>2 DEF Run
<1>8. h = best(h)
    BY <1>7
<1> HIDE DEF h
<1>9. Run(n, V, e, G, h)
    <2>1. h = [i \in 0..n |-> h[i]] /\ h[0] = e /\ \A i \in 1..n : h[i] = step(i, h[i - 1])
        <3>1. h = [i \in 0..n |-> h[i]] /\ 0 \in 0..n
            BY <1>1, <1>8
        <3>2. \A i \in 0..n : h[i] = IF i = 0 THEN e ELSE step(i, h[i - 1])
            BY <1>8
        <3> QED BY <1>1, <3>1, <3>2
    <2> QED BY <1>1, <1>5, <1>6, <2>1, Unfolding
<1>10. \A i \in 1..n : h[i - 1] \in V
    BY <1>1, <1>9 DEF Run
<1> QED BY <1>3, <1>6, <1>9, <1>10 DEF Run

\* LatestVersion gives it.
LEMMA LatestIs ==
    ASSUME NEW S, NEW s \in Seq(S), \A a \in S : a.version \in Versions
    PROVE  LatestVersion(s) \in Versions /\ Latest(s, Len(s), LatestVersion(s))
<1>1. PICK f : /\ f \in [0..Len(s) -> Versions] /\ f[0] = Blank
               /\ \A i \in 1..Len(s) : f[i] = newest(f[i - 1], s[i])
               /\ LatestVersion(s) = f[Len(s)]
    BY LatestLoop
<1> DEFINE n == Len(s)
           Q == {i \in 0..n : Latest(s, i, f[i])}
<1>2. n \in Nat /\ Blank \in Versions /\ \A i \in 1..n : s[i].version \in Versions
    BY DigitsAssumption DEF Versions
<1>3. 0 \in Q
    BY <1>1, <1>2 DEF Latest
<1>4. ASSUME NEW i \in 1..n, i - 1 \in Q PROVE i \in Q
    <2> DEFINE b == f[i - 1]
               v == s[i].version
    <2>1. Latest(s, i - 1, b) /\ b \in Versions /\ v \in Versions /\ f[i] = newest(b, s[i])
        BY <1>1, <1>2, <1>4
    <2>2. i \in 1..i /\ \A k \in 1..i : k \in 1..n /\ (k = i \/ k \in 1..(i - 1))
        BY <1>2
    <2> HIDE DEF b
    <2>3. CASE Known(s[i]) /\ Newer(v, b)
        <3>1. f[i] = v
            BY <2>1, <2>3, CompareNewer DEF newest, Known
        <3>2. ASSUME NEW k \in 1..(i - 1), Known(s[k]) PROVE Newer(v, s[k].version)
            <4>1. ~Newer(s[k].version, b)
                BY <2>1, <3>2, <1>2, <2>2 DEF Latest
            <4>2. s[k].version \in Versions
                BY <1>2
            <4> QED BY <2>1, <2>3, <4>1, <4>2, NewerOrder
        <3>3. Newer(v, Blank)
            <4>1. b = Blank \/ Newer(b, Blank)
                BY <2>1 DEF Latest
            <4>2. CASE Newer(b, Blank)
                BY <1>2, <2>1, <2>3, <4>2, NewerOrder, CompareNewer
            <4> QED BY <2>3, <4>1, <4>2
        <3>4. \A k \in 1..i : Known(s[k]) => ~Newer(s[k].version, v)
            BY <1>2, <2>1, <2>2, <3>2, CompareNewer
        <3> QED BY <1>2, <2>2, <2>3, <3>1, <3>2, <3>3, <3>4 DEF Latest
    <2>4. CASE ~(Known(s[i]) /\ Newer(v, b))
        <3>1. f[i] = b
            BY <2>1, <2>4, CompareNewer DEF newest, Known
        <3>2. Latest(s, i, b)
            BY <2>1, <2>2, <2>4 DEF Latest
        <3> QED BY <1>2, <3>1, <3>2
    <2> QED BY <2>3, <2>4
<1>5. n \in Q
    <2> HIDE DEF Q, n
    <2>1. 0..n \subseteq Q
        BY <1>2, <1>3, <1>4, Induction
    <2> QED BY <1>2, <2>1
<1> QED BY <1>1, <1>2, <1>5

\* There is one such version.
LEMMA LatestUnique ==
    ASSUME NEW s, NEW n \in Nat, \A i \in 1..n : s[i].version \in Versions,
           NEW v, Latest(s, n, v), NEW w, Latest(s, n, w)
    PROVE  v = w
<1>1. Blank \in Versions
    BY DigitsAssumption DEF Versions
<1>2. CASE v = Blank \/ w = Blank
    BY <1>1, <1>2, CompareNewer DEF Latest
<1>3. CASE v # Blank /\ w # Blank
    <2>1. PICK j \in 1..n : /\ Known(s[j]) /\ v = s[j].version
                            /\ \A k \in 1..n : Known(s[k]) => ~Newer(s[k].version, v)
                            /\ \A k \in 1..(j - 1) : Known(s[k]) => Newer(v, s[k].version)
        BY <1>3 DEF Latest
    <2>2. PICK k \in 1..n : /\ Known(s[k]) /\ w = s[k].version
                            /\ \A i \in 1..n : Known(s[i]) => ~Newer(s[i].version, w)
                            /\ \A i \in 1..(k - 1) : Known(s[i]) => Newer(w, s[i].version)
        BY <1>3 DEF Latest
    <2>3. ~(j < k) /\ ~(k < j)
        BY <2>1, <2>2
    <2> QED BY <2>1, <2>2, <2>3
<1> QED BY <1>2, <1>3

-----------------------------------------------------------------------------
(* The report.                                                              *)

LEMMA EvaluateParts ==
    ASSUME NEW s
    PROVE  /\ Evaluate(s).total = Len(s)
           /\ Evaluate(s).active = Len(Classified(s, "up"))
           /\ Evaluate(s).down = Len(Classified(s, "down"))
           /\ Evaluate(s).unknown = Len(Classified(s, "unknown"))
           /\ Evaluate(s).latest = LatestVersion(s)
           /\ Evaluate(s).repair = Hosts(Classified(s, "down"))
           /\ Evaluate(s).upgrade = Hosts(Outdated(s))
BY DEF Evaluate

\* Who is recommended.
LEMMA HostsAre ==
    ASSUME NEW S, NEW s \in Seq(S), \A a \in S : a.version \in Versions
    PROVE  LET rep == Evaluate(s) IN
           /\ rep.repair \in Seq(S) /\ rep.upgrade \in Seq(S)
           /\ Range(rep.repair) = {a \in Range(s) : classify(a.status) = "down" /\ a.ip # Blank}
           /\ Range(rep.upgrade) =
                  {a \in Range(s) : /\ a.ip # Blank /\ a.version # Blank
                                    /\ rep.latest # Blank /\ Newer(rep.latest, a.version)}
<1> DEFINE L == LatestVersion(s)
           D == {a \in Range(s) : classify(a.status) = "down"}
           O == {a \in Range(s) : L # Blank /\ a.version # Blank /\ compareVersion(a.version, L) < 0}
           d == Select(s, D)
           o == Select(s, O)
           hd == {a \in Range(d) : a.ip # Blank}
           ho == {a \in Range(o) : a.ip # Blank}
<1>1. L \in Versions /\ \A a \in Range(s) : a.version \in Versions
    BY LatestIs DEF Range
<1>2. d = Classified(s, "down") /\ o = Outdated(s)
    BY DEF Classified, Outdated
<1>3. Select(d, hd) = Hosts(Classified(s, "down")) /\ Select(o, ho) = Hosts(Outdated(s))
    BY <1>2 DEF Hosts
<1> HIDE DEF L, D, O
<1>4. d \in Seq(S) /\ Range(d) = Range(s) \cap D /\ o \in Seq(S) /\ Range(o) = Range(s) \cap O
    <2>1. d \in Seq(S \cap D) /\ Range(d) = Range(s) \cap D
        BY SelectRange
    <2>2. o \in Seq(S \cap O) /\ Range(o) = Range(s) \cap O
        BY SelectRange
    <2>3. S \cap D \subseteq S /\ S \cap O \subseteq S
        OBVIOUS
    <2> HIDE DEF d, o
    <2> QED BY <2>1, <2>2, <2>3, SeqMonotonic
<1> HIDE DEF d, o
<1>5. Select(d, hd) \in Seq(S) /\ Range(Select(d, hd)) = hd
    <2> HIDE DEF hd
    <2>1. Select(d, hd) \in Seq(S \cap hd) /\ Range(Select(d, hd)) = Range(d) \cap hd
        BY <1>4, SelectRange
    <2>2. S \cap hd \subseteq S /\ hd \subseteq Range(d)
        BY DEF hd
    <2> QED BY <2>1, <2>2, SeqMonotonic
<1>6. Select(o, ho) \in Seq(S) /\ Range(Select(o, ho)) = ho
    <2> HIDE DEF ho
    <2>1. Select(o, ho) \in Seq(S \cap ho) /\ Range(Select(o, ho)) = Range(o) \cap ho
        BY <1>4, SelectRange
    <2>2. S \cap ho \subseteq S /\ ho \subseteq Range(o)
        BY DEF ho
    <2> QED BY <2>1, <2>2, SeqMonotonic
<1>7. hd = {a \in Range(s) : classify(a.status) = "down" /\ a.ip # Blank}
    BY <1>4 DEF D
<1>8. ho = {a \in Range(s) : a.ip # Blank /\ a.version # Blank /\ L # Blank /\ Newer(L, a.version)}
    <2>1. \A a \in Range(s) : compareVersion(a.version, L) < 0 <=> Newer(L, a.version)
        BY <1>1, CompareNewer
    <2> QED BY <1>4, <2>1 DEF O
<1> HIDE DEF hd, ho
<1> QED BY <1>3, <1>5, <1>6, <1>7, <1>8, EvaluateParts DEF L

\* An agent is down, up or neither.
LEMMA ReportCounts ==
    ASSUME NEW S, NEW s \in Seq(S)
    PROVE  Evaluate(s).active + Evaluate(s).down + Evaluate(s).unknown = Evaluate(s).total
<1> DEFINE of(class) == {a \in Range(s) : classify(a.status) = class}
           A == of("up")
           B == of("down")
           C == of("unknown")
<1>1. /\ Select(s, A) = Classified(s, "up") /\ Select(s, B) = Classified(s, "down")
      /\ Select(s, C) = Classified(s, "unknown")
    BY DEF Classified
<1>2. \A i \in 1..Len(s) : \/ s[i] \in A /\ s[i] \notin B /\ s[i] \notin C
                           \/ s[i] \notin A /\ s[i] \in B /\ s[i] \notin C
                           \/ s[i] \notin A /\ s[i] \notin B /\ s[i] \in C
    BY DEF Range, classify
<1> HIDE DEF A, B, C
<1>3. Len(Select(s, A)) + Len(Select(s, B)) + Len(Select(s, C)) = Len(s)
    BY <1>2, SelectCounts
<1> QED BY <1>1, <1>3, EvaluateParts

LEMMA EmptyRange ==
    ASSUME NEW S, NEW s \in Seq(S), Range(s) = {}
    PROVE  s = <<>>
<1>1. Len(s) \in Nat /\ DOMAIN s = 1..Len(s)
    OBVIOUS
<1>2. \A i \in 1..Len(s) : s[i] \in Range(s)
    BY <1>1 DEF Range
<1>3. ~(1 \in 1..Len(s))
    BY <1>2
<1>4. Len(s) = 0
    BY <1>1, <1>3
<1> QED BY <1>4, EmptySeq

Treated(s) == [i \in DOMAIN s |-> Applied(s[i], Evaluate(s))]

\* Once its recommendations are applied, a report has none.
LEMMA TreatedRight ==
    ASSUME NEW S, NEW s \in Seq(S), \A a \in S : a.version \in Versions
    PROVE  /\ Evaluate(Treated(s)).latest = Evaluate(s).latest
           /\ Evaluate(Treated(s)).repair = <<>> /\ Evaluate(Treated(s)).upgrade = <<>>
<1> DEFINE rep == Evaluate(s)
           t == Treated(s)
           L == rep.latest
           n == Len(s)
           T == {Applied(a, rep) : a \in S}
           up == Range(rep.upgrade)
           down == Range(rep.repair)
<1>1. /\ n \in Nat /\ DOMAIN s = 1..n /\ \A i \in 1..n : s[i] \in S /\ s[i] \in Range(s)
    BY DEF Range
<1>2. L \in Versions /\ Latest(s, n, L)
    BY LatestIs, EvaluateParts
<1>3. /\ down = {a \in Range(s) : classify(a.status) = "down" /\ a.ip # Blank}
      /\ up = {a \in Range(s) : a.ip # Blank /\ a.version # Blank /\ L # Blank /\ Newer(L, a.version)}
    BY HostsAre
<1>4. \A a : /\ Applied(a, rep).version = IF a \in up THEN L ELSE a.version
             /\ Applied(a, rep).status = IF a \in down THEN CHOOSE st \in UpRE \ DownRE : TRUE
                                         ELSE a.status
             /\ Applied(a, rep).ip = a.ip
    BY DEF Applied
<1>5. /\ t \in Seq(T) /\ Len(t) = n /\ \A i \in 1..n : t[i] = Applied(s[i], rep)
      /\ Range(t) = {Applied(a, rep) : a \in Range(s)}
    <2>1. t = [i \in 1..n |-> Applied(s[i], rep)]
        BY <1>1 DEF Treated
    <2> HIDE DEF t, rep
    <2>2. \A i \in 1..n : Applied(s[i], rep) \in T
        BY <1>1
    <2> HIDE DEF T
    <2>3. t \in [1..n -> T]
        BY <2>1, <2>2
    <2> HIDE DEF n
    <2>4. t \in Seq(T) /\ Len(t) = n
        BY <1>1, <2>3
    <2>5. Range(t) = {Applied(a, rep) : a \in Range(s)}
        BY <1>1, <2>1 DEF Range
    <2> QED BY <2>1, <2>4, <2>5
<1> HIDE DEF rep, t, L, n, up, down
<1>6. \A b \in T : b.version \in Versions
    BY <1>2, <1>4
<1> HIDE DEF T
<1>7. Latest(t, n, L)
    <2>1. \A k \in 1..n : /\ t[k].version = L \/ t[k].version = s[k].version
                          /\ L = Blank => t[k].version = s[k].version
        BY <1>1, <1>3, <1>4, <1>5
    <2>2. CASE L = Blank
        BY <1>2, <2>1, <2>2 DEF Latest, Known
    <2>3. CASE L # Blank
        <3>1. PICK j \in 1..n :
                  /\ Known(s[j]) /\ L = s[j].version /\ Newer(L, Blank)
                  /\ \A k \in 1..n : Known(s[k]) => ~Newer(s[k].version, L)
                  /\ \A k \in 1..(j - 1) : Known(s[k]) => Newer(L, s[k].version)
            BY <1>2, <2>3 DEF Latest
        <3> DEFINE P == {k \in 1..n : t[k].version = L}
        <3>2. j \in P
            BY <2>1, <3>1
        <3>3. PICK m \in P : \A k \in P : m <= k
            <4>1. P \in SUBSET Nat /\ P # {}
                BY <1>1, <3>2
            <4> HIDE DEF P
            <4> QED BY <4>1, Least
        <3>4. Known(t[m]) /\ m <= j /\ m \in 1..n /\ L = t[m].version
            BY <3>1, <3>2, <3>3 DEF Known
        <3>5. \A k \in 1..n : Known(t[k]) => ~Newer(t[k].version, L)
            BY <1>2, <2>1, <3>1, CompareNewer DEF Known
        <3>6. ASSUME NEW k \in 1..(m - 1), Known(t[k]) PROVE Newer(L, t[k].version)
            <4>1. k \in 1..n /\ k \notin P /\ k \in 1..(j - 1)
                BY <1>1, <3>3, <3>4
            <4>2. t[k].version = s[k].version
                BY <2>1, <4>1
            <4> QED BY <3>1, <3>6, <4>1, <4>2 DEF Known
        <3> QED BY <3>1, <3>4, <3>5, <3>6 DEF Latest
    <2> QED BY <2>2, <2>3
<1>8. LatestVersion(t) = L
    <2>1. \A i \in 1..n : t[i].version \in Versions
        BY <1>5, <1>6
    <2>2. Latest(t, n, LatestVersion(t))
        BY <1>5, <1>6, LatestIs
    <2> QED BY <1>1, <1>7, <2>1, <2>2, LatestUnique
<1>9. /\ Evaluate(t).repair \in Seq(T) /\ Evaluate(t).upgrade \in Seq(T)
      /\ Range(Evaluate(t).repair) = {a \in Range(t) : classify(a.status) = "down" /\ a.ip # Blank}
      /\ Range(Evaluate(t).upgrade) =
             {a \in Range(t) : a.ip # Blank /\ a.version # Blank /\ L # Blank /\ Newer(L, a.version)}
    <2> DEFINE M == Evaluate(t).latest
    <2>1. M = L
        BY <1>8, EvaluateParts
    <2>2. /\ Evaluate(t).repair \in Seq(T) /\ Evaluate(t).upgrade \in Seq(T)
          /\ Range(Evaluate(t).repair) = {a \in Range(t) : classify(a.status) = "down" /\ a.ip # Blank}
          /\ Range(Evaluate(t).upgrade) =
                 {a \in Range(t) : a.ip # Blank /\ a.version # Blank /\ M # Blank /\ Newer(M, a.version)}
        BY <1>5, <1>6, HostsAre
    <2> HIDE DEF M
    <2> QED BY <2>1, <2>2
<1>10. Range(Evaluate(t).repair) = {}
    <2> SUFFICES ASSUME NEW a \in Range(s), classify(Applied(a, rep).status) = "down",
                        Applied(a, rep).ip # Blank
                 PROVE  FALSE
        BY <1>5, <1>9
    <2>1. CASE a \in down
        <3>1. Applied(a, rep).status \in UpRE \ DownRE
            BY <1>4, <2>1, StatusAssumption
        <3> QED BY <3>1 DEF classify
    <2>2. CASE a \notin down
        BY <1>3, <1>4, <2>2
    <2> QED BY <2>1, <2>2
<1>11. Range(Evaluate(t).upgrade) = {}
    <2> SUFFICES ASSUME NEW a \in Range(s), Applied(a, rep).ip # Blank,
                        Applied(a, rep).version # Blank, L # Blank,
                        Newer(L, Applied(a, rep).version)
                 PROVE  FALSE
        BY <1>5, <1>9
    <2>1. CASE a \in up
        BY <1>2, <1>4, <2>1, CompareNewer
    <2>2. CASE a \notin up
        BY <1>3, <1>4, <2>2
    <2> QED BY <2>1, <2>2
<1> QED BY <1>8, <1>9, <1>10, <1>11, EmptyRange, EvaluateParts DEF L, t, rep

-----------------------------------------------------------------------------
(* The inventory.  The invariant: whatever a synchronisation found, and     *)
(* every row it wrote, is something that resource has said.                 *)

Entries == {e \in Resources \X UNION Range(Profiles) : e[2] \in Profiles[e[1]]}
Said(r) == {toModel(p) : p \in Profiles[r]}

CloudOK ==
    /\ cloud = [r \in Resources |-> cloud[r]]
    /\ \A r \in Resources : cloud[r] \in Profiles[r] \cup {Gone}
RowsOK ==
    /\ rows = [r \in Resources |-> rows[r]]
    /\ \A r \in Resources : rows[r] \in Said(r) \cup {NoRow}
SyncOK ==
    /\ sync = [s \in Syncs |-> sync[s]]
    /\ \A s \in Syncs :
           /\ sync[s] \in [pc : {"idle", "search", "write"}, page : Nat, found : Seq(Entries)]
           /\ sync[s].pc = "search" => sync[s].page > 0
           /\ sync[s].pc = "write" => sync[s].found # <<>>

IInv == CloudOK /\ RowsOK /\ SyncOK

LEMMA InitInv == Init => IInv
<1> SUFFICES ASSUME Init PROVE IInv
    OBVIOUS
<1>1. CloudOK
    BY DEF Init, CloudOK
<1>2. RowsOK
    BY DEF Init, RowsOK
<1>3. SyncOK
    <2>1. Idle \in [pc : {"idle", "search", "write"}, page : Nat, found : Seq(Entries)]
        <3>1. <<>> \in Seq(Entries)
            OBVIOUS
        <3> QED BY <3>1 DEF Idle
    <2>2. Idle.pc = "idle"
        BY DEF Idle
    <2> QED BY <2>1, <2>2 DEF Init, SyncOK
<1> QED BY <1>1, <1>2, <1>3 DEF IInv

LEMMA PageType ==
    ASSUME CloudOK, NEW n \in Nat \ {0}
    PROVE  Page(n) \in Seq(Entries)
<1> DEFINE R == {r \in Resources : cloud[r] # Gone}
           ids == [r \in Resources |-> r]
           lo == (n - 1) * PageSize + 1
           hi == Min({n * PageSize, Len(Found)})
           page == SubSeq(Found, lo, hi)
<1>1. Found \in Seq(R)
    <2>1. Count \in Nat /\ ids \in [1..Count -> Resources]
        BY FleetAssumption DEF Resources
    <2>2. ids \in Seq(Resources)
        BY <2>1
    <2>3. Select(ids, R) \in Seq(Resources \cap R)
        <3> HIDE DEF ids, R
        <3> QED BY <2>2, SelectRange
    <2>4. Resources \cap R = R
        OBVIOUS
    <2> QED BY <2>3, <2>4 DEF Found
<1>2. lo \in Int /\ lo >= 1
    <2>1. PageSize \in Nat /\ n - 1 \in Nat
        BY FleetAssumption
    <2>2. (n - 1) * PageSize \in Nat
        BY <2>1
    <2> QED BY <2>2
<1>3. hi \in Int /\ hi <= Len(Found)
    <2> DEFINE u == n * PageSize
               l == Len(Found)
    <2>1. u \in Nat /\ l \in Nat
        BY <1>1, FleetAssumption
    <2> HIDE DEF u, l
    <2>2. {u, l} \in SUBSET Nat /\ {u, l} # {}
        BY <2>1
    <2>3. Min({u, l}) \in {u, l} /\ Min({u, l}) <= l
        BY <2>2, MinOf
    <2>4. Min({u, l}) \in Int /\ Min({u, l}) <= l
        BY <2>1, <2>3
    <2> QED BY <2>4 DEF u, l
<1> HIDE DEF R, lo, hi
<1>4. page \in Seq(R)
    <2>1. \A i \in lo..hi : Found[i] \in R
        BY <1>1, <1>2, <1>3
    <2> QED BY <1>2, <1>3, <2>1, SubSeqProperties
<1>5. Page(n) = [i \in DOMAIN page |-> <<page[i], cloud[page[i]]>>]
    BY DEF Page, lo, hi
<1> HIDE DEF page
<1>6. \A r \in R : <<r, cloud[r]>> \in Entries
    <2> SUFFICES ASSUME NEW r \in R PROVE <<r, cloud[r]>> \in Entries
        OBVIOUS
    <2>1. r \in Resources /\ cloud[r] \in Profiles[r]
        BY DEF R, CloudOK
    <2>2. r \in DOMAIN Profiles
        BY <2>1, FleetAssumption DEF Resources
    <2>3. cloud[r] \in UNION Range(Profiles)
        BY <2>1, <2>2 DEF Range
    <2> QED BY <2>1, <2>3 DEF Entries
<1>7. Len(page) \in Nat /\ DOMAIN page = 1..Len(page) /\ \A i \in 1..Len(page) : page[i] \in R
    BY <1>4
<1>8. Page(n) \in [1..Len(page) -> Entries]
    BY <1>5, <1>6, <1>7
<1> QED BY <1>7, <1>8

SyncStates == [pc : {"idle", "search", "write"}, page : Nat, found : Seq(Entries)]

LEMMA SyncMoves ==
    ASSUME SyncOK, NEW s \in Syncs, NEW t \in SyncStates,
           t.pc = "search" => t.page > 0, t.pc = "write" => t.found # <<>>,
           sync' = [sync EXCEPT ![s] = t]
    PROVE  SyncOK'
<1>1. sync' = [u \in Syncs |-> sync'[u]] /\ \A u \in Syncs : sync'[u] = IF u = s THEN t ELSE sync[u]
    BY DEF SyncOK
<1>2. ASSUME NEW u \in Syncs
      PROVE  /\ sync'[u] \in SyncStates
             /\ sync'[u].pc = "search" => sync'[u].page > 0
             /\ sync'[u].pc = "write" => sync'[u].found # <<>>
    BY <1>1 DEF SyncOK, SyncStates
<1> QED BY <1>1, <1>2 DEF SyncOK, SyncStates

LEMMA IdleState == Idle \in SyncStates /\ Idle.pc = "idle"
<1>1. <<>> \in Seq(Entries)
    OBVIOUS
<1> QED BY <1>1 DEF Idle, SyncStates

LEMMA StartKeeps ==
    ASSUME IInv, NEW s \in Syncs, StartSync(s)
    PROVE  IInv'
<1> DEFINE t == [pc |-> "search", page |-> 1, found |-> <<>>]
<1>1. sync' = [sync EXCEPT ![s] = t] /\ UNCHANGED <<cloud, rows>>
    BY DEF StartSync
<1>2. t \in SyncStates /\ t.pc = "search" /\ t.page > 0
    <2>1. <<>> \in Seq(Entries)
        OBVIOUS
    <2> QED BY <2>1 DEF SyncStates
<1> HIDE DEF t
<1>3. SyncOK'
    BY <1>1, <1>2, SyncMoves DEF IInv
<1> QED BY <1>1, <1>3 DEF IInv, CloudOK, RowsOK

LEMMA SearchKeeps ==
    ASSUME IInv, NEW s \in Syncs, SearchPage(s)
    PROVE  IInv'
<1> DEFINE found == sync[s].found \o Page(sync[s].page)
           next == [pc |-> "search", page |-> sync[s].page + 1, found |-> found]
           write == [pc |-> "write", page |-> 0, found |-> found]
           t == IF ~LastPage(sync[s].page) THEN next
                ELSE IF found = <<>> THEN Idle ELSE write
<1>1. sync[s] \in SyncStates /\ sync[s].pc = "search" /\ sync[s].page > 0 /\ UNCHANGED <<cloud, rows>>
    BY DEF IInv, SyncOK, SearchPage, SyncStates
<1>2. sync' = [sync EXCEPT ![s] = t]
    BY DEF SearchPage
<1>3. sync[s].page \in Nat \ {0} /\ sync[s].found \in Seq(Entries)
    BY <1>1 DEF SyncStates
<1>4. found \in Seq(Entries)
    <2>1. Page(sync[s].page) \in Seq(Entries)
        BY <1>3, PageType DEF IInv
    <2> QED BY <1>3, <2>1, ConcatProperties
<1> HIDE DEF found
<1>5. next \in SyncStates /\ next.pc = "search" /\ next.page > 0
    BY <1>3, <1>4 DEF SyncStates
<1>6. write \in SyncStates /\ write.pc = "write" /\ write.found = found
    BY <1>4 DEF SyncStates
<1> HIDE DEF next, write
<1>7. t \in SyncStates /\ (t.pc = "search" => t.page > 0) /\ (t.pc = "write" => t.found # <<>>)
    <2>1. CASE ~LastPage(sync[s].page)
        BY <1>5, <2>1
    <2>2. CASE LastPage(sync[s].page) /\ found = <<>>
        BY <2>2, IdleState
    <2>3. CASE LastPage(sync[s].page) /\ found # <<>>
        BY <1>6, <2>3
    <2> QED BY <2>1, <2>2, <2>3
<1> HIDE DEF t
<1>8. SyncOK'
    BY <1>2, <1>7, SyncMoves DEF IInv
<1> QED BY <1>1, <1>8 DEF IInv, CloudOK, RowsOK

LEMMA SearchFailsKeeps ==
    ASSUME IInv, NEW s \in Syncs, SearchFails(s)
    PROVE  IInv'
<1>1. sync' = [sync EXCEPT ![s] = Idle] /\ UNCHANGED <<cloud, rows>>
    BY DEF SearchFails
<1>2. SyncOK'
    BY <1>1, IdleState, SyncMoves DEF IInv
<1> QED BY <1>1, <1>2 DEF IInv, CloudOK, RowsOK

\* A row is written or left out.
LEMMA WrittenKeeps ==
    ASSUME SyncOK, NEW s \in Syncs, sync[s].pc = "write", sync' = Written(s)
    PROVE  SyncOK' /\ Head(sync[s].found) \in Entries
<1> DEFINE f == sync[s].found
           rest == [pc |-> "write", page |-> 0, found |-> Tail(f)]
           t == IF Len(f) = 1 THEN Idle ELSE rest
<1>1. sync[s] \in SyncStates /\ f # <<>>
    BY DEF SyncOK, SyncStates
<1>2. f \in Seq(Entries) /\ f # <<>>
    BY <1>1 DEF SyncStates
<1>3. sync' = [sync EXCEPT ![s] = t]
    BY DEF Written
<1> HIDE DEF f
<1>4. Head(f) \in Entries /\ Tail(f) \in Seq(Entries) /\ Len(Tail(f)) = Len(f) - 1 /\ Len(f) \in Nat
    BY <1>2, HeadTailProperties
<1>5. rest \in SyncStates /\ rest.pc = "write" /\ rest.found = Tail(f)
    BY <1>1, <1>4 DEF SyncStates
<1> HIDE DEF rest
<1>6. t \in SyncStates /\ (t.pc = "search" => t.page > 0) /\ (t.pc = "write" => t.found # <<>>)
    <2>1. CASE Len(f) = 1
        BY <2>1, IdleState
    <2>2. CASE Len(f) # 1
        <3>1. Len(f) # 0
            BY <1>2, EmptySeq
        <3>2. Len(Tail(f)) # 0
            BY <1>4, <2>2, <3>1
        <3>3. Tail(f) # <<>>
            BY <3>2, EmptySeq
        <3> QED BY <1>5, <2>2, <3>3
    <2> QED BY <2>1, <2>2
<1> HIDE DEF t
<1>7. SyncOK'
    BY <1>3, <1>6, SyncMoves
<1> QED BY <1>4, <1>7 DEF f

LEMMA UpsertKeeps ==
    ASSUME IInv, NEW s \in Syncs, Upsert(s)
    PROVE  IInv'
<1> DEFINE e == Head(sync[s].found)
<1>1. /\ sync[s].pc = "write" /\ sync' = Written(s) /\ UNCHANGED cloud
      /\ rows' = [rows EXCEPT ![e[1]] = toModel(e[2])]
    BY DEF Upsert
<1>2. SyncOK' /\ e \in Entries
    BY <1>1, WrittenKeeps DEF IInv
<1> HIDE DEF e
<1>3. e[1] \in Resources /\ toModel(e[2]) \in Said(e[1])
    BY <1>2 DEF Entries, Said
<1>4. RowsOK'
    BY <1>1, <1>3 DEF IInv, RowsOK
<1> QED BY <1>1, <1>2, <1>4 DEF IInv, CloudOK

LEMMA UpsertFailsKeeps ==
    ASSUME IInv, NEW s \in Syncs, UpsertFails(s)
    PROVE  IInv'
<1>1. sync[s].pc = "write" /\ sync' = Written(s) /\ UNCHANGED <<cloud, rows>>
    BY DEF UpsertFails
<1>2. SyncOK'
    BY <1>1, WrittenKeeps DEF IInv
<1> QED BY <1>1, <1>2 DEF IInv, CloudOK, RowsOK

\* The tenant changes.
LEMMA CloudKeeps ==
    ASSUME IInv, NEW r \in Resources, NEW p \in Profiles[r] \cup {Gone},
           cloud' = [cloud EXCEPT ![r] = p], UNCHANGED <<rows, sync>>
    PROVE  IInv'
<1>1. CloudOK'
    BY DEF IInv, CloudOK
<1> QED BY <1>1 DEF IInv, RowsOK, SyncOK

LEMMA DeregisterKeeps ==
    ASSUME IInv, NEW host, DeregisterByHost(host)
    PROVE  IInv'
<1> DEFINE matching == {r \in Resources : rows[r] # NoRow /\ host \in {rows[r].ip, rows[r].host}}
<1>1. matching # {} /\ cloud' = [cloud EXCEPT ![Min(matching)] = Gone] /\ UNCHANGED <<rows, sync>>
    BY DEF DeregisterByHost
<1>2. Min(matching) \in Resources
    <2>1. matching \in SUBSET Nat /\ matching \subseteq Resources
        BY FleetAssumption DEF Resources
    <2> HIDE DEF matching
    <2> QED BY <1>1, <2>1, MinOf
<1> HIDE DEF matching
<1> QED BY <1>1, <1>2, CloudKeeps

LEMMA NextInv == IInv /\ [Next]_vars => IInv'
<1> SUFFICES ASSUME IInv, [Next]_vars PROVE IInv'
    OBVIOUS
<1>1. ASSUME NEW r \in Resources, Change(r) PROVE IInv'
    BY <1>1, CloudKeeps DEF Change
<1>2. ASSUME NEW host, DeregisterByHost(host) PROVE IInv'
    BY <1>2, DeregisterKeeps
<1>3. ASSUME NEW s \in Syncs, StartSync(s) PROVE IInv'
    BY <1>3, StartKeeps
<1>4. ASSUME NEW s \in Syncs, SearchPage(s) PROVE IInv'
    BY <1>4, SearchKeeps
<1>5. ASSUME NEW s \in Syncs, SearchFails(s) PROVE IInv'
    BY <1>5, SearchFailsKeeps
<1>6. ASSUME NEW s \in Syncs, Upsert(s) PROVE IInv'
    BY <1>6, UpsertKeeps
<1>7. ASSUME NEW s \in Syncs, UpsertFails(s) PROVE IInv'
    BY <1>7, UpsertFailsKeeps
<1>8. CASE UNCHANGED vars
    BY <1>8 DEF IInv, CloudOK, RowsOK, SyncOK, vars
<1> QED BY <1>1, <1>2, <1>3, <1>4, <1>5, <1>6, <1>7, <1>8 DEF Next, SyncSteps

\* The invariant holds in every state.
THEOREM Inventory == Spec => []IInv
BY InitInv, NextInv, PTL DEF Spec

-----------------------------------------------------------------------------
(* The agents that the drift engine reads.                                  *)

AgentRows == {toModel(p) : p \in UNION Range(Profiles)}

LEMMA AgentsType ==
    ASSUME IInv
    PROVE  /\ Agents \in Seq(AgentRows)
           /\ \A a \in AgentRows : a.version \in Versions /\ a.ip \in Texts \cup {Blank}
<1> DEFINE X == AgentRows \cup {NoRow}
           T == Range(rows) \ {NoRow}
<1>1. ASSUME NEW r \in Resources PROVE Said(r) \subseteq AgentRows
    <2>1. r \in DOMAIN Profiles
        BY FleetAssumption DEF Resources
    <2>2. \A p \in Profiles[r] : p \in UNION Range(Profiles)
        BY <2>1 DEF Range
    <2> QED BY <2>2 DEF Said, AgentRows
<1>2. Count \in Nat /\ rows \in [1..Count -> X]
    BY <1>1, FleetAssumption DEF IInv, RowsOK, Resources
<1> HIDE DEF X
<1>3. rows \in Seq(X)
    BY <1>2
<1>4. Agents \in Seq(X \cap T)
    <2> HIDE DEF T
    <2>1. Select(rows, T) \in Seq(X \cap T)
        BY <1>3, SelectRange
    <2> QED BY <2>1 DEF Agents, T
<1>5. X \cap T \subseteq AgentRows
    BY DEF X
<1>6. Agents \in Seq(AgentRows)
    <2> DEFINE Y == X \cap T
    <2> HIDE DEF Y
    <2> QED BY <1>4, <1>5, SeqMonotonic DEF Y
<1>7. \A p \in UNION Range(Profiles) :
          toModel(p).version \in Versions /\ toModel(p).ip \in Texts \cup {Blank}
    BY FleetAssumption DEF toModel, Versions
<1> QED BY <1>6, <1>7 DEF AgentRows

LEMMA ReportInv == IInv => ReportRight
<1> SUFFICES ASSUME IInv PROVE ReportRight
    OBVIOUS
<1> DEFINE s == Agents
           rep == Evaluate(s)
           known == {a \in Range(s) : a.version \notin {Blank, Unknown}}
<1>1. s \in Seq(AgentRows) /\ \A a \in AgentRows : a.version \in Versions
    BY AgentsType
<1>2. Treated(s) = [i \in DOMAIN Agents |-> Applied(Agents[i], rep)]
    BY DEF Treated
<1> HIDE DEF s
<1>3. rep.active + rep.down + rep.unknown = rep.total
    BY <1>1, ReportCounts
<1>4. /\ rep.latest # Blank => rep.latest \in {a.version : a \in known}
      /\ \A a \in known : ~Newer(a.version, rep.latest)
    <2> DEFINE L == rep.latest
               n == Len(s)
    <2>1. Latest(s, n, L)
        BY <1>1, LatestIs, EvaluateParts
    <2>2. n \in Nat /\ DOMAIN s = 1..n
        BY <1>1
    <2>3. Range(s) = {s[i] : i \in 1..n}
        BY <2>2 DEF Range
    <2> HIDE DEF rep, L, n
    <2>4. L # Blank => L \in {a.version : a \in known}
        BY <2>1, <2>3 DEF Latest, Known
    <2>5. \A i \in 1..n : Known(s[i]) => ~Newer(s[i].version, L)
        BY <2>1 DEF Latest
    <2>6. \A a \in known : ~Newer(a.version, L)
        BY <2>3, <2>5 DEF Known
    <2> QED BY <2>4, <2>6 DEF L
<1>5. Range(rep.upgrade) = {a \in Range(s) : /\ a.ip # Blank /\ a.version # Blank
                                             /\ rep.latest # Blank /\ Newer(rep.latest, a.version)}
    BY <1>1, HostsAre
<1>6. /\ Evaluate(Treated(s)).latest = rep.latest
      /\ Evaluate(Treated(s)).repair = <<>> /\ Evaluate(Treated(s)).upgrade = <<>>
    BY <1>1, TreatedRight
<1> HIDE DEF rep
<1> QED BY <1>2, <1>3, <1>4, <1>5, <1>6 DEF ReportRight, s, rep

\* Whatever rows the synchronisations left, the report counts every agent once,
\* names the version that none is newer than, recommends the upgrade of the
\* agents behind it and of no other, and asks for nothing more of a fleet that
\* was treated as it recommended.
THEOREM Report == Spec => []ReportRight
BY Inventory, ReportInv, PTL

-----------------------------------------------------------------------------
(* Blocks of addresses.                                                     *)

LEMMA Powers ==
    /\ Pow2[0] = 1
    /\ \A k \in 1..Width : Pow2[k] = 2 * Pow2[k - 1]
    /\ \A k \in 0..Width : Pow2[k] \in Nat \ {0}
<1> DEFINE V == Nat \ {0}
           e == 1
           step(x) == 2 * x
           size(f) == [k \in 0..Width |-> IF k = 0 THEN e ELSE step(f[k - 1])]
           G == [y \in (1..Width) \X V |-> step(y[2])]
<1>1. Width \in Nat /\ e \in V /\ \A x \in V : step(x) \in V
    BY WidthAssumption
<1>2. Pow2 = CHOOSE f : f = size(f)
    BY DEF Pow2
<1>3. SUFFICES /\ Pow2[0] = e
               /\ \A k \in 1..Width : Pow2[k] = step(Pow2[k - 1])
               /\ \A k \in 0..Width : Pow2[k] \in V
    OBVIOUS
<1> HIDE DEF V, e, step
<1>4. G \in Steps(Width, V)
    BY <1>1 DEF Steps
<1>5. \A i \in 1..Width, x \in V : G[<<i, x>>] = step(x)
    OBVIOUS
<1> HIDE DEF G
<1>6. \E f : f = size(f)
    <2>1. PICK f : Run(Width, V, e, G, f)
        BY <1>1, <1>4, Recursion
    <2>2. f \in [0..Width -> V] /\ \A i \in 1..Width : f[i] = step(f[i - 1])
        <3>1. \A i \in 1..Width : i - 1 \in 0..Width
            BY <1>1
        <3> QED BY <1>5, <2>1, <3>1 DEF Run
    <2> QED BY <1>1, <2>1, <2>2 DEF Run
<1>7. Pow2 = size(Pow2)
    BY <1>2, <1>6
<1>8. Run(Width, V, e, G, Pow2)
    <2>1. /\ Pow2 = [i \in 0..Width |-> Pow2[i]] /\ Pow2[0] = e
          /\ \A i \in 1..Width : Pow2[i] = step(Pow2[i - 1])
        BY <1>1, <1>7
    <2> QED BY <1>1, <1>4, <1>5, <2>1, Unfolding
<1>9. \A i \in 1..Width : Pow2[i - 1] \in V
    BY <1>1, <1>8 DEF Run
<1> QED BY <1>5, <1>8, <1>9 DEF Run

\* A block divides the addresses.
LEMMA BlockDivides ==
    ASSUME NEW k \in 0..Width
    PROVE  \E q \in Nat : Pow2[Width] = q * Pow2[k]
<1> DEFINE n == Width - k
           S == {i \in 0..n : \E q \in Nat : Pow2[k + i] = q * Pow2[k]}
<1>1. Width \in Nat /\ n \in Nat /\ k + n = Width
    BY WidthAssumption
<1>2. 0 \in S
    <2>1. 0 \in 0..n /\ k + 0 = k /\ 1 \in Nat
        BY <1>1
    <2>2. Pow2[k] = 1 * Pow2[k]
        BY Powers
    <2> QED BY <2>1, <2>2
<1>3. ASSUME NEW i \in 1..n, i - 1 \in S PROVE i \in S
    <2>1. PICK q \in Nat : Pow2[k + (i - 1)] = q * Pow2[k]
        BY <1>3
    <2>2. k + i \in 1..Width /\ (k + i) - 1 = k + (i - 1)
        BY <1>1
    <2>3. Pow2[k + i] = 2 * Pow2[k + (i - 1)]
        BY <2>2, Powers
    <2>4. \A x \in Nat : 2 * (q * x) = (2 * q) * x
        OBVIOUS
    <2>5. 2 * q \in Nat /\ Pow2[k + i] = (2 * q) * Pow2[k]
        BY <2>1, <2>3, <2>4, Powers
    <2> QED BY <2>5
<1>4. n \in S
    <2> HIDE DEF S, n
    <2>1. 0..n \subseteq S
        BY <1>1, <1>2, <1>3, Induction
    <2> QED BY <1>1, <2>1
<1> QED BY <1>1, <1>4

\* A block has four addresses or more when two bits or more vary.
LEMMA LargeBlock ==
    ASSUME NEW k \in 0..Width
    PROVE  Pow2[k] >= 4 <=> k >= 2
<1>1. Width \in Nat
    BY WidthAssumption
<1>2. CASE k < 2
    <2>1. k = 0 \/ (k = 1 /\ 1 \in 1..Width)
        BY <1>1, <1>2
    <2>2. 1 \in 1..Width => Pow2[1] = 2 * Pow2[1 - 1]
        BY Powers
    <2> QED BY <2>1, <2>2, Powers
<1>3. CASE k >= 2
    <2> DEFINE n == k - 2
               S == {i \in 0..n : Pow2[i + 2] >= 4}
    <2>1. n \in Nat /\ n + 2 = k
        BY <1>1, <1>3
    <2>2. 0 \in S
        <3>1. 1 \in 1..Width /\ 2 \in 1..Width /\ 1 - 1 = 0 /\ 2 - 1 = 1 /\ 0 + 2 = 2
            BY <1>1, <1>3
        <3>2. Pow2[1] = 2 * Pow2[0] /\ Pow2[2] = 2 * Pow2[1]
            BY <3>1, Powers
        <3>3. Pow2[2] = 4
            BY <3>2, Powers
        <3> QED BY <2>1, <3>1, <3>3
    <2>3. ASSUME NEW i \in 1..n, i - 1 \in S PROVE i \in S
        <3>1. i + 2 \in 1..Width /\ (i + 2) - 1 = (i - 1) + 2 /\ (i - 1) + 2 \in 0..Width
            BY <1>1, <2>1
        <3>2. Pow2[i + 2] = 2 * Pow2[(i - 1) + 2] /\ Pow2[(i - 1) + 2] \in Nat
            BY <3>1, Powers
        <3>3. Pow2[(i - 1) + 2] >= 4
            BY <2>3
        <3>4. Pow2[i + 2] >= 4
            BY <3>2, <3>3
        <3> QED BY <3>4
    <2>4. n \in S
        <3> HIDE DEF S, n
        <3>1. 0..n \subseteq S
            BY <2>1, <2>2, <2>3, Induction
        <3> QED BY <2>1, <3>1
    <2> QED BY <1>3, <2>1, <2>4
<1> QED BY <1>2, <1>3

LEMMA Multiples ==
    ASSUME NEW p \in Nat, NEW q \in Nat, NEW s \in Nat \ {0}
    PROVE  /\ p * s \in Nat
           /\ p < q => p * s + s <= q * s
           /\ p <= q => p * s <= q * s
<1>1. ASSUME NEW a \in Nat, NEW d \in Nat PROVE (a + d) * s = a * s + d * s /\ d * s \in Nat /\ a * s \in Nat
    OBVIOUS
<1>2. ASSUME p < q PROVE p * s + s <= q * s
    <2> DEFINE d == q - p - 1
    <2>1. d \in Nat /\ q = (p + 1) + d
        BY <1>2
    <2>2. 1 * s = s /\ (p + 1) * s = p * s + 1 * s
        BY <1>1
    <2>3. q * s = (p + 1) * s + d * s /\ d * s \in Nat /\ (p + 1) * s \in Nat
        BY <1>1, <2>1
    <2> HIDE DEF d
    <2> QED BY <1>1, <2>2, <2>3
<1>3. ASSUME p <= q PROVE p * s <= q * s
    <2>1. p = q \/ p < q
        BY <1>3
    <2> QED BY <1>1, <1>2, <2>1
<1> QED BY <1>1, <1>2, <1>3

\* The block of size s that x is in.
LEMMA InBlock ==
    ASSUME NEW x \in Nat, NEW s \in Nat \ {0}
    PROVE  /\ x \div s \in Nat /\ (x \div s) * s \in Nat
           /\ (x \div s) * s <= x /\ x < (x \div s) * s + s
           /\ x % s = x - (x \div s) * s
OBVIOUS

LEMMA SameBlock ==
    ASSUME NEW x \in Nat, NEW y \in Nat, NEW s \in Nat \ {0}
    PROVE  y \div s = x \div s <=> (x \div s) * s <= y /\ y < (x \div s) * s + s
<1> DEFINE p == x \div s
           q == y \div s
<1>1. p \in Nat /\ q \in Nat /\ q * s \in Nat /\ p * s \in Nat /\ q * s <= y /\ y < q * s + s
    BY InBlock
<1>2. (p < q => p * s + s <= q * s) /\ (q < p => q * s + s <= p * s)
    BY <1>1, Multiples
<1> HIDE DEF p, q
<1>3. q = p <=> p * s <= y /\ y < p * s + s
    BY <1>1, <1>2
<1> QED BY <1>3 DEF p, q

\* It ends where the addresses do, or before.
LEMMA BlockEnds ==
    ASSUME NEW P \in Nat, NEW x \in 0..(P - 1), NEW s \in Nat \ {0}, NEW q \in Nat, P = q * s
    PROVE  (x \div s) * s + s <= P
<1> DEFINE p == x \div s
<1>1. p \in Nat /\ p * s \in Nat /\ p * s <= x
    BY InBlock
<1>2. (p < q => p * s + s <= q * s) /\ (q <= p => q * s <= p * s)
    BY <1>1, Multiples
<1> HIDE DEF p
<1>3. p * s + s <= P
    BY <1>1, <1>2
<1> QED BY <1>3 DEF p

-----------------------------------------------------------------------------
(* One token: the addresses that it denotes are those it is expanded to.    *)

\* A token that denotes lo to hi and is expanded to them, up to the limit or
\* one more.
Spans(tok, lo, hi) ==
    /\ lo \in Addresses /\ hi \in Addresses /\ lo <= hi
    /\ tok.kind # "host" /\ tok.v4 \in BOOLEAN
    /\ \A n \in Addresses : Covers(tok, n) <=> lo <= n /\ n <= hi
    /\ \/ Expanded(tok) = Walk(tok.v4, lo, hi, MaxTargets)
       \/ Expanded(tok) = Walk(tok.v4, lo, hi, MaxTargets + 1)

LEMMA AddressType ==
    /\ Pow2[Width] \in Nat \ {0} /\ Addresses = 0..(Pow2[Width] - 1)
    /\ \A n : n \in Addresses <=> n \in Nat /\ n < Pow2[Width]
<1>1. Width \in 0..Width
    BY WidthAssumption
<1>2. Pow2[Width] \in Nat \ {0}
    BY <1>1, Powers
<1> QED BY <1>2 DEF Addresses

LEMMA TokenKinds ==
    ASSUME NEW tok \in Tokens
    PROVE  /\ tok.kind \in {"host", "cidr", "range", "short", "hyphened", "bad"}
           /\ tok.kind = "host" => tok.text \in Texts
           /\ tok = Hyphened <=> tok.kind = "hyphened"
BY DEF Tokens, Hyphened, Bad

LEMMA RangeSpans ==
    ASSUME NEW tok \in Tokens, tok.kind = "range"
    PROVE  /\ Taken(tok) => Spans(tok, tok.lo, tok.hi)
           /\ ~Taken(tok) => Expanded(tok) = Error
<1> DEFINE lo == tok.lo
           hi == tok.hi
           v == tok.v4
<1>1. lo \in Addresses /\ hi \in Addresses /\ v \in BOOLEAN /\ tok.kind # "host"
    BY DEF Tokens, Hyphened, Bad
<1>2. lo \in Nat /\ hi \in Nat
    BY <1>1, AddressType
<1>3. \A n \in Addresses : Covers(tok, n) <=> lo <= n /\ n <= hi
    BY DEF Covers
<1>4. Expanded(tok) = IF hi < lo THEN Error ELSE Walk(v, lo, hi, MaxTargets + 1)
    BY DEF Expanded, expandRange
<1>5. Taken(tok) <=> lo <= hi
    BY TokenKinds DEF Taken, Valid
<1> HIDE DEF lo, hi, v
<1>6. Taken(tok) => Expanded(tok) = Walk(v, lo, hi, MaxTargets + 1)
    BY <1>2, <1>4, <1>5
<1>7. ~Taken(tok) => Expanded(tok) = Error
    BY <1>2, <1>4, <1>5
<1> QED BY <1>1, <1>3, <1>5, <1>6, <1>7 DEF Spans, lo, hi, v

LEMMA ShortSpans ==
    ASSUME NEW tok \in Tokens, tok.kind = "short"
    PROVE  /\ Taken(tok) => Spans(tok, tok.lo, (tok.lo - (tok.lo % Octet)) + tok.last)
           /\ ~Taken(tok) => Expanded(tok) = Error
<1> DEFINE lo == tok.lo
           last == tok.last
           v == tok.v4
           hi == (lo - (lo % Octet)) + last
           base == (lo \div Octet) * Octet
<1>1. lo \in Addresses /\ last \in Int /\ v \in BOOLEAN
    BY DEF Tokens, Hyphened, Bad
<1>2. \A n \in Addresses : Covers(tok, n) <=> /\ lo <= n /\ n \div Octet = lo \div Octet
                                               /\ n % Octet <= last
    BY DEF Covers
<1>3. Expanded(tok) = IF ~v \/ last \notin 0..(Octet - 1) THEN Error
                      ELSE IF hi < lo THEN Error ELSE Walk(v, lo, hi, MaxTargets + 1)
    BY DEF Expanded, expandRange
<1>4. Taken(tok) <=> v /\ lo % Octet <= last /\ last < Octet
    <2> DEFINE t == [tok EXCEPT !.trail = FALSE]
    <2>1. t.kind = "short" /\ t.v4 = v /\ t.lo = lo /\ t.last = last /\ ~t.trail
        BY DEF Tokens, Hyphened, Bad
    <2>2. Taken(tok) <=> Valid(t)
        BY TokenKinds DEF Taken
    <2> HIDE DEF t
    <2> QED BY <2>1, <2>2 DEF Valid
<1> HIDE DEF lo, last, v
<1>5. lo \in Nat /\ Octet \in Nat \ {0}
    BY <1>1, AddressType, WidthAssumption
<1>6. base \in Nat /\ base <= lo /\ lo < base + Octet /\ lo % Octet = lo - base
    BY <1>5, InBlock
<1>7. base + Octet <= Pow2[Width]
    <2> DEFINE P == Pow2[Width]
               q == P \div Octet
    <2>1. P \in Nat /\ P % Octet = 0 /\ lo \in 0..(P - 1)
        BY <1>1, AddressType, WidthAssumption
    <2>2. q \in Nat /\ q * Octet \in Nat /\ P % Octet = P - q * Octet
        BY <1>5, <2>1, InBlock
    <2> HIDE DEF q
    <2>3. P = q * Octet
        BY <2>1, <2>2
    <2> HIDE DEF P
    <2> QED BY <1>5, <2>1, <2>2, <2>3, BlockEnds DEF P
<1> DEFINE m == lo % Octet
<1> HIDE DEF base
<1>8. hi = base + last
    <2>1. lo - m = base /\ m \in Int
        BY <1>5, <1>6
    <2>2. hi = (lo - m) + last
        OBVIOUS
    <2> QED BY <2>1, <2>2
<1> HIDE DEF hi, m
<1>9. m = lo - base /\ (Taken(tok) <=> v /\ m <= last /\ last < Octet)
    BY <1>4, <1>6 DEF m
<1>10. Taken(tok) => Expanded(tok) = Walk(v, lo, hi, MaxTargets + 1)
    <2>1. ASSUME Taken(tok) PROVE v /\ last \in 0..(Octet - 1) /\ ~(hi < lo)
        BY <1>1, <1>5, <1>6, <1>8, <1>9, <2>1
    <2> QED BY <1>3, <2>1
<1>11. ~Taken(tok) => Expanded(tok) = Error
    BY <1>1, <1>3, <1>5, <1>6, <1>8, <1>9
<1>12. Taken(tok) => hi \in Addresses /\ lo <= hi
    BY <1>1, <1>5, <1>6, <1>7, <1>8, <1>9, AddressType
<1>13. ASSUME Taken(tok), NEW n \in Addresses PROVE Covers(tok, n) <=> lo <= n /\ n <= hi
    <2> DEFINE r == n % Octet
    <2>1. n \in Nat
        BY AddressType
    <2>2. n \div Octet = lo \div Octet <=> base <= n /\ n < base + Octet
        BY <1>5, <2>1, SameBlock DEF base
    <2>3. n \div Octet = lo \div Octet => r = n - base
        BY <1>5, <2>1, InBlock DEF base
    <2>4. Covers(tok, n) <=> lo <= n /\ n \div Octet = lo \div Octet /\ r <= last
        BY <1>2
    <2> DEFINE same == n \div Octet = lo \div Octet
    <2> HIDE DEF r, same
    <2>5. (same <=> base <= n /\ n < base + Octet) /\ (same => r = n - base)
        BY <2>2, <2>3 DEF same
    <2>6. Covers(tok, n) <=> lo <= n /\ same /\ r <= last
        BY <2>4 DEF same
    <2> QED BY <1>1, <1>5, <1>6, <1>8, <1>9, <1>13, <2>1, <2>5, <2>6
<1> QED BY <1>1, <1>10, <1>11, <1>12, <1>13 DEF Spans, lo, last, v, hi

LEMMA CidrSpans ==
    ASSUME NEW tok \in Tokens, tok.kind = "cidr"
    PROVE  \E lo, hi : Spans(tok, lo, hi)
<1> DEFINE x == tok.lo
           v == tok.v4
           k == Width - tok.bits
           size == Pow2[k]
           first == (x \div size) * size
           same(n) == n \div size = x \div size
<1>1. x \in Addresses /\ tok.bits \in 0..Width /\ v \in BOOLEAN
    BY DEF Tokens, Hyphened, Bad
<1>2. k \in 0..Width /\ x \in Nat /\ size \in Nat \ {0} /\ (tok.bits <= Width - 2 <=> k >= 2)
    <2>1. Width \in Nat /\ x \in Nat
        BY <1>1, WidthAssumption, AddressType
    <2>2. k \in 0..Width /\ (tok.bits <= Width - 2 <=> k >= 2)
        BY <1>1, <2>1
    <2> QED BY <2>1, <2>2, Powers
<1>3. \A n \in Addresses : Covers(tok, n) <=>
          /\ same(n)
          /\ v /\ size >= 4 =>
                 \A m \in {n - 1, n + 1} : m \in Addresses /\ m \div size = n \div size
    BY DEF Covers
<1>4. Expanded(tok) = IF v /\ tok.bits <= Width - 2
                      THEN Walk(v, first + 1, first + size - 2, MaxTargets)
                      ELSE Walk(v, first, first + size - 1, MaxTargets)
    BY DEF Expanded, expandCIDR
<1>5. size >= 4 <=> k >= 2
    BY <1>2, LargeBlock
<1> HIDE DEF x, v, k, size
<1>6. first \in Nat /\ first <= x /\ x < first + size
    BY <1>2, InBlock
<1>7. first + size <= Pow2[Width]
    <2>1. PICK q \in Nat : Pow2[Width] = q * size
        BY <1>2, BlockDivides DEF size
    <2>2. Pow2[Width] \in Nat /\ x \in 0..(Pow2[Width] - 1)
        BY <1>1, AddressType
    <2> QED BY <1>2, <2>1, <2>2, BlockEnds
<1>8. \A n \in Nat : same(n) <=> first <= n /\ n < first + size
    BY <1>2, SameBlock
<1> HIDE DEF first, same
<1>9. CASE v /\ tok.bits <= Width - 2
    <2> DEFINE lo == first + 1
               hi == first + size - 2
    <2>1. size >= 4
        BY <1>2, <1>5, <1>9
    <2>2. lo \in Addresses /\ hi \in Addresses /\ lo <= hi
        BY <1>2, <1>6, <1>7, <2>1, AddressType
    <2>3. ASSUME NEW n \in Addresses PROVE Covers(tok, n) <=> lo <= n /\ n <= hi
        <3> DEFINE near(m) == m \in Addresses /\ m \div size = n \div size
        <3>1. n \in Nat
            BY AddressType
        <3>2. Covers(tok, n) <=> same(n) /\ near(n - 1) /\ near(n + 1)
            BY <1>3, <1>9, <2>1
        <3>3. ASSUME same(n), NEW m \in Nat
              PROVE  near(m) <=> first <= m /\ m < first + size
            <4>1. m \div size = n \div size <=> same(m)
                BY <3>3 DEF same
            <4>2. first <= m /\ m < first + size => m \in Addresses
                BY <1>2, <1>6, <1>7, AddressType
            <4> QED BY <1>8, <4>1, <4>2
        <3>4. near(n - 1) => n - 1 \in Nat
            BY AddressType
        <3> HIDE DEF near
        <3>5. ASSUME same(n) PROVE near(n - 1) <=> first <= n - 1
            <4>1. n < first + size
                BY <1>8, <3>1, <3>5
            <4>2. first <= n - 1 => n - 1 \in Nat
                BY <1>6, <3>1
            <4>3. n - 1 \in Nat => (near(n - 1) <=> first <= n - 1)
                BY <1>2, <1>6, <3>1, <3>3, <3>5, <4>1
            <4> QED BY <3>4, <4>2, <4>3
        <3>6. ASSUME same(n) PROVE near(n + 1) <=> n + 1 < first + size
            <4>1. first <= n
                BY <1>8, <3>1, <3>6
            <4> QED BY <1>2, <1>6, <3>1, <3>3, <3>6, <4>1
        <3>7. same(n) <=> first <= n /\ n < first + size
            BY <1>8, <3>1
        <3> HIDE DEF lo, hi
        <3>8. Covers(tok, n) <=> first <= n - 1 /\ n + 1 < first + size
            BY <1>2, <1>6, <3>1, <3>2, <3>5, <3>6, <3>7
        <3> QED BY <1>2, <1>6, <3>1, <3>8 DEF lo, hi
    <2>4. Expanded(tok) = Walk(v, lo, hi, MaxTargets)
        BY <1>4, <1>9
    <2> QED BY <1>1, <2>2, <2>3, <2>4 DEF Spans, v
<1>10. CASE ~(v /\ tok.bits <= Width - 2)
    <2> DEFINE lo == first
               hi == first + size - 1
    <2>1. ~(v /\ size >= 4)
        BY <1>2, <1>5, <1>10
    <2>2. lo \in Addresses /\ hi \in Addresses /\ lo <= hi
        BY <1>2, <1>6, <1>7, AddressType
    <2>3. ASSUME NEW n \in Addresses PROVE Covers(tok, n) <=> lo <= n /\ n <= hi
        <3>1. n \in Nat
            BY AddressType
        <3>2. Covers(tok, n) <=> same(n)
            BY <1>3, <2>1
        <3>3. same(n) <=> first <= n /\ n < first + size
            BY <1>8, <3>1
        <3> QED BY <1>2, <1>6, <3>1, <3>2, <3>3
    <2>4. Expanded(tok) = Walk(v, lo, hi, MaxTargets)
        BY <1>4, <1>10
    <2> QED BY <1>1, <2>2, <2>3, <2>4 DEF Spans, v
<1> QED BY <1>9, <1>10

LEMMA TokenMeaning ==
    ASSUME NEW tok \in Tokens
    PROVE  /\ Taken(tok) => tok.kind = "host" \/ \E lo, hi : Spans(tok, lo, hi)
           /\ ~Taken(tok) => Expanded(tok) = Error
<1>1. tok.kind \in {"host", "cidr", "range", "short", "hyphened", "bad"}
    BY TokenKinds
<1>2. CASE tok.kind = "host"
    BY <1>2, TokenKinds DEF Taken, Valid
<1>3. CASE tok.kind = "cidr"
    BY <1>3, CidrSpans, TokenKinds DEF Taken, Valid
<1>4. CASE tok.kind = "range"
    BY <1>4, RangeSpans
<1>5. CASE tok.kind = "short"
    BY <1>5, ShortSpans
<1>6. CASE tok.kind \in {"hyphened", "bad"}
    BY <1>6, TokenKinds DEF Taken, Valid, Expanded
<1> QED BY <1>1, <1>2, <1>3, <1>4, <1>5, <1>6

-----------------------------------------------------------------------------
(* What has been added: the hosts of a set, each once, or Error because     *)
(* they are too many.                                                       *)

Outs == Seq(Texts) \cup {Error}

Lists(out, D) ==
    out \in Seq(Texts) /\ IsInjective(out) /\ Len(out) <= MaxTargets /\ Range(out) = D
TooMany(D) ==
    \E q \in Seq(Texts) :
        IsInjective(q) /\ Len(q) = MaxTargets + 1 /\ Range(q) \subseteq D
Added(out, D) == Lists(out, D) \/ (out = Error /\ TooMany(D))

LEMMA AddedType ==
    ASSUME NEW out, NEW D, Added(out, D)
    PROVE  out \in Outs /\ (out # Error => Lists(out, D)) /\ (out = Error => TooMany(D))
BY ErrorAssumption DEF Added, Lists, Outs, Texts, Printed

LEMMA InjectiveAppend ==
    ASSUME NEW S, NEW s \in Seq(S), NEW a \in S, IsInjective(s), a \notin Range(s)
    PROVE  IsInjective(Append(s, a))
<1> DEFINE t == Append(s, a)
<1>1. /\ t \in Seq(S) /\ Len(t) = Len(s) + 1 /\ (\A i \in 1..Len(s) : t[i] = s[i]) /\ t[Len(s) + 1] = a
    BY AppendProperties
<1>2. Len(s) \in Nat /\ DOMAIN s = 1..Len(s) /\ DOMAIN t = 1..(Len(s) + 1)
    BY <1>1
<1>3. \A i \in 1..Len(s) : s[i] # a
    BY <1>2 DEF Range
<1> HIDE DEF t
<1>4. \A i \in DOMAIN t : i = Len(s) + 1 \/ (i \in 1..Len(s) /\ t[i] = s[i])
    BY <1>1, <1>2
<1>5. \A i, j \in 1..Len(s) : s[i] = s[j] => i = j
    BY <1>2 DEF IsInjective
<1>6. IsInjective(t)
    BY <1>1, <1>3, <1>4, <1>5 DEF IsInjective
<1> QED BY <1>6 DEF t

LEMMA AddRight ==
    ASSUME NEW out, NEW D, Added(out, D), NEW h \in Texts
    PROVE  Added(add(out, h), D \cup {h})
<1>1. CASE out = Error
    <2>1. TooMany(D)
        BY <1>1, AddedType
    <2>2. TooMany(D \cup {h})
        BY <2>1 DEF TooMany
    <2> QED BY <1>1, <2>2 DEF add, Added
<1>2. CASE out # Error
    <2>1. Lists(out, D)
        BY <1>2, AddedType
    <2>2. out \in Seq(Texts) /\ IsInjective(out) /\ Len(out) <= MaxTargets /\ Range(out) = D
        BY <2>1 DEF Lists
    <2>3. Len(out) \in Nat /\ MaxTargets \in Nat
        BY <2>2, WidthAssumption
    <2>4. CASE h \in Range(out)
        <3>1. add(out, h) = out /\ D \cup {h} = D
            BY <1>2, <2>2, <2>4 DEF add
        <3> QED BY <2>1, <3>1 DEF Added
    <2>5. CASE h \notin Range(out)
        <3> DEFINE q == Append(out, h)
        <3>1. q \in Seq(Texts) /\ Len(q) = Len(out) + 1 /\ Range(q) = D \cup {h}
            BY <2>2, RangeOfAppend
        <3>2. IsInjective(q)
            BY <2>2, <2>5, InjectiveAppend
        <3>3. add(out, h) = IF Len(out) = MaxTargets THEN Error ELSE q
            BY <1>2, <2>5 DEF add
        <3> HIDE DEF q
        <3>4. CASE Len(out) = MaxTargets
            <4>1. TooMany(D \cup {h})
                BY <3>1, <3>2, <3>4 DEF TooMany
            <4> QED BY <3>3, <3>4, <4>1 DEF Added
        <3>5. CASE Len(out) # MaxTargets
            <4>1. Len(q) <= MaxTargets
                BY <2>2, <2>3, <3>1, <3>5
            <4>2. Lists(q, D \cup {h})
                BY <3>1, <3>2, <4>1 DEF Lists
            <4> QED BY <3>3, <3>5, <4>2 DEF Added
        <3> QED BY <3>4, <3>5
    <2> QED BY <2>4, <2>5
<1> QED BY <1>1, <1>2

LEMMA AddAllLoop ==
    ASSUME NEW out \in Outs, NEW hosts \in Seq(Texts)
    PROVE  \E f : /\ f \in [0..Len(hosts) -> Outs] /\ f[0] = out
                  /\ \A i \in 1..Len(hosts) : f[i] = add(f[i - 1], hosts[i])
                  /\ addAll(out, hosts) = f[Len(hosts)]
<1> DEFINE n == Len(hosts)
           V == Outs
           step(i, x) == add(x, hosts[i])
           done(f) == [i \in 0..n |-> IF i = 0 THEN out ELSE step(i, f[i - 1])]
           h == CHOOSE f : f = done(f)
           G == [y \in (1..n) \X V |-> step(y[1], y[2])]
<1>1. n \in Nat /\ out \in V
    OBVIOUS
<1>2. ASSUME NEW i \in 1..n, NEW x \in V PROVE step(i, x) \in V
    <2>1. hosts[i] \in Texts
        OBVIOUS
    <2>2. x # Error => Append(x, hosts[i]) \in Seq(Texts)
        BY <2>1, AppendProperties DEF Outs
    <2> QED BY <2>2 DEF add, Outs
<1>3. addAll(out, hosts) = h[n]
    BY DEF addAll
<1>4. SUFFICES \E f : /\ f \in [0..n -> V] /\ f[0] = out
                      /\ \A i \in 1..n : f[i] = step(i, f[i - 1])
                      /\ addAll(out, hosts) = f[n]
    OBVIOUS
<1> HIDE DEF n, V, step
<1>5. G \in Steps(n, V)
    BY <1>2 DEF Steps
<1>6. \A i \in 1..n, x \in V : G[<<i, x>>] = step(i, x)
    OBVIOUS
<1> HIDE DEF G
<1>7. \E f : f = done(f)
    <2>1. PICK f : Run(n, V, out, G, f)
        BY <1>1, <1>5, Recursion
    <2>2. f \in [0..n -> V] /\ \A i \in 1..n : f[i] = step(i, f[i - 1])
        <3>1. \A i \in 1..n : i - 1 \in 0..n
            BY <1>1
        <3> QED BY <1>6, <2>1, <3>1 DEF Run
    <2> QED BY <1>1, <2>1, <2>2 DEF Run
<1>8. h = done(h)
    BY <1>7
<1> HIDE DEF h
<1>9. Run(n, V, out, G, h)
    <2>1. h = [i \in 0..n |-> h[i]] /\ h[0] = out /\ \A i \in 1..n : h[i] = step(i, h[i - 1])
        BY <1>1, <1>8
    <2> QED BY <1>1, <1>5, <1>6, <2>1, Unfolding
<1>10. \A i \in 1..n : h[i - 1] \in V
    BY <1>1, <1>9 DEF Run
<1> QED BY <1>3, <1>6, <1>9, <1>10 DEF Run

LEMMA AddAllRight ==
    ASSUME NEW out, NEW D, Added(out, D), NEW hosts \in Seq(Texts)
    PROVE  Added(addAll(out, hosts), D \cup Range(hosts))
<1>1. PICK f : /\ f \in [0..Len(hosts) -> Outs] /\ f[0] = out
               /\ \A i \in 1..Len(hosts) : f[i] = add(f[i - 1], hosts[i])
               /\ addAll(out, hosts) = f[Len(hosts)]
    BY AddedType, AddAllLoop
<1> DEFINE n == Len(hosts)
           seen(i) == {hosts[j] : j \in 1..i}
           Q == {i \in 0..n : Added(f[i], D \cup seen(i))}
<1>2. n \in Nat /\ n = Len(hosts) /\ DOMAIN hosts = 1..n /\ \A i \in 1..n : hosts[i] \in Texts
    OBVIOUS
<1>3. Range(hosts) = seen(n)
    BY <1>2 DEF Range
<1>4. 0 \in Q
    <2>1. 0 \in 0..n /\ seen(0) = {}
        BY <1>2
    <2>2. D \cup seen(0) = D
        BY <2>1
    <2> HIDE DEF seen
    <2> QED BY <1>1, <2>1, <2>2
<1>5. ASSUME NEW i \in 1..n, i - 1 \in Q PROVE i \in Q
    <2>1. Added(f[i - 1], D \cup seen(i - 1)) /\ f[i] = add(f[i - 1], hosts[i]) /\ hosts[i] \in Texts
        BY <1>1, <1>2, <1>5
    <2>2. seen(i) = seen(i - 1) \cup {hosts[i]}
        <3>1. \A j \in 1..i : j = i \/ j \in 1..(i - 1)
            BY <1>2
        <3>2. i \in 1..i /\ \A j \in 1..(i - 1) : j \in 1..i
            BY <1>2
        <3> QED BY <3>1, <3>2
    <2> DEFINE E == D \cup seen(i - 1)
    <2>3. D \cup seen(i) = E \cup {hosts[i]}
        BY <2>2
    <2> HIDE DEF E
    <2>4. Added(f[i], E \cup {hosts[i]})
        BY <2>1, AddRight DEF E
    <2> HIDE DEF seen
    <2>5. Added(f[i], D \cup seen(i))
        BY <2>3, <2>4
    <2> HIDE DEF n
    <2> QED BY <1>2, <2>5
<1>6. n \in Q
    <2> HIDE DEF Q, n
    <2>1. 0..n \subseteq Q
        BY <1>2, <1>4, <1>5, Induction
    <2> QED BY <1>2, <2>1
<1> QED BY <1>1, <1>3, <1>6

DenotedBy(tok) == {h \in Texts : Denotes(tok, h)}

LEMMA WalkRight ==
    ASSUME NEW v \in BOOLEAN, NEW lo \in Addresses, NEW hi \in Addresses, lo <= hi,
           NEW limit \in {MaxTargets, MaxTargets + 1}
    PROVE  LET B == {<<v, n>> : n \in lo..hi}
               W == Walk(v, lo, hi, limit) IN
           \/ W = Error /\ TooMany(B)
           \/ W \in Seq(Texts) /\ Range(W) = B
<1> DEFINE B == {<<v, n>> : n \in lo..hi}
           W == Walk(v, lo, hi, limit)
           k == hi - lo + 1
           at(m) == [i \in 1..m |-> <<v, lo + i - 1>>]
<1>1. lo \in Nat /\ hi \in Nat /\ k \in Nat /\ MaxTargets \in Nat /\ limit \in Nat /\ limit >= MaxTargets
    BY AddressType, WidthAssumption
<1>2. \A n \in lo..hi : n \in Addresses
    BY AddressType
<1>3. ASSUME NEW m \in Nat, m <= k
      PROVE  at(m) \in Seq(Texts) /\ Len(at(m)) = m /\ IsInjective(at(m)) /\ Range(at(m)) \subseteq B
    <2>1. \A i \in 1..m : lo + i - 1 \in lo..hi
        BY <1>1, <1>3
    <2>2. \A i \in 1..m : <<v, lo + i - 1>> \in Texts /\ <<v, lo + i - 1>> \in B
        BY <1>2, <2>1 DEF Texts, Printed
    <2>3. at(m) \in [1..m -> Texts]
        BY <2>2
    <2>4. at(m) \in Seq(Texts) /\ Len(at(m)) = m
        BY <2>3
    <2>5. IsInjective(at(m))
        <3> SUFFICES ASSUME NEW a \in 1..m, NEW b \in 1..m, at(m)[a] = at(m)[b] PROVE a = b
            BY DEF IsInjective
        <3>1. lo + a - 1 = lo + b - 1
            OBVIOUS
        <3> QED BY <1>1, <3>1
    <2>6. Range(at(m)) \subseteq B
        BY <2>2 DEF Range
    <2> QED BY <2>4, <2>5, <2>6
<1>4. CASE k > limit
    <2>1. W = Error
        BY <1>4 DEF Walk
    <2>2. MaxTargets + 1 \in Nat /\ MaxTargets + 1 <= k
        BY <1>1, <1>4
    <2> HIDE DEF at, k, B, W
    <2>3. TooMany(B)
        BY <1>3, <2>2 DEF TooMany
    <2> QED BY <2>1, <2>3 DEF B, W
<1>5. CASE ~(k > limit)
    <2>1. W = at(k)
        BY <1>5 DEF Walk
    <2>2. B \subseteq Range(at(k))
        <3> SUFFICES ASSUME NEW n \in lo..hi PROVE <<v, n>> \in Range(at(k))
            OBVIOUS
        <3>1. n - lo + 1 \in 1..k /\ lo + (n - lo + 1) - 1 = n
            BY <1>1
        <3>2. at(k)[n - lo + 1] = <<v, n>> /\ n - lo + 1 \in DOMAIN at(k)
            BY <3>1
        <3> HIDE DEF at
        <3> QED BY <3>2 DEF Range
    <2>3. k \in Nat /\ k <= k
        BY <1>1
    <2> HIDE DEF at, k, B, W
    <2>4. at(k) \in Seq(Texts) /\ Range(at(k)) \subseteq B
        BY <1>3, <2>3
    <2> QED BY <2>1, <2>2, <2>4 DEF B, W
<1> QED BY <1>4, <1>5

\* What a token is expanded to is what it denotes.
LEMMA TokenHosts ==
    ASSUME NEW tok \in Tokens, Taken(tok)
    PROVE  \/ Expanded(tok) = Error /\ TooMany(DenotedBy(tok))
           \/ Expanded(tok) \in Seq(Texts) /\ Range(Expanded(tok)) = DenotedBy(tok)
<1>1. CASE tok.kind = "host"
    <2>1. tok.text \in Texts /\ Expanded(tok) = <<tok.text>>
        BY <1>1, TokenKinds DEF Expanded
    <2>2. DenotedBy(tok) = {tok.text}
        BY <1>1, <2>1 DEF DenotedBy, Denotes
    <2>3. <<tok.text>> \in Seq(Texts) /\ Range(<<tok.text>>) = {tok.text}
        BY <2>1 DEF Range
    <2> QED BY <2>1, <2>2, <2>3
<1>2. CASE tok.kind # "host"
    <2>1. PICK lo, hi : Spans(tok, lo, hi)
        BY <1>2, TokenMeaning
    <2> DEFINE v == tok.v4
               B == {<<v, n>> : n \in lo..hi}
    <2>2. v \in BOOLEAN /\ lo \in Addresses /\ hi \in Addresses /\ lo <= hi
        BY <2>1 DEF Spans
    <2>3. lo \in Nat /\ hi \in Nat /\ \A n \in lo..hi : n \in Addresses
        BY <2>2, AddressType
    <2>4. B = DenotedBy(tok)
        <3>1. \A n \in Addresses : Covers(tok, n) <=> n \in lo..hi
            BY <2>1, <2>3, AddressType DEF Spans
        <3>2. \A h : Denotes(tok, h) <=> h \in Printed /\ h[1] = v /\ Covers(tok, h[2])
            BY <1>2 DEF Denotes
        <3>3. \A h \in Printed : h = <<h[1], h[2]>> /\ h[2] \in Addresses /\ h \in Texts
            BY DEF Printed, Texts
        <3>4. \A n \in lo..hi : <<v, n>> \in Printed /\ <<v, n>>[1] = v /\ <<v, n>>[2] = n
            BY <2>2, <2>3 DEF Printed
        <3> HIDE DEF v
        <3> QED BY <2>3, <3>1, <3>2, <3>3, <3>4 DEF DenotedBy
    <2>5. PICK limit \in {MaxTargets, MaxTargets + 1} : Expanded(tok) = Walk(v, lo, hi, limit)
        BY <2>1 DEF Spans
    <2> DEFINE W == Walk(v, lo, hi, limit)
    <2>6. \/ W = Error /\ TooMany(B)
          \/ W \in Seq(Texts) /\ Range(W) = B
        <3> HIDE DEF v
        <3> QED BY <2>2, WalkRight
    <2> HIDE DEF W, B
    <2> QED BY <2>4, <2>5, <2>6 DEF W
<1> QED BY <1>1, <1>2

LEMMA TokenRight ==
    ASSUME NEW out, NEW D, Added(out, D), NEW tok \in Tokens, Taken(tok)
    PROVE  Added(token(out, tok), D \cup DenotedBy(tok))
<1> DEFINE E == Expanded(tok)
           B == DenotedBy(tok)
<1>1. (E = Error /\ TooMany(B)) \/ (E \in Seq(Texts) /\ Range(E) = B)
    BY TokenHosts
<1>2. token(out, tok) = IF out = Error \/ E = Error THEN Error ELSE addAll(out, E)
    BY DEF token
<1> HIDE DEF E, B
<1>3. CASE out = Error
    <2>1. TooMany(D \cup B)
        BY <1>3, AddedType DEF TooMany
    <2> QED BY <1>2, <1>3, <2>1 DEF Added, B
<1>4. CASE out # Error /\ E = Error
    <2>1. TooMany(B)
        BY <1>1, <1>4, ErrorAssumption DEF Texts, Printed
    <2>2. TooMany(D \cup B)
        BY <2>1 DEF TooMany
    <2> QED BY <1>2, <1>4, <2>2 DEF Added, B
<1>5. CASE out # Error /\ E # Error
    BY <1>1, <1>2, <1>5, AddAllRight DEF B
<1> QED BY <1>3, <1>4, <1>5

LEMMA TokenType ==
    ASSUME NEW out \in Outs, NEW tok \in Tokens
    PROVE  token(out, tok) \in Outs
<1> DEFINE E == Expanded(tok)
<1>1. E = Error \/ E \in Seq(Texts)
    BY TokenHosts, TokenMeaning
<1>2. token(out, tok) = IF out = Error \/ E = Error THEN Error ELSE addAll(out, E)
    BY DEF token
<1> HIDE DEF E
<1>3. ASSUME E \in Seq(Texts) PROVE addAll(out, E) \in Outs
    <2>1. PICK f : f \in [0..Len(E) -> Outs] /\ addAll(out, E) = f[Len(E)]
        BY <1>3, AddAllLoop
    <2>2. Len(E) \in 0..Len(E)
        BY <1>3
    <2> QED BY <2>1, <2>2
<1> QED BY <1>1, <1>2, <1>3 DEF Outs

LEMMA ExpandLoop ==
    ASSUME NEW spec \in Seq(Tokens)
    PROVE  \E f : /\ f \in [0..Len(spec) -> Outs] /\ f[0] = <<>>
                  /\ \A i \in 1..Len(spec) : f[i] = token(f[i - 1], spec[i])
                  /\ ExpandTargets(spec) = IF f[Len(spec)] = <<>> THEN Error ELSE f[Len(spec)]
<1> DEFINE n == Len(spec)
           V == Outs
           e == <<>>
           step(i, x) == token(x, spec[i])
           done(f) == [i \in 0..n |-> IF i = 0 THEN e ELSE step(i, f[i - 1])]
           h == CHOOSE f : f = done(f)
           G == [y \in (1..n) \X V |-> step(y[1], y[2])]
<1>1. n \in Nat /\ e \in V
    BY DEF Outs
<1>2. ASSUME NEW i \in 1..n, NEW x \in V PROVE step(i, x) \in V
    <2>1. spec[i] \in Tokens
        OBVIOUS
    <2> QED BY <2>1, TokenType
<1>3. ExpandTargets(spec) = IF h[n] = <<>> THEN Error ELSE h[n]
    BY DEF ExpandTargets
<1>4. SUFFICES \E f : /\ f \in [0..n -> V] /\ f[0] = e
                      /\ \A i \in 1..n : f[i] = step(i, f[i - 1])
                      /\ ExpandTargets(spec) = IF f[n] = <<>> THEN Error ELSE f[n]
    OBVIOUS
<1> HIDE DEF n, V, e, step
<1>5. G \in Steps(n, V)
    BY <1>2 DEF Steps
<1>6. \A i \in 1..n, x \in V : G[<<i, x>>] = step(i, x)
    OBVIOUS
<1> HIDE DEF G
<1>7. \E f : f = done(f)
    <2>1. PICK f : Run(n, V, e, G, f)
        BY <1>1, <1>5, Recursion
    <2>2. f \in [0..n -> V] /\ \A i \in 1..n : f[i] = step(i, f[i - 1])
        <3>1. \A i \in 1..n : i - 1 \in 0..n
            BY <1>1
        <3> QED BY <1>6, <2>1, <3>1 DEF Run
    <2> QED BY <1>1, <2>1, <2>2 DEF Run
<1>8. h = done(h)
    BY <1>7
<1> HIDE DEF h
<1>9. Run(n, V, e, G, h)
    <2>1. h = [i \in 0..n |-> h[i]] /\ h[0] = e /\ \A i \in 1..n : h[i] = step(i, h[i - 1])
        BY <1>1, <1>8
    <2> QED BY <1>1, <1>5, <1>6, <2>1, Unfolding
<1>10. \A i \in 1..n : h[i - 1] \in V
    BY <1>1, <1>9 DEF Run
<1> QED BY <1>3, <1>6, <1>9, <1>10 DEF Run

\* The hosts that the first i tokens denote.
DenotedTo(spec, i) ==
    {h \in Texts : \E j \in 1..i : Denotes(spec[j], h)}

\* After the last token: the hosts of all, or Error if one was not valid.
LEMMA ExpandRight ==
    ASSUME NEW spec \in Seq(Tokens)
    PROVE  \E out :
               /\ (\A i \in 1..Len(spec) : Taken(spec[i])) => Added(out, DenotedTo(spec, Len(spec)))
               /\ (\E i \in 1..Len(spec) : ~Taken(spec[i])) => out = Error
               /\ ExpandTargets(spec) = IF out = <<>> THEN Error ELSE out
<1>1. PICK f : /\ f \in [0..Len(spec) -> Outs] /\ f[0] = <<>>
               /\ \A i \in 1..Len(spec) : f[i] = token(f[i - 1], spec[i])
               /\ ExpandTargets(spec) = IF f[Len(spec)] = <<>> THEN Error ELSE f[Len(spec)]
    BY ExpandLoop
<1> DEFINE n == Len(spec)
           D(i) == DenotedTo(spec, i)
           Right(i) == /\ (\A j \in 1..i : Taken(spec[j])) => Added(f[i], D(i))
                       /\ (\E j \in 1..i : ~Taken(spec[j])) => f[i] = Error
           Q == {i \in 0..n : Right(i)}
<1>2. n \in Nat /\ n = Len(spec) /\ \A i \in 1..n : spec[i] \in Tokens
    OBVIOUS
<1>3. 0 \in Q
    <2>1. 0 \in 0..n /\ D(0) = {} /\ 1..0 = {}
        BY <1>2 DEF DenotedTo
    <2>2. Lists(<<>>, {})
        <3>1. <<>> \in Seq(Texts) /\ Len(<<>>) = 0 /\ DOMAIN <<>> = {}
            OBVIOUS
        <3>2. IsInjective(<<>>) /\ Range(<<>>) = {} /\ 0 <= MaxTargets
            BY <3>1, WidthAssumption DEF IsInjective, Range
        <3> QED BY <3>1, <3>2 DEF Lists
    <2> HIDE DEF D
    <2> QED BY <1>1, <2>1, <2>2 DEF Added
<1>4. ASSUME NEW i \in 1..n, i - 1 \in Q PROVE i \in Q
    <2>1. Right(i - 1) /\ f[i] = token(f[i - 1], spec[i]) /\ spec[i] \in Tokens
        BY <1>1, <1>2, <1>4
    <2>2. i \in 1..i /\ i \in 0..n /\ (\A j \in 1..i : j = i \/ j \in 1..(i - 1))
          /\ \A j \in 1..(i - 1) : j \in 1..i
        BY <1>2
    <2>3. D(i) = D(i - 1) \cup DenotedBy(spec[i])
        <3> HIDE DEF n
        <3> QED BY <2>2 DEF DenotedTo, DenotedBy
    <2> HIDE DEF D
    <2>4. CASE ~Taken(spec[i])
        <3>1. f[i] = Error
            BY <2>1, <2>4, TokenMeaning DEF token
        <3>2. Right(i)
            BY <2>2, <2>4, <3>1
        <3> QED BY <2>2, <3>2
    <2>5. CASE Taken(spec[i]) /\ \A j \in 1..(i - 1) : Taken(spec[j])
        <3>1. Added(f[i - 1], D(i - 1))
            BY <2>1, <2>5
        <3>2. Added(f[i], D(i - 1) \cup DenotedBy(spec[i]))
            BY <2>1, <2>5, <3>1, TokenRight
        <3>3. Added(f[i], D(i))
            BY <2>3, <3>2
        <3>4. Right(i)
            BY <2>2, <2>5, <3>3
        <3> QED BY <2>2, <3>4
    <2>6. CASE Taken(spec[i]) /\ \E j \in 1..(i - 1) : ~Taken(spec[j])
        <3>1. f[i - 1] = Error
            BY <2>1, <2>6
        <3>2. f[i] = Error
            BY <2>1, <3>1 DEF token
        <3>3. Right(i)
            BY <2>2, <2>6, <3>2
        <3> QED BY <2>2, <3>3
    <2> QED BY <2>4, <2>5, <2>6
<1>5. n \in Q
    <2> HIDE DEF Q, n
    <2>1. 0..n \subseteq Q
        BY <1>2, <1>3, <1>4, Induction
    <2> QED BY <1>2, <2>1
<1> QED BY <1>1, <1>2, <1>5

\* A list without repetitions has as many elements as its range.
LEMMA ListSize ==
    ASSUME NEW S, NEW q \in Seq(S), IsInjective(q)
    PROVE  IsFiniteSet(Range(q)) /\ Cardinality(Range(q)) = Len(q)
<1> DEFINE n == Len(q)
           R == Range(q)
<1>1. n \in Nat /\ DOMAIN q = 1..n
    OBVIOUS
<1>2. q \in [1..n -> R]
    BY <1>1 DEF Range
<1>3. \A t \in R : \E i \in 1..n : q[i] = t
    BY <1>1 DEF Range
<1> HIDE DEF n, R
<1>4. q \in Bijection(1..n, R)
    BY <1>2, <1>3 DEF Bijection, Injection, Surjection
<1>5. IsFiniteSet(1..n) /\ Cardinality(1..n) = n
    BY <1>1, FS_Interval
<1>6. IsFiniteSet(R) /\ Cardinality(R) = Cardinality(1..n)
    BY <1>4, <1>5, FS_Bijection DEF ExistsBijection
<1> QED BY <1>5, <1>6 DEF n, R

\* What a specification denotes are addresses and texts that it spells.
LEMMA DenotedFinite ==
    ASSUME NEW spec \in Seq(Tokens)
    PROVE  /\ IsFiniteSet(Denoted(spec))
           /\ Denoted(spec) = DenotedTo(spec, Len(spec))
<1> DEFINE hosts == {j \in DOMAIN spec : spec[j].kind = "host"}
           text == [j \in hosts |-> spec[j].text]
<1>1. Len(spec) \in Nat /\ DOMAIN spec = 1..Len(spec) /\ \A j \in DOMAIN spec : spec[j] \in Tokens
    OBVIOUS
<1>2. IsFiniteSet(Printed)
    <2>1. IsFiniteSet(BOOLEAN)
        <3>1. BOOLEAN = {TRUE} \cup {FALSE}
            OBVIOUS
        <3>2. IsFiniteSet({TRUE}) /\ IsFiniteSet({FALSE})
            BY FS_Singleton, Zenon
        <3>3. IsFiniteSet({TRUE} \cup {FALSE})
            BY <3>2, FS_Union, Zenon
        <3> QED BY <3>1, <3>3, Zenon
    <2>2. IsFiniteSet(Addresses)
        <3>1. Pow2[Width] - 1 \in Int /\ 0 \in Int
            BY AddressType
        <3> QED BY <3>1, FS_Interval DEF Addresses
    <2> QED BY <2>1, <2>2, FS_Product DEF Printed
<1>3. IsFiniteSet(Spelled(spec))
    <2>1. IsFiniteSet(hosts)
        <3>1. IsFiniteSet(1..Len(spec))
            BY <1>1, FS_Interval
        <3>2. hosts \in SUBSET (1..Len(spec))
            BY <1>1
        <3> QED BY <3>1, <3>2, FS_Subset
    <2>2. text \in [hosts -> Spelled(spec)] /\ \A t \in Spelled(spec) : \E j \in hosts : text[j] = t
        BY DEF Spelled
    <2> HIDE DEF text, hosts
    <2>3. text \in Surjection(hosts, Spelled(spec))
        BY <2>2 DEF Surjection
    <2> QED BY <2>1, <2>3, FS_Surjection DEF ExistsSurjection
<1>4. IsFiniteSet(Printed \cup Spelled(spec))
    BY <1>2, <1>3, FS_Union
<1>5. IsFiniteSet(Denoted(spec))
    <2>1. Denoted(spec) \in SUBSET (Printed \cup Spelled(spec))
        BY DEF Denoted
    <2> QED BY <1>4, <2>1, FS_Subset
<1>6. Spelled(spec) \subseteq Texts
    BY <1>1, TokenKinds DEF Spelled
<1>7. \A j \in DOMAIN spec : \A h : Denotes(spec[j], h) => h \in Printed \cup Spelled(spec)
    BY DEF Denotes, Spelled
<1>8. Denoted(spec) = DenotedTo(spec, Len(spec))
    <2>1. Printed \cup Spelled(spec) \subseteq Texts
        BY <1>6 DEF Texts
    <2> QED BY <1>1, <1>7, <2>1 DEF Denoted, DenotedTo
<1> QED BY <1>5, <1>8

\* Every specification is expanded to exactly what it denotes.
THEOREM Expansion ==
    ASSUME NEW spec \in Seq(Tokens)
    PROVE  Exact(spec)
<1> DEFINE n == Len(spec)
           D == DenotedTo(spec, n)
           allTaken == \A i \in 1..n : Taken(spec[i])
<1>1. n \in Nat /\ DOMAIN spec = 1..n
    OBVIOUS
<1>2. PICK out : /\ allTaken => Added(out, D)
                 /\ ~allTaken => out = Error
                 /\ ExpandTargets(spec) = IF out = <<>> THEN Error ELSE out
    BY ExpandRight
<1>3. Denoted(spec) = D
    BY DenotedFinite
<1>4. IsFiniteSet(D)
    BY DenotedFinite
<1>5. Exact(spec) <=>
          IF allTaken /\ Cardinality(D) \in 1..MaxTargets
          THEN /\ ExpandTargets(spec) # Error
               /\ Range(ExpandTargets(spec)) = D /\ IsInjective(ExpandTargets(spec))
          ELSE ExpandTargets(spec) = Error
    BY <1>1, <1>3 DEF Exact
<1> HIDE DEF n, D, allTaken
<1>6. IsFiniteSet(D) /\ Cardinality(D) \in Nat
    BY <1>4, FS_CardinalityType
<1>7. <<>> # Error
    <2>1. <<>> \in Seq(Texts)
        OBVIOUS
    <2> QED BY <2>1, ErrorAssumption
<1>8. CASE ~allTaken
    BY <1>2, <1>5, <1>8
<1>9. CASE allTaken /\ out = Error
    <2>1. PICK q \in Seq(Texts) : IsInjective(q) /\ Len(q) = MaxTargets + 1 /\ Range(q) \subseteq D
        BY <1>2, <1>9, AddedType DEF TooMany
    <2>2. Cardinality(Range(q)) = MaxTargets + 1
        BY <2>1, ListSize
    <2>3. Cardinality(Range(q)) <= Cardinality(D)
        BY <1>6, <2>1, FS_Subset
    <2>4. Cardinality(D) \notin 1..MaxTargets
        BY <1>6, <2>2, <2>3, WidthAssumption
    <2> QED BY <1>2, <1>5, <1>7, <1>9, <2>4
<1>10. CASE allTaken /\ out # Error
    <2>1. Lists(out, D)
        BY <1>2, <1>10, AddedType
    <2>2. out \in Seq(Texts) /\ IsInjective(out) /\ Len(out) <= MaxTargets /\ Range(out) = D
        BY <2>1 DEF Lists
    <2>3. Cardinality(D) = Len(out) /\ Len(out) \in Nat
        BY <2>2, ListSize
    <2>4. CASE out = <<>>
        <3>1. Cardinality(D) = 0
            BY <2>3, <2>4
        <3> QED BY <1>2, <1>5, <2>4, <3>1
    <2>5. CASE out # <<>>
        <3>1. Len(out) # 0
            BY <2>2, <2>5, EmptySeq
        <3>2. Cardinality(D) \in 1..MaxTargets
            BY <2>2, <2>3, <3>1, WidthAssumption
        <3> QED BY <1>2, <1>5, <1>10, <2>2, <2>5, <3>2
    <2> QED BY <2>4, <2>5
<1> QED BY <1>8, <1>9, <1>10

LEMMA TargetsInv == IInv => TargetsExact
<1> SUFFICES ASSUME IInv PROVE TargetsExact
    OBVIOUS
<1>1. TypedExact
    BY Expansion, FleetAssumption DEF TypedExact
<1> DEFINE rep == Evaluate(Agents)
<1>2. ASSUME NEW hosts \in Seq(AgentRows), \A a \in Range(hosts) : a.ip # Blank
      PROVE  Exact(TargetSpec(hosts))
    <2>1. Len(hosts) \in Nat /\ DOMAIN hosts = 1..Len(hosts)
        OBVIOUS
    <2>2. \A i \in 1..Len(hosts) : hosts[i] \in AgentRows /\ hosts[i] \in Range(hosts)
        BY <2>1 DEF Range
    <2>3. \A i \in 1..Len(hosts) : hosts[i].ip \in Texts
        BY <1>2, <2>2, AgentsType
    <2>4. \A h \in Texts : Host(h) \in Tokens
        BY DEF Host, Tokens
    <2>5. TargetSpec(hosts) \in [1..Len(hosts) -> Tokens]
        BY <2>1, <2>3, <2>4 DEF TargetSpec
    <2>6. TargetSpec(hosts) \in Seq(Tokens)
        BY <2>1, <2>5
    <2> QED BY <2>6, Expansion
<1>3. /\ rep.repair \in Seq(AgentRows) /\ rep.upgrade \in Seq(AgentRows)
      /\ \A a \in Range(rep.repair) : a.ip # Blank
      /\ \A a \in Range(rep.upgrade) : a.ip # Blank
    BY AgentsType, HostsAre
<1> HIDE DEF rep
<1>4. \A hosts \in {rep.repair, rep.upgrade} : Exact(TargetSpec(hosts))
    BY <1>2, <1>3
<1> QED BY <1>1, <1>4 DEF TargetsExact, rep

\* What a recommendation or an operator's specification means is what a
\* deployment is given: every host once and no other, or a refusal.
THEOREM Targeting == Spec => []TargetsExact
BY Inventory, TargetsInv, PTL

=============================================================================
