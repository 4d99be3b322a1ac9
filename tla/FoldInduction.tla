---------------------------- MODULE FoldInduction ----------------------------
(***************************************************************************)
(* Induction over a loop: what every step of a loop keeps, the whole loop  *)
(* keeps.  The provers cannot put an operator into a lemma, but they take  *)
(* a lemma from an instance of its module: a proof about a loop            *)
(* instantiates this module with the loop's step, op, and with what is     *)
(* kept, Keep.  Both may depend on parameters q.                           *)
(***************************************************************************)
EXTENDS Integers, FiniteSetsExt, WellFoundedInduction, TLAPS

CONSTANTS op(_, _, _), Keep(_, _)

\* EasyFs's Each(LAMBDA x, k : op(q, x, k), base, s), with its definition and
\* FoldLeft's expanded.
Stepped(q, x, k) == CHOOSE y \in {op(q, z, k) : z \in {x}} : TRUE
IsFold(f, q, base, s) ==
    f = [t \in SUBSET DOMAIN s |-> IF t = {} THEN base
                                   ELSE Stepped(q, f[t \ {Max(t)}], s[Max(t)])]
Folded(q, base, s) == (CHOOSE f : IsFold(f, q, base, s))[DOMAIN s]

LEMMA Least ==
    ASSUME NEW T, T \subseteq Nat, T # {}
    PROVE  \E m \in T : \A n \in T : m <= n
<1>1. PICK m \in T : \A n \in T : ~(<<n, m>> \in OpToRel(<, Nat))
  BY NatLessThanWellFounded, WFMin, Zenon
<1>2. \A n \in T : ~(n < m)
  BY <1>1 DEF OpToRel
<1> QED
  BY <1>2

LEMMA MaxIsLast ==
    ASSUME NEW n \in Nat, NEW t, t \subseteq 1..n, t # {}
    PROVE  /\ Max(t) \in t
           /\ \A i \in t : i <= Max(t)
<1> DEFINE S == {m \in Nat : t \subseteq 1..m}
<1>1. n \in S /\ S \subseteq Nat
  OBVIOUS
<1> HIDE DEF S
<1>2. PICK m \in S : \A k \in S : m <= k
  BY <1>1, Least
<1>3. m \in Nat /\ t \subseteq 1..m
  BY <1>2 DEF S
<1>4. m \in t
  <2> SUFFICES ASSUME m \notin t PROVE FALSE
    OBVIOUS
  <2>0. PICK j \in t : j \in 1..m
    BY <1>3
  <2>1. t \subseteq 1..(m - 1) /\ m - 1 \in Nat
    <3>1. m - 1 \in Nat /\ m \in Nat
      BY <1>3, <2>0
    <3>2. ASSUME NEW i \in t PROVE i \in 1..(m - 1)
      BY <1>3, <3>1
    <3> QED
      BY <3>1, <3>2
  <2>2. m - 1 \in S
    BY <2>1 DEF S
  <2> QED
    BY <1>2, <1>3, <2>2
<1>5. m \in t /\ \A i \in t : m >= i
  BY <1>3, <1>4
<1>6. Max(t) \in t /\ \A i \in t : Max(t) >= i
  BY <1>5 DEF Max
<1> QED
  BY <1>6

\* Every loop over finitely many places has such a function.
LEMMA FoldExists ==
    ASSUME NEW q, NEW base, NEW s, NEW N \in Nat, DOMAIN s \subseteq 1..N
    PROVE  \E f : IsFold(f, q, base, s)
<1> DEFINE D(n) == DOMAIN s \cap 1..n
           Good(f, n) == f = [t \in SUBSET D(n) |-> IF t = {} THEN base
                                                   ELSE Stepped(q, f[t \ {Max(t)}], s[Max(t)])]
           Bad == {n \in Nat : ~\E f : Good(f, n)}
<1>1. ASSUME Bad # {} PROVE FALSE
  <2>0. Bad \subseteq Nat
    OBVIOUS
  <2> HIDE DEF Bad
  <2>1. PICK n \in Bad : \A m \in Bad : n <= m
    BY <1>1, <2>0, Least
  <2>2. n \in Nat /\ \A m \in Bad : ~(m < n)
    BY <2>0, <2>1
  <2>3. n # 0
    <3> SUFFICES ASSUME n = 0 PROVE \E f : Good(f, n)
      BY <2>1 DEF Bad
    <3>1. D(n) = {}
      OBVIOUS
    <3>2. PICK f : f = [t \in SUBSET D(n) |-> base]
      OBVIOUS
    <3>3. Good(f, n)
      BY <3>1, <3>2
    <3> QED
      BY <3>3
  <2>4. n - 1 \in Nat /\ n - 1 \notin Bad
    BY <2>2, <2>3
  <2>5. PICK f : Good(f, n - 1)
    BY <2>4 DEF Bad
  <2>6. PICK g : g = [t \in SUBSET D(n) |-> IF t = {} THEN base
                                            ELSE Stepped(q, f[t \ {Max(t)}], s[Max(t)])]
    OBVIOUS
  <2>7. ASSUME NEW t \in SUBSET D(n), t # {}
        PROVE  t \ {Max(t)} \in SUBSET D(n - 1) /\ t \ {Max(t)} \in SUBSET D(n)
    <3>1. Max(t) \in t /\ \A i \in t : i <= Max(t)
      BY <2>2, <2>7, MaxIsLast
    <3> QED
      BY <2>2, <2>7, <3>1
  <2>8. \A u \in SUBSET D(n - 1) : u \in SUBSET D(n)
    BY <2>2
  <2> HIDE DEF D
  <2>9. \A u \in SUBSET D(n - 1) : g[u] = f[u]
    BY <2>5, <2>6, <2>8
  <2>10. g = [t \in SUBSET D(n) |-> IF t = {} THEN base
                                    ELSE Stepped(q, g[t \ {Max(t)}], s[Max(t)])]
    BY <2>6, <2>7, <2>9
  <2> QED
    BY <2>1, <2>10 DEF Bad
<1>2. \E f : Good(f, N)
  BY <1>1
<1>3. D(N) = DOMAIN s
  OBVIOUS
<1> QED
  BY <1>2, <1>3 DEF IsFold

\* What every step keeps, the loop keeps.
LEMMA FoldKeeps ==
    ASSUME NEW q, NEW base, NEW s, NEW N \in Nat, DOMAIN s \subseteq 1..N,
           Keep(q, base),
           \A i \in DOMAIN s : \A x : Keep(q, x) => Keep(q, op(q, x, s[i]))
    PROVE  Keep(q, Folded(q, base, s))
<1> DEFINE f == CHOOSE g : IsFold(g, q, base, s)
<1>0. IsFold(f, q, base, s)
  BY FoldExists
<1> HIDE DEF f
<1> DEFINE Bad == {n \in Nat : \E t \in SUBSET DOMAIN s : t \subseteq 1..n /\ ~Keep(q, f[t])}
<1>1. ASSUME Bad # {} PROVE FALSE
  <2>0. Bad \subseteq Nat
    OBVIOUS
  <2> HIDE DEF Bad
  <2>1. PICK n \in Bad : \A m \in Bad : n <= m
    BY <1>1, <2>0, Least
  <2>2. n \in Nat /\ \A m \in Bad : ~(m < n)
    BY <2>0, <2>1
  <2>3. PICK t \in SUBSET DOMAIN s : t \subseteq 1..n /\ ~Keep(q, f[t])
    BY <2>1 DEF Bad
  <2>4. f[t] = IF t = {} THEN base ELSE op(q, f[t \ {Max(t)}], s[Max(t)])
    <3>1. f[t] = IF t = {} THEN base ELSE Stepped(q, f[t \ {Max(t)}], s[Max(t)])
      BY <1>0, <2>3 DEF IsFold
    <3>2. \A x, k : Stepped(q, x, k) = op(q, x, k)
      BY DEF Stepped
    <3> QED
      BY <3>1, <3>2
  <2>5. t # {}
    BY <2>3, <2>4
  <2>6. Max(t) \in t /\ \A i \in t : i <= Max(t)
    BY <2>2, <2>3, <2>5, MaxIsLast
  <2>7. n # 0 /\ n - 1 \in Nat
    BY <2>2, <2>3, <2>5
  <2>8. t \ {Max(t)} \subseteq 1..(n - 1) /\ t \ {Max(t)} \in SUBSET DOMAIN s
    BY <2>2, <2>3, <2>6, <2>7
  <2>9. n - 1 \notin Bad
    BY <2>2, <2>7
  <2>10. Keep(q, f[t \ {Max(t)}])
    BY <2>7, <2>8, <2>9 DEF Bad
  <2> QED
    BY <2>3, <2>4, <2>5, <2>6, <2>10
<1>2. DOMAIN s \in SUBSET DOMAIN s /\ N \notin Bad
  BY <1>1
<1> QED
  BY <1>2 DEF Folded, f

-----------------------------------------------------------------------------
\* The same for AddressSpace's Loop, which counts from 0.
IsLoop(f, q, base, n) ==
    f = [k \in 0..n |-> IF k = 0 THEN base
                        ELSE CHOOSE y \in {op(q, x, k - 1) : x \in {f[k - 1]}} : TRUE]
Looped(q, base, n) == (CHOOSE f : IsLoop(f, q, base, n))[n]

LEMMA LoopExists ==
    ASSUME NEW q, NEW base, NEW N \in Nat
    PROVE  \E f : IsLoop(f, q, base, N)
<1> DEFINE Bad == {n \in Nat : ~\E f : IsLoop(f, q, base, n)}
<1>1. ASSUME Bad # {} PROVE FALSE
  <2>0. Bad \subseteq Nat
    OBVIOUS
  <2> HIDE DEF Bad
  <2>1. PICK n \in Bad : \A m \in Bad : n <= m
    BY <1>1, <2>0, Least
  <2>2. n \in Nat /\ \A m \in Bad : ~(m < n)
    BY <2>0, <2>1
  <2>3. n # 0
    <3> SUFFICES ASSUME n = 0 PROVE \E f : IsLoop(f, q, base, n)
      BY <2>1 DEF Bad
    <3>1. PICK f : f = [k \in 0..0 |-> base]
      OBVIOUS
    <3>2. IsLoop(f, q, base, 0)
      BY <3>1 DEF IsLoop
    <3> QED
      BY <3>2
  <2>4. n - 1 \in Nat /\ n - 1 \notin Bad
    BY <2>2, <2>3
  <2>5. PICK f : IsLoop(f, q, base, n - 1)
    BY <2>4 DEF Bad
  <2>6. PICK g : g = [k \in 0..n |-> IF k = 0 THEN base
                                     ELSE CHOOSE y \in {op(q, x, k - 1) : x \in {f[k - 1]}} : TRUE]
    OBVIOUS
  <2>7. ASSUME NEW k \in 0..n, k # 0 PROVE k - 1 \in 0..(n - 1) /\ k - 1 \in 0..n
    BY <2>2, <2>7
  <2>8. \A k \in 0..(n - 1) : g[k] = f[k]
    <3>1. \A k \in 0..(n - 1) : k \in 0..n
      BY <2>2
    <3> QED
      BY <2>5, <2>6, <3>1 DEF IsLoop
  <2>9. g = [k \in 0..n |-> IF k = 0 THEN base
                            ELSE CHOOSE y \in {op(q, x, k - 1) : x \in {g[k - 1]}} : TRUE]
    <3>1. \A k \in 0..n : k # 0 => g[k - 1] = f[k - 1]
      BY <2>7, <2>8
    <3> DEFINE F(k) == IF k = 0 THEN base
                       ELSE CHOOSE y \in {op(q, x, k - 1) : x \in {f[k - 1]}} : TRUE
               G(k) == IF k = 0 THEN base
                       ELSE CHOOSE y \in {op(q, x, k - 1) : x \in {g[k - 1]}} : TRUE
    <3>2. ASSUME NEW k \in 0..n PROVE F(k) = G(k)
      <4>1. CASE k = 0
        BY <4>1
      <4>2. CASE k # 0
        BY <3>1, <4>2
      <4> QED
        BY <4>1, <4>2
    <3>3. g = [k \in 0..n |-> F(k)]
      BY <2>6
    <3> HIDE DEF F, G
    <3>4. g = [k \in 0..n |-> G(k)]
      BY <3>2, <3>3
    <3> QED
      BY <3>4 DEF G
  <2> QED
    BY <2>1, <2>9 DEF Bad, IsLoop
<1> QED
  BY <1>1

LEMMA LoopKeeps ==
    ASSUME NEW q, NEW base, NEW N \in Nat, Keep(q, base),
           \A k \in 0..(N - 1) : \A x : Keep(q, x) => Keep(q, op(q, x, k))
    PROVE  Keep(q, Looped(q, base, N))
<1> DEFINE f == CHOOSE g : IsLoop(g, q, base, N)
<1>0. IsLoop(f, q, base, N)
  BY LoopExists
<1> HIDE DEF f
<1> DEFINE Bad == {n \in Nat : n <= N /\ ~Keep(q, f[n])}
<1>1. ASSUME Bad # {} PROVE FALSE
  <2>0. Bad \subseteq Nat
    OBVIOUS
  <2> HIDE DEF Bad
  <2>1. PICK n \in Bad : \A m \in Bad : n <= m
    BY <1>1, <2>0, Least
  <2>2. n \in 0..N /\ ~Keep(q, f[n])
    BY <2>1 DEF Bad
  <2>3. n # 0
    BY <1>0, <2>2 DEF IsLoop
  <2>4. n - 1 \in 0..(N - 1) /\ n - 1 < n
    BY <2>2, <2>3
  <2>5. n - 1 \notin Bad
    BY <2>0, <2>1, <2>4
  <2>6. Keep(q, f[n - 1])
    BY <2>4, <2>5 DEF Bad
  <2>7. f[n] = op(q, f[n - 1], n - 1)
    BY <1>0, <2>2, <2>3 DEF IsLoop
  <2> QED
    BY <2>2, <2>4, <2>6, <2>7
<1>2. N \notin Bad
  BY <1>1
<1> QED
  BY <1>2 DEF Looped, f, Bad

\* What a loop keeps may grow with its steps.
At(q, k) == [of |-> q, step |-> k]

LEMMA LoopReaches ==
    ASSUME NEW q, NEW base, NEW N \in Nat, Keep(At(q, 0), base),
           \A k \in 0..(N - 1) : \A x : Keep(At(q, k), x) => Keep(At(q, k + 1), op(q, x, k))
    PROVE  Keep(At(q, N), Looped(q, base, N))
<1> DEFINE f == CHOOSE g : IsLoop(g, q, base, N)
<1>0. IsLoop(f, q, base, N)
  BY LoopExists
<1> HIDE DEF f
<1> DEFINE Bad == {n \in Nat : n <= N /\ ~Keep(At(q, n), f[n])}
<1>1. ASSUME Bad # {} PROVE FALSE
  <2>0. Bad \subseteq Nat
    OBVIOUS
  <2> HIDE DEF Bad
  <2>1. PICK n \in Bad : \A m \in Bad : n <= m
    BY <1>1, <2>0, Least
  <2>2. n \in 0..N /\ ~Keep(At(q, n), f[n])
    BY <2>1 DEF Bad
  <2>3. n # 0
    <3>1. f[0] = base
      BY <1>0 DEF IsLoop
    <3> QED
      BY <2>2, <3>1
  <2>4. n - 1 \in 0..(N - 1) /\ n - 1 < n /\ (n - 1) + 1 = n
    BY <2>2, <2>3
  <2>5. n - 1 \notin Bad
    BY <2>0, <2>1, <2>4
  <2>6. Keep(At(q, n - 1), f[n - 1])
    BY <2>4, <2>5 DEF Bad
  <2>7. f[n] = op(q, f[n - 1], n - 1)
    BY <1>0, <2>2, <2>3 DEF IsLoop
  <2>8. PICK m : m = n - 1
    OBVIOUS
  <2>9. Keep(At(q, m + 1), op(q, f[m], m))
    BY <2>4, <2>6, <2>8
  <2> QED
    BY <2>2, <2>4, <2>7, <2>8, <2>9
<1>2. N \notin Bad
  BY <1>1
<1> QED
  BY <1>2 DEF Looped, f, Bad
=============================================================================
