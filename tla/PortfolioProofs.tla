--------------------------- MODULE PortfolioProofs ---------------------------
(***************************************************************************)
(* Proofs about the portfolio: the shares of an allocation pass, the day's *)
(* rewards and the reconstruction of a pool's past, for any board, budget, *)
(* positions and blocks, and the suite of them and of the acting cycles.   *)
(***************************************************************************)
EXTENDS EventHistory, MCPortfolio, CycleActingProofs, FiniteSetTheorems, SequenceTheorems

-----------------------------------------------------------------------------
(* Whole numbers.                                                          *)

(* What a division rounded down is worth.                                  *)
LEMMA Division ==
    ASSUME NEW n \in Nat, NEW d \in Nat \ {0}
    PROVE  n \div d \in Nat /\ (n \div d) * d <= n /\ n < (n \div d) * d + d
OBVIOUS

(* The solver is told what it needs of a product by name.                  *)
LEMMA Product == ASSUME NEW a \in Nat, NEW b \in Nat PROVE a * b \in Nat
OBVIOUS

LEMMA Scaled == ASSUME NEW a \in Int, NEW b \in Int, NEW c \in Nat, a <= b PROVE a * c <= b * c
OBVIOUS

LEMMA Unscaled ==
    ASSUME NEW a \in Int, NEW b \in Int, NEW c \in Nat \ {0}, c * a <= c * b
    PROVE  a <= b
OBVIOUS

(* What a division rounded up is worth.                                    *)
LEMMA Rounded ==
    ASSUME NEW n \in Nat, NEW d \in Nat \ {0}
    PROVE  CeilDiv(n, d) \in Nat /\ n <= CeilDiv(n, d) * d /\ CeilDiv(n, d) * d < n + d
<1>1. n + d - 1 \in Nat
  OBVIOUS
<1>2. CeilDiv(n, d) = (n + d - 1) \div d
  BY DEF CeilDiv
<1> DEFINE q == (n + d - 1) \div d
<1>3. q \in Nat /\ q * d <= n + d - 1 /\ n + d - 1 < q * d + d
  BY <1>1, Division
<1>4. q * d \in Nat
  BY <1>3, Product
<1> DEFINE m == q * d
<1> HIDE DEF q, m
<1>5. m \in Nat /\ m <= n + d - 1 /\ n + d - 1 < m + d
  BY <1>3, <1>4 DEF m
<1>6. n <= m /\ m < n + d
  BY <1>5
<1> QED
  BY <1>2, <1>3, <1>6 DEF q, m

-----------------------------------------------------------------------------
(* Sums over finite sets.                                                  *)

Chosen(s) == CHOOSE x \in s : TRUE
Totals(g, f, S) ==
    /\ g \in [SUBSET S -> Int]
    /\ \A s \in SUBSET S : g[s] = IF s = {} THEN 0 ELSE f[Chosen(s)] + g[s \ {Chosen(s)}]
Summing(f, S) ==
    CHOOSE g : g = [s \in SUBSET S |-> IF s = {} THEN 0 ELSE f[Chosen(s)] + g[s \ {Chosen(s)}]]

LEMMA Smallest ==
    ASSUME NEW S, IsFiniteSet(S), NEW C, C \subseteq SUBSET S, C # {}
    PROVE  \E s \in C : \A t \in C : t \subseteq s => t = s
<1>1. C \subseteq FiniteSubsetsOf(S)
  BY FS_Subset DEF FiniteSubsetsOf
<1>2. IsWellFoundedOn(StrictSubsetOrdering(S), FiniteSubsetsOf(S))
  BY FS_StrictSubsetOrderingWellFounded
<1>3. PICK s \in C : \A t \in C : ~(<<t, s>> \in StrictSubsetOrdering(S))
  BY <1>1, <1>2, WFMin
<1>4. ASSUME NEW t \in C, t \subseteq s PROVE t = s
  BY <1>1, <1>3, <1>4 DEF StrictSubsetOrdering, FiniteSubsetsOf
<1> QED
  BY <1>4

LEMMA TotalsAgree ==
    ASSUME NEW f, NEW A, NEW B, NEW g, NEW h, IsFiniteSet(A), Totals(g, f, A), Totals(h, f, B)
    PROVE  \A s \in SUBSET (A \cap B) : g[s] = h[s]
<1> DEFINE C == {s \in SUBSET (A \cap B) : g[s] # h[s]}
<1> SUFFICES ASSUME C # {} PROVE FALSE
  OBVIOUS
<1>1. C \subseteq SUBSET A
  OBVIOUS
<1>2. PICK s \in C : \A t \in C : t \subseteq s => t = s
  <2> HIDE DEF C
  <2> QED
    BY <1>1, Smallest
<1>3. s # {}
  BY DEF Totals
<1>4. Chosen(s) \in s
  BY <1>3 DEF Chosen
<1> DEFINE r == s \ {Chosen(s)}
<1>5. r \notin C
  BY <1>2, <1>4
<1>6. g[r] = h[r]
  BY <1>5
<1> QED
  BY <1>3, <1>6 DEF Totals

LEMMA TotalsExist ==
    ASSUME NEW S, IsFiniteSet(S), NEW f, \A x \in S : f[x] \in Int
    PROVE  \E g : Totals(g, f, S)
<1> DEFINE C == {s \in SUBSET S : ~ \E g : Totals(g, f, s)}
<1> SUFFICES ASSUME C # {} PROVE FALSE
  OBVIOUS
<1>1. PICK s \in C : \A t \in C : t \subseteq s => t = s
  <2>1. C \subseteq SUBSET S
    OBVIOUS
  <2> HIDE DEF C
  <2> QED
    BY <2>1, Smallest
<1>2. ASSUME NEW t \in SUBSET s, t # s PROVE \E g : Totals(g, f, t)
  BY <1>1, <1>2
<1> DEFINE partly(t) == CHOOSE g : Totals(g, f, t)
           rest == s \ {Chosen(s)}
           whole == IF s = {} THEN 0 ELSE f[Chosen(s)] + partly(rest)[rest]
           g == [t \in SUBSET s |-> IF t = s THEN whole ELSE partly(t)[t]]
<1>3. ASSUME NEW t \in SUBSET s, t # s PROVE Totals(partly(t), f, t)
  BY <1>2, <1>3
<1>4. ASSUME NEW t \in SUBSET s, t # {} PROVE Chosen(t) \in t /\ f[Chosen(t)] \in Int
  BY <1>4 DEF Chosen
<1> HIDE DEF partly
<1>5. ASSUME NEW t \in SUBSET s, t # s PROVE partly(t)[t] \in Int
  BY <1>3, <1>5 DEF Totals
<1>6. whole \in Int
  BY <1>4, <1>5
<1>7. g \in [SUBSET s -> Int]
  <2> HIDE DEF whole
  <2> QED
    BY <1>5, <1>6
<1>8. ASSUME NEW t \in SUBSET s
      PROVE  g[t] = IF t = {} THEN 0 ELSE f[Chosen(t)] + g[t \ {Chosen(t)}]
  <2> DEFINE r == t \ {Chosen(t)}
  <2>1. CASE t = s
    BY <1>4, <2>1
  <2>2. CASE t # s /\ t = {}
    BY <1>3, <2>2 DEF Totals
  <2>3. CASE t # s /\ t # {}
    <3>1. r \in SUBSET t /\ r \in SUBSET s /\ r # s
      BY <1>4, <2>3
    <3>2. partly(t)[t] = f[Chosen(t)] + partly(t)[r]
      BY <1>3, <2>3 DEF Totals
    <3>3. IsFiniteSet(t) /\ IsFiniteSet(r)
      BY <3>1, FS_Subset
    <3>4. r \in SUBSET (r \cap t)
      BY <3>1
    <3>5. partly(r)[r] = partly(t)[r]
      BY <1>3, <2>3, <3>1, <3>3, <3>4, TotalsAgree
    <3> QED
      BY <2>3, <3>1, <3>2, <3>5
  <2> QED
    BY <2>1, <2>2, <2>3
<1>9. Totals(g, f, s)
  <2> HIDE DEF g
  <2> QED
    BY <1>7, <1>8 DEF Totals
<1> QED
  BY <1>9

(* The library's sum is the one that totals.                               *)
LEMMA SumTotals ==
    ASSUME NEW S, IsFiniteSet(S), NEW f, \A x \in S : f[x] \in Int
    PROVE  \E g : Totals(g, f, S) /\ \A s \in SUBSET S : SumFunctionOnSet(f, s) = g[s]
<1>1. PICK g : Totals(g, f, S)
  BY TotalsExist
<1>2. ASSUME NEW s \in SUBSET S PROVE SumFunctionOnSet(f, s) = g[s]
  <2>1. IsFiniteSet(s) /\ \A x \in s : f[x] \in Int
    BY FS_Subset
  <2>2. PICK h : Totals(h, f, s)
    BY <2>1, TotalsExist
  <2>3. h = [t \in SUBSET s |-> IF t = {} THEN 0 ELSE f[Chosen(t)] + h[t \ {Chosen(t)}]]
    BY <2>2 DEF Totals
  <2> DEFINE c == Summing(f, s)
  <2>4. c = [t \in SUBSET s |-> IF t = {} THEN 0 ELSE f[Chosen(t)] + c[t \ {Chosen(t)}]]
    BY <2>3 DEF Summing
  <2> HIDE DEF c
  <2>5. \A t \in SUBSET s : c[t] \in Int
    <3> DEFINE C == {t \in SUBSET s : c[t] \notin Int}
    <3> SUFFICES ASSUME C # {} PROVE FALSE
      OBVIOUS
    <3>1. PICK t \in C : \A u \in C : u \subseteq t => u = t
      <4>1. C \subseteq SUBSET s
        OBVIOUS
      <4> HIDE DEF C
      <4> QED
        BY <2>1, <4>1, Smallest
    <3>2. t # {}
      BY <2>4
    <3>3. Chosen(t) \in t
      BY <3>2 DEF Chosen
    <3>4. c[t \ {Chosen(t)}] \in Int
      BY <3>1, <3>3
    <3>5. c[t] = f[Chosen(t)] + c[t \ {Chosen(t)}]
      BY <2>4, <3>2
    <3> QED
      BY <2>1, <3>3, <3>4, <3>5
  <2>6. Totals(c, f, s)
    BY <2>4, <2>5 DEF Totals
  <2>7. s \in SUBSET (s \cap S)
    OBVIOUS
  <2>8. c[s] = g[s]
    BY <1>1, <2>1, <2>6, <2>7, TotalsAgree
  <2> QED
    BY <2>8 DEF c, SumFunctionOnSet, FoldFunctionOnSet, MapThenFoldSet, Summing, Chosen
<1> QED
  BY <1>1, <1>2

LEMMA SumOfNone == ASSUME NEW f PROVE SumFunctionOnSet(f, {}) = 0
<1>1. IsFiniteSet({}) /\ \A x \in {} : f[x] \in Int
  BY FS_EmptySet
<1> DEFINE none == {}
<1>2. IsFiniteSet(none) /\ (\A x \in none : f[x] \in Int) /\ none \in SUBSET none /\ none = {}
  BY <1>1
<1> HIDE DEF none
<1>3. PICK g : Totals(g, f, none) /\ \A s \in SUBSET none : SumFunctionOnSet(f, s) = g[s]
  BY <1>2, SumTotals
<1>4. SumFunctionOnSet(f, none) = 0
  BY <1>2, <1>3 DEF Totals
<1> QED
  BY <1>2, <1>4

LEMMA SumIsInt ==
    ASSUME NEW S, IsFiniteSet(S), NEW f, \A x \in S : f[x] \in Int
    PROVE  SumFunctionOnSet(f, S) \in Int
<1>1. PICK g : Totals(g, f, S) /\ \A s \in SUBSET S : SumFunctionOnSet(f, s) = g[s]
  BY SumTotals
<1>2. S \in SUBSET S
  OBVIOUS
<1> QED
  BY <1>1, <1>2 DEF Totals

(* The order in which a sum is taken does not matter.                      *)
LEMMA SumTakesOut ==
    ASSUME NEW S, IsFiniteSet(S), NEW f, \A x \in S : f[x] \in Int, NEW p \in S
    PROVE  SumFunctionOnSet(f, S) = f[p] + SumFunctionOnSet(f, S \ {p})
<1>1. PICK g : Totals(g, f, S) /\ \A s \in SUBSET S : SumFunctionOnSet(f, s) = g[s]
  BY SumTotals
<1> DEFINE C == {s \in SUBSET S : \E x \in s : g[s] # f[x] + g[s \ {x}]}
<1>2. C = {}
  <2> SUFFICES ASSUME C # {} PROVE FALSE
    OBVIOUS
  <2>1. PICK s \in C : \A t \in C : t \subseteq s => t = s
    <3>1. C \subseteq SUBSET S
      OBVIOUS
    <3> HIDE DEF C
    <3> QED
      BY <3>1, Smallest
  <2>2. PICK x \in s : g[s] # f[x] + g[s \ {x}]
    OBVIOUS
  <2> DEFINE y == Chosen(s)
  <2>3. y \in s
    BY <2>2 DEF Chosen
  <2>4. g[s] = f[y] + g[s \ {y}]
    BY <1>1, <2>2 DEF Totals
  <2> HIDE DEF y
  <2>5. x # y
    BY <2>2, <2>4
  <2>6. s \ {y} \notin C /\ s \ {x} \notin C
    BY <2>1, <2>2, <2>3
  <2>7. g[s \ {y}] = f[x] + g[(s \ {y}) \ {x}]
    BY <2>2, <2>5, <2>6
  <2>8. g[s \ {x}] = f[y] + g[(s \ {x}) \ {y}]
    BY <2>3, <2>5, <2>6
  <2>9. (s \ {y}) \ {x} = (s \ {x}) \ {y}
    OBVIOUS
  <2>10. g[(s \ {x}) \ {y}] \in Int /\ f[x] \in Int /\ f[y] \in Int
    BY <1>1, <2>2, <2>3 DEF Totals
  <2> DEFINE rest == g[(s \ {x}) \ {y}]
  <2>11. g[s] = f[y] + (f[x] + rest) /\ g[s \ {x}] = f[y] + rest
    BY <2>4, <2>7, <2>8, <2>9
  <2> HIDE DEF rest
  <2>12. rest \in Int
    BY <2>10 DEF rest
  <2>13. f[y] + (f[x] + rest) = f[x] + (f[y] + rest)
    BY <2>10, <2>12
  <2> QED
    BY <2>2, <2>11, <2>13
<1>3. g[S] = f[p] + g[S \ {p}]
  BY <1>2
<1> QED
  BY <1>1, <1>3

LEMMA SumsAgree ==
    ASSUME NEW S, IsFiniteSet(S), NEW f, NEW h, \A x \in S : f[x] \in Int /\ f[x] = h[x]
    PROVE  SumFunctionOnSet(f, S) = SumFunctionOnSet(h, S)
<1>1. PICK g : Totals(g, f, S) /\ \A s \in SUBSET S : SumFunctionOnSet(f, s) = g[s]
  BY SumTotals
<1>2. Totals(g, h, S)
  BY <1>1 DEF Totals, Chosen
<1>3. \A x \in S : h[x] \in Int
  OBVIOUS
<1>4. PICK k : Totals(k, h, S) /\ \A s \in SUBSET S : SumFunctionOnSet(h, s) = k[s]
  BY <1>3, SumTotals
<1>5. S \in SUBSET (S \cap S)
  OBVIOUS
<1>6. g[S] = k[S]
  BY <1>2, <1>4, <1>5, TotalsAgree
<1> QED
  BY <1>1, <1>4, <1>6

(* A sum of naturals is one.                                               *)
LEMMA SumIsNat ==
    ASSUME NEW S, IsFiniteSet(S), NEW f, \A x \in S : f[x] \in Nat
    PROVE  SumFunctionOnSet(f, S) \in Nat
<1>1. PICK g : Totals(g, f, S) /\ \A s \in SUBSET S : SumFunctionOnSet(f, s) = g[s]
  BY SumTotals
<1> DEFINE C == {s \in SUBSET S : g[s] \notin Nat}
<1>2. C = {}
  <2> SUFFICES ASSUME C # {} PROVE FALSE
    OBVIOUS
  <2>1. PICK s \in C : \A t \in C : t \subseteq s => t = s
    <3>1. C \subseteq SUBSET S
      OBVIOUS
    <3> HIDE DEF C
    <3> QED
      BY <3>1, Smallest
  <2>2. s # {}
    <3>1. g[{}] = 0
      BY <1>1 DEF Totals
    <3> QED
      BY <3>1
  <2>3. Chosen(s) \in s
    BY <2>2 DEF Chosen
  <2>4. g[s \ {Chosen(s)}] \in Nat
    BY <2>1, <2>3
  <2>5. f[Chosen(s)] \in Nat
    BY <2>3
  <2> QED
    BY <1>1, <2>2, <2>4, <2>5 DEF Totals
<1> QED
  BY <1>1, <1>2

(* A sum in which one summand changes.                                     *)
LEMMA OneChanges ==
    ASSUME NEW S, IsFiniteSet(S), NEW p \in S, NEW f, NEW g,
           \A q \in S : f[q] \in Int /\ g[q] \in Int,
           \A q \in S \ {p} : f[q] = g[q]
    PROVE  SumFunctionOnSet(g, S) = SumFunctionOnSet(f, S) - f[p] + g[p]
<1> DEFINE R == S \ {p}
<1>1. IsFiniteSet(R)
  BY FS_Subset
<1>2. \A q \in R : f[q] \in Int /\ f[q] = g[q]
  OBVIOUS
<1>3. SumFunctionOnSet(f, R) = SumFunctionOnSet(g, R) /\ SumFunctionOnSet(f, R) \in Int
  <2> HIDE DEF R
  <2> QED
    BY <1>1, <1>2, SumsAgree, SumIsInt
<1>4. SumFunctionOnSet(f, S) = f[p] + SumFunctionOnSet(f, R)
  BY SumTakesOut
<1>5. SumFunctionOnSet(g, S) = g[p] + SumFunctionOnSet(g, R)
  BY SumTakesOut
<1>6. f[p] \in Int /\ g[p] \in Int
  OBVIOUS
<1> HIDE DEF R
<1> QED
  BY <1>3, <1>4, <1>5, <1>6

(* Two sums that are in proportion to a third, summand by summand.         *)
LEMMA ProRata ==
    ASSUME NEW S, IsFiniteSet(S), NEW f, NEW g, NEW w, NEW d \in Nat, NEW k \in Nat,
           \A q \in S : f[q] \in Nat /\ g[q] \in Nat /\ w[q] \in Nat,
           \A q \in S : (f[q] + g[q]) * d <= k * w[q]
    PROVE  (SumFunctionOnSet(f, S) + SumFunctionOnSet(g, S)) * d <= k * SumFunctionOnSet(w, S)
<1> DEFINE F(X) == SumFunctionOnSet(f, X)
           G(X) == SumFunctionOnSet(g, X)
           W(X) == SumFunctionOnSet(w, X)
           C == {X \in SUBSET S : ~((F(X) + G(X)) * d <= k * W(X))}
<1> SUFFICES ASSUME C # {} PROVE FALSE
  OBVIOUS
<1>1. PICK X \in C : \A T \in C : T \subseteq X => T = X
  <2>1. C \subseteq SUBSET S
    OBVIOUS
  <2> HIDE DEF C
  <2> QED
    BY <2>1, Smallest
<1>2. X # {}
  <2> SUFFICES ASSUME X = {} PROVE FALSE
    OBVIOUS
  <2>1. F({}) = 0 /\ G({}) = 0 /\ W({}) = 0
    BY SumOfNone
  <2>2. ~((F({}) + G({})) * d <= k * W({}))
    BY <1>1
  <2>3. (0 + 0) * d <= k * 0
    OBVIOUS
  <2> QED
    BY <2>1, <2>2, <2>3
<1>3. PICK p \in X : TRUE
  BY <1>2
<1> DEFINE Y == X \ {p}
<1>4. X \subseteq S /\ IsFiniteSet(X) /\ IsFiniteSet(Y)
  BY <1>1, FS_Subset
<1>5. (F(Y) + G(Y)) * d <= k * W(Y)
  BY <1>1, <1>3
<1>6. F(X) = f[p] + F(Y) /\ G(X) = g[p] + G(Y) /\ W(X) = w[p] + W(Y)
  BY <1>3, <1>4, SumTakesOut
<1>7. F(Y) \in Nat /\ G(Y) \in Nat /\ W(Y) \in Nat
  BY <1>4, SumIsNat
<1>8. (f[p] + g[p]) * d <= k * w[p] /\ f[p] \in Nat /\ g[p] \in Nat /\ w[p] \in Nat
  BY <1>3, <1>4
<1>9. ~((F(X) + G(X)) * d <= k * W(X))
  BY <1>1
<1> DEFINE fp == f[p]
           gp == g[p]
           wp == w[p]
           fy == F(Y)
           gy == G(Y)
           wy == W(Y)
<1> HIDE DEF C, Y, F, G, W
<1>10. ((fp + fy) + (gp + gy)) * d <= k * (wp + wy)
  <2> HIDE DEF fp, gp, wp, fy, gy, wy
  <2> DEFINE a == (fp + gp) * d
             b == (fy + gy) * d
             u == k * wp
             v == k * wy
  <2>1. /\ fp \in Nat /\ gp \in Nat /\ wp \in Nat /\ fy \in Nat /\ gy \in Nat /\ wy \in Nat
    BY <1>7, <1>8 DEF fp, gp, wp, fy, gy, wy
  <2>2. ((fp + fy) + (gp + gy)) * d = a + b /\ k * (wp + wy) = u + v
    BY <2>1
  <2>3. a \in Nat /\ b \in Nat /\ u \in Nat /\ v \in Nat
    BY <2>1, Product
  <2>4. a <= u /\ b <= v
    BY <1>5, <1>8 DEF fp, gp, wp, fy, gy, wy
  <2> HIDE DEF a, b, u, v
  <2>5. a + b <= u + v
    BY <2>3, <2>4
  <2> QED
    BY <2>2, <2>5
<1> QED
  BY <1>6, <1>9, <1>10 DEF fp, gp, wp, fy, gy, wy

(* Nothing added is nothing.                                               *)
LEMMA SumOfZeros ==
    ASSUME NEW S, IsFiniteSet(S), NEW f, \A q \in S : f[q] = 0
    PROVE  SumFunctionOnSet(f, S) = 0
<1>1. \A q \in S : f[q] \in Nat
  OBVIOUS
<1> DEFINE z == [q \in S |-> 0]
<1>2. (SumFunctionOnSet(f, S) + SumFunctionOnSet(f, S)) * 1 <= 0 * SumFunctionOnSet(f, S)
  <2>1. \A q \in S : (f[q] + f[q]) * 1 <= 0 * f[q]
    OBVIOUS
  <2> QED
    BY <1>1, <2>1, ProRata
<1>3. SumFunctionOnSet(f, S) \in Nat
  BY <1>1, SumIsNat
<1> QED
  BY <1>2, <1>3

(* Two sums within a third, summand by summand.                            *)
LEMMA Dominates ==
    ASSUME NEW S, IsFiniteSet(S), NEW f, NEW g, NEW w,
           \A q \in S : f[q] \in Nat /\ g[q] \in Nat /\ w[q] \in Nat,
           \A q \in S : f[q] + g[q] <= w[q]
    PROVE  SumFunctionOnSet(f, S) + SumFunctionOnSet(g, S) <= SumFunctionOnSet(w, S)
<1>1. \A q \in S : (f[q] + g[q]) * 1 <= 1 * w[q]
  OBVIOUS
<1>2. (SumFunctionOnSet(f, S) + SumFunctionOnSet(g, S)) * 1 <= 1 * SumFunctionOnSet(w, S)
  BY <1>1, ProRata
<1>3. SumFunctionOnSet(f, S) \in Nat /\ SumFunctionOnSet(g, S) \in Nat /\ SumFunctionOnSet(w, S) \in Nat
  BY SumIsNat
<1> QED
  BY <1>2, <1>3

(* A sum of larger naturals is larger.                                     *)
LEMMA SumGrows ==
    ASSUME NEW S, IsFiniteSet(S), NEW f, NEW w,
           \A q \in S : f[q] \in Nat /\ w[q] \in Nat /\ f[q] <= w[q]
    PROVE  SumFunctionOnSet(f, S) <= SumFunctionOnSet(w, S)
<1> DEFINE z == [q \in S |-> 0]
<1>1. \A q \in S : z[q] = 0 /\ z[q] \in Nat /\ f[q] + z[q] <= w[q]
  OBVIOUS
<1> HIDE DEF z
<1>2. SumFunctionOnSet(z, S) = 0
  BY <1>1, SumOfZeros
<1>3. SumFunctionOnSet(f, S) + SumFunctionOnSet(z, S) <= SumFunctionOnSet(w, S)
  BY <1>1, Dominates
<1>4. SumFunctionOnSet(f, S) \in Nat
  BY SumIsNat
<1> QED
  BY <1>2, <1>3, <1>4

(* A sum of naturals over fewer of them.                                   *)
LEMMA PartialSum ==
    ASSUME NEW S, IsFiniteSet(S), NEW T, T \subseteq S, NEW f, \A q \in S : f[q] \in Nat
    PROVE  SumFunctionOnSet(f, T) <= SumFunctionOnSet(f, S)
<1> DEFINE C == {X \in SUBSET S : T \subseteq X
                       /\ ~(SumFunctionOnSet(f, T) <= SumFunctionOnSet(f, X))}
<1> SUFFICES ASSUME C # {} PROVE FALSE
  OBVIOUS
<1>1. PICK X \in C : \A Y \in C : Y \subseteq X => Y = X
  <2>1. C \subseteq SUBSET S
    OBVIOUS
  <2> HIDE DEF C
  <2> QED
    BY <2>1, Smallest
<1>2. /\ X \subseteq S /\ IsFiniteSet(X) /\ IsFiniteSet(T) /\ T \subseteq X
      /\ ~(SumFunctionOnSet(f, T) <= SumFunctionOnSet(f, X))
  BY <1>1, FS_Subset
<1>3. SumFunctionOnSet(f, T) \in Nat
  BY <1>2, SumIsNat
<1>4. PICK p \in X : p \notin T
  BY <1>2, <1>3
<1>5. SumFunctionOnSet(f, T) <= SumFunctionOnSet(f, X \ {p})
  BY <1>1, <1>2, <1>4
<1>6. IsFiniteSet(X \ {p})
  BY <1>2, FS_Subset
<1>7. SumFunctionOnSet(f, X) = f[p] + SumFunctionOnSet(f, X \ {p}) /\ f[p] \in Nat
  BY <1>2, <1>4, SumTakesOut
<1>8. SumFunctionOnSet(f, X \ {p}) \in Nat
  BY <1>2, <1>6, SumIsNat
<1> QED
  BY <1>2, <1>3, <1>5, <1>7, <1>8

-----------------------------------------------------------------------------
(* Rewards.                                                                *)

(* What the gauges owe changes by what one of them accrues or pays out.    *)
LEMMA OwedIsNat ==
    ASSUME TreasuryTypeOK, NEW S \in SUBSET Staked
    PROVE  Owed(S) \in Nat
<1>1. IsFiniteSet(S)
  BY TreasuryAssumption, FS_Subset
<1> QED
  BY <1>1, SumIsNat DEF TreasuryTypeOK, Owed

LEMMA OwedChanges ==
    ASSUME TreasuryTypeOK, NEW p \in Staked, NEW x \in Nat,
           earned' = [earned EXCEPT ![p] = x]
    PROVE  Owed(Staked)' = Owed(Staked) - earned[p] + x
<1> DEFINE f == earned
           h == earned'
<1>1. IsFiniteSet(Staked) /\ p \in Staked
  BY TreasuryAssumption
<1>2. \A q \in Staked : f[q] \in Int /\ h[q] \in Int
  BY DEF TreasuryTypeOK
<1>3. \A q \in Staked \ {p} : f[q] = h[q]
  BY DEF TreasuryTypeOK
<1>4. earned'[p] = x
  BY DEF TreasuryTypeOK
<1>5. SumFunctionOnSet(earned', Staked) = SumFunctionOnSet(earned, Staked) - earned[p] + earned'[p]
  <2> HIDE DEF f, h
  <2>1. SumFunctionOnSet(h, Staked) = SumFunctionOnSet(f, Staked) - f[p] + h[p]
    BY <1>1, <1>2, <1>3, OneChanges
  <2> QED
    BY <2>1 DEF f, h
<1>6. Owed(Staked)' = SumFunctionOnSet(earned', Staked)
      /\ Owed(Staked) = SumFunctionOnSet(earned, Staked)
  BY DEF Owed
<1> QED
  BY <1>4, <1>5, <1>6

(* While no unseen loss spoils it, what is owed, held and sold since the   *)
(* baseline is what accrued since; the baseline of a day that has none yet *)
(* is what this cycle's first look saw.                                    *)
Since == IF NewDay THEN view ELSE baseline.units
SoldBefore == IF NewDay THEN 0 ELSE baseline.converted
Balanced ==
    exact /\ (turn # "rest" \/ ~NewDay) =>
        purse + Owed(Staked) + sold + SoldBefore = Since + yielded

TreasuryInv ==
    /\ TreasuryTypeOK
    /\ baseline.day <= date
    /\ turn # "save" => sold = 0
    /\ turn # "rest" => report = NoReport
    /\ Balanced

LEMMA TreasuryInitInv == TreasuryInit => TreasuryInv
<1> SUFFICES ASSUME TreasuryInit PROVE TreasuryInv
  OBVIOUS
<1>1. TreasuryTypeOK
  BY TreasuryAssumption DEF TreasuryInit, TreasuryTypeOK, NoReport
<1> QED
  BY <1>1, TreasuryAssumption DEF TreasuryInit, TreasuryInv, Balanced, NewDay

LEMMA TreasuryStep == TreasuryInv /\ [TreasuryNext]_purseVars => TreasuryInv'
<1> SUFFICES ASSUME TreasuryInv, [TreasuryNext]_purseVars PROVE TreasuryInv'
  OBVIOUS
<1> USE DEF NewDay, Since, SoldBefore
<1>0. TreasuryTypeOK /\ Owed(Staked) \in Nat
  BY OwedIsNat DEF TreasuryInv
<1>1. ASSUME NEW p \in Staked, Accrue(p) PROVE TreasuryInv'
  <2>1. earned[p] \in Nat /\ earned[p] + 1 \in Nat
    BY <1>0 DEF TreasuryTypeOK
  <2>2. earned' = [earned EXCEPT ![p] = earned[p] + 1] /\ yielded' = yielded + 1
        /\ UNCHANGED <<penal, purse, date, baseline, turn, view, claims, sold, report, exact>>
    BY <1>1 DEF Accrue
  <2>3. Owed(Staked)' = Owed(Staked) + 1
    <3>1. Owed(Staked)' = Owed(Staked) - earned[p] + (earned[p] + 1)
      BY <1>0, <2>1, <2>2, OwedChanges
    <3> QED
      BY <1>0, <2>1, <3>1
  <2>4. TreasuryTypeOK'
    BY <1>0, <2>1, <2>2 DEF TreasuryTypeOK
  <2>5. Balanced'
    BY <1>0, <2>2, <2>3 DEF TreasuryInv, TreasuryTypeOK, Balanced
  <2> QED
    BY <2>2, <2>4, <2>5 DEF TreasuryInv
<1>2. ASSUME NEW p \in Staked, PenaltyTurns(p) PROVE TreasuryInv'
  <2>1. UNCHANGED <<earned, purse, date, baseline, turn, view, claims, sold, report, yielded, exact>>
        /\ penal' \subseteq Staked
    BY <1>0, <1>2 DEF PenaltyTurns, TreasuryTypeOK
  <2> QED
    BY <2>1 DEF TreasuryInv, TreasuryTypeOK, Balanced, Owed
<1>3. CASE Midnight
  <2>1. date' = date + 1 /\ turn = "rest" /\ date < MaxDays
        /\ UNCHANGED <<earned, penal, purse, baseline, turn, view, claims, sold, report, yielded, exact>>
    BY <1>3 DEF Midnight
  <2>2. TreasuryTypeOK' /\ baseline'.day < date'
    BY <1>0, <2>1, TreasuryAssumption DEF TreasuryInv, TreasuryTypeOK
  <2> QED
    BY <2>1, <2>2 DEF TreasuryInv, TreasuryTypeOK, Balanced
<1>4. CASE Observe
  <2>1. /\ turn = "rest" /\ report' = NoReport
        /\ yielded' = IF NewDay THEN 0 ELSE yielded
        /\ UNCHANGED <<earned, penal, purse, date, baseline, claims, sold>>
    BY <1>4 DEF Observe
  <2>2. Owed(Staked)' = Owed(Staked)
    BY <2>1 DEF Owed
  <2>3. \/ view' = purse + Owed(Staked) /\ turn' = "convert" /\ exact' = (exact \/ NewDay)
        \/ \E S \in SUBSET Staked :
             /\ view' = purse + Owed(S) /\ turn' = "save"
             /\ exact' = IF NewDay THEN Owed(S) = Owed(Staked) ELSE exact
    BY <1>4 DEF Observe
  <2>4. CASE view' = purse + Owed(Staked) /\ turn' = "convert" /\ exact' = (exact \/ NewDay)
    <3>1. TreasuryTypeOK'
      BY <1>0, <2>1, <2>4 DEF TreasuryTypeOK, NoReport
    <3>2. Balanced'
      BY <1>0, <2>1, <2>2, <2>4 DEF TreasuryInv, TreasuryTypeOK, Balanced
    <3> QED
      BY <2>1, <2>4, <3>1, <3>2 DEF TreasuryInv
  <2>5. ASSUME NEW S \in SUBSET Staked, view' = purse + Owed(S), turn' = "save",
               exact' = IF NewDay THEN Owed(S) = Owed(Staked) ELSE exact
        PROVE  TreasuryInv'
    <3>0. Owed(S) \in Nat
      BY <1>0, OwedIsNat
    <3>3. exact' \in BOOLEAN
      <4>1. CASE NewDay
        <5>1. exact' = (Owed(S) = Owed(Staked))
          BY <2>5, <4>1 DEF NewDay
        <5> QED
          BY <5>1
      <4>2. CASE ~NewDay
        BY <1>0, <2>5, <4>2 DEF TreasuryTypeOK
      <4> QED
        BY <4>1, <4>2
    <3>1. TreasuryTypeOK'
      <4>1. /\ earned' = earned /\ penal' = penal /\ purse' = purse /\ date' = date
            /\ baseline' = baseline /\ turn' = "save" /\ view' \in Nat /\ claims' = claims
            /\ sold' = sold /\ report' = NoReport /\ yielded' \in Nat
        BY <1>0, <2>1, <2>5, <3>0 DEF TreasuryTypeOK
      <4> QED
        BY <1>0, <3>3, <4>1 DEF TreasuryTypeOK, NoReport
    <3>2. Balanced'
      <4>1. CASE NewDay
        <5>1. exact' => Owed(S) = Owed(Staked)
          BY <2>5, <4>1
        <5>2. NewDay' /\ yielded' = 0 /\ sold' = 0 /\ purse' = purse /\ view' = purse + Owed(S)
          BY <2>1, <2>5, <4>1 DEF TreasuryInv
        <5> QED
          BY <1>0, <2>2, <3>0, <5>1, <5>2 DEF TreasuryTypeOK, Balanced
      <4>2. CASE ~NewDay
        <5>1. exact' = exact
          BY <2>5, <4>2
        <5> QED
          BY <1>0, <2>1, <2>2, <4>2, <5>1 DEF TreasuryInv, TreasuryTypeOK, Balanced
      <4> QED
        BY <4>1, <4>2
    <3> QED
      BY <2>1, <2>5, <3>1, <3>2 DEF TreasuryInv
  <2> QED
    BY <2>3, <2>4, <2>5
<1>5. ASSUME NEW p \in Staked, earned' = [earned EXCEPT ![p] = 0],
             purse' = purse + earned[p], claims' \subseteq Staked,
             turn \in {"convert", "collect"},
             turn' \in {turn, "save"},
             UNCHANGED <<penal, date, baseline, view, sold, report, yielded, exact>>
      PROVE  TreasuryInv'
  <2>1. Owed(Staked)' = Owed(Staked) - earned[p] /\ earned[p] \in Nat
    <3>1. earned[p] \in Nat
      BY <1>0 DEF TreasuryTypeOK
    <3>2. Owed(Staked)' = Owed(Staked) - earned[p] + 0
      BY <1>0, <1>5, OwedChanges
    <3> QED
      BY <1>0, <3>1, <3>2
  <2>2. TreasuryTypeOK'
    BY <1>0, <1>5, <2>1 DEF TreasuryTypeOK
  <2>3. Balanced'
    BY <1>0, <1>5, <2>1 DEF TreasuryInv, TreasuryTypeOK, Balanced
  <2> QED
    BY <1>5, <2>2, <2>3 DEF TreasuryInv
<1>6. ASSUME NEW p \in Staked, UnstakePays(p) PROVE TreasuryInv'
  <2>1. CASE p \in penal
    <3>1. earned' = [earned EXCEPT ![p] = 0] /\ exact' = FALSE /\ turn = "convert"
          /\ UNCHANGED <<purse, penal, date, baseline, turn, view, claims, sold, report, yielded>>
      BY <1>6, <2>1 DEF UnstakePays
    <3>2. TreasuryTypeOK'
      BY <1>0, <3>1 DEF TreasuryTypeOK
    <3> QED
      BY <3>1, <3>2 DEF TreasuryInv, Balanced
  <2>2. CASE p \notin penal
    BY <1>0, <1>5, <1>6, <2>2 DEF UnstakePays, TreasuryTypeOK
  <2> QED
    BY <2>1, <2>2
<1>7. CASE WeighConversion
  <2>1. turn = "convert" /\ turn' \in {"save", "collect"} /\ claims' \subseteq Staked
        /\ UNCHANGED <<earned, penal, purse, date, baseline, view, sold, report, yielded, exact>>
    BY <1>0, <1>7 DEF WeighConversion, TreasuryTypeOK
  <2> QED
    BY <2>1 DEF TreasuryInv, TreasuryTypeOK, Balanced, Owed
<1>8. ASSUME NEW p \in Staked, Collect(p) PROVE TreasuryInv'
  <2>1. turn = "collect" /\ turn' \in {turn, "save"} /\ claims' \subseteq Staked
        /\ UNCHANGED <<penal, date, baseline, view, sold, report, yielded, exact>>
    BY <1>0, <1>8 DEF Collect, TreasuryTypeOK
  <2>2. CASE Collected(p)
    BY <1>5, <2>1, <2>2 DEF Collected
  <2>3. CASE UNCHANGED <<earned, purse>>
    BY <2>1, <2>3 DEF TreasuryInv, TreasuryTypeOK, Balanced, Owed
  <2> QED
    BY <1>8, <2>2, <2>3 DEF Collect
<1>9. CASE SellRewards
  <2>1. turn = "collect" /\ turn' = "save" /\ sold = 0
        /\ UNCHANGED <<earned, penal, date, baseline, view, claims, report, yielded>>
    BY <1>9 DEF SellRewards, TreasuryInv
  <2>2. Owed(Staked)' = Owed(Staked)
    BY <2>1 DEF Owed
  <2>3. \/ UNCHANGED <<purse, sold, exact>>
        \/ purse' = 0 /\ sold' = purse /\ exact' = exact
        \/ purse' = 0 /\ exact' = FALSE /\ sold' = sold
    BY <1>9 DEF SellRewards
  <2>4. TreasuryTypeOK'
    BY <1>0, <2>1, <2>3 DEF TreasuryTypeOK
  <2>5. Balanced'
    <3>1. exact => purse + Owed(Staked) + sold + SoldBefore = Since + yielded
      BY <2>1 DEF TreasuryInv, Balanced
    <3>2. SoldBefore' = SoldBefore /\ Since' = Since /\ yielded' = yielded
      BY <2>1
    <3>3. SoldBefore \in Nat /\ purse \in Nat
      BY <1>0 DEF TreasuryTypeOK
    <3> HIDE DEF Since, SoldBefore, NewDay
    <3>4. exact' => purse' + Owed(Staked) + sold' + SoldBefore = Since + yielded
      <4>1. SUFFICES ASSUME exact'
                     PROVE  purse' + Owed(Staked) + sold' + SoldBefore = Since + yielded
        OBVIOUS
      <4>2. CASE UNCHANGED <<purse, sold, exact>>
        BY <3>1, <4>1, <4>2
      <4>3. CASE purse' = 0 /\ sold' = purse /\ exact' = exact
        <5>1. purse + Owed(Staked) + 0 + SoldBefore = Since + yielded
          BY <2>1, <3>1, <4>1, <4>3
        <5>2. 0 + Owed(Staked) + purse + SoldBefore = purse + Owed(Staked) + 0 + SoldBefore
          BY <1>0, <3>3
        <5> QED
          BY <4>3, <5>1, <5>2
      <4> QED
        BY <2>3, <4>1, <4>2, <4>3
    <3> QED
      BY <2>2, <3>2, <3>4 DEF Balanced
  <2> QED
    BY <2>1, <2>4, <2>5 DEF TreasuryInv
<1>10. CASE Conclude
  <2>1. turn = "save" /\ turn' = "rest" /\ claims' = {} /\ sold' = 0 /\ baseline' = WithBaseline
        /\ report' = purse + Owed(Staked) + baseline'.converted - baseline'.units
        /\ UNCHANGED <<earned, penal, purse, date, view, yielded, exact>>
    BY <1>10 DEF Conclude
  <2>2. /\ baseline' \in [day : 0..MaxDays, units : Nat, converted : Nat]
        /\ baseline'.day = date /\ baseline'.units = Since
        /\ baseline'.converted = SoldBefore + sold
    <3>1. CASE NewDay
      <4>1. baseline' = [day |-> date, units |-> view, converted |-> sold]
        BY <2>1, <3>1 DEF WithBaseline
      <4> QED
        BY <1>0, <3>1, <4>1, TreasuryAssumption DEF TreasuryTypeOK
    <3>2. CASE ~NewDay
      <4>1. baseline' = [baseline EXCEPT !.converted = @ + sold]
        BY <2>1, <3>2 DEF WithBaseline
      <4> QED
        BY <1>0, <3>2, <4>1 DEF TreasuryTypeOK
    <3> QED
      BY <3>1, <3>2
  <2>3. Owed(Staked)' = Owed(Staked)
    BY <2>1 DEF Owed
  <2>4. TreasuryTypeOK'
    <3>1. report' \in Int
      BY <1>0, <2>1, <2>2 DEF TreasuryTypeOK
    <3> QED
      BY <1>0, <2>1, <2>2, <3>1 DEF TreasuryTypeOK
  <2>5. Balanced'
    <3>1. exact' => purse + Owed(Staked) + sold + SoldBefore = Since + yielded
      BY <2>1 DEF TreasuryInv, Balanced
    <3>2. ~NewDay' /\ SoldBefore' = SoldBefore + sold /\ Since' = Since
      BY <2>1, <2>2
    <3>3. /\ Since \in Nat /\ SoldBefore \in Nat /\ sold \in Nat /\ purse \in Nat
          /\ yielded \in Nat
      BY <1>0 DEF TreasuryTypeOK
    <3> HIDE DEF Since, SoldBefore, NewDay
    <3>4. exact' => purse + Owed(Staked) + 0 + (SoldBefore + sold) = Since + yielded
      BY <1>0, <3>1, <3>3
    <3> QED
      BY <2>1, <2>3, <3>2, <3>4 DEF Balanced
  <2> QED
    BY <1>0, <2>1, <2>2, <2>4, <2>5 DEF TreasuryInv, TreasuryTypeOK
<1>11. CASE TreasuryCrash
  <2>1. turn' = "rest" /\ claims' = {} /\ sold' = 0 /\ exact' = (exact /\ sold = 0)
        /\ turn # "rest"
        /\ UNCHANGED <<earned, penal, purse, date, baseline, view, report, yielded>>
    BY <1>11 DEF TreasuryCrash
  <2>2. TreasuryTypeOK'
    BY <1>0, <2>1 DEF TreasuryTypeOK
  <2>3. Balanced'
    BY <1>0, <2>1 DEF TreasuryInv, TreasuryTypeOK, Balanced, Owed
  <2> QED
    BY <2>1, <2>2, <2>3 DEF TreasuryInv
<1>12. CASE UNCHANGED purseVars
  BY <1>12 DEF purseVars, TreasuryInv, TreasuryTypeOK, Balanced, Owed
<1> QED
  BY <1>1, <1>2, <1>3, <1>4, <1>6, <1>7, <1>8, <1>9, <1>10, <1>11, <1>12 DEF TreasuryNext

(* RewardTreasury, its types.                                              *)
THEOREM RewardsTyped == TreasurySpec => []TreasuryTypeOK
<1>1. TreasuryInv => TreasuryTypeOK
  BY DEF TreasuryInv
<1> QED
  BY <1>1, TreasuryInitInv, TreasuryStep, PTL DEF TreasurySpec

(* _yield_attribution, RewardsExplained.                                   *)
THEOREM RewardsAreExplained == TreasurySpec => RewardsExplained
<1>1. TreasuryInv /\ [TreasuryNext]_purseVars
         => [turn = "save" /\ turn' = "rest" /\ report' # NoReport /\ exact'
                => report' = yielded]_purseVars
  <2> SUFFICES ASSUME TreasuryInv, TreasuryNext, turn = "save", turn' = "rest",
                      report' # NoReport, exact'
               PROVE  report' = yielded
    OBVIOUS
  <2>1. ~TreasuryCrash
    BY DEF TreasuryCrash, TreasuryInv
  <2>2. Conclude
    BY <2>1 DEF TreasuryNext, Accrue, PenaltyTurns, Midnight, Observe, UnstakePays,
                WeighConversion, Collect, SellRewards
  <2>3. TreasuryTypeOK /\ Owed(Staked) \in Nat
    BY OwedIsNat DEF TreasuryInv
  <2>4. exact /\ report' = purse + Owed(Staked) + baseline'.converted - baseline'.units
        /\ baseline' = WithBaseline
    BY <2>2 DEF Conclude
  <2>5. purse + Owed(Staked) + sold + SoldBefore = Since + yielded
    BY <2>4 DEF TreasuryInv, Balanced
  <2>6. baseline'.units = Since /\ baseline'.converted = SoldBefore + sold
    BY <2>3, <2>4 DEF WithBaseline, Since, SoldBefore, TreasuryTypeOK
  <2>7. Since \in Nat /\ SoldBefore \in Nat /\ sold \in Nat /\ purse \in Nat /\ yielded \in Nat
    BY <2>3 DEF Since, SoldBefore, TreasuryTypeOK
  <2> HIDE DEF Since, SoldBefore
  <2> QED
    BY <2>3, <2>4, <2>5, <2>6, <2>7
<1> QED
  BY <1>1, TreasuryInitInv, TreasuryStep, PTL DEF TreasurySpec, RewardsExplained

LEMMA CostIsNat ==
    ASSUME NEW x \in Nat
    PROVE  /\ Cost(x) \in Nat /\ x * (Scale + Buffer) \in Nat
           /\ x * (Scale + Buffer) <= Cost(x) * Scale
           /\ Cost(x) * Scale < x * (Scale + Buffer) + Scale
<1>1. Scale + Buffer \in Nat /\ Scale \in Nat \ {0}
  BY ParameterAssumption DEF ParameterAssumption
<1>2. x * (Scale + Buffer) \in Nat
  BY <1>1, Product
<1> QED
  BY <1>1, <1>2, Rounded DEF Cost

LEMMA CostGrows ==
    ASSUME NEW x \in Nat, NEW y \in Nat, x <= y
    PROVE  Cost(x) <= Cost(y)
<1>1. Scale + Buffer \in Nat /\ Scale \in Nat \ {0}
  BY ParameterAssumption DEF ParameterAssumption
<1>2. x * (Scale + Buffer) <= y * (Scale + Buffer)
  BY <1>1, Scaled
<1> DEFINE a == x * (Scale + Buffer)
           b == y * (Scale + Buffer)
           c == Cost(x)
           d == Cost(y)
<1>3. /\ a \in Nat /\ b \in Nat /\ c \in Nat /\ d \in Nat /\ a <= b
      /\ c * Scale < a + Scale /\ b <= d * Scale
  BY <1>2, CostIsNat
<1> HIDE DEF a, b, c, d
<1>4. c * Scale < (d + 1) * Scale
  BY <1>1, <1>3
<1>5. c < d + 1
  BY <1>1, <1>3, <1>4
<1>6. c <= d
  BY <1>3, <1>5
<1> QED
  BY <1>6 DEF c, d

(* What a share of t parts costs, its rounding included.                   *)
LEMMA ShareCost ==
    ASSUME NEW net \in Nat, NEW a \in Nat, NEW t \in Nat \ {0}
    PROVE  LET x == (net * Scale * a) \div ((Scale + Buffer) * t)
           IN  x \in Nat /\ Cost(x) * t <= net * a + t
<1> DEFINE sb == Scale + Buffer
           d == sb * t
           n == net * Scale * a
           x == n \div d
           c == Cost(x)
<1>1. sb \in Nat \ {0} /\ Scale \in Nat \ {0}
  BY ParameterAssumption DEF ParameterAssumption
<1>2. d \in Nat \ {0} /\ n \in Nat
  <2>1. net * Scale \in Nat
    BY <1>1, Product
  <2> HIDE DEF sb
  <2>2. d \in Nat /\ n \in Nat
    BY <1>1, <2>1, Product
  <2>3. d # 0
    BY <1>1
  <2> QED
    BY <2>2, <2>3
<1> HIDE DEF d
<1>3. x \in Nat /\ x * d <= n
  BY <1>2, Division
<1> HIDE DEF x
<1>4. c \in Nat /\ x * sb \in Nat /\ c * Scale < x * sb + Scale
  BY <1>3, CostIsNat
<1> HIDE DEF c, sb, n
<1>5. c * Scale <= x * sb + Scale
  BY <1>1, <1>4
<1>6. (c * Scale) * t <= (x * sb + Scale) * t
  BY <1>1, <1>4, <1>5, Scaled, Product
<1>7. (x * sb + Scale) * t = x * d + Scale * t
  BY <1>1, <1>3 DEF d
<1>8. (c * Scale) * t = Scale * (c * t)
  BY <1>1, <1>4
<1>9. n + Scale * t = Scale * (net * a + t)
  BY <1>1 DEF n
<1>10. Scale * (c * t) <= Scale * (net * a + t)
  <2>1. /\ c * t \in Nat /\ net * a \in Nat /\ x * d \in Nat /\ Scale * t \in Nat
    BY <1>1, <1>2, <1>3, <1>4, Product
  <2> DEFINE u == Scale * (c * t)
             v == Scale * (net * a + t)
             w == x * d
             z == Scale * t
  <2>2. u <= w + z
    BY <1>6, <1>7, <1>8
  <2>3. n + z = v
    BY <1>9
  <2>4. w <= n
    BY <1>3
  <2>5. u \in Nat
    BY <1>1, <2>1, Product
  <2>6. w \in Nat /\ z \in Nat
    BY <2>1
  <2> HIDE DEF u, v, w, z
  <2>7. u <= v
    BY <1>2, <2>2, <2>3, <2>4, <2>5, <2>6
  <2> QED
    BY <2>7 DEF u, v
<1>11. c * t <= net * a + t
  <2>1. c * t \in Int /\ net * a + t \in Int
    BY <1>4
  <2> QED
    BY <1>1, <1>10, <2>1, Unscaled
<1> QED
  BY <1>3, <1>11 DEF c, x, n, d, sb

-----------------------------------------------------------------------------
(* The pass.                                                               *)

LEMMA BookFacts ==
    ASSUME in \in Books
    PROVE  /\ in.cash \in Nat /\ in.equity \in Nat
           /\ \A p \in Pool : /\ in.offer[p].apr \in Nat \ {0} /\ in.offer[p].depth \in Nat
                              /\ in.offer[p].least \in Nat \ {0}
           /\ \A p \in Pool : in.held[p].value \in Nat
<1>1. in \in Book
  BY BookAssumption
<1>2. in.cash \in Nat /\ in.equity \in Nat /\ in.offer \in [Pool -> Offer]
      /\ in.held \in [Pool -> Holding \cup {Unheld}]
  BY <1>1 DEF Book
<1>3. ASSUME NEW p \in Pool
      PROVE  in.offer[p].apr \in Nat \ {0} /\ in.offer[p].depth \in Nat
             /\ in.offer[p].least \in Nat \ {0}
  <2>1. in.offer[p] \in Offer
    BY <1>2
  <2> QED
    BY <2>1 DEF Offer
<1>4. ASSUME NEW p \in Pool PROVE in.held[p].value \in Nat
  <2>1. in.held[p] \in Holding \cup {Unheld}
    BY <1>2
  <2>2. CASE in.held[p] \in Holding
    BY <2>2 DEF Holding
  <2>3. CASE in.held[p] = Unheld
    BY <2>3 DEF Unheld
  <2> QED
    BY <2>1, <2>2, <2>3
<1> QED
  BY <1>2, <1>3, <1>4

LEMMA Parameters ==
    /\ Pool \subseteq Nat \ {0} /\ IsFiniteSet(Pool) /\ Scale \in Nat \ {0} /\ Buffer \in Nat
    /\ TotalCap \in Nat /\ MinFloor \in Nat \ {0} /\ MinPosition \in Nat
    /\ Concentration \in Nat /\ EquityShare \in Nat /\ MaxPositions \in Nat
BY ParameterAssumption DEF ParameterAssumption

(* The weights of the funded slots.                                        *)
Weights == [p \in Pool |-> Weighed(p, Slotted)]
Weight(S) == SumFunctionOnSet(Weights, S)
Net == Greater(Deployable - Cardinality(Slotted), 0)

(* What is left pays for the remaining tiers, a unit of rounding for each, *)
(* as long as no minimum size has lifted a share.                          *)
Unlifted == \A r \in Slotted \ todo : TierShare(r) >= EffectiveMinimum
SharesCovered ==
    phase = "fund" /\ Unlifted /\ Deployable >= Cardinality(Slotted) =>
        left * sums.slots >= Net * Weight(todo) + Cardinality(todo) * sums.slots

TierTyped ==
    /\ in \in Books /\ todo \subseteq Pool
    /\ sums.committed \in Nat /\ sums.slots \in Nat /\ left \in Nat
    /\ phase = "fund" => todo \subseteq Slotted
Summed ==
    /\ phase = "sum" => sums.slots + Weight(todo) = Weight(Pool)
    /\ phase = "fund" => sums.slots = Weight(Slotted)

TierInv == TierTyped /\ Summed /\ SharesCovered /\ TiersFit

LEMMA SlottedFacts ==
    ASSUME TierTyped
    PROVE  /\ Slotted \subseteq Pool /\ IsFiniteSet(Slotted)
           /\ Cardinality(Slotted) \in Nat
           /\ \A p \in Pool : Weights[p] \in Nat
           /\ \A p \in Slotted : Weights[p] = in.offer[p].apr /\ Weights[p] \in Nat \ {0}
           /\ \A p \in Pool \ Slotted : Weights[p] = 0
           /\ IsFiniteSet(todo) /\ Cardinality(todo) \in Nat
<1>1. Slotted \subseteq Pool
  BY DEF Slotted, InBand, Candidates
<1>2. IsFiniteSet(Slotted) /\ IsFiniteSet(todo)
  BY <1>1, Parameters, FS_Subset DEF TierTyped
<1>3. \A p \in Pool : in.offer[p].apr \in Nat \ {0}
  BY BookFacts DEF TierTyped
<1> QED
  BY <1>1, <1>2, <1>3, FS_CardinalityType DEF Weights, Weighed

LEMMA WeightFacts ==
    ASSUME TierTyped, NEW S \in SUBSET Pool
    PROVE  /\ Weight(S) \in Nat
           /\ \A p \in S : Weight(S) = Weights[p] + Weight(S \ {p})
<1>1. IsFiniteSet(S) /\ \A p \in S : Weights[p] \in Nat
  BY SlottedFacts, Parameters, FS_Subset
<1> QED
  BY <1>1, SumIsNat, SumTakesOut DEF Weight

(* Pools outside the slots weigh nothing.                                  *)
LEMMA OnlySlotsWeigh ==
    ASSUME TierTyped
    PROVE  Weight(Pool) = Weight(Slotted)
<1> DEFINE C == {S \in SUBSET Pool : Slotted \subseteq S /\ Weight(S) # Weight(Slotted)}
<1> SUFFICES ASSUME C # {} PROVE FALSE
  BY SlottedFacts
<1>1. PICK S \in C : \A T \in C : T \subseteq S => T = S
  <2>1. C \subseteq SUBSET Pool
    OBVIOUS
  <2> HIDE DEF C
  <2>2. IsFiniteSet(Pool)
    BY Parameters
  <2> QED
    BY <2>1, <2>2, Smallest
<1>2. S # Slotted
  OBVIOUS
<1>3. PICK p \in S : p \notin Slotted
  BY <1>2
<1>4. S \ {p} \notin C
  BY <1>1, <1>3
<1>5. Weight(S \ {p}) = Weight(Slotted)
  BY <1>3, <1>4
<1>6. Weight(S) = Weights[p] + Weight(S \ {p}) /\ Weights[p] = 0 /\ Weight(Slotted) \in Nat
  BY <1>3, WeightFacts, SlottedFacts
<1> QED
  BY <1>5, <1>6

LEMMA DeployableIsNat ==
    ASSUME TierTyped
    PROVE  Deployable \in Nat /\ Net \in Nat
<1>1. in.cash \in Nat /\ Headroom \in Int
  BY BookFacts, Parameters DEF TierTyped, Headroom
<1>2. Lesser(in.cash, Headroom) \in Int
  BY <1>1 DEF Lesser
<1>3. Deployable \in Nat
  BY <1>2 DEF Deployable
<1> QED
  BY <1>3, SlottedFacts DEF Net, Greater

(* What a tier aims at is a natural number, and with no minimum size no    *)
(* more than its share.                                                    *)
LEMMA TargetFacts ==
    ASSUME TierTyped, phase = "fund", Summed, NEW p \in Slotted
    PROVE  /\ TierShare(p) \in Nat /\ Target(p) \in Nat /\ EntrySize(p, Target(p)) \in Nat
           /\ EntrySize(p, Target(p)) <= Target(p)
           /\ EffectiveMinimum \in Nat
           /\ EffectiveMinimum <= TierShare(p) => Target(p) <= TierShare(p)
           /\ sums.slots \in Nat \ {0}
           /\ Cost(TierShare(p)) * sums.slots <= Net * in.offer[p].apr + sums.slots
<1>1. Slotted \subseteq Pool /\ in.offer[p].apr \in Nat \ {0} /\ in.offer[p].depth \in Nat
      /\ Weights[p] \in Nat \ {0} /\ in.equity \in Nat
  BY BookFacts, SlottedFacts DEF TierTyped
<1>2. sums.slots \in Nat \ {0}
  <2>1. sums.slots = Weights[p] + Weight(Slotted \ {p}) /\ Weight(Slotted \ {p}) \in Nat
    BY <1>1, WeightFacts DEF Summed
  <2> QED
    BY <1>1, <2>1
<1>3. Net \in Nat
  BY DeployableIsNat
<1>4. TierShare(p) = (Net * Scale * in.offer[p].apr) \div ((Scale + Buffer) * sums.slots)
  BY DEF TierShare, Net
<1>5. TierShare(p) \in Nat /\ Cost(TierShare(p)) * sums.slots <= Net * in.offer[p].apr + sums.slots
  BY <1>1, <1>2, <1>3, <1>4, ShareCost
<1>6. ConcentrationBound \in Nat
  <2>1. Concentration * in.equity \in Nat
    BY <1>1, Parameters, Product
  <2> QED
    BY <2>1, Parameters, Division DEF ConcentrationBound
<1>7. EffectiveMinimum \in Nat
  BY <1>6, Parameters DEF EffectiveMinimum, Greater, Lesser
<1>8. Target(p) \in Nat /\ (EffectiveMinimum <= TierShare(p) => Target(p) <= TierShare(p))
  BY <1>5, <1>6, <1>7 DEF Target, Greater, Lesser
<1>9. EntrySize(p, Target(p)) \in Nat /\ EntrySize(p, Target(p)) <= Target(p)
  BY <1>1, <1>8 DEF EntrySize, Lesser
<1> QED
  BY <1>2, <1>5, <1>7, <1>8, <1>9

(* A tier that is a share has the cash, and leaves enough for the others.  *)
LEMMA ShareFits ==
    ASSUME TierInv, phase = "fund", NEW p \in todo, Unlifted, EffectiveMinimum <= TierShare(p)
    PROVE  /\ Cost(Target(p)) <= left
           /\ \A x \in Nat :
                  x <= Cost(Target(p)) /\ Deployable >= Cardinality(Slotted) =>
                      (left - x) * sums.slots >=
                          Net * Weight(todo \ {p}) + Cardinality(todo \ {p}) * sums.slots
<1> DEFINE s == sums.slots
           rest == Net * Weight(todo \ {p})
           others == Cardinality(todo \ {p})
           mine == Net * in.offer[p].apr
           c == Cost(Target(p))
<1>0. p \in Slotted /\ p \in Pool /\ TierTyped /\ Summed /\ SharesCovered
  BY DEF TierInv, TierTyped
<1>1. s \in Nat \ {0} /\ c \in Nat /\ left \in Nat /\ Target(p) \in Nat /\ TierShare(p) \in Nat
      /\ Target(p) <= TierShare(p) /\ Net \in Nat
  BY <1>0, TargetFacts, CostIsNat, DeployableIsNat DEF TierTyped
<1>2. CASE Deployable < Cardinality(Slotted)
  <2>1. Net = 0
    BY <1>0, <1>2, DeployableIsNat, SlottedFacts DEF Net, Greater
  <2>2. TierShare(p) = 0
    <3>1. TierShare(p) = (Net * Scale * in.offer[p].apr) \div ((Scale + Buffer) * sums.slots)
      BY DEF TierShare, Net
    <3>2. Net * Scale * in.offer[p].apr = 0
      BY <1>0, <2>1, BookFacts, Parameters DEF TierTyped
    <3>3. (Scale + Buffer) * s \in Nat \ {0}
      BY <1>1, Parameters
    <3> DEFINE d == (Scale + Buffer) * s
    <3> HIDE DEF d
    <3>4. 0 \div d = 0
      BY <3>3 DEF d
    <3> QED
      BY <3>1, <3>2, <3>4 DEF d
  <2>3. Target(p) = 0
    BY <1>1, <2>2
  <2>4. Cost(0) = 0
    <3>1. Cost(0) \in Nat /\ Cost(0) * Scale < 0 * (Scale + Buffer) + Scale
      BY CostIsNat
    <3>2. 0 * (Scale + Buffer) = 0
      BY Parameters
    <3>3. Cost(0) * Scale < 1 * Scale
      BY <3>1, <3>2, Parameters
    <3>4. Cost(0) < 1
      BY <3>1, <3>3, Parameters
    <3> QED
      BY <3>1, <3>4
  <2> QED
    BY <1>1, <1>2, <2>3, <2>4, <1>0, DeployableIsNat, SlottedFacts
<1>3. CASE Deployable >= Cardinality(Slotted)
  <2>1. left * s >= Net * Weight(todo) + Cardinality(todo) * s
    BY <1>0, <1>3 DEF SharesCovered
  <2>2. Weight(todo) = in.offer[p].apr + Weight(todo \ {p}) /\ Weight(todo \ {p}) \in Nat
        /\ in.offer[p].apr \in Nat
    BY <1>0, WeightFacts, SlottedFacts DEF TierTyped
  <2>3. Cardinality(todo) = others + 1 /\ others \in Nat
    <3>1. IsFiniteSet(todo) /\ p \in todo
      BY <1>0, SlottedFacts
    <3>2. IsFiniteSet(todo \ {p}) /\ others = Cardinality(todo) - 1
      BY <3>1, FS_RemoveElement
    <3>3. others \in Nat /\ Cardinality(todo) \in Nat
      BY <3>1, <3>2, FS_CardinalityType
    <3> QED
      BY <3>2, <3>3
  <2>4. Net * Weight(todo) = mine + rest /\ mine \in Nat /\ rest \in Nat
    <3> DEFINE w == Weight(todo \ {p})
               a == in.offer[p].apr
               n == Net
    <3>1. w \in Nat /\ a \in Nat /\ n \in Nat /\ Weight(todo) = a + w
      BY <1>1, <2>2
    <3> HIDE DEF w, a, n
    <3>2. n * (a + w) = n * a + n * w /\ n * a \in Nat /\ n * w \in Nat
      BY <3>1
    <3>3. n * Weight(todo) = n * a + n * w
      BY <3>1, <3>2
    <3> QED
      BY <3>2, <3>3 DEF n, a, w
  <2>5. Cardinality(todo) * s = others * s + s /\ others * s \in Nat
    BY <1>1, <2>3, Product
  <2>6. c * s <= mine + s
    <3>1. c <= Cost(TierShare(p)) /\ Cost(TierShare(p)) \in Nat
      BY <1>1, CostGrows, CostIsNat
    <3>2. c * s <= Cost(TierShare(p)) * s
      BY <1>1, <3>1, Scaled
    <3>3. Cost(TierShare(p)) * s <= mine + s
      BY <1>0, TargetFacts
    <3>4. c * s \in Nat /\ Cost(TierShare(p)) * s \in Nat
      BY <1>1, <3>1, Product
    <3> DEFINE u == c * s
               v == Cost(TierShare(p)) * s
               w == mine + s
    <3>5. u <= v /\ v <= w /\ u \in Nat /\ v \in Nat /\ w \in Nat
      BY <1>1, <2>4, <3>2, <3>3, <3>4
    <3> HIDE DEF u, v, w
    <3>6. u <= w
      BY <3>5
    <3> QED
      BY <3>6 DEF u, w
  <2>7. ASSUME NEW x \in Nat, x <= c PROVE (left - x) * s >= rest + others * s
    <3>1. x * s <= c * s /\ x * s \in Nat /\ c * s \in Nat /\ left * s \in Nat
      BY <1>1, <2>7, Scaled, Product
    <3>2. (left - x) * s = left * s - x * s
      BY <1>1, <2>7
    <3> DEFINE ls == left * s
               xs == x * s
               cs == c * s
               os == others * s
    <3>3. ls >= mine + rest + (os + s) /\ xs <= cs /\ cs <= mine + s
          /\ ls \in Nat /\ xs \in Nat /\ cs \in Nat /\ os \in Nat
      BY <2>1, <2>4, <2>5, <2>6, <3>1
    <3> HIDE DEF ls, xs, cs, os, mine, rest
    <3>4. ls - xs >= rest + os
      BY <1>1, <2>4, <3>3
    <3> QED
      BY <3>2, <3>4 DEF ls, xs, os
  <2>8. c <= left
    <3>1. (left - c) * s >= rest + others * s
      <4>1. c \in Nat /\ c <= c
        BY <1>1
      <4> HIDE DEF c, s, rest, others
      <4> QED
        BY <4>1, <2>7
    <3>2. (left - c) * s >= 0
      <4> DEFINE os == others * s
                 lc == (left - c) * s
      <4>1. lc >= rest + os /\ os \in Nat /\ rest \in Nat /\ lc \in Int
        BY <1>1, <2>4, <2>5, <3>1
      <4> HIDE DEF os, lc, rest
      <4>2. lc >= 0
        BY <4>1
      <4> QED
        BY <4>2 DEF lc
    <3>3. s * 0 <= s * (left - c)
      BY <1>1, <3>2
    <3>4. 0 <= left - c
      BY <1>1, <3>3, Unscaled
    <3> QED
      BY <1>1, <3>4
  <2> QED
    BY <2>7, <2>8
<1>4. Deployable \in Nat /\ Cardinality(Slotted) \in Nat
  BY <1>0, DeployableIsNat, SlottedFacts
<1>5. Deployable < Cardinality(Slotted) \/ Deployable >= Cardinality(Slotted)
  BY <1>4
<1> QED
  BY <1>2, <1>3, <1>5, Zenon

LEMMA TierInitInv == AllocInit => TierInv
<1> SUFFICES ASSUME AllocInit PROVE TierInv
  OBVIOUS
<1>1. TierTyped /\ phase = "sum" /\ todo = Pool /\ sums.slots = 0 /\ noted = {}
  BY DEF AllocInit, TierTyped
<1>2. Weight(Pool) \in Nat
  BY <1>1, WeightFacts
<1> QED
  BY <1>1, <1>2 DEF TierInv, Summed, SharesCovered, TiersFit

(* Ranking and slots are those of the inputs.                              *)
LEMMA SameInputs ==
    ASSUME in' = in
    PROVE  /\ Slotted' = Slotted /\ InBand' = InBand /\ Weights' = Weights
           /\ EffectiveMinimum' = EffectiveMinimum /\ Held' = Held /\ OpenSlots' = OpenSlots
           /\ \A p, q : Better(p, q)' = Better(p, q)
           /\ \A p, b : EntrySize(p, b)' = EntrySize(p, b) /\ GatesPass(p, b)' = GatesPass(p, b)
           /\ sums' = sums => \A p : TierShare(p)' = TierShare(p) /\ Target(p)' = Target(p)
           /\ \A S : Weight(S)' = Weight(S)
           /\ sums'.committed = sums.committed => Deployable' = Deployable /\ Net' = Net
<1>1. InBand' = InBand /\ OpenSlots' = OpenSlots
  BY DEF InBand, Candidates, Held, Qualifies, GatesPass, EntrySize, FullBudget, OpenSlots
<1>2. Slotted' = Slotted
  BY <1>1 DEF Slotted, Better
<1>3. Weights' = Weights
  BY <1>2 DEF Weights, Weighed
<1>4. EffectiveMinimum' = EffectiveMinimum
  BY DEF EffectiveMinimum, Capped, ConcentrationBound
<1>5. sums'.committed = sums.committed => Deployable' = Deployable /\ Net' = Net
  BY <1>2 DEF Deployable, Net, Headroom, StockHeld
<1>6. \A p, q : Better(p, q)' = Better(p, q)
  BY DEF Better
<1>7. \A p, b : EntrySize(p, b)' = EntrySize(p, b) /\ GatesPass(p, b)' = GatesPass(p, b)
  BY DEF EntrySize, GatesPass
<1>8. sums' = sums => \A p : TierShare(p)' = TierShare(p) /\ Target(p)' = Target(p)
  BY <1>2, <1>4, <1>5 DEF TierShare, Target, Net, Capped, ConcentrationBound
<1>9. Held' = Held
  BY DEF Held
<1> QED
  BY <1>1, <1>2, <1>3, <1>4, <1>5, <1>6, <1>7, <1>8, <1>9 DEF Weight

(* Steps that neither size nor sum.                                        *)
LEMMA TierQuiet ==
    ASSUME TierInv, in' = in, sums' = sums, left' \in Nat, todo' \subseteq Pool,
           noted' = noted, phase' \notin {"sum", "fund"}
    PROVE  TierInv'
BY SameInputs DEF TierInv, TierTyped, Summed, SharesCovered, TiersFit

LEMMA SumUpInv == ASSUME TierInv, NEW p \in Pool, SumUp(p) PROVE TierInv'
<1>0. TierTyped /\ Summed
  BY DEF TierInv
<1>1. /\ phase = "sum" /\ p \in todo /\ todo' = todo \ {p} /\ in' = in /\ phase' = "sum"
      /\ sums' = [committed |-> sums.committed + in.held[p].value,
                  band |-> sums.band + Weighed(p, InBand),
                  slots |-> sums.slots + Weighed(p, Slotted)]
      /\ left' = left /\ noted' = noted
  BY DEF SumUp, First
<1>2. in.held[p].value \in Nat /\ Weights[p] = Weighed(p, Slotted) /\ Weights[p] \in Nat
  BY <1>0, BookFacts, SlottedFacts DEF TierTyped, Weights
<1>3. TierTyped'
  BY <1>0, <1>1, <1>2 DEF TierTyped
<1>4. Weight(todo) = Weights[p] + Weight(todo \ {p}) /\ Weight(todo \ {p}) \in Nat
  BY <1>0, <1>1, WeightFacts DEF TierTyped
<1>5. sums'.slots + Weight(todo \ {p}) = Weight(Pool)
  BY <1>0, <1>1, <1>2, <1>4 DEF Summed, TierTyped
<1>6. Weight(todo)' = Weight(todo \ {p}) /\ Weight(Pool)' = Weight(Pool)
  BY <1>1, SameInputs DEF Weight
<1>7. Summed'
  BY <1>1, <1>5, <1>6 DEF Summed
<1>8. EffectiveMinimum' = EffectiveMinimum
  BY <1>1, SameInputs
<1> QED
  BY <1>1, <1>3, <1>7, <1>8 DEF TierInv, SharesCovered, TiersFit

LEMMA OpenBudgetInv == TierInv /\ OpenBudget => TierInv'
<1> SUFFICES ASSUME TierInv, OpenBudget PROVE TierInv'
  OBVIOUS
<1>0. TierTyped /\ Summed /\ phase = "sum" /\ todo = {} /\ in' = in /\ sums' = sums
  BY DEF TierInv, OpenBudget
<1>1. Weight({}) = 0
  BY SumOfNone DEF Weight
<1>2. sums.slots = Weight(Slotted)
  BY <1>0, <1>1, OnlySlotsWeigh DEF Summed, TierTyped
<1>3. /\ Slotted' = Slotted /\ Weights' = Weights /\ EffectiveMinimum' = EffectiveMinimum
      /\ Deployable' = Deployable /\ Net' = Net
  BY <1>0, SameInputs
<1>4. Deployable \in Nat /\ Net \in Nat /\ Slotted \subseteq Pool /\ Cardinality(Slotted) \in Nat
      /\ sums.slots \in Nat
  BY <1>0, DeployableIsNat, SlottedFacts DEF TierTyped
<1>5. \A p \in Pool : <<p, "insufficient_cash">> \notin noted'
  BY DEF OpenBudget, ExcludedUpFront
<1>6. TiersFit'
  BY <1>5 DEF TiersFit
<1>7. CASE phase' = "fund" /\ todo' = Slotted /\ left' = Deployable
  <2>1. TierTyped'
    BY <1>0, <1>3, <1>4, <1>7 DEF TierTyped
  <2>2. Summed'
    BY <1>0, <1>2, <1>3, <1>7 DEF Summed, Weight
  <2>3. SharesCovered'
    <3> SUFFICES ASSUME Deployable >= Cardinality(Slotted)
                 PROVE  Deployable * sums.slots >=
                            Net * Weight(Slotted) + Cardinality(Slotted) * sums.slots
      BY <1>0, <1>3, <1>7 DEF SharesCovered, Weight
    <3> DEFINE n == Cardinality(Slotted)
               s == sums.slots
               d == Deployable
    <3>1. Net = d - n
      BY <1>4 DEF Net, Greater
    <3>2. d \in Nat /\ n \in Nat /\ s \in Nat
      BY <1>4
    <3> HIDE DEF n, s, d
    <3>3. d * s = (d - n) * s + n * s
      BY <3>2
    <3>4. d * s \in Nat
      BY <3>2, Product
    <3>5. d * s = Net * Weight(Slotted) + n * s
      BY <1>2, <3>1, <3>3 DEF s
    <3> QED
      BY <3>4, <3>5 DEF d, n, s
  <2> QED
    BY <1>6, <2>1, <2>2, <2>3 DEF TierInv
<1>8. CASE phase' = "move" /\ todo' = Held /\ left' = 0
  <2>1. TierTyped'
    BY <1>0, <1>8 DEF TierTyped, Held
  <2> QED
    BY <1>6, <1>8, <2>1 DEF TierInv, Summed, SharesCovered
<1> QED
  BY <1>7, <1>8 DEF OpenBudget

LEMMA FundTierInv == ASSUME TierInv, NEW p \in Pool, FundTier(p) PROVE TierInv'
<1> DEFINE size == EntrySize(p, Target(p))
<1>0. TierTyped /\ Summed /\ SharesCovered /\ TiersFit
  BY DEF TierInv
<1>1. phase = "fund" /\ p \in todo /\ todo' = todo \ {p} /\ in' = in /\ phase' = "fund"
      /\ sums' = sums
  BY DEF FundTier, Best
<1>2. p \in Slotted
  BY <1>0, <1>1 DEF TierTyped
<1>3. /\ Slotted' = Slotted /\ Weights' = Weights /\ EffectiveMinimum' = EffectiveMinimum
      /\ Deployable' = Deployable /\ Net' = Net /\ \A S : Weight(S)' = Weight(S)
  BY <1>1, SameInputs
<1>4. size \in Nat /\ Target(p) \in Nat /\ size <= Target(p) /\ EffectiveMinimum \in Nat
  BY <1>0, <1>1, <1>2, TargetFacts
<1> HIDE DEF size
<1>5. Cost(size) \in Nat /\ Cost(size) <= Cost(Target(p)) /\ Cost(Target(p)) \in Nat
  BY <1>4, CostGrows, CostIsNat
<1>6. \/ Cost(Target(p)) > left /\ left' = left
         /\ noted' = noted \cup {<<p, "insufficient_cash">>}
      \/ /\ ~(Cost(Target(p)) > left) /\ left' \in {left, left - Cost(size)}
         /\ \A q \in Pool : <<q, "insufficient_cash">> \in noted' => <<q, "insufficient_cash">> \in noted
  BY DEF FundTier, Skip, Fund, size
<1>7. left' \in Nat /\ \E x \in Nat : x <= Cost(Target(p)) /\ left' = left - x
  BY <1>0, <1>5, <1>6 DEF TierTyped
<1>8. TierTyped'
  BY <1>0, <1>1, <1>3, <1>7 DEF TierTyped
<1>9. Summed'
  BY <1>0, <1>1, <1>3 DEF Summed
<1>10. SharesCovered'
  <2> SUFFICES ASSUME Unlifted', Deployable >= Cardinality(Slotted)
               PROVE  left' * sums.slots >= Net * Weight(todo \ {p})
                                            + Cardinality(todo \ {p}) * sums.slots
    BY <1>1, <1>3 DEF SharesCovered
  <2>2. Unlifted /\ EffectiveMinimum <= TierShare(p)
    BY <1>0, <1>1, <1>2, <1>3, <1>4, TargetFacts, SameInputs DEF Unlifted
  <2>1. PICK x \in Nat : x <= Cost(Target(p)) /\ left' = left - x
    BY <1>7
  <2> QED
    BY <1>1, <2>1, <2>2, ShareFits
<1>11. TiersFit'
  <2>1. CASE EffectiveMinimum = 0
    <3>1. Cost(Target(p)) <= left
      <4>1. \A r \in Slotted : TierShare(r) \in Nat
        BY <1>0, <1>1, TargetFacts
      <4>2. Unlifted /\ EffectiveMinimum <= TierShare(p)
        BY <1>2, <2>1, <4>1 DEF Unlifted
      <4> QED
        BY <1>1, <4>2, ShareFits
    <3>2. ~(Cost(Target(p)) > left)
      BY <1>0, <1>5, <3>1 DEF TierTyped
    <3> QED
      BY <1>0, <1>3, <1>6, <3>2 DEF TiersFit
  <2>2. CASE EffectiveMinimum # 0
    BY <1>3, <1>4, <2>2 DEF TiersFit
  <2> QED
    BY <2>1, <2>2
<1> QED
  BY <1>8, <1>9, <1>10, <1>11 DEF TierInv

LEMMA TierStep == TierInv /\ [AllocNext]_allocVars => TierInv'
<1> SUFFICES ASSUME TierInv, [AllocNext]_allocVars PROVE TierInv'
  OBVIOUS
<1>0. left \in Nat /\ todo \subseteq Pool /\ Held \subseteq Pool
  BY DEF TierInv, TierTyped, Held
<1>1. ASSUME NEW p \in Pool, SumUp(p) PROVE TierInv'
  BY <1>1, SumUpInv
<1>2. ASSUME NEW p \in Pool, FundTier(p) PROVE TierInv'
  BY <1>2, FundTierInv
<1>3. ASSUME NEW p \in Pool, JudgeHeld(p) PROVE TierInv'
  BY <1>0, <1>3, TierQuiet DEF JudgeHeld
<1>4. ASSUME NEW p \in Pool,
             ProjectExit(p) \/ ProjectRecenter(p) \/ ProjectMove(p) \/ ProjectEntry(p)
      PROVE  TierInv'
  <2>1. /\ in' = in /\ sums' = sums /\ left' = left /\ noted' = noted /\ todo' = todo \ {p}
        /\ phase' \in {"exits", "recenters", "moves", "entries", "raised"}
    BY <1>4 DEF ProjectExit, ProjectRecenter, ProjectMove, ProjectEntry, Projects
  <2> QED
    BY <1>0, <2>1, TierQuiet
<1>5. CASE OpenBudget
  BY <1>5, OpenBudgetInv
<1>6. CASE TiersDone \/ MovesDone
  BY <1>0, <1>6, TierQuiet DEF TiersDone, MovesDone, Exiting
<1>7. CASE ProjectInventory
  BY <1>0, <1>7, TierQuiet DEF ProjectInventory, Recentering
<1>8. CASE ProjectOn
  <2>1. /\ in' = in /\ sums' = sums /\ left' = left /\ noted' = noted
        /\ phase' \in {"inventory", "moves", "entries", "done"} /\ todo' \subseteq Pool
    BY <1>0, <1>8 DEF ProjectOn, Moving, Entering
  <2> QED
    BY <1>0, <2>1, TierQuiet
<1>9. CASE UNCHANGED allocVars
  <2>1. in' = in /\ sums' = sums /\ left' = left /\ noted' = noted /\ todo' = todo /\ phase' = phase
    BY <1>9 DEF allocVars
  <2>2. /\ Slotted' = Slotted /\ EffectiveMinimum' = EffectiveMinimum
        /\ Deployable' = Deployable /\ Net' = Net /\ \A S : Weight(S)' = Weight(S)
        /\ \A p : TierShare(p)' = TierShare(p)
    BY <2>1, SameInputs
  <2> QED
    BY <2>1, <2>2 DEF TierInv, TierTyped, Summed, SharesCovered, Unlifted, TiersFit
<1> QED
  BY <1>1, <1>2, <1>3, <1>4, <1>5, <1>6, <1>7, <1>8, <1>9 DEF AllocNext

(* allocate_portfolio, TiersFit.                                           *)
THEOREM TiersDoFit == AllocSpec => []TiersFit
<1>1. TierInv => TiersFit
  BY DEF TierInv
<1> QED
  BY <1>1, TierInitInv, TierStep, PTL DEF AllocSpec

(* The phase, the sums and what is funded, over the whole pass.            *)
Phases == {"sum", "fund", "move", "exits", "inventory", "recenters", "moves", "entries",
           "done", "raised"}

AllocShape ==
    /\ phase \in Phases
    /\ sums \in [committed : Nat, band : Nat, slots : Nat]
    /\ funded \in [Pool -> Nat]

LEMMA ShapeStep ==
    ASSUME TierInv, AllocShape, [AllocNext]_allocVars
    PROVE  AllocShape'
<1>0. TierTyped /\ Summed
  BY DEF TierInv
<1>1. ASSUME NEW p \in Pool, SumUp(p) PROVE AllocShape'
  <2> DEFINE c == sums.committed + in.held[p].value
             b == sums.band + Weighed(p, InBand)
             s == sums.slots + Weighed(p, Slotted)
  <2>1. in.held[p].value \in Nat /\ in.offer[p].apr \in Nat
    BY <1>0, BookFacts DEF TierTyped
  <2>2. c \in Nat /\ b \in Nat /\ s \in Nat
    BY <2>1 DEF AllocShape, Weighed
  <2>3. sums' = [committed |-> c, band |-> b, slots |-> s] /\ phase' = phase /\ funded' = funded
    BY <1>1 DEF SumUp
  <2> HIDE DEF c, b, s
  <2> QED
    BY <2>2, <2>3 DEF AllocShape
<1>2. ASSUME NEW p \in Pool, FundTier(p) PROVE AllocShape'
  <2>1. p \in Slotted /\ phase = "fund"
    BY <1>0, <1>2 DEF TierTyped, FundTier, Best
  <2>2. EntrySize(p, Target(p)) \in Nat
    BY <1>0, <2>1, TargetFacts
  <2>3. \/ funded' = funded
        \/ funded' = [funded EXCEPT ![p] = EntrySize(p, Target(p))]
    BY <1>2 DEF FundTier, Skip, Fund
  <2>4. phase' = phase /\ sums' = sums
    BY <1>2 DEF FundTier
  <2> QED
    BY <2>2, <2>3, <2>4 DEF AllocShape
<1>3. ASSUME phase' \in Phases, sums' = sums, funded' = funded PROVE AllocShape'
  BY <1>3 DEF AllocShape
<1>4. phase \in Phases
  BY DEF AllocShape
<1>5. ASSUME NEW p \in Pool, JudgeHeld(p) PROVE AllocShape'
  BY <1>3, <1>4, <1>5 DEF JudgeHeld
<1>6. ASSUME NEW p, NEW usd, NEW count, Projects(p, usd, count) PROVE AllocShape'
  BY <1>3, <1>4, <1>6 DEF Projects, Phases
<1>7. ASSUME NEW p \in Pool,
             ProjectExit(p) \/ ProjectRecenter(p) \/ ProjectMove(p) \/ ProjectEntry(p)
      PROVE  AllocShape'
  BY <1>6, <1>7 DEF ProjectExit, ProjectRecenter, ProjectMove, ProjectEntry
<1>8. CASE OpenBudget \/ TiersDone \/ MovesDone \/ ProjectInventory \/ ProjectOn
  BY <1>3, <1>8 DEF OpenBudget, TiersDone, MovesDone, ProjectInventory, ProjectOn, Phases
<1>9. CASE UNCHANGED allocVars
  BY <1>3, <1>4, <1>9 DEF allocVars
<1> QED
  BY <1>1, <1>2, <1>5, <1>7, <1>8, <1>9 DEF AllocNext

(* Allocator, its types.                                                   *)
THEOREM AllocationsTyped == AllocSpec => []AllocTypeOK
<1>1. AllocInit => AllocShape
  BY DEF AllocInit, AllocShape, Phases
<1>2. TierInv /\ AllocShape /\ [AllocNext]_allocVars => (TierInv /\ AllocShape)'
  BY TierStep, ShapeStep
<1>3. TierInv /\ AllocShape => AllocTypeOK
  BY BookAssumption DEF TierInv, TierTyped, AllocShape, AllocTypeOK, Phases
<1> QED
  BY <1>1, <1>2, <1>3, TierInitInv, PTL DEF AllocSpec

-----------------------------------------------------------------------------
(* The plan and its projection.                                            *)

Total(f) == SumFunctionOnSet(f, Pool)
Bands == [p \in Pool |-> Weighed(p, InBand)]

(* Where a pool stands among those that the fund loop has not reached.     *)
Waiting == IF phase = "fund" THEN todo ELSE {}

Costs == [p \in Pool |-> IF funded[p] > 0 THEN Cost(funded[p]) ELSE 0]
Entries == [p \in Pool |-> IF p \in Entering THEN funded[p] ELSE 0]
Growth == [p \in Pool |-> IF moves[p].size > in.held[p].value
                          THEN moves[p].size - in.held[p].value ELSE 0]

(* The reallocation's share of the budget, by the weight of the band.      *)
BandShare(q) == (ReportedDeployable * Scale * in.offer[q].apr)
                    \div ((Scale + Buffer) * sums.band)
ClaimedShares == [q \in Pool |-> IF q \in Claimed THEN BandShare(q) ELSE 0]
ClaimedCosts == [q \in Pool |-> IF q \in Claimed THEN Costs[q] ELSE 0]

PlanTyped ==
    /\ phase \in Phases
    /\ sums.band \in Nat
    /\ funded \in [Pool -> Nat]
    /\ moves \in [Pool -> [to : Pool \cup {0}, size : Nat]]
    /\ proj \in [usd : Int, count : Int]
    /\ \A p \in Pool : moves[p].to # 0 => moves[p].to \in InBand

BandSummed ==
    /\ phase = "sum" => sums.band + SumFunctionOnSet(Bands, todo) = Total(Bands)
    /\ phase # "sum" => sums.band = Total(Bands) /\ sums.slots = Total(Weights)

Untouched ==
    /\ phase = "sum" => noted = {} /\ \A p \in Pool : funded[p] = 0
    /\ phase \in {"sum", "fund"} => \A p \in Pool : moves[p] = NoMove

(* What a tier that is not funded was refused for.                         *)
Refused(q) ==
    \/ <<q, "entry_gate_refused">> \in noted
    \/ EntrySize(q, Target(q)) < EffectiveMinimum
    \/ <<q, "insufficient_cash">> \in noted

Tranche(q) ==
    /\ q \in Slotted \ Waiting /\ Deployable > 0
    /\ funded[q] = EntrySize(q, Target(q)) /\ funded[q] >= EffectiveMinimum

(* A tier without the cash for it: at the minimum size, which is what every *)
(* worse tier asks for too.                                                *)
Starved(q) ==
    /\ q \in Slotted \ Waiting
    /\ TierShare(q) < EffectiveMinimum /\ left < Cost(Target(q))
    /\ \A r \in Slotted : Better(q, r) => funded[r] = 0

Funding ==
    phase # "sum" =>
        /\ phase = "fund" => /\ Deployable > 0
                             /\ \A r \in Slotted \ todo, t \in todo : Better(r, t)
        /\ \A q \in Pool : funded[q] > 0 => Tranche(q)
        /\ left + Total(Costs) <= Deployable
        /\ Deployable > 0 => \A q \in Slotted \ Waiting : funded[q] = 0 => Refused(q)
        /\ \A q \in Pool : <<q, "insufficient_cash">> \in noted => Starved(q)

(* Nothing worse than a hopeless pool is funded.                           *)
Hopeless(q) == q \notin Slotted \/ <<q, "insufficient_cash">> \in noted

Claiming ==
    phase \notin {"sum", "fund"} =>
        /\ \A q \in Claimed, f \in InBand \ Claimed : Better(q, f)
        /\ Total(Growth) <= Total(ClaimedShares)
        /\ Capped /\ Deployable > 0 =>
               \/ GateOpened
               \/ \E q \in Claimed : Hopeless(q)
               \/ Total(Growth) <= Total(ClaimedCosts)
        /\ phase = "move" => \A p \in todo : moves[p] = NoMove

(* What the plan has still to commit.                                      *)
Ahead == IF phase = "entries" THEN SumFunctionOnSet(Entries, todo)
         ELSE IF phase = "moves" THEN SumFunctionOnSet(Growth, todo) + Total(Entries)
         ELSE Total(Growth) + Total(Entries)

Coming == IF phase = "entries" THEN Cardinality(todo) ELSE Cardinality(Entering)

Projecting == {"exits", "inventory", "recenters", "moves", "entries"}

Projected ==
    phase \in Projecting =>
        /\ phase = "moves" => todo \subseteq Moving
        /\ phase = "entries" => todo \subseteq Entering
        /\ proj.usd + Ahead <= sums.committed + Total(Growth) + Total(Entries)
        /\ proj.count + Coming <= Cardinality(Held) + Cardinality(Entering)

PlanInv == TierInv /\ PlanTyped /\ BandSummed /\ Untouched /\ Funding /\ Claiming /\ Projected
           /\ PlannerNeverRaises

-----------------------------------------------------------------------------
(* The ranking.                                                            *)

(* Any two pools are ranked one way, and the better has the larger APR.    *)
LEMMA Ranking ==
    ASSUME TierTyped
    PROVE  /\ \A p, q \in Pool : ~(Better(p, q) /\ Better(q, p))
           /\ \A p, q \in Pool : p # q => Better(p, q) \/ Better(q, p)
           /\ \A p, q, r \in Pool : Better(p, q) /\ Better(q, r) => Better(p, r)
           /\ \A p, q \in Pool : Better(p, q) => in.offer[q].apr <= in.offer[p].apr
<1>1. \A p \in Pool : in.offer[p].apr \in Nat /\ p \in Nat
  BY BookFacts, Parameters DEF TierTyped
<1> QED
  BY <1>1 DEF Better

(* The slots are the best of the band, and no more than are open.          *)
LEMMA SlotsAreBest ==
    ASSUME TierTyped, NEW q \in InBand, NEW f \in Slotted, Better(q, f)
    PROVE  q \in Slotted
<1> DEFINE A == {r \in InBand : Better(r, q)}
           B == {r \in InBand : Better(r, f)}
<1>1. InBand \subseteq Pool /\ f \in InBand /\ Cardinality(B) < OpenSlots
  BY DEF InBand, Candidates, Slotted
<1>2. A \subseteq B
  BY <1>1, Ranking
<1>3. IsFiniteSet(B) /\ IsFiniteSet(A)
  BY <1>1, Parameters, FS_Subset
<1>4. IsFiniteSet(Held)
  BY Parameters, FS_Subset DEF Held
<1>5. Cardinality(A) <= Cardinality(B) /\ Cardinality(A) \in Nat /\ Cardinality(B) \in Nat
  BY <1>2, <1>3, FS_Subset, FS_CardinalityType
<1>6. OpenSlots \in Int
  BY <1>4, Parameters, FS_CardinalityType DEF OpenSlots
<1>7. Cardinality(A) < OpenSlots
  BY <1>1, <1>5, <1>6
<1> QED
  BY <1>7 DEF Slotted

(* Slots are funded only while positions are open.                         *)
LEMMA SlotCount ==
    ASSUME TierTyped, Slotted # {}
    PROVE  /\ Cardinality(Slotted) <= OpenSlots /\ OpenSlots > 0 /\ OpenSlots \in Nat
           /\ Cardinality(Slotted) <= MaxPositions
           /\ Cardinality(Held) \in Nat /\ OpenSlots = MaxPositions - Cardinality(Held)
<1> DEFINE Worse(w) == {r \in Slotted : Better(w, r)}
           C == {Worse(w) : w \in Slotted}
<1>1. Slotted \subseteq Pool /\ IsFiniteSet(Slotted) /\ InBand \subseteq Pool /\ Slotted \subseteq InBand
  BY SlottedFacts DEF InBand, Candidates, Slotted
<1>2. PICK w \in Slotted : \A v \in Slotted : Worse(v) \subseteq Worse(w) => Worse(v) = Worse(w)
  <2>1. C \subseteq SUBSET Slotted /\ C # {}
    OBVIOUS
  <2>2. PICK s \in C : \A t \in C : t \subseteq s => t = s
    <3> HIDE DEF C
    <3> QED
      BY <1>1, <2>1, Smallest
  <2>3. PICK w \in Slotted : s = Worse(w)
    BY <2>2
  <2>4. ASSUME NEW v \in Slotted, Worse(v) \subseteq Worse(w) PROVE Worse(v) = Worse(w)
    <3>1. Worse(v) \in C
      OBVIOUS
    <3> HIDE DEF C, Worse
    <3> QED
      BY <2>2, <2>3, <2>4, <3>1
  <2> QED
    BY <2>3, <2>4
<1>3. ASSUME NEW v \in Slotted \ {w} PROVE Better(v, w)
  <2> SUFFICES ASSUME Better(w, v) PROVE FALSE
    BY <1>1, Ranking
  <2>1. Worse(v) \subseteq Worse(w)
    BY <1>1, Ranking
  <2>2. v \in Worse(w) /\ v \notin Worse(v)
    BY <1>1, Ranking
  <2> QED
    BY <1>2, <2>1, <2>2
<1> DEFINE B == {r \in InBand : Better(r, w)}
<1>4. Slotted \ {w} \subseteq B /\ IsFiniteSet(B)
  BY <1>1, <1>3, Parameters, FS_Subset
<1>5. Cardinality(B) < OpenSlots
  BY DEF Slotted
<1>6. IsFiniteSet(Held) /\ Cardinality(Held) \in Nat
  BY Parameters, FS_Subset, FS_CardinalityType DEF Held
<1>7. OpenSlots = MaxPositions - Cardinality(Held) /\ OpenSlots \in Int
  BY <1>6, Parameters DEF OpenSlots
<1>8. Cardinality(Slotted \ {w}) <= Cardinality(B) /\ Cardinality(B) \in Nat
  <2> HIDE DEF B
  <2> QED
    BY <1>4, FS_Subset, FS_CardinalityType
<1>9. Cardinality(Slotted \ {w}) = Cardinality(Slotted) - 1
  BY <1>1, FS_RemoveElement
<1>10. Cardinality(Slotted) \in Nat
  BY <1>1, FS_CardinalityType
<1> HIDE DEF B
<1> QED
  BY <1>5, <1>6, <1>7, <1>8, <1>9, <1>10, Parameters

LEMMA NoSlots ==
    ASSUME TierTyped, ~(OpenSlots > 0)
    PROVE  Slotted = {}
BY SlotCount

(* The weight of the slots is within the weight of the band.               *)
LEMMA BandFacts ==
    ASSUME TierTyped
    PROVE  /\ InBand \subseteq Pool /\ Slotted \subseteq InBand
           /\ \A p \in Pool : Bands[p] \in Nat /\ Weights[p] \in Nat /\ Weights[p] <= Bands[p]
           /\ \A p \in InBand : Bands[p] = in.offer[p].apr /\ Bands[p] \in Nat \ {0}
           /\ Total(Bands) \in Nat /\ Total(Weights) \in Nat
           /\ Total(Weights) <= Total(Bands)
           /\ \A p \in InBand : in.offer[p].apr <= Total(Bands)
           /\ \A p \in Slotted : in.offer[p].apr <= Total(Weights)
<1>1. InBand \subseteq Pool /\ Slotted \subseteq InBand
  BY DEF InBand, Candidates, Slotted
<1>2. \A p \in Pool : in.offer[p].apr \in Nat \ {0}
  BY BookFacts DEF TierTyped
<1>3. \A p \in Pool : Bands[p] \in Nat /\ Weights[p] \in Nat /\ Weights[p] <= Bands[p]
  BY <1>1, <1>2 DEF Bands, Weights, Weighed
<1>4. \A p \in InBand : Bands[p] = in.offer[p].apr /\ Bands[p] \in Nat \ {0}
  BY <1>1, <1>2 DEF Bands, Weighed
<1>5. Total(Bands) \in Nat /\ Total(Weights) \in Nat /\ Total(Weights) <= Total(Bands)
  BY <1>3, Parameters, SumIsNat, SumGrows DEF Total
<1>6. ASSUME NEW p \in Pool
      PROVE  Bands[p] <= Total(Bands) /\ Weights[p] <= Total(Weights)
  <2>1. IsFiniteSet(Pool \ {p})
    BY Parameters, FS_Subset
  <2>2. /\ Total(Bands) = Bands[p] + SumFunctionOnSet(Bands, Pool \ {p})
        /\ Total(Weights) = Weights[p] + SumFunctionOnSet(Weights, Pool \ {p})
    <3>1. IsFiniteSet(Pool) /\ \A q \in Pool : Bands[q] \in Int /\ Weights[q] \in Int
      BY <1>3, Parameters
    <3> QED
      BY <3>1, SumTakesOut DEF Total
  <2>3. SumFunctionOnSet(Bands, Pool \ {p}) \in Nat /\ SumFunctionOnSet(Weights, Pool \ {p}) \in Nat
    BY <1>3, <2>1, SumIsNat
  <2> QED
    BY <1>3, <2>2, <2>3
<1>7. \A p \in Slotted : Weights[p] = in.offer[p].apr
  BY SlottedFacts
<1> QED
  BY <1>1, <1>3, <1>4, <1>5, <1>6, <1>7

-----------------------------------------------------------------------------
(* Sizes.                                                                  *)

(* The cost of a tranche of the least size exceeds it by a unit for every  *)
(* tranche, when the swap buffer on that size is worth that much.          *)
BufferCovers == MinFloor * Buffer >= MaxPositions * Scale

LEMMA CostAbove ==
    ASSUME BufferCovers, NEW x \in Nat, x >= MinFloor, NEW n \in Nat, n <= MaxPositions
    PROVE  Cost(x) >= x + n
<1>1. Scale \in Nat \ {0} /\ Buffer \in Nat /\ MinFloor \in Nat /\ MaxPositions \in Nat
  BY Parameters
<1>2. Cost(x) \in Nat /\ x * (Scale + Buffer) <= Cost(x) * Scale
  BY CostIsNat
<1>3. MinFloor * Buffer <= x * Buffer /\ n * Scale <= MaxPositions * Scale
  BY <1>1, Scaled
<1> DEFINE xb == x * Buffer
           xs == x * Scale
           ns == n * Scale
           ms == MaxPositions * Scale
           fb == MinFloor * Buffer
           cs == Cost(x) * Scale
<1>4. /\ xb \in Nat /\ xs \in Nat /\ ns \in Nat /\ ms \in Nat /\ fb \in Nat /\ cs \in Nat
      /\ fb <= xb /\ ns <= ms /\ ms <= fb
  BY <1>1, <1>2, <1>3, Product DEF BufferCovers
<1>5. x * (Scale + Buffer) = xs + xb /\ Scale * (x + n) = xs + ns /\ cs = Scale * Cost(x)
  BY <1>1, <1>2
<1>6. xs + xb <= cs
  BY <1>2, <1>5
<1> HIDE DEF xb, xs, ns, ms, fb, cs
<1>7. xs + ns <= cs
  BY <1>4, <1>6
<1>8. Scale * (x + n) <= Scale * Cost(x)
  BY <1>5, <1>7
<1>9. x + n <= Cost(x)
  BY <1>1, <1>2, <1>8, Unscaled
<1> QED
  BY <1>2, <1>9

(* A tranche costs its size at least.                                      *)
LEMMA CostCovers ==
    ASSUME NEW x \in Nat
    PROVE  x <= Cost(x)
<1>1. Scale \in Nat \ {0} /\ Buffer \in Nat
  BY Parameters
<1>2. Cost(x) \in Nat /\ x * (Scale + Buffer) <= Cost(x) * Scale /\ x * (Scale + Buffer) \in Nat
  BY CostIsNat
<1>3. x * Scale <= x * (Scale + Buffer)
  <2>1. x * (Scale + Buffer) = x * Scale + x * Buffer /\ x * Buffer \in Nat /\ x * Scale \in Nat
    BY <1>1, Product
  <2> QED
    BY <2>1
<1>4. Scale * x <= Scale * Cost(x)
  <2> DEFINE a == x * Scale
             b == x * (Scale + Buffer)
             c == Cost(x) * Scale
  <2>1. a \in Nat /\ b \in Nat /\ c \in Nat /\ a <= b /\ b <= c
    BY <1>1, <1>2, <1>3, Product
  <2>2. Scale * x = a /\ Scale * Cost(x) = c
    BY <1>1, <1>2
  <2> HIDE DEF a, b, c
  <2> QED
    BY <2>1, <2>2
<1> QED
  BY <1>1, <1>2, <1>4, Unscaled

(* A share of the whole budget by a larger weight exceeds a share of the   *)
(* budget less n units by at most n.                                       *)
LEMMA ShareGap ==
    ASSUME NEW x \in Nat, NEW t \in Nat, NEW n \in Nat, NEW net \in Nat, NEW d \in Nat,
           NEW a \in Nat, NEW s \in Nat, NEW b \in Nat, NEW u \in Nat, NEW k \in Nat,
           u <= k, a <= s, s <= b, d <= net + n,
           x * (k * b) <= (d * u) * a, (net * u) * a < t * (k * s) + k * s
    PROVE  x <= t + n
<1> SUFFICES ASSUME t + n + 1 <= x PROVE FALSE
  OBVIOUS
<1> DEFINE ks == k * s
           kb == k * b
           ua == u * a
           tks == t * ks
           nks == n * ks
           na == net * ua
           nua == n * ua
           da == d * ua
           xks == x * ks
           xkb == x * kb
<1>1. ks \in Nat /\ kb \in Nat /\ ua \in Nat
  BY Product
<1>2. ks <= kb
  <2>1. s * k <= b * k
    BY Scaled
  <2> QED
    BY <2>1
<1>3. ua <= ks
  <2>1. u * a <= k * a
    BY Scaled
  <2>2. a * k <= s * k
    BY Scaled
  <2>3. k * a \in Nat /\ k * s \in Nat /\ a * k = k * a /\ s * k = k * s
    BY Product
  <2>4. u * a \in Nat
    BY Product
  <2> QED
    BY <2>1, <2>2, <2>3, <2>4
<1> HIDE DEF ks, kb, ua
<1>4. (t + n + 1) * ks <= xks
  <2>1. t + n + 1 \in Int /\ x \in Int
    OBVIOUS
  <2> QED
    BY <1>1, <2>1, Scaled
<1>5. xks <= xkb
  <2>1. ks * x <= kb * x
    BY <1>1, <1>2, Scaled
  <2> QED
    BY <1>1, <2>1
<1>6. (d * u) * a = da /\ (net * u) * a = na
  BY <1>1 DEF ua
<1>7. da <= na + nua
  <2>1. d * ua <= (net + n) * ua
    BY <1>1, Scaled
  <2>2. (net + n) * ua = na + nua
    BY <1>1
  <2> QED
    BY <2>1, <2>2
<1>8. nua <= nks
  <2>1. ua * n <= ks * n
    BY <1>1, <1>3, Scaled
  <2> QED
    BY <1>1, <2>1
<1>9. (t + n + 1) * ks = tks + nks + ks
  BY <1>1
<1>10. xkb <= da /\ na < tks + ks
  BY <1>6 DEF kb, ks
<1>11. /\ tks \in Nat /\ nks \in Nat /\ na \in Nat /\ nua \in Nat /\ da \in Nat
       /\ xks \in Nat /\ xkb \in Nat
  BY <1>1, Product
<1> HIDE DEF tks, nks, na, nua, da, xks, xkb
<1> QED
  BY <1>1, <1>4, <1>5, <1>7, <1>8, <1>9, <1>10, <1>11

(* The bounds a tranche is sized by.                                       *)
LEMMA Budgets ==
    ASSUME TierTyped
    PROVE  /\ Deployable \in Nat /\ ReportedDeployable \in Nat /\ ReportedDeployable <= Deployable
           /\ Headroom \in Int /\ ConcentrationBound \in Nat /\ EffectiveMinimum \in Nat
           /\ sums.committed <= TotalCap => Headroom >= 0 /\ Deployable <= Headroom
           /\ Capped => EffectiveMinimum >= MinFloor
           /\ ~Capped => EffectiveMinimum = 0
<1>1. in.cash \in Nat /\ in.equity \in Nat /\ sums.committed \in Nat
  BY BookFacts DEF TierTyped
<1>2. Headroom \in Int /\ (sums.committed <= TotalCap => Headroom >= 0)
  BY <1>1, Parameters DEF Headroom
<1>3. Deployable \in Nat /\ (Headroom >= 0 => Deployable <= Headroom)
  BY <1>1, <1>2 DEF Deployable, Lesser
<1>4. ReportedDeployable \in Nat /\ ReportedDeployable <= Deployable
  BY <1>3 DEF ReportedDeployable
<1>5. ConcentrationBound \in Nat
  <2>1. Concentration * in.equity \in Nat
    BY <1>1, Parameters, Product
  <2> QED
    BY <2>1, Parameters, Division DEF ConcentrationBound
<1>6. /\ EffectiveMinimum \in Nat /\ (~Capped => EffectiveMinimum = 0)
      /\ Capped => EffectiveMinimum >= MinFloor
  BY <1>5, Parameters DEF EffectiveMinimum, Greater, Lesser
<1> QED
  BY <1>2, <1>3, <1>4, <1>5, <1>6

(* The share of a reallocation and what it is rounded from.                *)
LEMMA BandShares ==
    ASSUME TierTyped, sums.band = Total(Bands), NEW q \in InBand
    PROVE  /\ BandShare(q) \in Nat
           /\ BandShare(q) * ((Scale + Buffer) * sums.band) <= (ReportedDeployable * Scale) * in.offer[q].apr
<1> DEFINE n == ReportedDeployable * Scale * in.offer[q].apr
           d == (Scale + Buffer) * sums.band
<1>1. in.offer[q].apr \in Nat \ {0} /\ sums.band \in Nat \ {0}
  BY BandFacts, BookFacts DEF TierTyped
<1>2. d \in Nat \ {0}
  BY <1>1, Parameters
<1>3. n \in Nat
  <2>1. ReportedDeployable * Scale \in Nat
    BY Budgets, Parameters, Product
  <2> QED
    BY <1>1, <2>1, Product
<1>4. BandShare(q) = n \div d
  BY DEF BandShare
<1> HIDE DEF n, d
<1>5. BandShare(q) \in Nat /\ BandShare(q) * d <= n
  BY <1>2, <1>3, <1>4, Division
<1> QED
  BY <1>5 DEF n, d

(* The share of a tier and what it is rounded from.                        *)
LEMMA TierShares ==
    ASSUME TierTyped, sums.slots = Total(Weights), NEW q \in Slotted
    PROVE  /\ TierShare(q) \in Nat
           /\ TierShare(q) * ((Scale + Buffer) * sums.slots) <= (Net * Scale) * in.offer[q].apr
           /\ (Net * Scale) * in.offer[q].apr <
                  TierShare(q) * ((Scale + Buffer) * sums.slots) + (Scale + Buffer) * sums.slots
<1> DEFINE n == Net * Scale * in.offer[q].apr
           d == (Scale + Buffer) * sums.slots
<1>1. in.offer[q].apr \in Nat \ {0} /\ sums.slots \in Nat \ {0}
  BY BandFacts, BookFacts DEF TierTyped
<1>2. d \in Nat \ {0}
  BY <1>1, Parameters
<1>3. n \in Nat
  <2>1. Net * Scale \in Nat
    BY DeployableIsNat, Parameters, Product
  <2> QED
    BY <1>1, <2>1, Product
<1>4. TierShare(q) = n \div d
  BY DEF TierShare, Net
<1> HIDE DEF n, d
<1>5. TierShare(q) \in Nat /\ TierShare(q) * d <= n /\ n < TierShare(q) * d + d
  BY <1>2, <1>3, <1>4, Division
<1> QED
  BY <1>5 DEF n, d

(* A reallocation's share exceeds the tier's by the rounding set aside.    *)
LEMMA ShareWithin ==
    ASSUME TierTyped, sums.band = Total(Bands), sums.slots = Total(Weights), NEW q \in Slotted
    PROVE  BandShare(q) <= TierShare(q) + Cardinality(Slotted)
<1>1. q \in InBand /\ in.offer[q].apr \in Nat /\ in.offer[q].apr <= sums.slots
      /\ sums.slots \in Nat /\ sums.band \in Nat /\ sums.slots <= sums.band
  BY BandFacts
<1>2. /\ BandShare(q) \in Nat
      /\ BandShare(q) * ((Scale + Buffer) * sums.band) <= (ReportedDeployable * Scale) * in.offer[q].apr
  BY <1>1, BandShares
<1>3. Cardinality(Slotted) \in Nat
  BY SlottedFacts
<1>4. Net \in Nat /\ ReportedDeployable \in Nat /\ ReportedDeployable <= Net + Cardinality(Slotted)
  BY <1>3, Budgets, DeployableIsNat DEF Net, Greater
<1>5. Scale \in Nat /\ Scale + Buffer \in Nat /\ Scale <= Scale + Buffer
  BY Parameters
<1>6. /\ TierShare(q) \in Nat
      /\ (Net * Scale) * in.offer[q].apr <
                  TierShare(q) * ((Scale + Buffer) * sums.slots) + (Scale + Buffer) * sums.slots
  BY TierShares
<1> DEFINE x == BandShare(q)
           t == TierShare(q)
           n == Cardinality(Slotted)
           net == Net
           d == ReportedDeployable
           a == in.offer[q].apr
           s == sums.slots
           b == sums.band
           u == Scale
           k == Scale + Buffer
<1>7. /\ x \in Nat /\ t \in Nat /\ n \in Nat /\ net \in Nat /\ d \in Nat /\ a \in Nat
      /\ s \in Nat /\ b \in Nat /\ u \in Nat /\ k \in Nat
  BY <1>1, <1>2, <1>3, <1>4, <1>5, <1>6
<1>8. u <= k /\ a <= s /\ s <= b /\ d <= net + n
  BY <1>1, <1>4, <1>5
<1>9. x * (k * b) <= (d * u) * a /\ (net * u) * a < t * (k * s) + k * s
  BY <1>2, <1>6
<1> HIDE DEF x, t, n, net, d, a, s, b, u, k
<1>10. x <= t + n
  BY <1>7, <1>8, <1>9, ShareGap
<1> QED
  BY <1>10 DEF x, t, n

(* What a reallocation may commit, and what of it is growth.               *)
LEMMA MoveBudget ==
    ASSUME TierTyped, sums.band = Total(Bands), NEW q \in InBand, NEW p \in Pool
    PROVE  LET r == ReplacementBudget(p, q)
               size == EntrySize(q, r)
           IN  /\ r \in Nat /\ size \in Nat /\ size <= r /\ size <= in.offer[q].depth
               /\ Capped => r <= ConcentrationBound
               /\ size > in.held[p].value => size <= BandShare(q)
<1> DEFINE r == ReplacementBudget(p, q)
           freed == (in.held[p].value * (Scale - Slippage)) \div (Scale + Buffer)
           v == in.held[p].value
<1>1. v \in Nat /\ in.offer[q].depth \in Nat
  BY BandFacts, BookFacts DEF TierTyped
<1>2. freed \in Nat /\ freed <= v
  <2>1. Scale - Slippage \in Nat /\ Scale + Buffer \in Nat \ {0} /\ Scale - Slippage <= Scale + Buffer
    BY ParameterAssumption DEF ParameterAssumption
  <2> DEFINE n == v * (Scale - Slippage)
             d == Scale + Buffer
  <2>2. n \in Nat
    BY <1>1, <2>1, Product
  <2>3. d \in Nat \ {0}
    BY <2>1
  <2>4. n <= d * v
    <3>1. (Scale - Slippage) * v <= (Scale + Buffer) * v
      BY <1>1, <2>1, Scaled
    <3> QED
      BY <1>1, <2>1, <3>1
  <2> HIDE DEF n, d
  <2>5. n \div d \in Nat /\ (n \div d) * d <= n
    BY <2>2, <2>3, Division
  <2> DEFINE f == n \div d
  <2>6. freed = f
    BY DEF n, d
  <2>7. d * f <= d * v
    <3>1. f \in Nat /\ f * d <= n /\ f * d \in Nat /\ d * v \in Nat
      BY <1>1, <2>3, <2>5, Product
    <3>2. d * f = f * d
      BY <2>3, <3>1
    <3> HIDE DEF f
    <3> QED
      BY <2>2, <2>4, <3>1, <3>2
  <2> HIDE DEF f
  <2>8. f \in Nat
    BY <2>5 DEF f
  <2>9. f <= v
    BY <1>1, <2>3, <2>7, <2>8, Unscaled
  <2> QED
    BY <2>6, <2>8, <2>9
<1>3. BandShare(q) \in Nat /\ ConcentrationBound \in Nat /\ Headroom \in Int
  BY BandShares, Budgets
<1> HIDE DEF freed, v
<1> DEFINE wish == Greater(BandShare(q), freed)
           bound == IF Capped THEN Lesser(wish, ConcentrationBound) ELSE wish
<1>4. r = Greater(0, Lesser(bound, Headroom + v))
  BY DEF ReplacementBudget, BandShare, freed, v
<1>5. wish \in Nat /\ (wish > v => wish <= BandShare(q))
  BY <1>1, <1>2, <1>3 DEF Greater
<1> HIDE DEF wish
<1>6. bound \in Nat /\ bound <= wish /\ (Capped => bound <= ConcentrationBound)
  BY <1>3, <1>5 DEF Lesser
<1> HIDE DEF bound, r
<1>7. r \in Nat /\ r <= bound
  BY <1>1, <1>3, <1>4, <1>6 DEF Greater, Lesser
<1>8. EntrySize(q, r) \in Nat /\ EntrySize(q, r) <= r /\ EntrySize(q, r) <= in.offer[q].depth
  BY <1>1, <1>7 DEF EntrySize, Lesser
<1>9. Capped => r <= ConcentrationBound
  BY <1>3, <1>6, <1>7
<1>10. EntrySize(q, r) > v => EntrySize(q, r) <= BandShare(q)
  BY <1>1, <1>3, <1>5, <1>6, <1>7, <1>8
<1> QED
  BY <1>7, <1>8, <1>9, <1>10 DEF r, v

-----------------------------------------------------------------------------
(* What the two loops commit together.                                     *)

(* The amounts of a plan are natural numbers.                              *)
LEMMA PlanNats ==
    ASSUME TierTyped, PlanTyped
    PROVE  /\ \A p \in Pool : /\ Growth[p] \in Nat /\ Entries[p] \in Nat /\ Costs[p] \in Nat
                              /\ ClaimedCosts[p] \in Nat
                              /\ funded[p] \in Nat /\ in.held[p].value \in Nat
                              /\ moves[p].size \in Nat
           /\ Total(Growth) \in Nat /\ Total(Entries) \in Nat /\ Total(Costs) \in Nat
           /\ Total(ClaimedCosts) \in Nat
           /\ Claimed \subseteq InBand /\ Claimed \subseteq Pool
           /\ Entering \subseteq Pool /\ IsFiniteSet(Entering)
           /\ \A q \in Entering : funded[q] > 0 /\ q \notin Claimed /\ Entries[q] = funded[q]
<1>1. ASSUME NEW p \in Pool
      PROVE  /\ funded[p] \in Nat /\ in.held[p].value \in Nat /\ moves[p].size \in Nat
             /\ moves[p].to \in Pool \cup {0}
  <2>1. moves[p] \in [to : Pool \cup {0}, size : Nat]
    BY DEF PlanTyped
  <2> QED
    BY <2>1, BookFacts DEF PlanTyped, TierTyped
<1>2. ASSUME NEW p \in Pool
      PROVE  Growth[p] \in Nat /\ Entries[p] \in Nat /\ Costs[p] \in Nat /\ ClaimedCosts[p] \in Nat
  <2>1. Growth[p] \in Nat /\ Entries[p] \in Nat
    BY <1>1 DEF Growth, Entries
  <2>2. Costs[p] \in Nat
    BY <1>1, CostIsNat DEF Costs
  <2>3. ClaimedCosts[p] \in Nat
    BY <2>2 DEF ClaimedCosts
  <2> QED
    BY <2>1, <2>2, <2>3
<1>3. IsFiniteSet(Pool)
  BY Parameters
<1>4. Total(Growth) \in Nat /\ Total(Entries) \in Nat /\ Total(Costs) \in Nat
      /\ Total(ClaimedCosts) \in Nat
  <2>1. Total(Growth) \in Nat
    BY <1>2, <1>3, SumIsNat DEF Total
  <2>2. Total(Entries) \in Nat
    BY <1>2, <1>3, SumIsNat DEF Total
  <2>3. Total(Costs) \in Nat
    BY <1>2, <1>3, SumIsNat DEF Total
  <2>4. Total(ClaimedCosts) \in Nat
    BY <1>2, <1>3, SumIsNat DEF Total
  <2> QED
    BY <2>1, <2>2, <2>3, <2>4
<1>5. Claimed \subseteq InBand /\ Claimed \subseteq Pool
  BY BandFacts DEF Claimed, PlanTyped
<1>6. Entering \subseteq Pool /\ \A q \in Entering : funded[q] > 0 /\ q \notin Claimed
  BY DEF Entering
<1>7. IsFiniteSet(Entering) /\ \A q \in Entering : Entries[q] = funded[q]
  BY <1>3, <1>6, FS_Subset DEF Entries
<1> QED
  BY <1>1, <1>2, <1>4, <1>5, <1>6, <1>7

(* A fraction of an amount is within it.                                   *)
LEMMA Cancel ==
    ASSUME NEW x \in Nat, NEW d \in Nat, NEW b \in Nat \ {0}, NEW u \in Nat, NEW k \in Nat \ {0},
           u <= k, x * (k * b) <= (d * u) * b
    PROVE  x <= d
<1> DEFINE kb == k * b
           ub == u * b
<1>1. kb \in Nat \ {0} /\ ub \in Nat /\ ub <= kb
  <2>1. kb \in Nat /\ ub \in Nat
    BY Product
  <2>2. ub <= kb
    BY Scaled
  <2>3. kb # 0
    OBVIOUS
  <2> QED
    BY <2>1, <2>2, <2>3
<1>2. (d * u) * b = d * ub
  OBVIOUS
<1> HIDE DEF kb, ub
<1>3. d * ub <= d * kb
  <2>1. ub * d <= kb * d
    BY <1>1, Scaled
  <2> QED
    BY <1>1, <2>1
<1>4. kb * x <= kb * d
  <2> DEFINE p == x * kb
             q == d * ub
             r == d * kb
  <2>1. p \in Nat /\ q \in Nat /\ r \in Nat
    BY <1>1, Product
  <2>2. p <= q /\ q <= r
    BY <1>2, <1>3 DEF kb
  <2>3. kb * x = p /\ kb * d = r
    BY <1>1
  <2> HIDE DEF p, q, r
  <2> QED
    BY <2>1, <2>2, <2>3
<1> QED
  BY <1>1, <1>4, Unscaled

(* What the reallocations may claim.                                       *)
LEMMA ClaimedShareFacts ==
    ASSUME TierTyped, PlanTyped, BandSummed, phase # "sum"
    PROVE  /\ \A q \in Pool : ClaimedShares[q] \in Nat
           /\ Total(ClaimedShares) \in Nat
           /\ \A q \in Claimed : ClaimedShares[q] = BandShare(q)
           /\ \A q \in Pool \ Claimed : ClaimedShares[q] = 0
<1>1. \A q \in Claimed : BandShare(q) \in Nat
  BY PlanNats, BandShares DEF BandSummed
<1>2. \A q \in Pool : ClaimedShares[q] \in Nat
  BY <1>1 DEF ClaimedShares
<1>3. Total(ClaimedShares) \in Nat
  BY <1>2, Parameters, SumIsNat DEF Total
<1>4. \A q \in Claimed : ClaimedShares[q] = BandShare(q)
  BY PlanNats DEF ClaimedShares
<1> QED
  BY <1>2, <1>3, <1>4 DEF ClaimedShares

(* Without a tranche to pay the reallocations share the budget.            *)
LEMMA SharesFit ==
    ASSUME TierTyped, PlanTyped, BandSummed, phase # "sum", Entering = {}
    PROVE  Total(ClaimedShares) + Total(Entries) <= Deployable
<1> DEFINE d == (Scale + Buffer) * sums.band
           k == ReportedDeployable * Scale
<1>1. Scale \in Nat \ {0} /\ Scale + Buffer \in Nat \ {0} /\ Scale <= Scale + Buffer
  BY Parameters
<1>2. sums.band = Total(Bands) /\ sums.band \in Nat /\ ReportedDeployable \in Nat
      /\ Deployable \in Nat /\ ReportedDeployable <= Deployable
  BY BandFacts, Budgets DEF BandSummed
<1>3. d \in Nat /\ k \in Nat
  BY <1>1, <1>2, Product
<1>4. \A q \in Pool : Entries[q] = 0
  BY DEF Entries
<1>5. \A q \in Pool : ClaimedShares[q] \in Nat /\ Entries[q] \in Nat /\ Bands[q] \in Nat
  BY <1>4, ClaimedShareFacts, BandFacts
<1>6. ASSUME NEW q \in Pool
      PROVE  (ClaimedShares[q] + Entries[q]) * d <= k * Bands[q]
  <2>1. CASE q \in Claimed
    <3>1. q \in InBand /\ Bands[q] = in.offer[q].apr
      BY <2>1, PlanNats, BandFacts
    <3>2. BandShare(q) * d <= k * in.offer[q].apr
      BY <1>2, <3>1, BandShares
    <3> HIDE DEF d, k
    <3>3. ClaimedShares[q] + Entries[q] = BandShare(q)
      BY <1>4, <1>5, <2>1, ClaimedShareFacts
    <3> QED
      BY <3>1, <3>2, <3>3
  <2>2. CASE q \notin Claimed
    <3>1. ClaimedShares[q] + Entries[q] = 0
      BY <1>4, <2>2, ClaimedShareFacts
    <3>2. 0 * d = 0 /\ k * Bands[q] \in Nat
      BY <1>3, <1>5, Product
    <3> HIDE DEF d, k
    <3> QED
      BY <3>1, <3>2
  <2> QED
    BY <2>1, <2>2
<1>7. (Total(ClaimedShares) + Total(Entries)) * d <= k * Total(Bands)
  <2> HIDE DEF d, k
  <2> QED
    BY <1>3, <1>5, <1>6, Parameters, ProRata DEF Total
<1>8. Total(ClaimedShares) \in Nat /\ Total(Entries) \in Nat
  BY ClaimedShareFacts, PlanNats
<1>9. CASE sums.band = 0
  <2>1. InBand = {}
    <3>1. \A p \in InBand : in.offer[p].apr <= 0 /\ in.offer[p].apr \in Nat \ {0}
      BY <1>2, <1>9, BandFacts, BookFacts DEF TierTyped
    <3> QED
      BY <3>1
  <2>2. \A q \in Pool : ClaimedShares[q] = 0
    BY <2>1, PlanNats, ClaimedShareFacts
  <2>3. Total(ClaimedShares) = 0 /\ Total(Entries) = 0
    BY <1>4, <2>2, Parameters, SumOfZeros DEF Total
  <2> QED
    BY <1>2, <2>3
<1>10. CASE sums.band # 0
  <2> DEFINE x == Total(ClaimedShares) + Total(Entries)
             b == sums.band
             e == ReportedDeployable
             u == Scale
             c == Scale + Buffer
  <2>1. x * (c * b) <= (e * u) * b
    BY <1>2, <1>7
  <2>2. x \in Nat /\ e \in Nat /\ b \in Nat \ {0} /\ u \in Nat /\ c \in Nat \ {0} /\ u <= c
    BY <1>1, <1>2, <1>8, <1>10
  <2> HIDE DEF x, b, e, u, c
  <2>3. x <= e
    BY <2>1, <2>2, Cancel
  <2> QED
    BY <1>2, <1>8, <2>3 DEF x, e
<1> QED
  BY <1>9, <1>10

(* Below the activation equity tranches and reallocations share it.        *)
LEMMA UncappedFits ==
    ASSUME TierTyped, PlanTyped, BandSummed, phase # "sum", ~Capped,
           \A q \in Entering : q \in Slotted /\ funded[q] <= Target(q),
           \A q \in Claimed : q \in Slotted,
           Slotted # {}
    PROVE  Total(ClaimedShares) + Total(Entries) <= Deployable
<1> DEFINE d == (Scale + Buffer) * sums.slots
           k == Deployable * Scale
<1>1. Scale \in Nat \ {0} /\ Scale + Buffer \in Nat \ {0} /\ Scale <= Scale + Buffer
  BY Parameters
<1>2. /\ sums.band = Total(Bands) /\ sums.band \in Nat /\ sums.slots = Total(Weights)
      /\ sums.slots \in Nat \ {0} /\ sums.slots <= sums.band
      /\ Deployable \in Nat /\ ReportedDeployable \in Nat /\ ReportedDeployable <= Deployable
      /\ Net \in Nat /\ Net <= Deployable
  <2>1. PICK q \in Slotted : TRUE
    OBVIOUS
  <2>2. in.offer[q].apr \in Nat \ {0} /\ in.offer[q].apr <= Total(Weights)
    BY <2>1, BandFacts, BookFacts DEF TierTyped
  <2>3. Net \in Nat /\ Net <= Deployable
    BY DeployableIsNat, SlottedFacts DEF Net, Greater
  <2> QED
    BY <2>2, <2>3, BandFacts, Budgets DEF BandSummed
<1>3. d \in Nat /\ k \in Nat
  BY <1>1, <1>2, Product
<1>4. \A q \in Pool : ClaimedShares[q] \in Nat /\ Entries[q] \in Nat /\ Weights[q] \in Nat
  BY ClaimedShareFacts, PlanNats, BandFacts
<1>5. ASSUME NEW q \in Pool
      PROVE  (ClaimedShares[q] + Entries[q]) * d <= k * Weights[q]
  <2>1. CASE q \in Claimed
    <3>1. q \in Slotted /\ q \in InBand /\ Weights[q] = in.offer[q].apr /\ in.offer[q].apr \in Nat
      BY <2>1, SlottedFacts, BandFacts, BookFacts DEF TierTyped
    <3>2. ClaimedShares[q] + Entries[q] = BandShare(q)
      BY <1>4, <2>1, ClaimedShareFacts DEF Entries, Entering
    <3> DEFINE x == BandShare(q)
               a == in.offer[q].apr
               c == Scale + Buffer
               cs == c * sums.slots
               cb == c * sums.band
               e == ReportedDeployable * Scale
    <3>3. x \in Nat /\ x * cb <= e * a
      BY <1>2, <3>1, BandShares
    <3>4. cs <= cb /\ cs \in Nat /\ cb \in Nat
      <4>1. sums.slots * c <= sums.band * c
        BY <1>1, <1>2, Scaled
      <4> QED
        BY <1>1, <1>2, <4>1, Product
    <3>5. e <= k /\ e \in Nat
      BY <1>1, <1>2, Scaled, Product
    <3>6. d = cs
      OBVIOUS
    <3> HIDE DEF x, a, cs, cb, e, d, k
    <3>7. x * cs <= x * cb
      <4>1. cs * x <= cb * x
        BY <3>3, <3>4, Scaled
      <4> QED
        BY <3>3, <3>4, <4>1
    <3>8. e * a <= k * a
      BY <1>3, <3>1, <3>5, Scaled DEF a
    <3>9. x * cs \in Nat /\ x * cb \in Nat /\ e * a \in Nat /\ k * a \in Nat
      BY <1>3, <3>1, <3>3, <3>4, <3>5, Product DEF a
    <3>10. x * cs <= k * a
      <4> DEFINE g == x * cs
                 h == x * cb
                 i == e * a
                 j == k * a
      <4>1. g <= h /\ h <= i /\ i <= j /\ g \in Nat /\ h \in Nat /\ i \in Nat /\ j \in Nat
        BY <3>3, <3>7, <3>8, <3>9
      <4> HIDE DEF g, h, i, j
      <4>2. g <= j
        BY <4>1
      <4> QED
        BY <4>2 DEF g, j
    <3> QED
      BY <3>1, <3>2, <3>6, <3>10 DEF x, a
  <2>2. CASE q \in Entering
    <3>1. q \in Slotted /\ Weights[q] = in.offer[q].apr /\ in.offer[q].apr \in Nat
          /\ funded[q] <= Target(q) /\ funded[q] \in Nat /\ Entries[q] = funded[q] /\ q \notin Claimed
      BY <2>2, SlottedFacts, BookFacts, PlanNats DEF TierTyped
    <3>2. ClaimedShares[q] + Entries[q] = funded[q]
      BY <1>4, <3>1, ClaimedShareFacts
    <3>3. EffectiveMinimum = 0 /\ TierShare(q) \in Nat
      BY <1>2, <3>1, Budgets, TierShares
    <3>4. Target(q) = TierShare(q)
      BY <3>3 DEF Target, Greater
    <3> DEFINE x == TierShare(q)
               f == funded[q]
               a == in.offer[q].apr
               e == Net * Scale
    <3>5. x * d <= e * a
      BY <1>2, <3>1, TierShares
    <3>6. e <= k /\ e \in Nat
      BY <1>1, <1>2, Scaled, Product
    <3>7. f <= x /\ f \in Nat /\ x \in Nat /\ a \in Nat
      BY <3>1, <3>3, <3>4
    <3> HIDE DEF x, a, e, d, k, f
    <3>8. f * d <= x * d /\ e * a <= k * a
      BY <1>3, <3>6, <3>7, Scaled
    <3>9. f * d \in Nat /\ x * d \in Nat /\ e * a \in Nat /\ k * a \in Nat
      BY <1>3, <3>6, <3>7, Product
    <3>10. f * d <= k * a
      <4> DEFINE g == f * d
                 h == x * d
                 i == e * a
                 j == k * a
      <4>1. g <= h /\ h <= i /\ i <= j /\ g \in Nat /\ h \in Nat /\ i \in Nat /\ j \in Nat
        BY <3>5, <3>8, <3>9
      <4> HIDE DEF g, h, i, j
      <4>2. g <= j
        BY <4>1
      <4> QED
        BY <4>2 DEF g, j
    <3> QED
      BY <3>1, <3>2, <3>10 DEF f, a
  <2>3. CASE q \notin Claimed /\ q \notin Entering
    <3>1. ClaimedShares[q] + Entries[q] = 0
      BY <2>3, ClaimedShareFacts DEF Entries
    <3>2. 0 * d = 0 /\ k * Weights[q] \in Nat
      BY <1>3, <1>4, Product
    <3> HIDE DEF d, k
    <3> QED
      BY <3>1, <3>2
  <2> QED
    BY <2>1, <2>2, <2>3
<1>6. (Total(ClaimedShares) + Total(Entries)) * d <= k * Total(Weights)
  <2> HIDE DEF d, k
  <2> QED
    BY <1>3, <1>4, <1>5, Parameters, ProRata DEF Total
<1>7. Total(ClaimedShares) \in Nat /\ Total(Entries) \in Nat
  BY ClaimedShareFacts, PlanNats
<1> DEFINE x == Total(ClaimedShares) + Total(Entries)
           b == sums.slots
           e == Deployable
           u == Scale
           c == Scale + Buffer
<1>8. x * (c * b) <= (e * u) * b
  BY <1>2, <1>6
<1>9. x \in Nat /\ e \in Nat /\ b \in Nat \ {0} /\ u \in Nat /\ c \in Nat \ {0} /\ u <= c
  BY <1>1, <1>2, <1>7
<1> HIDE DEF x, b, e, u, c
<1>10. x <= e
  BY <1>8, <1>9, Cancel
<1> QED
  BY <1>10 DEF x, e

(* What the plan commits in all is within the total cap.                   *)
LEMMA PlanFits ==
    ASSUME TierTyped, PlanTyped, BandSummed, Funding, Claiming, phase \notin {"sum", "fund"},
           sums.committed <= TotalCap, ~GateOpened
    PROVE  sums.committed + Total(Growth) + Total(Entries) <= TotalCap
<1>1. /\ Total(Growth) \in Nat /\ Total(Entries) \in Nat /\ Total(Costs) \in Nat
      /\ Total(ClaimedShares) \in Nat /\ Total(ClaimedCosts) \in Nat
      /\ left \in Nat /\ sums.committed \in Nat /\ TotalCap \in Nat
  BY PlanNats, ClaimedShareFacts, Parameters DEF TierTyped
<1>2. Deployable \in Nat /\ Deployable <= TotalCap - sums.committed
  BY Budgets DEF Headroom
<1>3. Total(Growth) <= Total(ClaimedShares)
  BY DEF Claiming
<1>4. Total(Growth) + Total(Entries) <= Deployable
  <2>1. CASE Entering = {}
    <3>1. Total(ClaimedShares) + Total(Entries) <= Deployable
      BY <2>1, SharesFit
    <3> QED
      BY <1>1, <1>2, <1>3, <3>1
  <2>2. CASE Entering # {}
    <3>1. PICK f \in Entering : TRUE
      BY <2>2
    <3>2. ASSUME NEW q \in Entering
          PROVE  Tranche(q) /\ q \in Slotted /\ q \in InBand \ Claimed /\ funded[q] > 0
                 /\ funded[q] <= Target(q)
      <4>1. q \in Pool /\ funded[q] > 0 /\ q \notin Claimed
        BY PlanNats
      <4>2. Tranche(q)
        BY <4>1 DEF Funding
      <4>3. q \in Slotted /\ q \in InBand
        BY <4>2, BandFacts DEF Tranche
      <4>4. funded[q] <= Target(q)
        <5>1. funded[q] = EntrySize(q, Target(q)) /\ funded[q] \in Nat
          BY <4>1, <4>2, PlanNats DEF Tranche
        <5>2. Target(q) \in Nat /\ in.offer[q].depth \in Nat
          <6>1. TierShare(q) \in Nat /\ EffectiveMinimum \in Nat /\ ConcentrationBound \in Nat
            BY <4>3, TierShares, Budgets DEF BandSummed
          <6> QED
            BY <4>1, <6>1, BookFacts DEF Target, Greater, Lesser, TierTyped
        <5> QED
          BY <5>1, <5>2 DEF EntrySize, Lesser
      <4> QED
        BY <4>1, <4>2, <4>3, <4>4
    <3>3. ASSUME NEW q \in Claimed PROVE ~Hopeless(q) /\ q \in Slotted
      <4>1. q \in InBand /\ q \in Pool /\ Better(q, f)
        BY <3>1, <3>2, PlanNats DEF Claiming
      <4>2. q \in Slotted
        BY <3>1, <3>2, <4>1, SlotsAreBest
      <4>3. <<q, "insufficient_cash">> \notin noted
        <5> SUFFICES ASSUME <<q, "insufficient_cash">> \in noted PROVE FALSE
          OBVIOUS
        <5>1. Starved(q)
          BY <4>1 DEF Funding
        <5>2. funded[f] = 0
          BY <3>1, <3>2, <4>1, <5>1 DEF Starved
        <5> QED
          BY <3>1, <3>2, <5>2
      <4> QED
        BY <4>2, <4>3 DEF Hopeless
    <3>4. CASE ~Capped
      <4>1. Total(ClaimedShares) + Total(Entries) <= Deployable
        BY <3>1, <3>2, <3>3, <3>4, UncappedFits
      <4> QED
        BY <1>1, <1>2, <1>3, <4>1
    <3>5. CASE Capped
      <4>1. Deployable > 0
        BY <3>1, <3>2 DEF Tranche
      <4>2. Total(Growth) <= Total(ClaimedCosts)
        BY <3>3, <3>5, <4>1 DEF Claiming
      <4>3. ASSUME NEW q \in Pool
            PROVE  /\ ClaimedCosts[q] \in Nat /\ Entries[q] \in Nat /\ Costs[q] \in Nat
                   /\ ClaimedCosts[q] + Entries[q] <= Costs[q]
        <5>1. ClaimedCosts[q] \in Nat /\ Entries[q] \in Nat /\ Costs[q] \in Nat /\ funded[q] \in Nat
          BY PlanNats
        <5>2. CASE q \in Claimed
          BY <5>1, <5>2 DEF ClaimedCosts, Entries, Entering
        <5>3. CASE q \in Entering
          <6>1. q \notin Claimed /\ Entries[q] = funded[q] /\ funded[q] > 0
            BY <5>3, PlanNats
          <6>2. ClaimedCosts[q] = 0 /\ Costs[q] = Cost(funded[q])
            BY <6>1 DEF ClaimedCosts, Costs
          <6> QED
            BY <5>1, <6>1, <6>2, CostCovers
        <5>4. CASE q \notin Claimed /\ q \notin Entering
          BY <5>1, <5>4 DEF ClaimedCosts, Entries
        <5> QED
          BY <5>1, <5>2, <5>3, <5>4
      <4>4. Total(ClaimedCosts) + Total(Entries) <= Total(Costs)
        BY <4>3, Parameters, Dominates DEF Total
      <4>5. left + Total(Costs) <= Deployable
        BY DEF Funding
      <4> QED
        BY <1>1, <1>2, <4>2, <4>4, <4>5
    <3> QED
      BY <3>4, <3>5
  <2> QED
    BY <2>1, <2>2
<1> QED
  BY <1>1, <1>2, <1>4

(* The count of positions keeps its bound.                                 *)
LEMMA CountFits ==
    ASSUME TierTyped, PlanTyped, Funding, phase \notin {"sum", "fund"}
    PROVE  /\ Cardinality(Held) \in Nat /\ Cardinality(Entering) \in Nat
           /\ Entering # {} => Cardinality(Held) + Cardinality(Entering) <= MaxPositions
<1>1. Entering \subseteq Slotted
  BY PlanNats DEF Funding, Tranche
<1>2. Cardinality(Held) \in Nat /\ Cardinality(Entering) \in Nat
  BY Parameters, PlanNats, FS_Subset, FS_CardinalityType DEF Held
<1>3. ASSUME Entering # {} PROVE Cardinality(Held) + Cardinality(Entering) <= MaxPositions
  <2>1. Cardinality(Slotted) <= OpenSlots /\ OpenSlots = MaxPositions - Cardinality(Held)
    BY <1>1, <1>3, SlotCount
  <2>2. Cardinality(Entering) <= Cardinality(Slotted) /\ Cardinality(Slotted) \in Nat
    BY <1>1, SlottedFacts, FS_Subset
  <2> QED
    BY <1>2, <2>1, <2>2, Parameters
<1> QED
  BY <1>2, <1>3

-----------------------------------------------------------------------------
(* Funding the tiers.                                                      *)

(* A better tier has the larger share.                                     *)
LEMMA ShareOrder ==
    ASSUME TierTyped, sums.slots = Total(Weights), NEW p \in Slotted, NEW q \in Slotted, Better(q, p)
    PROVE  TierShare(p) <= TierShare(q)
<1> DEFINE t == TierShare(p)
           u == TierShare(q)
           d == (Scale + Buffer) * sums.slots
           k == Net * Scale
           a == in.offer[p].apr
           b == in.offer[q].apr
<1>1. Slotted \subseteq Pool
  BY SlottedFacts
<1>2. a \in Nat /\ b \in Nat /\ a <= b /\ sums.slots \in Nat \ {0}
  <2>1. a \in Nat \ {0} /\ b \in Nat /\ a <= Total(Weights) /\ Total(Weights) \in Nat
    BY <1>1, BandFacts, BookFacts DEF TierTyped
  <2> QED
    BY <1>1, <2>1, Ranking
<1>3. d \in Nat \ {0} /\ k \in Nat
  <2>1. Net \in Nat
    BY DeployableIsNat
  <2> QED
    BY <1>2, <2>1, Parameters, Product
<1>4. t \in Nat /\ u \in Nat /\ t * d <= k * a /\ k * b < u * d + d
  BY TierShares
<1> HIDE DEF t, u, d, k, a, b
<1>5. k * a <= k * b
  <2>1. a * k <= b * k
    BY <1>2, <1>3, Scaled
  <2> QED
    BY <1>2, <1>3, <2>1
<1>6. d * t < d * (u + 1)
  <2> DEFINE ka == k * a
             kb == k * b
             td == t * d
             ud == u * d
  <2>1. ka \in Nat /\ kb \in Nat /\ td \in Nat /\ ud \in Nat
    BY <1>2, <1>3, <1>4, Product
  <2>2. td <= ka /\ ka <= kb /\ kb < ud + d
    BY <1>4, <1>5
  <2>3. d * t = td /\ d * (u + 1) = ud + d
    BY <1>3, <1>4
  <2> HIDE DEF ka, kb, td, ud
  <2> QED
    BY <1>3, <2>1, <2>2, <2>3
<1>7. t <= u
  <2> SUFFICES ASSUME u + 1 <= t PROVE FALSE
    BY <1>4
  <2>1. (u + 1) * d <= t * d
    BY <1>3, <1>4, Scaled
  <2>2. (u + 1) * d = d * (u + 1) /\ t * d = d * t /\ d * t \in Nat /\ d * (u + 1) \in Nat
    BY <1>3, <1>4, Product
  <2> QED
    BY <1>6, <2>1, <2>2
<1> QED
  BY <1>7 DEF t, u

(* Bands, bounds and totals are those of the inputs.                       *)
LEMMA SameMore ==
    ASSUME in' = in
    PROVE  /\ Bands' = Bands /\ Capped' = Capped /\ ConcentrationBound' = ConcentrationBound
           /\ sums' = sums => /\ ReportedDeployable' = ReportedDeployable
                              /\ \A q : BandShare(q)' = BandShare(q)
           /\ funded' = funded => Costs' = Costs
           /\ moves' = moves => Claimed' = Claimed /\ Growth' = Growth
           /\ funded' = funded /\ moves' = moves => Entering' = Entering /\ Entries' = Entries
                                                    /\ Moving' = Moving
<1>1. InBand' = InBand /\ OpenSlots' = OpenSlots /\ Held' = Held
      /\ (sums' = sums => Deployable' = Deployable)
  BY SameInputs
<1>2. Bands' = Bands
  BY <1>1 DEF Bands, Weighed
<1>3. sums' = sums => ReportedDeployable' = ReportedDeployable
  BY <1>1 DEF ReportedDeployable
<1>4. Capped' = Capped /\ ConcentrationBound' = ConcentrationBound
  BY DEF Capped, ConcentrationBound
<1>5. moves' = moves => Claimed' = Claimed /\ Growth' = Growth
  BY DEF Claimed, Growth
<1>6. funded' = funded => Costs' = Costs
  BY DEF Costs
<1>7. funded' = funded /\ moves' = moves => Entering' = Entering /\ Entries' = Entries /\ Moving' = Moving
  BY <1>1, <1>5 DEF Entering, Entries, Moving
<1> QED
  BY <1>2, <1>3, <1>4, <1>5, <1>6, <1>7 DEF BandShare

(* One turn of the fund loop accounts for the pool it sized.               *)
LEMMA FundTierFunds ==
    ASSUME PlanInv, NEW p \in Pool, FundTier(p)
    PROVE  Funding'
<1> DEFINE t == Target(p)
           size == EntrySize(p, Target(p))
<1>0. TierInv /\ TierTyped /\ PlanTyped /\ BandSummed /\ Funding /\ Summed
  BY DEF PlanInv, TierInv
<1>1. phase = "fund" /\ p \in todo /\ todo' = todo \ {p} /\ in' = in /\ phase' = "fund"
      /\ sums' = sums /\ \A q \in todo \ {p} : Better(p, q)
  BY DEF FundTier, Best
<1>2. p \in Slotted /\ todo \subseteq Slotted /\ Slotted \subseteq Pool
  BY <1>0, <1>1, SlottedFacts DEF TierTyped
<1>3. sums.slots = Total(Weights) /\ Deployable > 0 /\ Deployable \in Nat
      /\ \A r \in Slotted \ todo, s \in todo : Better(r, s)
  BY <1>0, <1>1, Budgets DEF BandSummed, Funding
<1>4. /\ Slotted' = Slotted /\ EffectiveMinimum' = EffectiveMinimum /\ Deployable' = Deployable
      /\ \A q, r : Better(q, r)' = Better(q, r)
      /\ \A q, b : EntrySize(q, b)' = EntrySize(q, b)
      /\ \A q : TierShare(q)' = TierShare(q) /\ Target(q)' = Target(q)
  BY <1>1, SameInputs
<1>5. Waiting = todo /\ Waiting' = todo \ {p}
  BY <1>1 DEF Waiting
<1>6. size \in Nat /\ t \in Nat /\ Cost(t) \in Nat /\ Cost(size) \in Nat /\ left \in Nat
      /\ EffectiveMinimum \in Nat
  BY <1>0, <1>1, <1>2, TargetFacts, CostIsNat DEF TierTyped
<1>7. funded[p] = 0 /\ <<p, "insufficient_cash">> \notin noted /\ \A q \in Pool : funded[q] \in Nat
  <2>1. \A q \in Pool : funded[q] \in Nat
    BY <1>0, PlanNats
  <2>2. ~Tranche(p) /\ ~Starved(p)
    BY <1>1, <1>5 DEF Tranche, Starved
  <2> QED
    BY <1>0, <1>1, <2>1, <2>2 DEF Funding
<1>8. /\ funded \in [Pool -> Nat] /\ noted \subseteq noted'
      /\ \A q \in Pool : <<q, "insufficient_cash">> \in noted' =>
             <<q, "insufficient_cash">> \in noted \/ (q = p /\ Cost(t) > left)
  BY <1>0 DEF FundTier, Skip, Fund, PlanTyped
<1>9. \/ /\ left' = left /\ funded' = funded
         /\ \/ <<p, "insufficient_cash">> \in noted'
            \/ <<p, "entry_gate_refused">> \in noted'
            \/ size < EffectiveMinimum
      \/ /\ left' = left - Cost(size) /\ funded' = [funded EXCEPT ![p] = size]
         /\ ~(Cost(t) > left) /\ GatesPass(p, t) /\ ~(size < EffectiveMinimum)
  BY DEF FundTier, Skip, Fund
<1>10. GatesPass(p, t) => size > 0
  <2>1. in.offer[p].least \in Nat \ {0}
    BY <1>0, BookFacts DEF TierTyped
  <2> QED
    BY <1>6, <2>1 DEF GatesPass
<1> HIDE DEF t, size
<1>11. left' \in Int /\ left' <= left /\ \A q \in Pool \ {p} : funded'[q] = funded[q]
  BY <1>6, <1>8, <1>9
<1>12. \A r \in Slotted \ todo', s \in todo' : Better(r, s)
  BY <1>1, <1>2, <1>3
<1>13. ASSUME NEW q \in Pool, funded'[q] > 0 PROVE Tranche(q)'
  <2>1. CASE q = p
    <3>1. /\ funded' = [funded EXCEPT ![p] = size] /\ ~(size < EffectiveMinimum)
      BY <1>7, <1>9, <1>13, <2>1
    <3>2. funded'[p] = size
      BY <1>8, <3>1
    <3> QED
      BY <1>2, <1>3, <1>4, <1>5, <1>6, <2>1, <3>1, <3>2 DEF Tranche, size
  <2>2. CASE q # p
    <3>1. Tranche(q) /\ funded'[q] = funded[q]
      BY <1>0, <1>1, <1>11, <1>13, <2>2 DEF Funding
    <3> QED
      BY <1>4, <1>5, <3>1 DEF Tranche
  <2> QED
    BY <2>1, <2>2
<1>14. left' + Total(Costs)' <= Deployable
  <2>1. left + Total(Costs) <= Deployable /\ Total(Costs) \in Nat /\ \A q \in Pool : Costs[q] \in Nat
    BY <1>0, <1>1, PlanNats DEF Funding
  <2>2. CASE left' = left /\ funded' = funded
    <3>1. Costs' = Costs
      BY <1>1, <2>2, SameMore
    <3> QED
      BY <2>1, <2>2, <3>1 DEF Total
  <2>3. CASE left' = left - Cost(size) /\ funded' = [funded EXCEPT ![p] = size]
    <3>1. \A q \in Pool \ {p} : Costs'[q] = Costs[q]
      BY <1>8, <2>3 DEF Costs
    <3>2. Costs[p] = 0 /\ Costs'[p] \in Nat /\ Costs'[p] <= Cost(size)
      BY <1>6, <1>7, <1>8, <2>3 DEF Costs
    <3>3. \A q \in Pool : Costs[q] \in Int /\ Costs'[q] \in Int
      BY <2>1, <3>1, <3>2
    <3>4. Total(Costs') = Total(Costs) - Costs[p] + Costs'[p]
      <4> DEFINE f == Costs
                 h == Costs'
      <4>0. IsFiniteSet(Pool) /\ p \in Pool
        BY Parameters
      <4>1. \A q \in Pool : f[q] \in Int /\ h[q] \in Int
        BY <3>3
      <4>2. \A q \in Pool \ {p} : f[q] = h[q]
        BY <3>1
      <4> HIDE DEF f, h
      <4>3. SumFunctionOnSet(h, Pool) = SumFunctionOnSet(f, Pool) - f[p] + h[p]
        BY <4>0, <4>1, <4>2, OneChanges
      <4> QED
        BY <4>3 DEF f, h, Total
    <3>5. Total(Costs)' = Total(Costs')
      BY DEF Total
    <3> QED
      BY <1>3, <1>6, <2>1, <2>3, <3>2, <3>4, <3>5
  <2> QED
    BY <1>9, <2>2, <2>3
<1>15. ASSUME NEW q \in Slotted \ (todo \ {p}), funded'[q] = 0 PROVE Refused(q)'
  <2>1. CASE q = p
    <3>1. ~(funded' = [funded EXCEPT ![p] = size] /\ GatesPass(p, t))
      BY <1>6, <1>8, <1>10, <1>15, <2>1
    <3>2. \/ <<p, "insufficient_cash">> \in noted'
          \/ <<p, "entry_gate_refused">> \in noted'
          \/ size < EffectiveMinimum
      BY <1>9, <3>1
    <3> QED
      BY <1>4, <2>1, <3>2 DEF Refused, size
  <2>2. CASE q # p
    <3>1. q \in Slotted \ Waiting /\ funded[q] = 0
      BY <1>2, <1>5, <1>11, <1>15, <2>2
    <3>2. Refused(q)
      BY <1>0, <1>1, <1>3, <3>1 DEF Funding
    <3> QED
      BY <1>4, <1>8, <3>2 DEF Refused
  <2> QED
    BY <2>1, <2>2
<1>16. ASSUME NEW q \in Pool, <<q, "insufficient_cash">> \in noted' PROVE Starved(q)'
  <2>1. CASE q = p
    <3>1. Cost(t) > left
      BY <1>7, <1>8, <1>16, <2>1
    <3>2. left' = left /\ funded' = funded
      BY <1>9, <3>1
    <3>3. TierShare(p) < EffectiveMinimum
      <4> SUFFICES ASSUME EffectiveMinimum <= TierShare(p) PROVE FALSE
        <5>1. TierShare(p) \in Nat
          BY <1>0, <1>2, <1>3, TierShares
        <5> QED
          BY <1>6, <5>1
      <4>1. Unlifted
        <5>1. ASSUME NEW r \in Slotted \ todo PROVE TierShare(r) >= EffectiveMinimum
          <6>1. TierShare(p) <= TierShare(r) /\ TierShare(p) \in Nat /\ TierShare(r) \in Nat
            BY <1>0, <1>1, <1>2, <1>3, ShareOrder, TierShares
          <6> QED
            BY <1>6, <6>1
        <5> QED
          BY <5>1 DEF Unlifted
      <4>2. Cost(Target(p)) <= left
        BY <1>0, <1>1, <4>1, ShareFits
      <4> QED
        BY <1>6, <3>1, <4>2 DEF t
    <3>4. ASSUME NEW r \in Slotted, Better(p, r) PROVE funded[r] = 0
      <4>1. r \in todo
        BY <1>0, <1>1, <1>2, <1>3, <3>4, Ranking
      <4>2. ~Tranche(r)
        BY <1>5, <4>1 DEF Tranche
      <4>3. r \in Pool /\ funded[r] \in Nat
        BY <1>2, <1>7
      <4> QED
        BY <1>0, <1>1, <4>2, <4>3 DEF Funding
    <3>5. left' < Cost(t)
      BY <1>6, <3>1, <3>2
    <3> QED
      BY <1>2, <1>4, <1>5, <2>1, <3>2, <3>3, <3>4, <3>5 DEF Starved, t
  <2>2. CASE q # p
    <3>1. Starved(q)
      BY <1>0, <1>1, <1>8, <1>16, <2>2 DEF Funding
    <3>2. q \in Slotted \ todo /\ TierShare(q) < EffectiveMinimum /\ left < Cost(Target(q))
      BY <1>5, <3>1 DEF Starved
    <3>3. Target(q) \in Nat /\ TierShare(q) \in Nat /\ Cost(Target(q)) \in Nat
      BY <1>0, <1>1, <3>2, TargetFacts, CostIsNat
    <3>4. left' < Cost(Target(q))
      BY <1>6, <1>11, <3>2, <3>3
    <3>5. Better(q, p) /\ TierShare(p) <= TierShare(q) /\ TierShare(p) \in Nat
      BY <1>0, <1>1, <1>2, <1>3, <3>2, ShareOrder, TierShares
    <3>6. Target(p) = Target(q)
      <4>1. Greater(TierShare(p), EffectiveMinimum) = EffectiveMinimum
            /\ Greater(TierShare(q), EffectiveMinimum) = EffectiveMinimum
        BY <1>6, <3>2, <3>3, <3>5 DEF Greater
      <4> QED
        BY <4>1 DEF Target
    <3>7. funded' = funded
      <4>1. Cost(t) > left
        BY <1>6, <3>2, <3>3, <3>6 DEF t
      <4> QED
        BY <1>9, <4>1
    <3> QED
      BY <1>2, <1>4, <1>5, <3>1, <3>4, <3>7 DEF Starved
  <2> QED
    BY <2>1, <2>2
<1>17. left' + Total(Costs)' <= Deployable'
  BY <1>4, <1>14
<1> QED
  BY <1>1, <1>3, <1>4, <1>5, <1>12, <1>13, <1>15, <1>16, <1>17 DEF Funding

-----------------------------------------------------------------------------
(* Claiming the replacements.                                              *)

(* A reallocation that commits more than it frees has its growth set aside *)
(* in the tranche it claims, if its gate was not refused and it has one.   *)
LEMMA GrowthPaid ==
    ASSUME BufferCovers, TierTyped, PlanTyped, BandSummed, Funding, phase = "move", Capped,
           Deployable > 0, NEW p \in Pool, NEW q \in InBand, ~Hopeless(q),
           EntrySize(q, ReplacementBudget(p, q)) >= EffectiveMinimum,
           EntrySize(q, ReplacementBudget(p, q)) > in.held[p].value
    PROVE  \/ <<q, "entry_gate_refused">> \in noted
           \/ EntrySize(q, ReplacementBudget(p, q)) <= Costs[q]
<1> DEFINE r == ReplacementBudget(p, q)
           size == EntrySize(q, r)
           depth == in.offer[q].depth
           n == Cardinality(Slotted)
<1>1. q \in Slotted /\ q \in Pool /\ q \in Slotted \ Waiting /\ <<q, "insufficient_cash">> \notin noted
  BY SlottedFacts DEF Hopeless, Waiting
<1>2. /\ r \in Nat /\ size \in Nat /\ size <= r /\ size <= depth
      /\ r <= ConcentrationBound /\ size <= BandShare(q)
  BY MoveBudget DEF BandSummed
<1>3. /\ TierShare(q) \in Nat /\ EffectiveMinimum \in Nat /\ ConcentrationBound \in Nat /\ depth \in Nat
      /\ EffectiveMinimum >= MinFloor /\ MinFloor \in Nat
  BY <1>1, TierShares, Budgets, BookFacts, Parameters DEF BandSummed, TierTyped
<1>4. BandShare(q) <= TierShare(q) + n /\ n <= MaxPositions /\ n \in Nat /\ BandShare(q) \in Nat
  BY <1>1, ShareWithin, BandShares, SlotCount, SlottedFacts DEF BandSummed
<1> DEFINE lifted == Greater(TierShare(q), EffectiveMinimum)
           t == Target(q)
<1>5. t = Lesser(lifted, ConcentrationBound)
  BY DEF Target
<1>6. lifted \in Nat /\ lifted >= TierShare(q) /\ lifted >= EffectiveMinimum
  BY <1>3 DEF Greater
<1> HIDE DEF lifted, t, r
<1>7. t \in Nat /\ (t = lifted \/ t = ConcentrationBound)
  BY <1>3, <1>5, <1>6 DEF Lesser
<1>8. EntrySize(q, t) = t \/ EntrySize(q, t) = depth
  BY DEF EntrySize, Lesser
<1>9. CASE funded[q] > 0
  <2>1. funded[q] = EntrySize(q, t) /\ funded[q] >= EffectiveMinimum /\ funded[q] \in Nat
    BY <1>1, <1>9, PlanNats DEF Funding, Tranche, t
  <2>2. Costs[q] = Cost(funded[q])
    BY <1>1, <1>9 DEF Costs
  <2>3. funded[q] <= Cost(funded[q]) /\ Cost(funded[q]) \in Nat
    BY <2>1, CostCovers, CostIsNat
  <2>4. Cost(funded[q]) >= funded[q] + n
    BY <1>3, <1>4, <2>1, CostAbove
  <2> HIDE DEF size, n, depth
  <2>5. CASE funded[q] = depth \/ funded[q] = ConcentrationBound
    <3>1. size <= Cost(funded[q])
      BY <1>2, <1>3, <2>1, <2>3, <2>5
    <3> QED
      BY <2>2, <3>1 DEF size, r
  <2>6. CASE funded[q] = lifted
    <3>1. size <= Cost(funded[q])
      BY <1>2, <1>3, <1>4, <1>6, <2>1, <2>3, <2>4, <2>6
    <3> QED
      BY <2>2, <3>1 DEF size, r
  <2> QED
    BY <1>7, <1>8, <2>1, <2>5, <2>6
<1>10. CASE ~(funded[q] > 0)
  <2>1. funded[q] = 0
    BY <1>1, <1>10, PlanNats
  <2>2. Refused(q)
    BY <1>1, <2>1 DEF Funding
  <2>3. ~(EntrySize(q, Target(q)) < EffectiveMinimum)
    <3> SUFFICES ASSUME EntrySize(q, t) < EffectiveMinimum PROVE FALSE
      BY DEF t
    <3>1. size >= EffectiveMinimum
      BY DEF r
    <3> HIDE DEF size, depth
    <3>2. EntrySize(q, t) # depth
      BY <1>2, <1>3, <3>1
    <3>3. t < EffectiveMinimum
      BY <1>8, <3>2
    <3>4. t = ConcentrationBound
      BY <1>3, <1>6, <1>7, <3>3
    <3> QED
      BY <1>2, <1>3, <3>1, <3>3, <3>4
  <2> QED
    BY <1>1, <2>2, <2>3 DEF Refused
<1> QED
  BY <1>9, <1>10

(* Before any reallocation nothing is claimed.                             *)
LEMMA NothingClaimed ==
    ASSUME TierTyped, in' = in, moves' = moves, \A p \in Pool : moves[p] = NoMove,
           todo' \subseteq Pool
    PROVE  Claiming'
<1>1. Claimed' = {}
  BY DEF Claimed, NoMove
<1>2. \A p \in Pool : moves'[p] = NoMove /\ in'.held[p].value \in Nat
  BY BookFacts DEF TierTyped
<1>3. \A p \in Pool : Growth'[p] = 0
  BY <1>2 DEF Growth, NoMove
<1>4. \A p \in Pool : ClaimedShares'[p] = 0 /\ ClaimedCosts'[p] = 0
  BY <1>1 DEF ClaimedShares, ClaimedCosts
<1>5. Total(Growth)' = 0 /\ Total(ClaimedShares)' = 0 /\ Total(ClaimedCosts)' = 0
  <2>1. Total(Growth') = 0 /\ Total(ClaimedShares') = 0 /\ Total(ClaimedCosts') = 0
    BY <1>3, <1>4, Parameters, SumOfZeros DEF Total
  <2> QED
    BY <2>1 DEF Total
<1>6. \A p \in todo' : moves'[p] = NoMove
  BY <1>2
<1>7. Total(Growth)' <= Total(ClaimedShares)' /\ Total(Growth)' <= Total(ClaimedCosts)'
  BY <1>5
<1> QED
  BY <1>1, <1>6, <1>7 DEF Claiming

(* The best replacement of a position is the best there is.                *)
LEMMA BestOfBand ==
    ASSUME TierTyped, NEW p \in Pool, NEW q, Best(q, Replacements(p)), NEW f \in InBand \ Claimed, f # q
    PROVE  Better(q, f)
<1>1. q \in InBand /\ q \in Pool /\ f \in Pool /\ Decayed(p, q)
  BY BandFacts DEF Best, Replacements
<1>2. CASE Decayed(p, f)
  BY <1>2 DEF Best, Replacements
<1>3. CASE ~Decayed(p, f)
  <2> DEFINE a == in.offer[q].apr
             b == in.offer[f].apr
             c == in.offer[p].apr * (Scale + Margin)
  <2>1. a \in Nat /\ b \in Nat /\ Scale \in Nat \ {0}
    BY <1>1, BookFacts, Parameters DEF TierTyped
  <2>2. c \in Nat
    <3>1. in.offer[p].apr \in Nat /\ Scale + Margin \in Nat
      BY BookFacts, ParameterAssumption DEF TierTyped, ParameterAssumption
    <3> QED
      BY <3>1, Product
  <2>3. a * Scale > c /\ ~(b * Scale > c)
    BY <1>1, <1>3 DEF Decayed
  <2>4. a * Scale \in Nat /\ b * Scale \in Nat
    BY <2>1, Product
  <2> HIDE DEF a, b, c
  <2>5. b * Scale < a * Scale
    BY <2>2, <2>3, <2>4
  <2>6. b < a
    <3> SUFFICES ASSUME a <= b PROVE FALSE
      BY <2>1
    <3>1. a * Scale <= b * Scale
      BY <2>1, Scaled
    <3> QED
      BY <2>4, <2>5, <3>1
  <2> QED
    BY <2>1, <2>6 DEF Better, a, b
<1> QED
  BY <1>2, <1>3

(* A reallocation that is planned.                                         *)
LEMMA MoveClaims ==
    ASSUME BufferCovers, PlanInv, phase = "move", NEW p \in todo, NEW q,
           Best(q, Replacements(p)), in' = in, sums' = sums, left' = left, funded' = funded,
           noted' = noted, phase' = phase, todo' = todo \ {p}, proj' = proj,
           EntrySize(q, ReplacementBudget(p, q)) >= EffectiveMinimum,
           moves' = [moves EXCEPT ![p] =
                        [to |-> q, size |-> EntrySize(q, ReplacementBudget(p, q))]]
    PROVE  PlanTyped' /\ Claiming'
<1> DEFINE size == EntrySize(q, ReplacementBudget(p, q))
           v == in.held[p].value
           g == IF size > v THEN size - v ELSE 0
<1>0. TierTyped /\ PlanTyped /\ BandSummed /\ Funding /\ Claiming /\ phase \notin {"sum", "fund"}
  BY DEF PlanInv, TierInv
<1>1. p \in Pool /\ q \in InBand \ Claimed /\ q \in Pool /\ q # 0 /\ moves[p] = NoMove
  BY <1>0, BandFacts, Parameters DEF Best, Replacements, Claiming, TierTyped
<1>2. size \in Nat /\ v \in Nat /\ (size > v => size <= BandShare(q)) /\ BandShare(q) \in Nat
  BY <1>0, <1>1, MoveBudget, BandShares, BookFacts DEF BandSummed, TierTyped
<1>3. size >= EffectiveMinimum
  OBVIOUS
<1> HIDE DEF size, v
<1>4. moves' = [moves EXCEPT ![p] = [to |-> q, size |-> size]] /\ moves \in [Pool -> [to : Pool \cup {0}, size : Nat]]
  BY <1>0 DEF size, PlanTyped
<1>5. moves'[p] = [to |-> q, size |-> size] /\ \A r \in Pool \ {p} : moves'[r] = moves[r]
  BY <1>1, <1>4
<1>6. InBand' = InBand /\ Capped' = Capped /\ Slotted' = Slotted /\ Deployable' = Deployable
      /\ Costs' = Costs /\ (\A r : BandShare(r)' = BandShare(r)) /\ \A r, s : Better(r, s)' = Better(r, s)
  BY SameInputs, SameMore
<1>7. PlanTyped'
  <2>1. moves' \in [Pool -> [to : Pool \cup {0}, size : Nat]]
    BY <1>1, <1>2, <1>4
  <2>2. \A r \in Pool : moves'[r].to # 0 => moves'[r].to \in InBand'
    BY <1>0, <1>1, <1>5, <1>6 DEF PlanTyped
  <2>3. proj' = proj
    OBVIOUS
  <2> QED
    BY <1>0, <2>1, <2>2, <2>3 DEF PlanTyped
<1>8. Claimed' = Claimed \cup {q}
  <2>1. Claimed' = {moves'[r].to : r \in Pool} \ {0}
    BY DEF Claimed
  <2>2. moves[p].to = 0
    BY <1>1 DEF NoMove
  <2>3. ASSUME NEW x PROVE x \in Claimed' <=> x \in Claimed \cup {q}
    BY <1>1, <1>5, <2>1, <2>2 DEF Claimed
  <2> QED
    BY <2>3
<1>9. \A c \in Claimed', f \in InBand \ Claimed' : Better(c, f)
  <2>1. ASSUME NEW f \in InBand \ Claimed' PROVE Better(q, f)
    BY <1>0, <1>1, <1>8, BestOfBand
  <2>2. \A c \in Claimed, f \in InBand \ Claimed : Better(c, f)
    BY <1>0 DEF Claiming
  <2> QED
    BY <1>8, <2>1, <2>2
<1>10. /\ Growth[p] = 0 /\ Growth'[p] = g /\ \A r \in Pool \ {p} : Growth'[r] = Growth[r]
       /\ g \in Nat /\ \A r \in Pool : Growth[r] \in Nat
  <2>1. Growth[p] = 0
    BY <1>1, <1>2 DEF Growth, NoMove, v
  <2>2. Growth'[p] = g
    BY <1>1, <1>5 DEF Growth, v
  <2>3. \A r \in Pool \ {p} : Growth'[r] = Growth[r]
    BY <1>5 DEF Growth
  <2>4. g \in Nat
    BY <1>2
  <2> QED
    BY <1>0, <2>1, <2>2, <2>3, <2>4, PlanNats
<1> HIDE DEF g
<1>11. Total(Growth)' = Total(Growth) + g
  <2>1. \A r \in Pool : Growth[r] \in Int /\ Growth'[r] \in Int
    BY <1>10
  <2>2. Total(Growth') = Total(Growth) - Growth[p] + Growth'[p]
    <3> DEFINE f == Growth
               h == Growth'
    <3>1. \A r \in Pool : f[r] \in Int /\ h[r] \in Int
      BY <2>1
    <3>2. \A r \in Pool \ {p} : f[r] = h[r]
      BY <1>10
    <3>0. IsFiniteSet(Pool) /\ p \in Pool
      BY <1>1, Parameters
    <3> HIDE DEF f, h
    <3>3. SumFunctionOnSet(h, Pool) = SumFunctionOnSet(f, Pool) - f[p] + h[p]
      BY <3>0, <3>1, <3>2, OneChanges
    <3> QED
      BY <3>3 DEF f, h, Total
  <2>3. Total(Growth)' = Total(Growth') /\ Total(Growth) \in Nat
    BY <1>0, PlanNats DEF Total
  <2> QED
    BY <1>10, <2>2, <2>3
<1>12. Total(ClaimedShares)' = Total(ClaimedShares) + BandShare(q)
  <2>1. /\ ClaimedShares[q] = 0 /\ ClaimedShares'[q] = BandShare(q)
        /\ \A r \in Pool \ {q} : ClaimedShares'[r] = ClaimedShares[r]
    BY <1>1, <1>6, <1>8 DEF ClaimedShares
  <2>2. \A r \in Pool : ClaimedShares[r] \in Nat
    BY <1>0, ClaimedShareFacts
  <2>3. \A r \in Pool : ClaimedShares[r] \in Int /\ ClaimedShares'[r] \in Int
    BY <1>2, <2>1, <2>2
  <2>4. Total(ClaimedShares') = Total(ClaimedShares) - ClaimedShares[q] + ClaimedShares'[q]
    <3> DEFINE f == ClaimedShares
               h == ClaimedShares'
    <3>1. \A r \in Pool : f[r] \in Int /\ h[r] \in Int
      BY <2>3
    <3>2. \A r \in Pool \ {q} : f[r] = h[r]
      BY <2>1
    <3>0. IsFiniteSet(Pool) /\ q \in Pool
      BY <1>1, Parameters
    <3> HIDE DEF f, h
    <3>3. SumFunctionOnSet(h, Pool) = SumFunctionOnSet(f, Pool) - f[q] + h[q]
      BY <3>0, <3>1, <3>2, OneChanges
    <3> QED
      BY <3>3 DEF f, h, Total
  <2>5. Total(ClaimedShares)' = Total(ClaimedShares') /\ Total(ClaimedShares) \in Nat
    BY <1>0, ClaimedShareFacts DEF Total
  <2> QED
    BY <1>2, <2>1, <2>4, <2>5
<1>13. Total(ClaimedCosts)' = Total(ClaimedCosts) + Costs[q] /\ Costs[q] \in Nat
  <2>1. /\ ClaimedCosts[q] = 0 /\ ClaimedCosts'[q] = Costs[q]
        /\ \A r \in Pool \ {q} : ClaimedCosts'[r] = ClaimedCosts[r]
    BY <1>1, <1>6, <1>8 DEF ClaimedCosts
  <2>2. \A r \in Pool : ClaimedCosts[r] \in Nat /\ Costs[r] \in Nat
    BY <1>0, PlanNats
  <2>3. \A r \in Pool : ClaimedCosts[r] \in Int /\ ClaimedCosts'[r] \in Int
    BY <1>1, <2>1, <2>2
  <2>4. Total(ClaimedCosts') = Total(ClaimedCosts) - ClaimedCosts[q] + ClaimedCosts'[q]
    <3> DEFINE f == ClaimedCosts
               h == ClaimedCosts'
    <3>1. \A r \in Pool : f[r] \in Int /\ h[r] \in Int
      BY <2>3
    <3>2. \A r \in Pool \ {q} : f[r] = h[r]
      BY <2>1
    <3>0. IsFiniteSet(Pool) /\ q \in Pool
      BY <1>1, Parameters
    <3> HIDE DEF f, h
    <3>3. SumFunctionOnSet(h, Pool) = SumFunctionOnSet(f, Pool) - f[q] + h[q]
      BY <3>0, <3>1, <3>2, OneChanges
    <3> QED
      BY <3>3 DEF f, h, Total
  <2>5. Total(ClaimedCosts)' = Total(ClaimedCosts') /\ Total(ClaimedCosts) \in Nat
    BY <1>0, PlanNats DEF Total
  <2> QED
    BY <1>1, <2>1, <2>2, <2>4, <2>5
<1>14. Total(Growth) \in Nat /\ Total(ClaimedShares) \in Nat /\ Total(ClaimedCosts) \in Nat
  BY <1>0, PlanNats, ClaimedShareFacts
<1>15. Total(Growth)' <= Total(ClaimedShares)'
  <2>1. Total(Growth) <= Total(ClaimedShares)
    BY <1>0 DEF Claiming
  <2>2. g <= BandShare(q)
    BY <1>2 DEF g
  <2> QED
    BY <1>2, <1>10, <1>11, <1>12, <1>14, <2>1, <2>2
<1>16. ASSUME Capped, Deployable > 0
       PROVE  \/ GateOpened'
              \/ \E c \in Claimed' : Hopeless(c)
              \/ Total(Growth)' <= Total(ClaimedCosts)'
  <2>1. CASE GateOpened
    <3>1. PICK r \in Pool : moves[r].size > in.held[r].value
                            /\ <<moves[r].to, "entry_gate_refused">> \in noted
      BY <2>1 DEF GateOpened
    <3>2. r # p
      BY <1>1, <1>2, <3>1 DEF NoMove, v
    <3>3. moves'[r] = moves[r]
      BY <1>5, <3>2
    <3>4. moves'[r].size > in'.held[r].value /\ <<moves'[r].to, "entry_gate_refused">> \in noted'
      BY <3>1, <3>3
    <3>5. GateOpened'
      BY <3>4 DEF GateOpened
    <3> QED
      BY <3>5
  <2>2. CASE \E c \in Claimed : Hopeless(c)
    BY <1>8, <2>2
  <2>3. CASE Total(Growth) <= Total(ClaimedCosts)
    <3>1. CASE g = 0
      BY <1>11, <1>13, <1>14, <2>3, <3>1
    <3>2. CASE Hopeless(q)
      BY <1>8, <3>2
    <3>3. CASE ~Hopeless(q) /\ g # 0
      <4>1. size > v
        BY <3>3 DEF g
      <4>2. \/ <<q, "entry_gate_refused">> \in noted
            \/ size <= Costs[q]
        BY <1>0, <1>1, <1>3, <1>16, <3>3, <4>1, GrowthPaid DEF size, v
      <4>3. CASE <<q, "entry_gate_refused">> \in noted
        <5>1. moves'[p].size > in'.held[p].value /\ <<moves'[p].to, "entry_gate_refused">> \in noted'
          BY <1>5, <4>1, <4>3 DEF v
        <5> QED
          BY <1>1, <5>1 DEF GateOpened
      <4>4. CASE size <= Costs[q]
        <5>1. g <= Costs[q]
          BY <1>2, <1>13, <4>1, <4>4 DEF g
        <5> QED
          BY <1>10, <1>11, <1>13, <1>14, <2>3, <5>1
      <4> QED
        BY <4>2, <4>3, <4>4
    <3> QED
      BY <3>1, <3>2, <3>3
  <2> QED
    BY <1>0, <1>16, <2>1, <2>2, <2>3 DEF Claiming
<1>17. \A r \in todo' : moves'[r] = NoMove
  BY <1>0, <1>5 DEF Claiming, TierTyped
<1>18. \A c : Hopeless(c)' = Hopeless(c)
  BY <1>6 DEF Hopeless
<1> QED
  BY <1>6, <1>7, <1>9, <1>15, <1>16, <1>17, <1>18 DEF Claiming

-----------------------------------------------------------------------------
(* The pass keeps its accounts.                                            *)

(* A pass begins with nothing sized.                                       *)
LEMMA PlanInit == AllocInit => PlanInv
<1> SUFFICES ASSUME AllocInit PROVE PlanInv
  OBVIOUS
<1>0. TierInv /\ TierTyped
  BY TierInitInv DEF TierInv
<1>1. /\ phase = "sum" /\ todo = Pool /\ noted = {} /\ funded = [p \in Pool |-> 0]
      /\ moves = [p \in Pool |-> NoMove] /\ proj = NoProjection
      /\ sums = [committed |-> 0, band |-> 0, slots |-> 0]
  BY DEF AllocInit
<1>2. PlanTyped
  BY <1>1 DEF PlanTyped, Phases, NoMove, NoProjection
<1>3. BandSummed
  BY <1>0, <1>1, BandFacts DEF BandSummed, Total
<1>4. Untouched
  BY <1>1 DEF Untouched
<1> QED
  BY <1>0, <1>1, <1>2, <1>3, <1>4
     DEF PlanInv, Funding, Claiming, Projected, Projecting, PlannerNeverRaises

LEMMA PlanSumUp == ASSUME PlanInv, NEW p \in Pool, SumUp(p) PROVE PlanInv'
<1>0. TierInv /\ TierTyped /\ PlanTyped /\ BandSummed /\ Untouched
  BY DEF PlanInv, TierInv
<1>1. /\ phase = "sum" /\ p \in todo /\ todo' = todo \ {p} /\ in' = in /\ phase' = "sum"
      /\ sums' = [committed |-> sums.committed + in.held[p].value,
                  band |-> sums.band + Weighed(p, InBand),
                  slots |-> sums.slots + Weighed(p, Slotted)]
      /\ funded' = funded /\ noted' = noted /\ moves' = moves /\ proj' = proj
  BY DEF SumUp, First
<1>2. TierInv'
  BY <1>0, SumUpInv
<1>3. todo \subseteq Pool /\ IsFiniteSet(todo) /\ IsFiniteSet(todo \ {p})
  BY <1>0, Parameters, FS_Subset DEF TierTyped
<1>4. Bands[p] = Weighed(p, InBand) /\ \A q \in Pool : Bands[q] \in Nat
  BY <1>0, BandFacts DEF Bands
<1>5. SumFunctionOnSet(Bands, todo) = Bands[p] + SumFunctionOnSet(Bands, todo \ {p})
  BY <1>1, <1>3, <1>4, SumTakesOut
<1>6. SumFunctionOnSet(Bands, todo \ {p}) \in Nat /\ sums.band \in Nat
  BY <1>0, <1>3, <1>4, SumIsNat DEF PlanTyped
<1>7. sums'.band = sums.band + Bands[p] /\ Bands[p] \in Nat
  BY <1>1, <1>4
<1>8. sums'.band + SumFunctionOnSet(Bands, todo \ {p}) = Total(Bands)
  BY <1>0, <1>1, <1>5, <1>6, <1>7 DEF BandSummed
<1>9. InBand' = InBand /\ Bands' = Bands
  BY <1>1, SameInputs, SameMore
<1>10. PlanTyped'
  BY <1>0, <1>1, <1>6, <1>7, <1>9 DEF PlanTyped, Phases
<1>11. BandSummed'
  BY <1>1, <1>8, <1>9 DEF BandSummed, Total
<1>12. Untouched'
  BY <1>0, <1>1 DEF Untouched
<1> QED
  BY <1>1, <1>2, <1>10, <1>11, <1>12
     DEF PlanInv, Funding, Claiming, Projected, Projecting, PlannerNeverRaises

LEMMA PlanOpenBudget == PlanInv /\ OpenBudget => PlanInv'
<1> SUFFICES ASSUME PlanInv, OpenBudget PROVE PlanInv'
  OBVIOUS
<1>0. TierInv /\ TierTyped /\ PlanTyped /\ BandSummed /\ Untouched /\ Summed
  BY DEF PlanInv, TierInv
<1>1. /\ phase = "sum" /\ todo = {} /\ in' = in /\ sums' = sums /\ funded' = funded
      /\ moves' = moves /\ proj' = proj /\ noted' = ExcludedUpFront
  BY DEF OpenBudget
<1>2. \/ /\ Deployable > 0 /\ phase' = "fund" /\ todo' = Slotted /\ left' = Deployable
      \/ /\ ~(Deployable > 0 /\ OpenSlots > 0) /\ phase' = "move" /\ todo' = Held /\ left' = 0
  BY DEF OpenBudget
<1>3. TierInv'
  BY <1>0, OpenBudgetInv
<1>4. InBand' = InBand /\ Slotted' = Slotted /\ Bands' = Bands /\ Weights' = Weights
      /\ Costs' = Costs /\ Deployable' = Deployable
  BY <1>1, SameInputs, SameMore
<1>5. PlanTyped'
  BY <1>0, <1>1, <1>2, <1>4 DEF PlanTyped, Phases
<1>6. BandSummed'
  <2>1. sums.band = Total(Bands)
    <3>1. SumFunctionOnSet(Bands, todo) = 0
      BY <1>1, SumOfNone
    <3> QED
      BY <1>0, <1>1, <3>1 DEF BandSummed, PlanTyped
  <2>2. sums.slots = Total(Weights)
    <3>1. Weight(todo) = 0
      BY <1>1, SumOfNone DEF Weight
    <3>2. sums.slots \in Nat
      BY <1>0 DEF TierTyped
    <3> QED
      BY <1>0, <1>1, <3>1, <3>2 DEF Summed, Weight, Total
  <2> QED
    BY <1>1, <1>2, <1>4, <2>1, <2>2 DEF BandSummed, Total
<1>7. Untouched'
  BY <1>0, <1>1, <1>2 DEF Untouched
<1>8. Total(Costs) = 0 /\ \A q \in Pool : funded[q] = 0
  <2>1. \A q \in Pool : funded[q] = 0 /\ Costs[q] = 0
    BY <1>0, <1>1 DEF Untouched, Costs
  <2> QED
    BY <2>1, Parameters, SumOfZeros DEF Total
<1>9. \A q \in Pool : <<q, "insufficient_cash">> \notin noted'
  BY <1>1 DEF ExcludedUpFront
<1>10. Deployable \in Nat
  BY <1>0, DeployableIsNat
<1>11. CASE phase' = "fund"
  <2>1. Deployable > 0 /\ todo' = Slotted /\ left' = Deployable /\ Waiting' = Slotted
    BY <1>2, <1>4, <1>11 DEF Waiting
  <2>2. left' + Total(Costs)' <= Deployable'
    BY <1>4, <1>8, <1>10, <2>1 DEF Total
  <2>3. Funding'
    BY <1>1, <1>4, <1>8, <1>9, <2>1, <2>2 DEF Funding
  <2> QED
    BY <1>3, <1>5, <1>6, <1>7, <1>11, <2>3
       DEF PlanInv, Claiming, Projected, Projecting, PlannerNeverRaises
<1>12. CASE phase' = "move"
  <2>1. ~(Deployable > 0 /\ OpenSlots > 0) /\ todo' = Held /\ left' = 0 /\ Waiting' = {}
    BY <1>2, <1>12 DEF Waiting
  <2>2. left' + Total(Costs)' <= Deployable'
    BY <1>4, <1>8, <1>10, <2>1 DEF Total
  <2>3. Deployable > 0 => Slotted = {}
    BY <1>0, <2>1, NoSlots
  <2>4. Funding'
    BY <1>1, <1>4, <1>8, <1>9, <1>12, <2>1, <2>2, <2>3 DEF Funding
  <2>5. Claiming'
    <3>1. \A q \in Pool : moves[q] = NoMove
      BY <1>0, <1>1 DEF Untouched
    <3>2. todo' \subseteq Pool
      BY <2>1 DEF Held
    <3> QED
      BY <1>0, <1>1, <3>1, <3>2, NothingClaimed
  <2> QED
    BY <1>3, <1>5, <1>6, <1>7, <1>12, <2>4, <2>5
       DEF PlanInv, Projected, Projecting, PlannerNeverRaises
<1> QED
  BY <1>2, <1>11, <1>12

LEMMA PlanFundTier == ASSUME PlanInv, NEW p \in Pool, FundTier(p) PROVE PlanInv'
<1>0. TierInv /\ TierTyped /\ PlanTyped /\ BandSummed /\ Untouched /\ Summed
  BY DEF PlanInv, TierInv
<1>1. /\ phase = "fund" /\ p \in todo /\ in' = in /\ phase' = "fund" /\ sums' = sums
      /\ moves' = moves /\ proj' = proj
  BY DEF FundTier, Best
<1>2. TierInv' /\ Funding'
  BY <1>0, FundTierInv, FundTierFunds
<1>3. InBand' = InBand /\ Bands' = Bands /\ Weights' = Weights
  BY <1>1, SameInputs, SameMore
<1>4. funded' \in [Pool -> Nat]
  <2>1. EntrySize(p, Target(p)) \in Nat
    BY <1>0, <1>1, TargetFacts DEF TierTyped
  <2>2. funded' = funded \/ funded' = [funded EXCEPT ![p] = EntrySize(p, Target(p))]
    BY DEF FundTier, Skip, Fund
  <2> QED
    BY <1>0, <2>1, <2>2 DEF PlanTyped
<1>5. PlanTyped'
  BY <1>0, <1>1, <1>3, <1>4 DEF PlanTyped, Phases
<1>6. BandSummed' /\ Untouched'
  BY <1>0, <1>1, <1>3 DEF BandSummed, Untouched, Total
<1> QED
  BY <1>1, <1>2, <1>5, <1>6 DEF PlanInv, Claiming, Projected, Projecting, PlannerNeverRaises

(* Once the tiers are funded, nothing touches them.                        *)
LEMMA FundingStays ==
    ASSUME Funding, phase # "sum", phase' \notin {"sum", "fund"}, Waiting = {}, in' = in,
           sums' = sums, left' = left, funded' = funded, noted' = noted
    PROVE  Funding'
<1>1. /\ Slotted' = Slotted /\ EffectiveMinimum' = EffectiveMinimum /\ Deployable' = Deployable
      /\ Costs' = Costs /\ Waiting' = Waiting
      /\ \A q, r : Better(q, r)' = Better(q, r)
      /\ \A q, b : EntrySize(q, b)' = EntrySize(q, b)
      /\ \A q : TierShare(q)' = TierShare(q) /\ Target(q)' = Target(q)
  BY SameInputs, SameMore DEF Waiting
<1>2. \A q : Tranche(q)' = Tranche(q)
  BY <1>1 DEF Tranche
<1>3. \A q : Refused(q)' = Refused(q)
  BY <1>1 DEF Refused
<1>4. \A q : Starved(q)' = Starved(q)
  BY <1>1 DEF Starved
<1> QED
  BY <1>1, <1>2, <1>3, <1>4 DEF Funding, Total

LEMMA PlanTiersDone == PlanInv /\ TiersDone => PlanInv'
<1> SUFFICES ASSUME PlanInv, TiersDone PROVE PlanInv'
  OBVIOUS
<1>0. TierInv /\ TierTyped /\ PlanTyped /\ BandSummed /\ Untouched /\ Funding
  BY DEF PlanInv, TierInv
<1>1. /\ phase = "fund" /\ todo = {} /\ phase' = "move" /\ todo' = Held /\ in' = in
      /\ sums' = sums /\ left' = left /\ funded' = funded /\ noted' = noted /\ moves' = moves
      /\ proj' = proj
  BY DEF TiersDone
<1>2. TierInv'
  BY <1>0, TierStep DEF AllocNext
<1>3. InBand' = InBand /\ Bands' = Bands /\ Weights' = Weights
  BY <1>1, SameInputs, SameMore
<1>4. Funding'
  BY <1>0, <1>1, FundingStays DEF Waiting
<1>5. Claiming'
  <2>1. todo' \subseteq Pool /\ \A q \in Pool : moves[q] = NoMove
    BY <1>0, <1>1 DEF Held, Untouched
  <2> QED
    BY <1>0, <1>1, <2>1, NothingClaimed
<1>6. PlanTyped'
  BY <1>0, <1>1, <1>3 DEF PlanTyped, Phases
<1>7. BandSummed' /\ Untouched'
  BY <1>0, <1>1, <1>3 DEF BandSummed, Untouched, Total
<1> QED
  BY <1>1, <1>2, <1>4, <1>5, <1>6, <1>7 DEF PlanInv, Projected, Projecting, PlannerNeverRaises

(* A step that leaves the tiers and the reallocations alone.               *)
LEMMA PlanQuiet ==
    ASSUME PlanInv, phase \notin {"sum", "fund"}, phase' \in Phases \ {"sum", "fund"},
           phase' = "move" => phase = "move" /\ todo' \subseteq todo,
           in' = in, sums' = sums, left' = left, funded' = funded, noted' = noted,
           moves' = moves, todo' \subseteq Pool, proj' \in [usd : Int, count : Int]
    PROVE  /\ TierInv' /\ PlanTyped' /\ BandSummed' /\ Untouched' /\ Funding' /\ Claiming'
           /\ (GateOpened <=> GateOpened') /\ Held' = Held /\ Moving' = Moving
           /\ Entering' = Entering /\ Growth' = Growth /\ Entries' = Entries
<1>0. TierInv /\ TierTyped /\ PlanTyped /\ BandSummed /\ Untouched /\ Funding /\ Claiming
      /\ left \in Nat
  BY DEF PlanInv, TierInv, TierTyped
<1>1. /\ InBand' = InBand /\ Slotted' = Slotted /\ Bands' = Bands /\ Weights' = Weights
      /\ Held' = Held /\ Deployable' = Deployable /\ Capped' = Capped /\ Costs' = Costs
      /\ Claimed' = Claimed /\ Growth' = Growth /\ Entering' = Entering /\ Entries' = Entries
      /\ Moving' = Moving /\ \A q : BandShare(q)' = BandShare(q)
  BY SameInputs, SameMore
<1>2. \A q, r : Better(q, r)' = Better(q, r)
  BY SameInputs
<1>3. TierInv'
  BY <1>0, TierQuiet
<1>4. PlanTyped'
  BY <1>0, <1>1 DEF PlanTyped
<1>5. BandSummed' /\ Untouched'
  BY <1>0, <1>1 DEF BandSummed, Untouched, Total
<1>6. Funding'
  BY <1>0, FundingStays DEF Waiting
<1>7. GateOpened <=> GateOpened'
  BY DEF GateOpened
<1>8. ClaimedShares' = ClaimedShares /\ ClaimedCosts' = ClaimedCosts
  BY <1>1 DEF ClaimedShares, ClaimedCosts
<1>9. \A q : Hopeless(q)' = Hopeless(q)
  BY <1>1 DEF Hopeless
<1>10. Claiming'
  BY <1>0, <1>1, <1>2, <1>7, <1>8, <1>9 DEF Claiming, Total
<1> QED
  BY <1>1, <1>3, <1>4, <1>5, <1>6, <1>7, <1>10

(* One turn of the reallocation loop.                                      *)
LEMMA PlanJudge == ASSUME BufferCovers, PlanInv, NEW p \in Pool, JudgeHeld(p) PROVE PlanInv'
<1>0. TierInv /\ TierTyped /\ PlanTyped /\ BandSummed /\ Untouched /\ Funding /\ Claiming
  BY DEF PlanInv, TierInv
<1>1. /\ phase = "move" /\ p \in todo /\ todo' = todo \ {p} /\ in' = in /\ phase' = phase
      /\ sums' = sums /\ left' = left /\ funded' = funded /\ noted' = noted /\ proj' = proj
  BY DEF JudgeHeld, First
<1>2. TierInv'
  BY <1>0, TierStep DEF AllocNext
<1>3. \/ moves' = moves
      \/ \E q \in Replacements(p) :
             /\ Best(q, Replacements(p))
             /\ ~(EntrySize(q, ReplacementBudget(p, q)) < EffectiveMinimum)
             /\ moves' = [moves EXCEPT ![p] =
                              [to |-> q, size |-> EntrySize(q, ReplacementBudget(p, q))]]
  BY DEF JudgeHeld, Replace, Defer
<1>4. CASE moves' = moves
  <2>1. proj' \in [usd : Int, count : Int] /\ todo' \subseteq Pool /\ phase' \in Phases \ {"sum", "fund"}
    BY <1>0, <1>1 DEF PlanTyped, TierTyped, Phases
  <2>2. PlanTyped' /\ BandSummed' /\ Untouched' /\ Funding' /\ Claiming'
    BY <1>1, <1>4, <2>1, PlanQuiet
  <2> QED
    BY <1>1, <1>2, <2>2 DEF PlanInv, Projected, Projecting, PlannerNeverRaises
<1>5. ASSUME NEW q \in Replacements(p), Best(q, Replacements(p)),
             ~(EntrySize(q, ReplacementBudget(p, q)) < EffectiveMinimum),
             moves' = [moves EXCEPT ![p] =
                              [to |-> q, size |-> EntrySize(q, ReplacementBudget(p, q))]]
      PROVE  PlanInv'
  <2>1. EntrySize(q, ReplacementBudget(p, q)) >= EffectiveMinimum
    <3>1. EntrySize(q, ReplacementBudget(p, q)) \in Nat /\ EffectiveMinimum \in Nat
      BY <1>0, <1>1, MoveBudget, Budgets DEF BandSummed, Replacements
    <3> QED
      BY <1>5, <3>1
  <2>2. PlanTyped' /\ Claiming'
    BY <1>1, <1>5, <2>1, MoveClaims
  <2>3. Funding'
    BY <1>0, <1>1, FundingStays DEF Waiting
  <2>4. Bands' = Bands /\ Weights' = Weights
    BY <1>1, SameInputs, SameMore
  <2>5. BandSummed' /\ Untouched'
    BY <1>0, <1>1, <2>4 DEF BandSummed, Untouched, Total
  <2> QED
    BY <1>1, <1>2, <2>2, <2>3, <2>5 DEF PlanInv, Projected, Projecting, PlannerNeverRaises
<1> QED
  BY <1>3, <1>4, <1>5

-----------------------------------------------------------------------------
(* The projection.                                                         *)

LEMMA PlanMovesDone == PlanInv /\ MovesDone => PlanInv'
<1> SUFFICES ASSUME PlanInv, MovesDone PROVE PlanInv'
  OBVIOUS
<1>0. TierTyped /\ PlanTyped
  BY DEF PlanInv, TierInv
<1>1. /\ phase = "move" /\ phase' = "exits" /\ todo' = Exiting /\ in' = in /\ sums' = sums
      /\ left' = left /\ funded' = funded /\ noted' = noted /\ moves' = moves
      /\ proj' = [usd |-> sums.committed, count |-> Cardinality(Held)]
  BY DEF MovesDone
<1>2. Cardinality(Held) \in Nat /\ sums.committed \in Nat
  BY <1>0, Parameters, FS_Subset, FS_CardinalityType DEF Held, TierTyped
<1>3. /\ TierInv' /\ PlanTyped' /\ BandSummed' /\ Untouched' /\ Funding' /\ Claiming'
      /\ Held' = Held /\ Entering' = Entering /\ Growth' = Growth /\ Entries' = Entries
  <2>1. proj' \in [usd : Int, count : Int] /\ phase' \in Phases \ {"sum", "fund"} /\ todo' \subseteq Pool
    BY <1>1, <1>2 DEF Phases, Exiting, Held
  <2> QED
    BY <1>1, <2>1, PlanQuiet
<1>4. Total(Growth) \in Nat /\ Total(Entries) \in Nat /\ Cardinality(Entering) \in Nat
  BY <1>0, PlanNats, FS_CardinalityType
<1>5. Ahead' = Total(Growth) + Total(Entries) /\ Coming' = Cardinality(Entering)
  BY <1>1, <1>3 DEF Ahead, Coming, Total
<1>6. Total(Growth)' = Total(Growth) /\ Total(Entries)' = Total(Entries)
  BY <1>3 DEF Total
<1>7. Projected'
  BY <1>1, <1>2, <1>3, <1>4, <1>5, <1>6 DEF Projected
<1> QED
  BY <1>1, <1>3, <1>7 DEF PlanInv, PlannerNeverRaises

(* The bounds hold at a prefix that is within what the whole plan commits. *)
LEMMA PrefixFits ==
    ASSUME PlanInv, phase \in Projecting, NEW usd \in Int, NEW count \in Int, NEW rest \in Nat,
           NEW coming \in Nat, ~GateOpened, sums.committed <= TotalCap,
           usd + rest <= sums.committed + Total(Growth) + Total(Entries),
           count + coming <= Cardinality(Held) + Cardinality(Entering)
    PROVE  usd <= TotalCap /\ (Entering # {} => count <= MaxPositions)
<1>0. TierTyped /\ PlanTyped /\ BandSummed /\ Funding /\ Claiming
  BY DEF PlanInv, TierInv
<1>1. phase \notin {"sum", "fund"}
  BY DEF Projecting
<1>2. sums.committed + Total(Growth) + Total(Entries) <= TotalCap
  BY <1>0, <1>1, PlanFits
<1>3. /\ Cardinality(Held) \in Nat /\ Cardinality(Entering) \in Nat
      /\ Entering # {} => Cardinality(Held) + Cardinality(Entering) <= MaxPositions
  BY <1>0, <1>1, CountFits
<1>4. sums.committed \in Nat /\ Total(Growth) \in Nat /\ Total(Entries) \in Nat
      /\ TotalCap \in Nat /\ MaxPositions \in Nat
  BY <1>0, PlanNats, Parameters DEF TierTyped
<1> QED
  BY <1>2, <1>3, <1>4

(* The projection of one step that leaves room for the steps behind it.    *)
LEMMA StepFits ==
    ASSUME PlanInv, phase \in Projecting, phase # "inventory", NEW p \in todo, NEW usd \in Int,
           NEW count \in Int, Projects(p, usd, count), NEW rest \in Nat, NEW coming \in Nat,
           proj.usd + usd + rest <= sums.committed + Total(Growth) + Total(Entries),
           proj.count + count + coming <= Cardinality(Held) + Cardinality(Entering),
           count = 1 => Entering # {},
           phase' = phase => Ahead' = rest /\ Coming' = coming
    PROVE  PlanInv'
<1>0. TierTyped /\ PlanTyped /\ Projected
  BY DEF PlanInv, TierInv
<1>1. /\ proj' = [usd |-> proj.usd + usd, count |-> proj.count + count]
      /\ todo' = todo \ {p} /\ in' = in /\ sums' = sums /\ left' = left /\ funded' = funded
      /\ noted' = noted /\ moves' = moves
  BY DEF Projects
<1>2. /\ phase' \in {phase, "raised"}
      /\ phase' = "raised" =>
             proj'.usd > TotalCap \/ (count = 1 /\ proj'.count > MaxPositions)
  BY DEF Projects, Projecting
<1>3. proj'.usd = proj.usd + usd /\ proj'.count = proj.count + count
      /\ proj.usd \in Int /\ proj.count \in Int /\ proj'.usd \in Int /\ proj'.count \in Int
  BY <1>0, <1>1 DEF PlanTyped
<1>4. /\ TierInv' /\ PlanTyped' /\ BandSummed' /\ Untouched' /\ Funding' /\ Claiming'
      /\ (GateOpened <=> GateOpened') /\ Held' = Held /\ Moving' = Moving
      /\ Entering' = Entering /\ Growth' = Growth /\ Entries' = Entries
  <2>1. proj' \in [usd : Int, count : Int]
    BY <1>1, <1>3
  <2>2. phase \notin {"sum", "fund"} /\ phase' \in Phases \ {"sum", "fund"} /\ phase' # "move"
    BY <1>2 DEF Projecting, Phases
  <2>3. todo' \subseteq Pool
    BY <1>0, <1>1 DEF TierTyped
  <2> QED
    BY <1>1, <2>1, <2>2, <2>3, PlanQuiet
<1>5. Total(Growth)' = Total(Growth) /\ Total(Entries)' = Total(Entries)
  BY <1>4 DEF Total
<1>6. Projected'
  <2>1. CASE phase' = phase
    <3>1. proj'.usd + Ahead' <= sums'.committed + Total(Growth)' + Total(Entries)'
      BY <1>1, <1>3, <1>5, <2>1
    <3>2. proj'.count + Coming' <= Cardinality(Held)' + Cardinality(Entering)'
      BY <1>3, <1>4, <2>1
    <3> QED
      BY <1>0, <1>1, <1>4, <2>1, <3>1, <3>2 DEF Projected
  <2>2. CASE phase' = "raised"
    BY <2>2 DEF Projected, Projecting
  <2> QED
    BY <1>2, <2>1, <2>2
<1>7. PlannerNeverRaises'
  <2> SUFFICES ASSUME phase' = "raised", sums.committed <= TotalCap, ~GateOpened PROVE FALSE
    BY <1>0, <1>1, <1>4, Parameters DEF PlannerNeverRaises, TierTyped
  <2>1. proj'.usd <= TotalCap /\ (Entering # {} => proj'.count <= MaxPositions)
    BY <1>3, PrefixFits
  <2>2. proj'.usd > TotalCap \/ (Entering # {} /\ proj'.count > MaxPositions)
    BY <1>2
  <2> QED
    BY <1>3, <2>1, <2>2, Parameters
<1> QED
  BY <1>4, <1>6, <1>7 DEF PlanInv

(* Every step that is projected leaves room for those behind it.           *)
LEMMA PlanProjects ==
    ASSUME PlanInv, NEW p \in Pool,
           ProjectExit(p) \/ ProjectRecenter(p) \/ ProjectMove(p) \/ ProjectEntry(p)
    PROVE  PlanInv'
<1>0. TierTyped /\ PlanTyped /\ Projected /\ Funding
  BY DEF PlanInv, TierInv
<1>1. /\ Total(Growth) \in Nat /\ Total(Entries) \in Nat /\ in.held[p].value \in Nat
      /\ funded[p] \in Nat /\ moves[p].size \in Nat /\ Growth[p] \in Nat
      /\ Cardinality(Held) \in Nat /\ Cardinality(Entering) \in Nat
      /\ proj.usd \in Int /\ proj.count \in Int /\ sums.committed \in Nat
      /\ Entering \subseteq Pool
  <2>1. IsFiniteSet(Held)
    BY Parameters, FS_Subset DEF Held
  <2> QED
    BY <1>0, <2>1, PlanNats, FS_CardinalityType DEF PlanTyped, TierTyped
<1>2. todo \subseteq Pool /\ IsFiniteSet(todo) /\ IsFiniteSet(todo \ {p})
  BY <1>0, Parameters, FS_Subset DEF TierTyped
<1>3. ASSUME in' = in, funded' = funded, moves' = moves
      PROVE  Growth' = Growth /\ Entries' = Entries /\ Entering' = Entering
  BY <1>3, SameMore
<1>4. CASE ProjectExit(p)
  <2>1. /\ phase = "exits" /\ p \in todo /\ Projects(p, -in.held[p].value, -1)
        /\ in' = in /\ funded' = funded /\ moves' = moves
    BY <1>4 DEF ProjectExit, First, Projects
  <2> DEFINE rest == Total(Growth) + Total(Entries)
             coming == Cardinality(Entering)
  <2>2. Ahead = rest /\ Coming = coming
    BY <2>1 DEF Ahead, Coming
  <2>3. phase' = phase => Ahead' = rest /\ Coming' = coming
    BY <1>3, <2>1 DEF Ahead, Coming, Total
  <2>4. /\ proj.usd + rest <= sums.committed + Total(Growth) + Total(Entries)
        /\ proj.count + coming <= Cardinality(Held) + Cardinality(Entering)
    BY <1>0, <2>1, <2>2 DEF Projected, Projecting
  <2>5. rest \in Nat /\ coming \in Nat /\ -in.held[p].value \in Int /\ -1 \in Int
    BY <1>1
  <2> HIDE DEF rest, coming
  <2>6. /\ proj.usd + (-in.held[p].value) + rest <= sums.committed + Total(Growth) + Total(Entries)
        /\ proj.count + (-1) + coming <= Cardinality(Held) + Cardinality(Entering)
    BY <1>1, <2>4, <2>5
  <2>7. phase \in Projecting /\ phase # "inventory" /\ (-1 = 1 => Entering # {})
    BY <2>1 DEF Projecting
  <2> QED
    BY <2>1, <2>3, <2>5, <2>6, <2>7, StepFits
<1>5. CASE ProjectRecenter(p)
  <2>1. /\ phase = "recenters" /\ p \in todo /\ Projects(p, 0, 0)
        /\ in' = in /\ funded' = funded /\ moves' = moves
    BY <1>5 DEF ProjectRecenter, First, Projects
  <2> DEFINE rest == Total(Growth) + Total(Entries)
             coming == Cardinality(Entering)
  <2>2. Ahead = rest /\ Coming = coming
    BY <2>1 DEF Ahead, Coming
  <2>3. phase' = phase => Ahead' = rest /\ Coming' = coming
    BY <1>3, <2>1 DEF Ahead, Coming, Total
  <2>4. /\ proj.usd + rest <= sums.committed + Total(Growth) + Total(Entries)
        /\ proj.count + coming <= Cardinality(Held) + Cardinality(Entering)
    BY <1>0, <2>1, <2>2 DEF Projected, Projecting
  <2>5. rest \in Nat /\ coming \in Nat
    BY <1>1
  <2> HIDE DEF rest, coming
  <2>6. /\ proj.usd + 0 + rest <= sums.committed + Total(Growth) + Total(Entries)
        /\ proj.count + 0 + coming <= Cardinality(Held) + Cardinality(Entering)
    BY <1>1, <2>4, <2>5
  <2>7. phase \in Projecting /\ phase # "inventory" /\ (0 = 1 => Entering # {})
    BY <2>1 DEF Projecting
  <2> QED
    BY <2>1, <2>3, <2>5, <2>6, <2>7, StepFits
<1>6. CASE ProjectMove(p)
  <2>1. /\ phase = "moves" /\ p \in todo /\ Projects(p, moves[p].size - in.held[p].value, 0)
        /\ in' = in /\ funded' = funded /\ moves' = moves /\ todo' = todo \ {p}
    BY <1>6 DEF ProjectMove, First, Projects
  <2> DEFINE others == SumFunctionOnSet(Growth, todo \ {p})
             rest == others + Total(Entries)
             coming == Cardinality(Entering)
             usd == moves[p].size - in.held[p].value
  <2>2. SumFunctionOnSet(Growth, todo) = Growth[p] + others /\ others \in Nat
    <3>1. \A q \in Pool : Growth[q] \in Nat
      BY <1>0, PlanNats
    <3>2. /\ \A q \in todo : Growth[q] \in Int
          /\ \A q \in todo \ {p} : Growth[q] \in Nat
      BY <1>2, <3>1
    <3>3. SumFunctionOnSet(Growth, todo) = Growth[p] + others
      BY <1>2, <2>1, <3>2, SumTakesOut
    <3>4. others \in Nat
      BY <1>2, <3>2, SumIsNat
    <3> QED
      BY <3>3, <3>4
  <2>3. Ahead = Growth[p] + others + Total(Entries) /\ Coming = coming
    BY <2>1, <2>2 DEF Ahead, Coming
  <2>4. phase' = phase => Ahead' = rest /\ Coming' = coming
    BY <1>3, <2>1 DEF Ahead, Coming, Total
  <2>5. /\ proj.usd + (Growth[p] + others + Total(Entries)) <= sums.committed + Total(Growth) + Total(Entries)
        /\ proj.count + coming <= Cardinality(Held) + Cardinality(Entering)
    BY <1>0, <2>1, <2>3 DEF Projected, Projecting
  <2>6. usd \in Int /\ usd <= Growth[p]
    BY <1>1 DEF Growth
  <2> HIDE DEF others, usd
  <2>7. rest \in Nat /\ coming \in Nat
    BY <1>1, <2>2
  <2>8. /\ proj.usd + usd + rest <= sums.committed + Total(Growth) + Total(Entries)
        /\ proj.count + 0 + coming <= Cardinality(Held) + Cardinality(Entering)
    BY <1>1, <2>2, <2>5, <2>6
  <2>9. phase \in Projecting /\ phase # "inventory" /\ (0 = 1 => Entering # {}) /\ Projects(p, usd, 0)
    BY <2>1 DEF Projecting, usd
  <2> HIDE DEF rest, coming
  <2> QED
    BY <2>1, <2>4, <2>6, <2>7, <2>8, <2>9, StepFits
<1>7. CASE ProjectEntry(p)
  <2>1. /\ phase = "entries" /\ p \in todo /\ Projects(p, funded[p], 1)
        /\ in' = in /\ funded' = funded /\ moves' = moves /\ todo' = todo \ {p}
    BY <1>7 DEF ProjectEntry, Best, Projects
  <2> DEFINE rest == SumFunctionOnSet(Entries, todo \ {p})
             coming == Cardinality(todo \ {p})
  <2>2. p \in Entering /\ Entries[p] = funded[p]
    BY <1>0, <2>1 DEF Projected, Projecting, Entries
  <2>3. SumFunctionOnSet(Entries, todo) = funded[p] + rest /\ rest \in Nat
    <3>1. \A q \in Pool : Entries[q] \in Nat
      BY <1>0, PlanNats
    <3>2. /\ \A q \in todo : Entries[q] \in Int
          /\ \A q \in todo \ {p} : Entries[q] \in Nat
      BY <1>2, <3>1
    <3>3. SumFunctionOnSet(Entries, todo) = Entries[p] + rest
      BY <1>2, <2>1, <3>2, SumTakesOut
    <3>4. rest \in Nat
      BY <1>2, <3>2, SumIsNat
    <3> QED
      BY <2>2, <3>3, <3>4
  <2>4. Cardinality(todo) = coming + 1 /\ coming \in Nat
    <3>1. Cardinality(todo \ {p}) = Cardinality(todo) - 1 /\ Cardinality(todo) \in Nat
          /\ Cardinality(todo \ {p}) \in Nat
      BY <1>2, <2>1, FS_RemoveElement, FS_CardinalityType
    <3> QED
      BY <3>1
  <2>5. Ahead = SumFunctionOnSet(Entries, todo) /\ Coming = Cardinality(todo)
    BY <2>1 DEF Ahead, Coming
  <2>6. phase' = phase => Ahead' = rest /\ Coming' = coming
    BY <1>3, <2>1 DEF Ahead, Coming
  <2>7. /\ proj.usd + SumFunctionOnSet(Entries, todo) <= sums.committed + Total(Growth) + Total(Entries)
        /\ proj.count + Cardinality(todo) <= Cardinality(Held) + Cardinality(Entering)
    BY <1>0, <2>1, <2>5 DEF Projected, Projecting
  <2> HIDE DEF rest, coming
  <2>8. /\ proj.usd + funded[p] + rest <= sums.committed + Total(Growth) + Total(Entries)
        /\ proj.count + 1 + coming <= Cardinality(Held) + Cardinality(Entering)
    BY <1>1, <2>3, <2>4, <2>7
  <2>9. phase \in Projecting /\ phase # "inventory" /\ Entering # {} /\ funded[p] \in Int /\ 1 \in Int
    BY <1>1, <2>1, <2>2 DEF Projecting
  <2> QED
    BY <2>1, <2>3, <2>4, <2>6, <2>8, <2>9, StepFits
<1> QED
  BY <1>4, <1>5, <1>6, <1>7

(* The inventory step commits nothing.                                     *)
LEMMA PlanInventory == PlanInv /\ ProjectInventory => PlanInv'
<1> SUFFICES ASSUME PlanInv, ProjectInventory PROVE PlanInv'
  OBVIOUS
<1>0. TierTyped /\ PlanTyped /\ Projected
  BY DEF PlanInv, TierInv
<1>1. /\ phase = "inventory" /\ phase' \in {"raised", "recenters"} /\ todo' = Recentering
      /\ phase' = "raised" => proj.usd > TotalCap
      /\ in' = in /\ sums' = sums /\ left' = left /\ funded' = funded /\ noted' = noted
      /\ moves' = moves /\ proj' = proj
  BY DEF ProjectInventory
<1>2. /\ TierInv' /\ PlanTyped' /\ BandSummed' /\ Untouched' /\ Funding' /\ Claiming'
      /\ (GateOpened <=> GateOpened') /\ Held' = Held /\ Moving' = Moving
      /\ Entering' = Entering /\ Growth' = Growth /\ Entries' = Entries
  <2>1. proj' \in [usd : Int, count : Int] /\ phase' \in Phases \ {"sum", "fund"} /\ todo' \subseteq Pool
        /\ phase' # "move"
    BY <1>0, <1>1 DEF PlanTyped, Phases, Recentering, Held
  <2> QED
    BY <1>1, <2>1, PlanQuiet
<1>3. Total(Growth)' = Total(Growth) /\ Total(Entries)' = Total(Entries)
  BY <1>2 DEF Total
<1>4. /\ Ahead = Total(Growth) + Total(Entries) /\ Coming = Cardinality(Entering)
      /\ proj.usd + Ahead <= sums.committed + Total(Growth) + Total(Entries)
      /\ proj.count + Coming <= Cardinality(Held) + Cardinality(Entering)
  BY <1>0, <1>1 DEF Projected, Projecting, Ahead, Coming
<1>5. Projected'
  <2>1. CASE phase' = "recenters"
    <3>1. Ahead' = Ahead /\ Coming' = Coming
      BY <1>2, <1>3, <1>4, <2>1 DEF Ahead, Coming
    <3> QED
      BY <1>1, <1>2, <1>3, <1>4, <2>1, <3>1 DEF Projected
  <2>2. CASE phase' = "raised"
    BY <2>2 DEF Projected, Projecting
  <2> QED
    BY <1>1, <2>1, <2>2
<1>6. PlannerNeverRaises'
  <2> SUFFICES ASSUME phase' = "raised", sums.committed <= TotalCap, ~GateOpened PROVE FALSE
    BY <1>0, <1>1, <1>2, Parameters DEF PlannerNeverRaises, TierTyped
  <2>1. Total(Growth) + Total(Entries) \in Nat /\ Cardinality(Entering) \in Nat
        /\ proj.usd \in Int /\ proj.count \in Int
    BY <1>0, PlanNats, FS_CardinalityType DEF PlanTyped
  <2>2. proj.usd <= TotalCap
    BY <1>1, <1>4, <2>1, PrefixFits DEF Projecting
  <2> QED
    BY <1>1, <2>1, <2>2, Parameters
<1> QED
  BY <1>2, <1>5, <1>6 DEF PlanInv

LEMMA PlanProjectOn == PlanInv /\ ProjectOn => PlanInv'
<1> SUFFICES ASSUME PlanInv, ProjectOn PROVE PlanInv'
  OBVIOUS
<1>0. TierTyped /\ PlanTyped /\ Projected
  BY DEF PlanInv, TierInv
<1>1. /\ phase \in {"exits", "recenters", "moves", "entries"} /\ todo = {}
      /\ in' = in /\ sums' = sums /\ left' = left /\ funded' = funded /\ noted' = noted
      /\ moves' = moves /\ proj' = proj
  BY DEF ProjectOn
<1>2. /\ phase = "exits" => phase' = "inventory"
      /\ phase = "recenters" => phase' = "moves" /\ todo' = Moving
      /\ phase = "moves" => phase' = "entries" /\ todo' = Entering
      /\ phase = "entries" => phase' = "done"
      /\ todo' \in {Moving, Entering, {}}
  BY DEF ProjectOn
<1>3. /\ TierInv' /\ PlanTyped' /\ BandSummed' /\ Untouched' /\ Funding' /\ Claiming'
      /\ (GateOpened <=> GateOpened') /\ Held' = Held /\ Moving' = Moving
      /\ Entering' = Entering /\ Growth' = Growth /\ Entries' = Entries
  <2>1. proj' \in [usd : Int, count : Int] /\ todo' \subseteq Pool
    BY <1>0, <1>1, <1>2 DEF PlanTyped, Moving, Entering, Held
  <2>2. phase' \in Phases \ {"sum", "fund"} /\ phase' # "move" /\ phase \notin {"sum", "fund"}
    BY <1>1, <1>2 DEF Phases
  <2> QED
    BY <1>1, <2>1, <2>2, PlanQuiet
<1>4. Total(Growth)' = Total(Growth) /\ Total(Entries)' = Total(Entries)
  BY <1>3 DEF Total
<1>5. /\ Total(Growth) \in Nat /\ Total(Entries) \in Nat /\ Cardinality(Entering) \in Nat
      /\ proj.usd \in Int /\ proj.count \in Int /\ sums.committed \in Nat
      /\ \A p \in Pool : Growth[p] \in Nat /\ Entries[p] \in Nat
  BY <1>0, PlanNats, FS_CardinalityType DEF PlanTyped, TierTyped
<1>6. /\ proj.usd + Ahead <= sums.committed + Total(Growth) + Total(Entries)
      /\ proj.count + Coming <= Cardinality(Held) + Cardinality(Entering)
  BY <1>0, <1>1 DEF Projected, Projecting
<1>7. CASE phase = "exits"
  <2>1. Ahead' = Ahead /\ Coming' = Coming
    BY <1>2, <1>3, <1>4, <1>7 DEF Ahead, Coming
  <2>2. Projected'
    BY <1>1, <1>2, <1>3, <1>4, <1>6, <1>7, <2>1 DEF Projected
  <2> QED
    BY <1>2, <1>3, <1>7, <2>2 DEF PlanInv, PlannerNeverRaises
<1>8. CASE phase = "recenters"
  <2>1. Moving \subseteq Pool
    BY DEF Moving, Held
  <2>2. SumFunctionOnSet(Growth, Moving) <= Total(Growth) /\ SumFunctionOnSet(Growth, Moving) \in Nat
    <3>1. IsFiniteSet(Pool) /\ IsFiniteSet(Moving)
      BY <2>1, Parameters, FS_Subset
    <3>2. SumFunctionOnSet(Growth, Moving) <= SumFunctionOnSet(Growth, Pool)
      BY <1>5, <2>1, <3>1, PartialSum
    <3>3. SumFunctionOnSet(Growth, Moving) \in Nat
      BY <1>5, <2>1, <3>1, SumIsNat
    <3> QED
      BY <3>2, <3>3 DEF Total
  <2>3. Ahead = Total(Growth) + Total(Entries) /\ Coming' = Coming
        /\ Ahead' = SumFunctionOnSet(Growth, Moving) + Total(Entries)
    BY <1>2, <1>3, <1>4, <1>8 DEF Ahead, Coming
  <2>4. proj.usd + Ahead' <= sums.committed + Total(Growth) + Total(Entries)
    BY <1>5, <1>6, <2>2, <2>3
  <2>5. Projected'
    BY <1>1, <1>2, <1>3, <1>4, <1>6, <1>8, <2>3, <2>4 DEF Projected
  <2> QED
    BY <1>2, <1>3, <1>8, <2>5 DEF PlanInv, PlannerNeverRaises
<1>9. CASE phase = "moves"
  <2>1. Entering \subseteq Pool
    BY DEF Entering
  <2>2. SumFunctionOnSet(Entries, Entering) <= Total(Entries) /\ SumFunctionOnSet(Entries, Entering) \in Nat
    <3>1. IsFiniteSet(Pool) /\ IsFiniteSet(Entering)
      BY <2>1, Parameters, FS_Subset
    <3>2. SumFunctionOnSet(Entries, Entering) <= SumFunctionOnSet(Entries, Pool)
      BY <1>5, <2>1, <3>1, PartialSum
    <3>3. SumFunctionOnSet(Entries, Entering) \in Nat
      BY <1>5, <2>1, <3>1, SumIsNat
    <3> QED
      BY <3>2, <3>3 DEF Total
  <2>3. SumFunctionOnSet(Growth, todo) = 0
    BY <1>1, SumOfNone
  <2>4. Ahead = 0 + Total(Entries) /\ Coming = Cardinality(Entering)
        /\ Ahead' = SumFunctionOnSet(Entries, Entering) /\ Coming' = Cardinality(Entering)
    BY <1>2, <1>3, <1>9, <2>3 DEF Ahead, Coming
  <2>5. proj.usd + Ahead' <= sums.committed + Total(Growth) + Total(Entries)
    BY <1>5, <1>6, <2>2, <2>4
  <2>6. Projected'
    BY <1>1, <1>2, <1>3, <1>4, <1>6, <1>9, <2>4, <2>5 DEF Projected
  <2> QED
    BY <1>2, <1>3, <1>9, <2>6 DEF PlanInv, PlannerNeverRaises
<1>10. CASE phase = "entries"
  BY <1>2, <1>3, <1>10 DEF PlanInv, PlannerNeverRaises, Projected, Projecting
<1> QED
  BY <1>1, <1>7, <1>8, <1>9, <1>10

LEMMA PlanStutter == PlanInv /\ UNCHANGED allocVars => PlanInv'
<1> SUFFICES ASSUME PlanInv, UNCHANGED allocVars PROVE PlanInv'
  OBVIOUS
<1>1. /\ in' = in /\ phase' = phase /\ todo' = todo /\ sums' = sums /\ left' = left
      /\ funded' = funded /\ noted' = noted /\ moves' = moves /\ proj' = proj
  BY DEF allocVars
<1>2. TierInv'
  BY TierStep DEF PlanInv
<1>3. /\ Slotted' = Slotted /\ EffectiveMinimum' = EffectiveMinimum /\ Deployable' = Deployable
      /\ InBand' = InBand /\ Weights' = Weights /\ Held' = Held
      /\ \A q, r : Better(q, r)' = Better(q, r)
      /\ \A q, b : EntrySize(q, b)' = EntrySize(q, b)
      /\ \A q : TierShare(q)' = TierShare(q) /\ Target(q)' = Target(q)
  BY <1>1, SameInputs
<1>4. /\ Bands' = Bands /\ Costs' = Costs /\ Claimed' = Claimed /\ Growth' = Growth
      /\ Entering' = Entering /\ Entries' = Entries /\ Moving' = Moving /\ Capped' = Capped
      /\ \A q : BandShare(q)' = BandShare(q)
  BY <1>1, SameMore
<1>5. Waiting' = Waiting
  BY <1>1 DEF Waiting
<1>6. PlanTyped' /\ BandSummed' /\ Untouched'
  BY <1>1, <1>3, <1>4 DEF PlanInv, PlanTyped, BandSummed, Untouched, Total
<1>7. Funding'
  <2>1. \A q : Tranche(q)' = Tranche(q)
    BY <1>1, <1>3, <1>5 DEF Tranche
  <2>2. \A q : Refused(q)' = Refused(q)
    BY <1>1, <1>3 DEF Refused
  <2>3. \A q : Starved(q)' = Starved(q)
    BY <1>1, <1>3, <1>5 DEF Starved
  <2>4. Funding
    BY DEF PlanInv
  <2> QED
    BY <1>1, <1>3, <1>4, <1>5, <2>1, <2>2, <2>3, <2>4 DEF Funding, Total
<1>8. GateOpened <=> GateOpened'
  BY <1>1 DEF GateOpened
<1>9. Claiming'
  <2>1. ClaimedShares' = ClaimedShares /\ ClaimedCosts' = ClaimedCosts
    BY <1>4 DEF ClaimedShares, ClaimedCosts
  <2>2. \A q : Hopeless(q)' = Hopeless(q)
    BY <1>1, <1>3 DEF Hopeless
  <2>3. Claiming
    BY DEF PlanInv
  <2> QED
    BY <1>1, <1>3, <1>4, <1>8, <2>1, <2>2, <2>3 DEF Claiming, Total
<1>10. Projected'
  <2>1. Ahead' = Ahead /\ Coming' = Coming
    BY <1>1, <1>4 DEF Ahead, Coming, Total
  <2> QED
    BY <1>1, <1>3, <1>4, <2>1 DEF PlanInv, Projected, Total
<1>11. PlannerNeverRaises'
  BY <1>1, <1>8 DEF PlanInv, PlannerNeverRaises
<1> QED
  BY <1>2, <1>6, <1>7, <1>9, <1>10, <1>11 DEF PlanInv

LEMMA PlanStep == ASSUME BufferCovers PROVE PlanInv /\ [AllocNext]_allocVars => PlanInv'
<1> SUFFICES ASSUME PlanInv, [AllocNext]_allocVars PROVE PlanInv'
  OBVIOUS
<1>1. ASSUME NEW p \in Pool, SumUp(p) \/ FundTier(p) \/ JudgeHeld(p) PROVE PlanInv'
  BY <1>1, PlanSumUp, PlanFundTier, PlanJudge
<1>2. ASSUME NEW p \in Pool,
             ProjectExit(p) \/ ProjectRecenter(p) \/ ProjectMove(p) \/ ProjectEntry(p)
      PROVE  PlanInv'
  BY <1>2, PlanProjects
<1>3. CASE OpenBudget \/ TiersDone \/ MovesDone
  BY <1>3, PlanOpenBudget, PlanTiersDone, PlanMovesDone
<1>4. CASE ProjectInventory \/ ProjectOn
  BY <1>4, PlanInventory, PlanProjectOn
<1>5. CASE UNCHANGED allocVars
  BY <1>5, PlanStutter
<1> QED
  BY <1>1, <1>2, <1>3, <1>4, <1>5 DEF AllocNext

(* plan_portfolio_rebalance, PlannerNeverRaises: for every board, book and *)
(* every setting of the parameters under which the swap buffer of the      *)
(* smallest position is worth a unit of rounding for every slot.           *)
THEOREM PlannerDoesNotRaise ==
    ASSUME BufferCovers
    PROVE  AllocSpec => []PlannerNeverRaises
<1>1. PlanInv => PlannerNeverRaises
  BY DEF PlanInv
<1>2. PlanInv /\ [AllocNext]_allocVars => PlanInv'
  BY PlanStep
<1> QED
  BY <1>1, <1>2, PlanInit, PTL DEF AllocSpec
-----------------------------------------------------------------------------
(* The reconstruction of a pool's past.                                    *)

PastTyped == /\ past.kind \in {"swaps", "stakes"} /\ past.times \in Clocks
             /\ past.stakes \in Stakes /\ past.drift \in Drifts

HistShape ==
    /\ hist = [phase |-> hist.phase, low |-> hist.low, high |-> hist.high, known |-> hist.known,
               pending |-> hist.pending, events |-> hist.events, tries |-> hist.tries,
               mode |-> hist.mode, series |-> hist.series]
    /\ hist.phase \in {"search", "logs", "headers", "done", "failed"}
    /\ hist.low \in Nat /\ hist.high \in Nat /\ hist.low <= hist.high /\ hist.high <= Tip
    /\ hist.phase \in {"search", "logs", "headers"} => hist.mode = "none"

(* The first block inside the window is between low and high.              *)
Bracketed ==
    /\ \A c \in 0..(hist.low - 1) : past.times[c] < Earliest
    /\ past.times[hist.high] >= Earliest
    /\ hist.phase \in {"logs", "headers", "done"} => hist.low = hist.high

(* A window of the range that is to be read, and the blocks it covers.     *)
Window(w) == w[1] \in Nat /\ w[2] \in Nat /\ hist.low <= w[1] /\ w[1] <= w[2] /\ w[2] <= Tip
Covers(w, k) == w[1] <= k /\ k <= w[2]
Pair == Nat \X Nat

(* What is read are events of the range; those of a block that are missing *)
(* are still to be read in some window, until none is left.                *)
Gathered ==
    /\ hist.phase = "search" => hist.events = {}
    /\ hist.phase = "logs" => hist.events \subseteq Logs(hist.low, Tip)
    /\ hist.phase = "logs" =>
           /\ hist.pending \in Seq(Pair)
           /\ \A i \in 1..Len(hist.pending) : Window(hist.pending[i])
           /\ \A k \in hist.low..Tip :
                  \/ \E i \in 1..Len(hist.pending) : Covers(hist.pending[i], k)
                  \/ Logs(k, k) \subseteq hist.events
    /\ hist.phase \in {"headers", "done"} => hist.events = Logs(hist.low, Tip)

(* What has been concluded of them.                                        *)
Concluded ==
    hist.phase = "done" =>
        /\ \A l \in hist.events : l.block \in hist.known
        /\ hist.mode = "event_fold" =>
               \A s \in hist.series :
                   s.after \in hist.events \cup {Origin} /\ s.staked = FoldedAfter(s.after)

HistoryInv == PastTyped /\ HistShape /\ Bracketed /\ Gathered /\ Concluded

-----------------------------------------------------------------------------
(* Lemmas on windows and answers.                                          *)

LEMMA HistoryFacts ==
    /\ Tip \in Nat /\ Lookback \in Nat /\ NodeCap \in Nat
    /\ LogWindow \in Nat \ {0} /\ LogBound \in Nat \ {0} /\ NodeCap >= LogBound
    /\ \A t \in Clocks : /\ t \in [0..Tip -> Nat]
                         /\ \A j, k \in 0..Tip : j <= k => t[j] <= t[k]
    /\ \A s \in Stakes : \A k \in 0..Tip : Len(s[k]) \in Nat
    /\ \A d \in Drifts : d.at \in Int
BY HistoryAssumption

(* Division by the window length.                                          *)
LEMMA WindowCount ==
    ASSUME NEW x \in Nat
    PROVE  /\ x \div LogWindow \in Nat /\ (x \div LogWindow) * LogWindow \in Nat
           /\ (x \div LogWindow) * LogWindow <= x
           /\ x < (x \div LogWindow) * LogWindow + LogWindow
BY HistoryFacts

LEMMA WindowStart ==
    ASSUME NEW x \in Nat, NEW k \in Nat, k <= x \div LogWindow
    PROVE  k * LogWindow \in Nat /\ k * LogWindow <= x
BY HistoryFacts, WindowCount

LEMMA LogsOf ==
    ASSUME NEW l, NEW a, NEW b
    PROVE  l \in Logs(a, b) <=>
               \E k \in a..b : \E i \in 1..Len(past.stakes[k]) : l = [block |-> k, index |-> i]
BY DEF Logs

LEMMA LogPlaces ==
    ASSUME PastTyped, NEW a \in Nat, NEW b \in Nat, b <= Tip, NEW l \in Logs(a, b)
    PROVE  l \in [block : Nat, index : Nat] /\ l.block \in a..b /\ l.block <= Tip
<1>1. PICK k \in a..b : \E i \in 1..Len(past.stakes[k]) : l = [block |-> k, index |-> i]
  BY LogsOf
<1>2. PICK i \in 1..Len(past.stakes[k]) : l = [block |-> k, index |-> i]
  BY <1>1
<1>3. k \in Nat /\ k <= Tip /\ Len(past.stakes[k]) \in Nat
  BY HistoryFacts DEF PastTyped
<1> QED
  BY <1>2, <1>3

LEMMA LogsFinite ==
    ASSUME PastTyped, NEW a \in Nat, NEW b \in Nat, b <= Tip
    PROVE  IsFiniteSet(Logs(a, b))
<1> DEFINE at(k) == {[block |-> k, index |-> i] : i \in 1..Len(past.stakes[k])}
           all == {at(k) : k \in a..b}
<1>1. ASSUME NEW k \in a..b PROVE IsFiniteSet(at(k))
  <2> DEFINE f == [i \in 1..Len(past.stakes[k]) |-> [block |-> k, index |-> i]]
  <2>1. Len(past.stakes[k]) \in Nat
    BY HistoryFacts DEF PastTyped
  <2>2. f \in Surjection(1..Len(past.stakes[k]), at(k))
    BY DEF Surjection
  <2> HIDE DEF f, at
  <2>3. IsFiniteSet(1..Len(past.stakes[k]))
    BY <2>1, FS_Interval
  <2> QED
    BY <2>2, <2>3, FS_Surjection
<1>2. IsFiniteSet(all)
  <2> DEFINE f == [k \in a..b |-> at(k)]
  <2> HIDE DEF at
  <2>1. f \in Surjection(a..b, all)
    BY DEF Surjection
  <2>2. IsFiniteSet(a..b)
    BY FS_Interval
  <2> HIDE DEF f, all
  <2> QED
    BY <2>1, <2>2, FS_Surjection
<1>3. \A s \in all : IsFiniteSet(s)
  BY <1>1
<1>4. Logs(a, b) = UNION all
  BY DEF Logs
<1> HIDE DEF all
<1> QED
  BY <1>2, <1>3, <1>4, FS_UNION

(* An answer below the node's cap is the whole of it: the first event that *)
(* is not let through has as many before it as the cap, all let through.   *)
LEMMA UncutAnswer ==
    ASSUME NEW ls, ls \subseteq [block : Nat, index : Nat], IsFiniteSet(ls),
           Cardinality(LetThrough(ls)) < NodeCap
    PROVE  LetThrough(ls) = ls
<1> DEFINE before(l) == {m \in ls : Before(m, l)}
           cut == {before(l) : l \in ls \ LetThrough(ls)}
           less == StrictSubsetOrdering(ls)
<1> SUFFICES ASSUME cut # {} PROVE FALSE
  BY DEF LetThrough
<1>1. cut \subseteq FiniteSubsetsOf(ls)
  BY FS_Subset DEF FiniteSubsetsOf
<1>2. IsWellFoundedOn(less, FiniteSubsetsOf(ls))
  BY FS_StrictSubsetOrderingWellFounded
<1>3. PICK s \in cut : \A t \in cut : ~(<<t, s>> \in less)
  <2> HIDE DEF cut, less
  <2> QED
    BY <1>1, <1>2, WFMin
<1>4. PICK l \in ls \ LetThrough(ls) : s = before(l)
  OBVIOUS
<1>5. ASSUME NEW m \in before(l) PROVE m \in LetThrough(ls)
  <2> SUFFICES ASSUME m \notin LetThrough(ls) PROVE FALSE
    OBVIOUS
  <2>1. before(m) \subseteq before(l) /\ m \notin before(m)
    BY DEF Before
  <2>2. before(m) \in cut
    OBVIOUS
  <2>3. <<before(m), s>> \in less
    BY <1>1, <1>4, <2>1, <2>2 DEF StrictSubsetOrdering, FiniteSubsetsOf
  <2> QED
    BY <1>3, <2>2, <2>3
<1>6. LetThrough(ls) \subseteq ls /\ IsFiniteSet(LetThrough(ls))
  BY FS_Subset DEF LetThrough
<1>7. Cardinality(before(l)) <= Cardinality(LetThrough(ls)) /\ Cardinality(before(l)) \in Nat
      /\ Cardinality(LetThrough(ls)) \in Nat
  BY <1>5, <1>6, FS_Subset, FS_CardinalityType
<1>8. Cardinality(before(l)) < NodeCap
  BY <1>7, HistoryFacts
<1> QED
  BY <1>8 DEF LetThrough

(* The windows a range is cut into cover it.                               *)
LEMMA WindowsCover ==
    ASSUME HistShape
    PROVE  LET ws == Windows(hist.low, Tip)
           IN  /\ ws \in Seq(Pair)
               /\ \A i \in 1..Len(ws) : Window(ws[i])
               /\ \A k \in hist.low..Tip : \E i \in 1..Len(ws) : Covers(ws[i], k)
<1> DEFINE a == hist.low
           n == (Tip - a) \div LogWindow
           ws == Windows(a, Tip)
           first(k) == a + (k - 1) * LogWindow
           last(k) == IF first(k) + LogWindow - 1 < Tip THEN first(k) + LogWindow - 1 ELSE Tip
<1>0. a \in Nat /\ a <= Tip /\ Tip \in Nat /\ Tip - a \in Nat
  BY HistoryFacts DEF HistShape
<1>1. n \in Nat
  BY <1>0, WindowCount
<1>2. ASSUME NEW k \in 1..(n + 1)
      PROVE  /\ first(k) \in Nat /\ a <= first(k) /\ first(k) <= Tip
             /\ last(k) \in Nat /\ first(k) <= last(k) /\ last(k) <= Tip
  <2>1. k - 1 \in Nat /\ k - 1 <= n
    BY <1>1
  <2>2. (k - 1) * LogWindow \in Nat /\ (k - 1) * LogWindow <= Tip - a
    BY <1>0, <2>1, WindowStart
  <2> DEFINE off == (k - 1) * LogWindow
  <2> HIDE DEF off
  <2>3. first(k) = a + off
    BY DEF off
  <2>4. off \in Nat /\ off <= Tip - a
    BY <2>2 DEF off
  <2>5. first(k) \in Nat /\ a <= first(k) /\ first(k) <= Tip
    BY <1>0, <2>3, <2>4
  <2> HIDE DEF first
  <2> QED
    BY <1>0, <2>5, HistoryFacts
<1>3. ws = [k \in 1..(n + 1) |-> <<first(k), last(k)>>]
  BY DEF Windows
<1> DEFINE after(k) == a + k * LogWindow
<1>7. ASSUME NEW k \in Int PROVE first(k + 1) = after(k)
  BY HistoryFacts
<1> HIDE DEF first, last, n, after
<1>4. ws \in Seq(Pair) /\ Len(ws) = n + 1
  <2>1. \A k \in 1..(n + 1) : <<first(k), last(k)>> \in Pair
    BY <1>2 DEF Pair
  <2> QED
    BY <1>1, <1>3, <2>1
<1>5. \A i \in 1..Len(ws) : Window(ws[i])
  <2> SUFFICES ASSUME NEW i \in 1..(n + 1) PROVE Window(ws[i])
    BY <1>4
  <2>1. ws[i] = <<first(i), last(i)>>
    BY <1>3
  <2> QED
    BY <1>2, <2>1 DEF Window
<1>6. ASSUME NEW k \in a..Tip PROVE \E i \in 1..Len(ws) : Covers(ws[i], k)
  <2> DEFINE q == (k - a) \div LogWindow
             off == q * LogWindow
  <2>0. k - a \in Nat /\ k \in Nat /\ k <= Tip
    BY <1>0
  <2>1. q \in Nat /\ off <= k - a /\ k - a < off + LogWindow /\ off \in Nat
    BY <2>0, WindowCount
  <2>2. q <= n
    <3>1. k - a <= Tip - a /\ Tip - a \in Nat
      BY <1>0, <2>0
    <3>2. Tip - a < n * LogWindow + LogWindow
      BY <3>1, WindowCount DEF n
    <3>3. q * LogWindow < n * LogWindow + LogWindow
      <4> DEFINE m == n * LogWindow
      <4>1. m \in Nat
        BY <1>1, HistoryFacts
      <4> HIDE DEF m, q
      <4> QED
        BY <2>0, <2>1, <3>1, <3>2, <4>1, HistoryFacts DEF m
    <3>4. q * LogWindow < (n + 1) * LogWindow
      <4> HIDE DEF q
      <4> QED
        BY <1>1, <3>3, HistoryFacts
    <3> HIDE DEF q
    <3> QED
      BY <1>1, <2>1, <3>4, HistoryFacts
  <2>3. q + 1 \in 1..(n + 1) /\ first(q + 1) = a + off
    <3> HIDE DEF q
    <3>1. q + 1 \in 1..(n + 1)
      BY <1>1, <2>1, <2>2
    <3>2. first(q + 1) = after(q)
      BY <1>7, <2>1
    <3>3. after(q) = a + q * LogWindow
      BY Zenon DEF after
    <3> QED
      BY <3>1, <3>2, <3>3
  <2> HIDE DEF q, off
  <2>4. first(q + 1) <= k /\ k <= last(q + 1)
    BY <1>0, <2>0, <2>1, <2>3, HistoryFacts DEF last
  <2>5. ws[q + 1] = <<first(q + 1), last(q + 1)>>
    BY <1>3, <2>3
  <2> QED
    BY <1>4, <2>3, <2>4, <2>5 DEF Covers
<1> QED
  BY <1>4, <1>5, <1>6

LEMMA HistoryInitInv == HistoryInit => HistoryInv
<1> SUFFICES ASSUME HistoryInit PROVE HistoryInv
  OBVIOUS
<1>1. PastTyped
  BY DEF HistoryInit, PastTyped
<1>2. HistShape /\ hist.phase = "search" /\ hist.low = 0 /\ hist.high = Tip /\ hist.events = {}
  BY HistoryFacts DEF HistoryInit, Searching, HistShape
<1>3. past.times[Tip] \in Nat
  BY <1>1, HistoryFacts DEF PastTyped
<1>4. Bracketed
  BY <1>2, <1>3, HistoryFacts DEF Bracketed, Earliest
<1> QED
  BY <1>1, <1>2, <1>4 DEF HistoryInv, Gathered, Concluded

(* A step that gives up.                                                   *)
LEMMA FailInv == HistoryInv /\ Fail => HistoryInv'
<1> SUFFICES ASSUME HistoryInv, Fail PROVE HistoryInv'
  OBVIOUS
<1>1. HistShape'
  BY DEF Fail, HistoryInv, HistShape
<1>2. hist'.phase = "failed" /\ hist'.low = hist.low /\ hist'.high = hist.high /\ past' = past
  BY DEF Fail, HistoryInv, HistShape
<1> QED
  BY <1>1, <1>2 DEF HistoryInv, PastTyped, Bracketed, Gathered, Concluded, Earliest

(* Where in the search, or in the reading, nothing is decided.             *)
LEMMA QuietInv ==
    ASSUME HistoryInv, past' = past, HistShape', hist'.phase = hist.phase, hist'.low = hist.low,
           hist'.high = hist.high, hist'.pending = hist.pending, hist'.events = hist.events,
           hist.phase # "done"
    PROVE  HistoryInv'
BY DEF HistoryInv, PastTyped, Bracketed, Gathered, Concluded, Earliest, Window, Logs

LEMMA ProbeInv == HistoryInv /\ Probe => HistoryInv'
<1> SUFFICES ASSUME HistoryInv, Probe PROVE HistoryInv'
  OBVIOUS
<1>0. PastTyped /\ HistShape /\ Bracketed /\ hist.phase = "search"
  BY DEF HistoryInv, Probe
<1>1. CASE hist.low = hist.high
  <2>1. hist' = [hist EXCEPT !.phase = "logs", !.tries = 0, !.pending = Windows(hist.low, Tip)]
        /\ past' = past
    BY <1>1 DEF Probe
  <2>2. /\ HistShape' /\ hist'.phase = "logs" /\ hist'.low = hist.low /\ hist'.high = hist.high
        /\ hist'.pending = Windows(hist.low, Tip) /\ hist'.events = hist.events
    BY <1>0, <2>1 DEF HistShape
  <2>3. hist.events = {}
    BY <1>0 DEF HistoryInv, Gathered
  <2>4. Bracketed'
    BY <1>0, <1>1, <2>1, <2>2 DEF Bracketed, Earliest
  <2>5. Gathered'
    BY <1>0, <2>1, <2>2, <2>3, WindowsCover DEF Gathered, Window, Logs
  <2> QED
    BY <1>0, <2>1, <2>2, <2>4, <2>5 DEF HistoryInv, PastTyped, Concluded
<1>2. CASE hist.low # hist.high /\ ~Knowable(Middle)
  BY <1>2, FailInv DEF Probe
<1>3. CASE hist.low # hist.high /\ Knowable(Middle)
  <2>1. hist' = [hist EXCEPT
                    !.known = Knowing(Middle), !.tries = 0,
                    !.high = IF past.times[Middle] >= Earliest THEN Middle ELSE @,
                    !.low = IF past.times[Middle] >= Earliest THEN @ ELSE Middle + 1]
        /\ past' = past
    BY <1>3 DEF Probe
  <2>2. Middle \in Nat /\ hist.low <= Middle /\ Middle < hist.high /\ Middle + 1 \in Nat
        /\ Middle \in 0..Tip
    BY <1>0, <1>3, HistoryFacts DEF HistShape, Middle
  <2>3. CASE past.times[Middle] >= Earliest
    <3>1. /\ HistShape' /\ hist'.phase = "search" /\ hist'.low = hist.low /\ hist'.high = Middle
      <4> DEFINE known == Knowing(Middle)
                 mid == Middle
      <4> HIDE DEF known, mid
      <4>1. hist' = [hist EXCEPT !.known = known, !.tries = 0, !.high = mid]
        BY <1>0, <2>1, <2>3 DEF HistShape, known, mid
      <4>2. mid \in Nat /\ hist.low <= mid /\ mid <= Tip
        BY <1>0, <2>2, HistoryFacts DEF mid, HistShape
      <4> QED
        BY <1>0, <4>1, <4>2 DEF HistShape, mid
    <3> QED
      BY <1>0, <2>1, <2>3, <3>1
         DEF HistoryInv, PastTyped, Bracketed, Gathered, Concluded, Earliest
  <2>4. CASE ~(past.times[Middle] >= Earliest)
    <3>1. /\ HistShape' /\ hist'.phase = "search" /\ hist'.low = Middle + 1
          /\ hist'.high = hist.high
      <4> DEFINE known == Knowing(Middle)
                 low == Middle + 1
      <4>1. hist' = [hist EXCEPT !.known = known, !.tries = 0, !.low = low]
        BY <1>0, <2>1, <2>4 DEF HistShape
      <4>2. low \in Nat /\ low <= hist.high
        BY <1>0, <2>2 DEF HistShape
      <4> HIDE DEF known, low
      <4>3. /\ HistShape' /\ hist'.phase = "search" /\ hist'.low = low
            /\ hist'.high = hist.high
        BY <1>0, <4>1, <4>2 DEF HistShape
      <4> QED
        BY <4>3 DEF low
    <3>2. Earliest \in Int /\ \A c \in 0..Tip : past.times[c] \in Nat
      <4>1. Tip \in Nat /\ Tip \in 0..Tip /\ Lookback \in Nat
            /\ \A t \in Clocks : t \in [0..Tip -> Nat]
        BY HistoryFacts
      <4>2. \A c \in 0..Tip : past.times[c] \in Nat
        BY <1>0, <4>1 DEF PastTyped
      <4> QED
        BY <4>1, <4>2 DEF Earliest
    <3>3. ASSUME NEW c \in 0..Middle PROVE past.times[c] < Earliest
      <4>1. c \in 0..Tip /\ c <= Middle
        BY <2>2, HistoryFacts
      <4>2. past.times[c] <= past.times[Middle]
        BY <1>0, <2>2, <4>1, HistoryFacts DEF PastTyped
      <4> QED
        BY <2>2, <2>4, <3>2, <4>1, <4>2
    <3>4. 0..(Middle + 1 - 1) = 0..Middle
      BY <2>2
    <3>5. Bracketed'
      <4>1. \A c \in 0..(hist'.low - 1) : past.times[c] < Earliest
        <5>1. hist'.low = Middle + 1
          BY <3>1
        <5>2. \A c \in 0..(hist'.low - 1) : c \in 0..Middle
          BY <2>2, <5>1
        <5> QED
          BY <3>3, <5>2
      <4> QED
        BY <1>0, <2>1, <3>1, <4>1 DEF Bracketed, Earliest
    <3> QED
      BY <1>0, <2>1, <3>1, <3>5 DEF HistoryInv, PastTyped, Gathered, Concluded
  <2> QED
    BY <2>3, <2>4
<1> QED
  BY <1>1, <1>2, <1>3

(* The middle of a window of two blocks or more.                           *)
LEMMA Halved ==
    ASSUME NEW a \in Nat, NEW b \in Nat, a < b
    PROVE  LET m == (a + b) \div 2 IN m \in Nat /\ a <= m /\ m < b /\ m + 1 \in Nat
OBVIOUS

(* A window that may have been cut off is read again in two halves, which  *)
(* cover what it covered.                                                  *)
LEMMA SplitInv ==
    ASSUME HistoryInv, hist.phase = "logs", hist.pending # <<>>, past' = past,
           hist.pending[1][2] > hist.pending[1][1],
           hist' = [hist EXCEPT !.pending = Halves(hist.pending[1]) \o Tail(@), !.tries = 0]
    PROVE  HistoryInv'
<1> DEFINE w == hist.pending[1]
           old == hist.pending
           m == (w[1] + w[2]) \div 2
           new == Halves(w) \o Tail(old)
<1>0. PastTyped /\ HistShape /\ Bracketed /\ Gathered
  BY DEF HistoryInv
<1>1. old \in Seq(Pair) /\ Len(old) >= 1 /\ w \in Pair /\ Window(w) /\ Len(old) \in Nat
  BY <1>0 DEF Gathered
<1>a. w[1] \in Nat /\ w[2] \in Nat /\ w[1] < w[2]
  BY <1>1 DEF Window
<1>2. m \in Nat /\ w[1] <= m /\ m < w[2] /\ m + 1 \in Nat /\ w[1] \in Nat /\ w[2] \in Nat
  BY <1>a, Halved
<1> HIDE DEF m
<1>3. Halves(w) = <<<<w[1], m>>, <<m + 1, w[2]>>>>
  BY DEF Halves, m
<1> HIDE DEF w
<1>4. /\ new \in Seq(Pair) /\ Len(new) = Len(old) + 1 /\ new[1] = <<w[1], m>>
      /\ new[2] = <<m + 1, w[2]>>
      /\ \A i \in 3..Len(new) : new[i] = old[i - 1]
  <2> DEFINE p == <<w[1], m>>
             q == <<m + 1, w[2]>>
  <2>1. p \in Pair /\ q \in Pair
    BY <1>2 DEF Pair
  <2>2. Halves(w) = <<p, q>>
    BY <1>3
  <2> HIDE DEF p, q
  <2>3. Tail(old) \in Seq(Pair) /\ Len(Tail(old)) = Len(old) - 1
        /\ \A i \in 1..(Len(old) - 1) : Tail(old)[i] = old[i + 1]
    BY <1>1
  <2>4. new = <<p, q>> \o Tail(old)
    BY <2>2
  <2> DEFINE two == <<p, q>>
             rest == Tail(old)
  <2>7. two \in Seq(Pair) /\ Len(two) = 2 /\ two[1] = p /\ two[2] = q
    BY <2>1
  <2>8. rest \in Seq(Pair) /\ Len(rest) = Len(old) - 1
    BY <2>3
  <2>9. new = two \o rest
    BY <2>4
  <2> HIDE DEF two, rest, new
  <2>5. new \in Seq(Pair) /\ Len(new) = Len(old) + 1 /\ new[1] = p /\ new[2] = q
    <3>0. Len(new) = Len(two) + Len(rest)
      BY <2>7, <2>8, <2>9, ConcatProperties
    <3>1. Len(new) = Len(old) + 1
      BY <1>1, <2>7, <2>8, <3>0
    <3>2. new \in Seq(Pair)
      BY <2>7, <2>8, <2>9
    <3>3. Len(rest) \in Nat
      BY <2>8
    <3>4. new[1] = two[1] /\ new[2] = two[2]
      <4>a. \A i \in 1..Len(two) + Len(rest) :
                (two \o rest)[i] = IF i <= Len(two) THEN two[i] ELSE rest[i - Len(two)]
        BY <2>7, <2>8, ConcatProperties, Zenon
      <4> DEFINE both == two \o rest
                 n == Len(rest)
      <4>b. Len(two) = 2 /\ n \in Nat
        BY <2>7, <3>3
      <4>c. \A i \in 1..Len(two) + n :
                both[i] = IF i <= Len(two) THEN two[i] ELSE rest[i - Len(two)]
        BY <4>a
      <4> HIDE DEF both, n
      <4>d. \A i \in 1..2 + n : i <= 2 => both[i] = two[i]
        BY <4>b, <4>c
      <4>1. both[1] = two[1] /\ both[2] = two[2]
        BY <4>b, <4>d
      <4> QED
        BY <2>9, <4>1 DEF both
    <3> QED
      BY <2>7, <3>1, <3>2, <3>4
  <2>6. ASSUME NEW i \in 3..Len(new) PROVE new[i] = old[i - 1]
    <3>1. i - 2 \in 1..(Len(old) - 1) /\ i - 2 + 1 = i - 1
      BY <1>1, <2>5
    <3>2. new[i] = Tail(old)[i - 2]
      BY <1>1, <2>5, <2>7, <2>8, <2>9, <3>1 DEF rest
    <3> QED
      BY <2>3, <3>1, <3>2
  <2> QED
    BY <2>5, <2>6 DEF p, q
<1> HIDE DEF new
<1>5. \A i \in 1..Len(new) : Window(new[i])
  <2> SUFFICES ASSUME NEW i \in 1..Len(new) PROVE Window(new[i])
    OBVIOUS
  <2>0. hist.low <= w[1] /\ w[2] <= Tip /\ hist.low \in Nat /\ Tip \in Nat
    BY <1>0, <1>1, HistoryFacts DEF Window, HistShape
  <2>1. CASE i = 1
    <3>1. new[i][1] = w[1] /\ new[i][2] = m
      BY <1>4, <2>1
    <3>2. m <= Tip
      BY <1>2, <2>0
    <3> QED
      BY <1>2, <2>0, <3>1, <3>2 DEF Window
  <2>2. CASE i = 2
    <3>1. new[i][1] = m + 1 /\ new[i][2] = w[2]
      BY <1>4, <2>2
    <3>2. hist.low <= m + 1 /\ m + 1 <= w[2]
      BY <1>2, <2>0
    <3> QED
      BY <1>2, <2>0, <3>1, <3>2 DEF Window
  <2>3. CASE i >= 3
    <3>1. i - 1 \in 1..Len(old) /\ new[i] = old[i - 1]
      BY <1>1, <1>4, <2>3
    <3> QED
      BY <1>0, <3>1 DEF Gathered
  <2> QED
    BY <1>1, <1>4, <2>1, <2>2, <2>3
<1>6. ASSUME NEW k \in hist.low..Tip, NEW i \in 1..Len(old), Covers(old[i], k)
      PROVE  \E j \in 1..Len(new) : Covers(new[j], k)
  <2>1. CASE i = 1
    <3>1. Covers(w, k)
      BY <1>6, <2>1 DEF w
    <3>2. k \in Int
      OBVIOUS
    <3>3. CASE k <= m
      <4>1. new[1][1] = w[1] /\ new[1][2] = m
        BY <1>4
      <4>2. Covers(new[1], k) /\ 1 \in 1..Len(new)
        BY <1>1, <1>4, <3>1, <3>3, <4>1 DEF Covers
      <4> QED
        BY <4>2
    <3>4. CASE ~(k <= m)
      <4>1. new[2][1] = m + 1 /\ new[2][2] = w[2]
        BY <1>4
      <4>2. Covers(new[2], k) /\ 2 \in 1..Len(new)
        BY <1>1, <1>2, <1>4, <3>1, <3>2, <3>4, <4>1 DEF Covers
      <4> QED
        BY <4>2
    <3> QED
      BY <3>3, <3>4
  <2>2. CASE i # 1
    <3>1. i + 1 \in 3..Len(new) /\ new[i + 1] = old[i]
      <4>1. i \in Nat /\ i >= 2 /\ i <= Len(old) /\ Len(new) = Len(old) + 1
        BY <1>1, <1>4, <2>2
      <4>2. i + 1 \in 3..Len(new) /\ (i + 1) - 1 = i
        BY <1>1, <4>1
      <4> QED
        BY <1>4, <4>2
    <3> QED
      BY <1>6, <3>1
  <2> QED
    BY <2>1, <2>2
<1>7. hist' = [hist EXCEPT !.pending = new, !.tries = 0]
  BY DEF new, w
<1>8. /\ HistShape' /\ hist'.phase = "logs" /\ hist'.low = hist.low /\ hist'.high = hist.high
      /\ hist'.pending = new /\ hist'.events = hist.events
  BY <1>0, <1>7 DEF HistShape
<1>9. Bracketed'
  BY <1>0, <1>8 DEF Bracketed, Earliest
<1>10. Gathered'
  <2>1. (\A i \in 1..Len(hist.pending) : Window(hist.pending[i]))'
    BY <1>5, <1>8 DEF Window
  <2>2. ASSUME NEW k \in hist.low..Tip
        PROVE  \/ \E j \in 1..Len(new) : Covers(new[j], k)
               \/ Logs(k, k) \subseteq hist.events
    BY <1>0, <1>6 DEF Gathered
  <2>3. ASSUME NEW k \in hist.low..Tip
        PROVE  \/ \E j \in 1..Len(hist'.pending) : Covers(hist'.pending[j], k)
               \/ Logs(k, k)' \subseteq hist'.events
    <3>1. Logs(k, k)' = Logs(k, k)
      BY DEF Logs
    <3>2. hist'.pending = new /\ hist'.events = hist.events
      BY <1>8
    <3> QED
      BY <2>2, <3>1, <3>2 DEF Covers
  <2>4. hist.events \subseteq Logs(hist.low, Tip)
    BY <1>0 DEF Gathered
  <2>5. Logs(hist.low, Tip)' = Logs(hist.low, Tip)
    BY <1>8 DEF Logs
  <2>6. (\A k \in hist.low..Tip : \/ \E i \in 1..Len(hist.pending) : Covers(hist.pending[i], k)
                                  \/ Logs(k, k) \subseteq hist.events)'
    BY <1>8, <2>3 DEF Covers
  <2> QED
    BY <1>4, <1>8, <2>1, <2>4, <2>5, <2>6 DEF Gathered
<1> QED
  BY <1>0, <1>8, <1>9, <1>10 DEF HistoryInv, PastTyped, Concluded

(* A window that is read leaves none of its events behind.                 *)
LEMMA ReadInv ==
    ASSUME HistoryInv, hist.phase = "logs", hist.pending # <<>>, past' = past,
           LET w == hist.pending[1]
           IN  /\ hist' = [hist EXCEPT !.pending = Tail(@), !.tries = 0,
                               !.events = hist.events \cup LetThrough(Logs(w[1], w[2]))]
               /\ ~(Cardinality(LetThrough(Logs(w[1], w[2]))) >= LogBound)
    PROVE  HistoryInv'
<1> DEFINE w == hist.pending[1]
           old == hist.pending
           ls == Logs(w[1], w[2])
<1>0. PastTyped /\ HistShape /\ Bracketed /\ Gathered
  BY DEF HistoryInv
<1>1. old \in Seq(Pair) /\ Len(old) >= 1 /\ w \in Pair /\ Window(w) /\ Len(old) \in Nat
  BY <1>0 DEF Gathered
<1>2. w[1] \in Nat /\ w[2] \in Nat /\ w[2] <= Tip
  BY <1>1 DEF Window
<1>3. IsFiniteSet(ls) /\ ls \subseteq [block : Nat, index : Nat]
  BY <1>0, <1>2, LogsFinite, LogPlaces
<1>4. LetThrough(ls) = ls
  <2>1. IsFiniteSet(LetThrough(ls))
    BY <1>3, FS_Subset DEF LetThrough
  <2>2. Cardinality(LetThrough(ls)) \in Nat
    BY <2>1, FS_CardinalityType
  <2>3. Cardinality(LetThrough(ls)) < NodeCap
    BY <2>2, HistoryFacts
  <2> HIDE DEF ls
  <2> QED
    BY <1>3, <2>3, UncutAnswer
<1>5. hist' = [hist EXCEPT !.pending = Tail(old), !.tries = 0, !.events = hist.events \cup ls]
  BY <1>4
<1> DEFINE new == Tail(old)
<1>6. new \in Seq(Pair) /\ Len(new) = Len(old) - 1 /\ \A i \in 1..Len(new) : new[i] = old[i + 1]
  BY <1>1
<1> HIDE DEF new, ls
<1>7. /\ HistShape' /\ hist'.phase = "logs" /\ hist'.low = hist.low /\ hist'.high = hist.high
      /\ hist'.pending = new /\ hist'.events = hist.events \cup ls
  BY <1>0, <1>5 DEF HistShape, new
<1>8. ASSUME NEW i \in 1..Len(new) PROVE Window(new[i])
  <2>1. i + 1 \in 1..Len(old) /\ new[i] = old[i + 1]
    BY <1>1, <1>6
  <2> QED
    BY <1>0, <2>1 DEF Gathered
<1>9. ls \subseteq Logs(hist.low, Tip)
  <2>1. hist.low \in Nat /\ hist.low <= w[1] /\ Tip \in Nat
    BY <1>0, <1>1, HistoryFacts DEF Window, HistShape
  <2> HIDE DEF w
  <2>2. w[1]..w[2] \subseteq hist.low..Tip
    BY <1>2, <2>1
  <2> QED
    BY <2>2 DEF Logs, ls
<1>10. ASSUME NEW k \in hist.low..Tip
       PROVE  \/ \E i \in 1..Len(new) : Covers(new[i], k)
              \/ Logs(k, k) \subseteq hist.events \cup ls
  <2>1. CASE Logs(k, k) \subseteq hist.events
    BY <2>1
  <2>2. CASE \E i \in 1..Len(old) : Covers(old[i], k)
    <3>1. PICK i \in 1..Len(old) : Covers(old[i], k)
      BY <2>2
    <3>2. CASE i = 1
      <4>1. k \in w[1]..w[2]
        BY <1>0, <1>2, <3>1, <3>2, HistoryFacts DEF Covers, HistShape
      <4>2. Logs(k, k) \subseteq ls
        BY <4>1 DEF Logs, ls
      <4> QED
        BY <4>2
    <3>3. CASE i # 1
      <4>1. i - 1 \in 1..Len(new) /\ i - 1 + 1 = i
        BY <1>1, <1>6, <3>3
      <4>2. new[i - 1] = old[i]
        BY <1>6, <4>1
      <4> QED
        BY <3>1, <4>1, <4>2
    <3> QED
      BY <3>2, <3>3
  <2> QED
    BY <1>0, <2>1, <2>2 DEF Gathered
<1>11. Bracketed'
  BY <1>0, <1>7 DEF Bracketed, Earliest
<1>12. Gathered'
  <2>1. (\A i \in 1..Len(hist.pending) : Window(hist.pending[i]))'
    BY <1>8, <1>7 DEF Window
  <2>3. ASSUME NEW k \in hist.low..Tip
        PROVE  \/ \E j \in 1..Len(hist'.pending) : Covers(hist'.pending[j], k)
               \/ Logs(k, k)' \subseteq hist'.events
    BY <1>7, <1>10 DEF Logs
  <2>4. hist.events \cup ls \subseteq Logs(hist.low, Tip)
    BY <1>0, <1>9 DEF Gathered
  <2>5. Logs(hist.low, Tip)' = Logs(hist.low, Tip)
    BY <1>7 DEF Logs
  <2>6. (\A k \in hist.low..Tip : \/ \E i \in 1..Len(hist.pending) : Covers(hist.pending[i], k)
                                  \/ Logs(k, k) \subseteq hist.events)'
    BY <1>7, <2>3 DEF Covers
  <2> QED
    BY <1>6, <1>7, <2>1, <2>4, <2>5, <2>6 DEF Gathered
<1> QED
  BY <1>0, <1>7, <1>11, <1>12 DEF HistoryInv, PastTyped, Concluded

(* The events of a range in which nothing is left to read are all of it.   *)
LEMMA AllRead ==
    ASSUME HistoryInv, hist.phase = "logs", hist.pending = <<>>
    PROVE  hist.events = Logs(hist.low, Tip)
<1>1. hist.events \subseteq Logs(hist.low, Tip)
  BY DEF HistoryInv, Gathered
<1>2. ASSUME NEW l \in Logs(hist.low, Tip) PROVE l \in hist.events
  <2>1. PICK k \in hist.low..Tip : \E i \in 1..Len(past.stakes[k]) : l = [block |-> k, index |-> i]
    BY LogsOf
  <2>2. k \in k..k
    BY HistoryFacts DEF HistoryInv, HistShape
  <2>3. l \in Logs(k, k)
    BY <2>1, <2>2, LogsOf
  <2>4. Len(hist.pending) = 0
    OBVIOUS
  <2>5. Logs(k, k) \subseteq hist.events
    BY <2>4 DEF HistoryInv, Gathered
  <2> QED
    BY <2>3, <2>5
<1> QED
  BY <1>1, <1>2

LEMMA LogsDoneInv == HistoryInv /\ LogsDone => HistoryInv'
<1> SUFFICES ASSUME HistoryInv, LogsDone PROVE HistoryInv'
  OBVIOUS
<1>0. PastTyped /\ HistShape /\ Bracketed /\ past' = past /\ hist.phase = "logs"
  BY DEF HistoryInv, LogsDone
<1>1. /\ HistShape' /\ hist'.phase = "headers" /\ hist'.low = hist.low /\ hist'.high = hist.high
      /\ hist'.events = hist.events
  BY <1>0 DEF LogsDone, HistShape
<1>2. hist.events = Logs(hist.low, Tip)
  BY AllRead DEF LogsDone
<1>3. Bracketed'
  BY <1>0, <1>1 DEF Bracketed, Earliest
<1>4. Gathered'
  BY <1>0, <1>1, <1>2 DEF Gathered, Logs
<1> QED
  BY <1>0, <1>1, <1>3, <1>4 DEF HistoryInv, PastTyped, Concluded

LEMMA ReadWindowInv == HistoryInv /\ ReadWindow => HistoryInv'
<1> SUFFICES ASSUME HistoryInv, ReadWindow PROVE HistoryInv'
  OBVIOUS
<1> DEFINE w == hist.pending[1]
           answer == LetThrough(Logs(w[1], w[2]))
<1>0. hist.phase = "logs" /\ hist.pending # <<>>
  BY DEF ReadWindow
<1>1. CASE Fail
  BY <1>1, FailInv
<1>2. CASE /\ w[2] > w[1] /\ past' = past
           /\ hist' = [hist EXCEPT !.pending = Halves(w) \o Tail(@), !.tries = 0]
  BY <1>0, <1>2, SplitInv
<1>3. CASE /\ ~(Cardinality(answer) >= LogBound) /\ past' = past
           /\ hist' = [hist EXCEPT !.pending = Tail(@), !.events = hist.events \cup answer,
                                   !.tries = 0]
  BY <1>0, <1>3, ReadInv
<1> QED
  BY <1>1, <1>2, <1>3 DEF ReadWindow

(* Headers that are asked for change neither range nor events.             *)
LEMMA HeadersInv ==
    HistoryInv /\ (ReadHeader \/ ReadHeaders \/ RejectBatch) => HistoryInv'
<1> SUFFICES ASSUME HistoryInv, ReadHeader \/ ReadHeaders \/ RejectBatch PROVE HistoryInv'
  OBVIOUS
<1>0. HistShape
  BY DEF HistoryInv
<1>1. CASE Fail
  BY <1>1, FailInv
<1>2. ASSUME NEW known, hist.phase = "headers", past' = past,
             hist' = [hist EXCEPT !.known = known, !.tries = 0]
      PROVE  HistoryInv'
  <2>1. /\ HistShape' /\ hist'.phase = hist.phase /\ hist'.low = hist.low
        /\ hist'.high = hist.high /\ hist'.pending = hist.pending /\ hist'.events = hist.events
    BY <1>0, <1>2 DEF HistShape
  <2> QED
    BY <1>2, <2>1, QuietInv
<1>3. CASE ReadHeader
  BY <1>1, <1>2, <1>3 DEF ReadHeader
<1>4. CASE ReadHeaders
  BY <1>1, <1>2, <1>4 DEF ReadHeaders
<1>5. CASE RejectBatch
  <2>1. /\ HistShape' /\ hist'.phase = hist.phase /\ hist'.low = hist.low
        /\ hist'.high = hist.high /\ hist'.pending = hist.pending /\ hist'.events = hist.events
    BY <1>0, <1>5 DEF HistShape, RejectBatch
  <2> QED
    BY <1>5, <2>1, QuietInv DEF RejectBatch
<1> QED
  BY <1>3, <1>4, <1>5

LEMMA TroubleInv == HistoryInv /\ Trouble => HistoryInv'
<1> SUFFICES ASSUME HistoryInv, Trouble PROVE HistoryInv'
  OBVIOUS
<1>1. CASE Fail
  BY <1>1, FailInv
<1>2. CASE hist' = [hist EXCEPT !.tries = @ + 1] /\ past' = past
  <2>1. /\ HistShape' /\ hist'.phase = hist.phase /\ hist'.low = hist.low
        /\ hist'.high = hist.high /\ hist'.pending = hist.pending /\ hist'.events = hist.events
    BY <1>2 DEF HistoryInv, HistShape
  <2>2. hist.phase # "done"
    BY DEF Trouble, Requesting
  <2> QED
    BY <1>2, <2>1, <2>2, QuietInv
<1> QED
  BY <1>1, <1>2 DEF Trouble

(* What is concluded is concluded of every event, with its time.           *)
LEMMA BuildInv == HistoryInv /\ (BuildPath \/ BuildApr) => HistoryInv'
<1> SUFFICES ASSUME HistoryInv, BuildPath \/ BuildApr PROVE HistoryInv'
  OBVIOUS
<1>0. PastTyped /\ HistShape /\ Bracketed /\ Gathered
  BY DEF HistoryInv
<1>1. ASSUME hist.phase = "headers", Missing = {}, past' = past, HistShape',
             hist'.phase = "done", hist'.low = hist.low, hist'.high = hist.high,
             hist'.events = hist.events, hist.known \subseteq hist'.known,
             hist'.mode = "event_fold" => hist'.series = Fold
      PROVE  HistoryInv'
  <2>1. Bracketed'
    BY <1>0, <1>1 DEF Bracketed, Earliest
  <2>2. Gathered'
    BY <1>0, <1>1 DEF Gathered, Logs
  <2>3. \A l \in hist'.events : l.block \in hist'.known
    BY <1>1 DEF Missing
  <2>4. ASSUME NEW s \in Fold
        PROVE  s.after \in hist.events \cup {Origin} /\ s.staked = FoldedAfter(s.after)
    BY DEF Fold
  <2>5. \A l : FoldedAfter(l)' = FoldedAfter(l)
    BY <1>1 DEF FoldedAfter, Before
  <2>6. Concluded'
    BY <1>1, <2>3, <2>4, <2>5 DEF Concluded
  <2> QED
    BY <1>0, <1>1, <2>1, <2>2, <2>6 DEF HistoryInv, PastTyped
<1>2. CASE BuildPath
  <2>1. /\ HistShape' /\ hist'.phase = "done" /\ hist'.low = hist.low /\ hist'.high = hist.high
        /\ hist'.events = hist.events /\ hist'.known = hist.known /\ hist'.mode = "none"
    BY <1>0, <1>2 DEF HistShape, BuildPath
  <2> QED
    BY <1>1, <1>2, <2>1 DEF BuildPath
<1>3. CASE BuildApr
  <2>1. CASE Fail
    BY <2>1, FailInv
  <2>2. CASE ~Fail
    <3> DEFINE known == Knowing(hist.low)
               good == \A s \in Fold : s.staked > 0
               mode == IF good THEN "event_fold" ELSE "constant_anchor"
               series == IF good THEN Fold ELSE {[after |-> Origin, staked |-> Anchored]}
    <3>1. hist' = [hist EXCEPT !.phase = "done", !.known = known, !.mode = mode,
                               !.series = series]
      BY <1>3, <2>2 DEF BuildApr
    <3>2. mode = "event_fold" => series = Fold
      OBVIOUS
    <3>3. hist.known \subseteq known
      BY DEF Knowing
    <3> HIDE DEF known, mode, series
    <3>4. /\ HistShape' /\ hist'.phase = "done" /\ hist'.low = hist.low
          /\ hist'.high = hist.high /\ hist'.events = hist.events /\ hist'.known = known
          /\ hist'.mode = mode /\ hist'.series = series
      BY <1>0, <3>1 DEF HistShape
    <3>5. hist.phase = "headers" /\ Missing = {} /\ past' = past
      BY <1>3, <2>2 DEF BuildApr
    <3> QED
      BY <1>1, <3>2, <3>3, <3>4, <3>5
  <2> QED
    BY <2>1, <2>2
<1> QED
  BY <1>2, <1>3

LEMMA HistoryStep == HistoryInv /\ [HistoryNext]_historyVars => HistoryInv'
<1> SUFFICES ASSUME HistoryInv, [HistoryNext]_historyVars PROVE HistoryInv'
  OBVIOUS
<1>1. CASE Trouble
  BY <1>1, TroubleInv
<1>2. CASE Probe
  BY <1>2, ProbeInv
<1>3. CASE ReadWindow
  BY <1>3, ReadWindowInv
<1>4. CASE LogsDone
  BY <1>4, LogsDoneInv
<1>5. CASE ReadHeader \/ ReadHeaders \/ RejectBatch
  BY <1>5, HeadersInv
<1>6. CASE BuildPath \/ BuildApr
  BY <1>6, BuildInv
<1>7. CASE UNCHANGED historyVars
  <2>1. past' = past /\ hist' = hist
    BY <1>7 DEF historyVars
  <2>2. PastTyped' /\ HistShape' /\ Bracketed'
    BY <2>1 DEF HistoryInv, PastTyped, HistShape, Bracketed, Earliest
  <2>3. Gathered'
    BY <2>1 DEF HistoryInv, Gathered, Window, Logs
  <2>4. \A l : FoldedAfter(l)' = FoldedAfter(l)
    BY <2>1 DEF FoldedAfter, Before
  <2>5. Concluded'
    BY <2>1, <2>4 DEF HistoryInv, Concluded
  <2> QED
    BY <2>2, <2>3, <2>5 DEF HistoryInv
<1> QED
  BY <1>1, <1>2, <1>3, <1>4, <1>5, <1>6, <1>7 DEF HistoryNext

(* The search has found the one block it looks for.                        *)
LEMMA FirstFound ==
    ASSUME HistoryInv, hist.phase = "done"
    PROVE  hist.low = CHOOSE b \in 0..Tip :
               past.times[b] >= Earliest /\ \A c \in 0..(b - 1) : past.times[c] < Earliest
<1> DEFINE Opens(b) == past.times[b] >= Earliest /\ \A c \in 0..(b - 1) : past.times[c] < Earliest
<1>1. /\ hist.low \in 0..Tip /\ Earliest \in Int /\ \A c \in 0..Tip : past.times[c] \in Nat
  <2>1. HistShape /\ PastTyped
    BY DEF HistoryInv
  <2>2. hist.low \in 0..Tip
    <3>1. hist.low \in Nat /\ hist.high \in Nat /\ hist.low <= hist.high /\ hist.high <= Tip
      BY <2>1 DEF HistShape
    <3> QED
      BY <3>1, HistoryFacts
  <2>3. \A c \in 0..Tip : past.times[c] \in Nat
    BY <2>1, HistoryFacts DEF PastTyped
  <2>4. Earliest \in Int
    BY <2>3, HistoryFacts DEF Earliest
  <2> QED
    BY <2>2, <2>3, <2>4
<1>2. Opens(hist.low)
  BY DEF HistoryInv, HistShape, Bracketed
<1>3. ASSUME NEW b \in 0..Tip, Opens(b) PROVE b = hist.low
  <2>1. CASE b < hist.low
    <3>1. b \in 0..(hist.low - 1)
      BY <1>1, <2>1
    <3> QED
      BY <1>1, <1>2, <1>3, <3>1
  <2>2. CASE hist.low < b
    <3>1. hist.low \in 0..(b - 1)
      BY <1>1, <2>2
    <3> QED
      BY <1>1, <1>2, <1>3, <3>1
  <2> QED
    BY <1>1, <2>1, <2>2
<1> HIDE DEF Opens
<1>4. hist.low = CHOOSE b \in 0..Tip : Opens(b)
  BY <1>1, <1>2, <1>3
<1> QED
  BY <1>4 DEF Opens

(* Every later event of a block read is one that was read.                 *)
LEMMA LaterRead ==
    ASSUME HistoryInv, hist.phase = "done", NEW l \in hist.events
    PROVE  {m \in hist.events : Before(l, m)} = {m \in Logs(0, Tip) : Before(l, m)}
<1>1. PastTyped /\ hist.events = Logs(hist.low, Tip) /\ hist.low \in Nat /\ hist.low <= Tip /\ Tip \in Nat
  BY HistoryFacts DEF HistoryInv, HistShape, Gathered
<1>2. hist.low <= l.block /\ l.block \in Nat
  BY <1>1, LogPlaces
<1>3. ASSUME NEW m \in Logs(hist.low, Tip) PROVE m \in Logs(0, Tip)
  <2>1. PICK k \in hist.low..Tip : \E i \in 1..Len(past.stakes[k]) : m = [block |-> k, index |-> i]
    BY LogsOf
  <2>2. k \in 0..Tip
    BY <1>1
  <2> QED
    BY <2>1, <2>2, LogsOf
<1>4. ASSUME NEW m \in Logs(0, Tip), Before(l, m) PROVE m \in Logs(hist.low, Tip)
  <2>1. PICK k \in 0..Tip : \E i \in 1..Len(past.stakes[k]) : m = [block |-> k, index |-> i]
    BY LogsOf
  <2>2. m.block = k
    BY <2>1
  <2>3. l.block <= k /\ k \in Nat
    BY <1>2, <1>4, <2>2 DEF Before
  <2>4. k \in hist.low..Tip
    BY <1>1, <1>2, <2>3
  <2> QED
    BY <2>1, <2>4, LogsOf
<1> QED
  BY <1>1, <1>3, <1>4

LEMMA FoldIsTrue ==
    ASSUME HistoryInv, hist.phase = "done", NEW l \in hist.events, past.drift.at <= l.block
    PROVE  FoldedAfter(l) = StakedAfter(l)
<1>1. {m \in hist.events : Before(l, m)} = {m \in Logs(0, Tip) : Before(l, m)}
  BY LaterRead
<1>2. past.drift.at \in Int /\ l.block \in Int
  <2>1. l \in Logs(hist.low, Tip) /\ hist.low \in Nat /\ hist.low <= Tip /\ PastTyped /\ Tip \in Nat
    BY HistoryFacts DEF HistoryInv, HistShape, Gathered
  <2> QED
    BY <2>1, LogPlaces, HistoryFacts DEF PastTyped
<1>3. ~(past.drift.at > l.block)
  BY <1>2
<1> QED
  BY <1>1, <1>3 DEF FoldedAfter, StakedAfter

(* history.py, HistoryComplete.                                            *)
THEOREM HistoriesComplete == HistorySpec => []HistoryComplete
<1>1. HistoryInv => HistoryComplete
  <2> SUFFICES ASSUME HistoryInv, hist.phase = "done" PROVE HistoryComplete
    BY DEF HistoryComplete
  <2> DEFINE first == CHOOSE b \in 0..Tip :
                 past.times[b] >= Earliest /\ \A c \in 0..(b - 1) : past.times[c] < Earliest
  <2>1. hist.low = first
    BY FirstFound
  <2> HIDE DEF first
  <2>2. hist.events = Logs(first, Tip)
    BY <2>1 DEF HistoryInv, Gathered
  <2>3. \A l \in hist.events : l.block \in hist.known
    BY DEF HistoryInv, Concluded
  <2>4. ASSUME hist.mode = "event_fold", NEW s \in hist.series, s.after # Origin,
               past.drift.at <= s.after.block
        PROVE  s.staked = StakedAfter(s.after)
    <3>1. s.after \in hist.events /\ s.staked = FoldedAfter(s.after)
      BY <2>4 DEF HistoryInv, Concluded
    <3> QED
      BY <2>4, <3>1, FoldIsTrue
  <2> QED
    BY <2>2, <2>3, <2>4 DEF HistoryComplete, first
<1> QED
  BY <1>1, HistoryInitInv, HistoryStep, PTL DEF HistorySpec

(* What is known of the chain are blocks of it, and every event read is of *)
(* such a block.                                                           *)
HistKept ==
    /\ hist.known \subseteq 0..Tip
    /\ hist.tries \in 0..(HeaderTries - 1)
    /\ oneByOne \in BOOLEAN

LEMMA MissingPlaces == HistoryInv /\ hist.phase = "headers" => Missing \subseteq 0..Tip
<1> SUFFICES ASSUME HistoryInv, hist.phase = "headers", NEW l \in hist.events
             PROVE  l.block \in 0..Tip
  BY DEF Missing
<1>1. PastTyped /\ l \in Logs(hist.low, Tip) /\ hist.low \in Nat /\ Tip \in Nat
  BY HistoryFacts DEF HistoryInv, HistShape, Gathered
<1> QED
  BY <1>1, LogPlaces

LEMMA LowestMissing ==
    HistoryInv /\ hist.phase = "headers" /\ Missing # {}
        => (CHOOSE x \in Lowest(Missing, 1) : TRUE) \in 0..Tip
<1> SUFFICES ASSUME HistoryInv, hist.phase = "headers", Missing # {}
             PROVE  Lowest(Missing, 1) # {} /\ Lowest(Missing, 1) \subseteq 0..Tip
  OBVIOUS
<1>1. Missing \subseteq 0..Tip /\ Tip \in Nat
  BY MissingPlaces, HistoryFacts
<1>2. PICK x \in Missing : \A y \in Missing : x <= y
  <2>1. Missing \subseteq Nat
    BY <1>1
  <2>2. PICK x \in Missing : \A y \in Missing : ~(<<y, x>> \in OpToRel(<, Nat))
    BY <2>1, NatLessThanWellFounded, WFMin
  <2>3. ASSUME NEW y \in Missing, y < x PROVE <<y, x>> \in OpToRel(<, Nat)
    BY <2>1, <2>3, Zenon DEF OpToRel
  <2>4. \A y \in Missing : ~(y < x)
    BY <2>2, <2>3, Zenon
  <2> QED
    BY <2>1, <2>4
<1>3. {y \in Missing : y < x} = {}
  <2>1. \A y \in Missing : ~(y < x)
    BY <1>1, <1>2
  <2> QED
    BY <2>1, Zenon
<1>4. Cardinality({y \in Missing : y < x}) < 1
  BY <1>3, FS_EmptySet
<1> QED
  BY <1>1, <1>2, <1>4 DEF Lowest

LEMMA KeptStep ==
    ASSUME HistoryInv, HistKept, [HistoryNext]_historyVars
    PROVE  HistKept'
<1>0. /\ HistShape /\ Tip \in Nat /\ HeaderTries \in Nat \ {0} /\ 0 \in 0..(HeaderTries - 1)
  BY HistoryAssumption DEF HistoryInv
<1>1. ASSUME NEW known \in SUBSET (0..Tip), NEW tries \in 0..(HeaderTries - 1),
             hist'.known = known, hist'.tries = tries, oneByOne' \in BOOLEAN
      PROVE  HistKept'
  BY <1>1 DEF HistKept
<1>2. hist.known \in SUBSET (0..Tip) /\ hist.tries \in 0..(HeaderTries - 1) /\ oneByOne \in BOOLEAN
  BY DEF HistKept
<1>3. CASE Fail
  <2>1. hist'.known = hist.known /\ hist'.tries = hist.tries /\ oneByOne' = oneByOne
    BY <1>0, <1>3 DEF Fail, HistShape
  <2> QED
    BY <1>1, <1>2, <2>1
<1>4. CASE Trouble /\ ~Fail
  <2>1. /\ hist'.known = hist.known /\ hist'.tries = hist.tries + 1 /\ oneByOne' = oneByOne
        /\ hist.tries + 1 < HeaderTries
    BY <1>0, <1>4 DEF Trouble, HistShape
  <2>2. hist.tries + 1 \in 0..(HeaderTries - 1)
    BY <1>0, <1>2, <2>1
  <2> QED
    BY <1>1, <1>2, <2>1, <2>2
<1>5. CASE Probe /\ ~Fail
  <2> DEFINE known == Knowing(Middle)
  <2>1. CASE hist.phase = "search" /\ hist.low = hist.high
    <3>1. hist'.known = hist.known /\ hist'.tries = 0 /\ oneByOne' = oneByOne
      BY <1>0, <1>5, <2>1 DEF Probe, HistShape
    <3> QED
      BY <1>0, <1>1, <1>2, <3>1
  <2>2. CASE hist.phase = "search" /\ hist.low # hist.high
    <3>1. Middle \in 0..Tip
      BY <1>0 DEF Middle, HistShape
    <3>2. known \in SUBSET (0..Tip)
      BY <1>2, <3>1 DEF Knowing
    <3>3. hist'.known = known /\ hist'.tries = 0 /\ oneByOne' = oneByOne
      BY <1>0, <1>5, <2>2 DEF Probe, HistShape
    <3> HIDE DEF known
    <3> QED
      BY <1>0, <1>1, <1>2, <3>2, <3>3
  <2> QED
    BY <1>5, <2>1, <2>2 DEF Probe
<1>6. CASE ReadWindow /\ ~Fail
  <2>1. /\ hist'.known = hist.known /\ hist'.tries = 0 /\ oneByOne' = oneByOne
    BY <1>0, <1>6 DEF ReadWindow, HistShape
  <2> QED
    BY <1>0, <1>1, <1>2, <2>1
<1>7. CASE LogsDone \/ RejectBatch
  <2>1. hist'.known = hist.known /\ hist'.tries = 0 /\ oneByOne' \in BOOLEAN
    BY <1>0, <1>2, <1>7 DEF LogsDone, RejectBatch, HistShape
  <2> QED
    BY <1>0, <1>1, <1>2, <2>1
<1>8. CASE ReadHeader /\ ~Fail
  <2> DEFINE b == CHOOSE x \in Lowest(Missing, 1) : TRUE
             known == Knowing(b)
  <2>1. hist.phase = "headers" /\ Missing # {}
    BY <1>8 DEF ReadHeader
  <2>2. b \in 0..Tip
    BY <2>1, LowestMissing
  <2>3. known \in SUBSET (0..Tip)
    BY <1>2, <2>2 DEF Knowing
  <2>4. hist' = [hist EXCEPT !.known = known, !.tries = 0] /\ oneByOne' = oneByOne
    BY <1>8 DEF ReadHeader
  <2> HIDE DEF b, known
  <2>5. hist'.known = known /\ hist'.tries = 0
    BY <1>0, <2>4 DEF HistShape
  <2> QED
    BY <1>0, <1>1, <1>2, <2>3, <2>4, <2>5
<1>9. CASE ReadHeaders /\ ~Fail
  <2> DEFINE known == hist.known \cup Lowest(Missing, HeaderBatch)
  <2>1. hist.phase = "headers"
    BY <1>9 DEF ReadHeaders
  <2>2. known \in SUBSET (0..Tip)
    BY <1>2, <2>1, MissingPlaces DEF Lowest
  <2>3. hist' = [hist EXCEPT !.known = known, !.tries = 0] /\ oneByOne' = oneByOne
    BY <1>9 DEF ReadHeaders
  <2> HIDE DEF known
  <2>4. hist'.known = known /\ hist'.tries = 0
    BY <1>0, <2>3 DEF HistShape
  <2> QED
    BY <1>0, <1>1, <1>2, <2>2, <2>3, <2>4
<1>10. CASE (BuildPath \/ BuildApr) /\ ~Fail
  <2>1. hist.low \in 0..Tip
    BY <1>0 DEF HistShape
  <2>2. hist.known \cup {hist.low} \in SUBSET (0..Tip)
    BY <1>2, <2>1
  <2>3. /\ hist'.known \in {hist.known, hist.known \cup {hist.low}}
        /\ hist'.tries = hist.tries /\ oneByOne' = oneByOne
    BY <1>0, <1>10 DEF BuildPath, BuildApr, Knowing, HistShape
  <2> QED
    BY <1>1, <1>2, <2>2, <2>3
<1>11. CASE UNCHANGED historyVars
  BY <1>1, <1>2, <1>11 DEF historyVars
<1> QED
  BY <1>3, <1>4, <1>5, <1>6, <1>7, <1>8, <1>9, <1>10, <1>11 DEF HistoryNext

LEMMA HistoryKeptInit == HistoryInit => HistKept
  BY HistoryAssumption DEF HistoryInit, HistKept, Searching

(* EventHistory, its types.                                                *)
THEOREM HistoriesTyped == HistorySpec => []HistoryTypeOK
<1>1. HistoryInit => HistKept
  BY HistoryKeptInit
<1>2. HistoryInv /\ HistKept /\ [HistoryNext]_historyVars => (HistoryInv /\ HistKept)'
  BY HistoryStep, KeptStep
<1>3. HistoryInv /\ HistKept => HistoryTypeOK
  BY DEF HistoryInv, HistShape, HistKept, HistoryTypeOK
<1> QED
  BY <1>1, <1>2, <1>3, HistoryInitInv, PTL DEF HistorySpec

-----------------------------------------------------------------------------

(* The suite of the four runs one of them, leaves the others as they are,  *)
(* and never changes which.                                                *)
Parts == {"allocate", "act", "treasury", "history"}

LEMMA SuiteRefines ==
  SuiteSpec => AllocSpec /\ ActSpec /\ TreasurySpec /\ [](part \in Parts)
<1>1. SuiteInit => AllocInit /\ ActInit /\ TreasuryInit /\ part \in Parts
  BY DEF SuiteInit, Parts
<1>2. [SuiteNext]_<<part, allocVars, actVars, purseVars, historyVars>> =>
        [AllocNext]_allocVars /\ [ActNext]_actVars /\ [TreasuryNext]_purseVars /\ part' = part
  BY DEF SuiteNext
<1>3. part \in Parts /\ part' = part => (part \in Parts)'
  OBVIOUS
<1> QED
  BY <1>1, <1>2, <1>3, PTL DEF SuiteSpec, AllocSpec, ActSpec, TreasurySpec

(* The past is one the chain can have only while a reconstruction runs.    *)
LEMMA SuiteHistory == SuiteSpec => [](part = "history" => HistoryTypeOK)
<1> DEFINE Sound == part = "history" => HistoryInv /\ HistKept
<1>1. SuiteInit => Sound
  <2> SUFFICES ASSUME SuiteInit, part = "history" PROVE HistoryInv /\ HistKept
    OBVIOUS
  <2>1. HistoryInit
    BY DEF SuiteInit
  <2> QED
    BY <2>1, HistoryInitInv, HistoryKeptInit
<1>2. Sound /\ [SuiteNext]_<<part, allocVars, actVars, purseVars, historyVars>> => Sound'
  <2> SUFFICES ASSUME Sound, [SuiteNext]_<<part, allocVars, actVars, purseVars, historyVars>>,
                      part' = "history"
               PROVE  (HistoryInv /\ HistKept)'
    OBVIOUS
  <2>1. part = "history" /\ [HistoryNext]_historyVars
    BY DEF SuiteNext
  <2>2. HistoryInv /\ HistKept
    BY <2>1
  <2> QED
    BY <2>1, <2>2, HistoryStep, KeptStep
<1>3. Sound => (part = "history" => HistoryTypeOK)
  BY DEF HistoryInv, HistShape, HistKept, HistoryTypeOK
<1> HIDE DEF Sound
<1> QED
  BY <1>1, <1>2, <1>3, PTL DEF SuiteSpec

(* MCPortfolio, PortfolioTypeOK: whichever of the four runs, its variables *)
(* keep their types.                                                       *)
THEOREM PortfolioTyped == SuiteSpec => []PortfolioTypeOK
<1>1. AllocTypeOK /\ ActTypeOK /\ TreasuryTypeOK /\ (part = "history" => HistoryTypeOK) /\ part \in Parts
        => PortfolioTypeOK
  BY DEF PortfolioTypeOK, Parts
<1> QED
  BY <1>1, SuiteRefines, SuiteHistory, AllocationsTyped, ActingTyped, RewardsTyped, PTL
=============================================================================
