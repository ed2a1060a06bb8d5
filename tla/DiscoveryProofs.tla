-------------------------- MODULE DiscoveryProofs --------------------------
(***************************************************************************)
(* Proofs about Discovery, for any profiles and any weights a caller asks  *)
(* for: the arithmetic of shares and of rounded scores.                    *)
(***************************************************************************)
EXTENDS Discovery, FiniteSetTheorems, TLAPS

----------------------------------------------------------------------------
(* Numbers                                                                 *)

Number == Int \cup {Unusable}

LEMMA ClampRange ==
    ASSUME NEW value \in Number, NEW low \in Int, NEW high \in Int, low <= high
    PROVE  /\ Clamp(value, low, high) \in Int
           /\ low <= Clamp(value, low, high) /\ Clamp(value, low, high) <= high
BY ProfileAssumption DEF Clamp, Number

LEMMA DivFacts ==
    ASSUME NEW a \in Int, NEW m \in Nat \ {0}
    PROVE  /\ a \div m \in Int /\ a % m \in 0 .. (m - 1)
           /\ a = (m * (a \div m)) + (a % m)
OBVIOUS

LEMMA DivMonotone ==
    ASSUME NEW a \in Int, NEW b \in Int, a <= b, NEW m \in Nat \ {0}
    PROVE  a \div m <= b \div m
<1> DEFINE p == a \div m
           q == b \div m
<1>1. p \in Int /\ q \in Int /\ m * p <= a /\ b < m * q + m
    BY DivFacts
<1> HIDE DEF p, q
<1>2. SUFFICES ASSUME p >= q + 1 PROVE FALSE
    BY <1>1 DEF p, q
<1>3. m * p >= m * (q + 1)
    BY <1>1, <1>2
<1>4. m * (q + 1) = m * q + m
    BY <1>1
<1>5. QED
    BY <1>1, <1>3, <1>4

LEMMA RoundMonotone ==
    ASSUME NEW a \in Int, NEW b \in Int, a <= b, NEW m \in Nat \ {0}
    PROVE  JsRound(a, m) \in Int /\ JsRound(a, m) <= JsRound(b, m)
<1>1. 2 * a + m \in Int /\ 2 * b + m \in Int /\ 2 * a + m <= 2 * b + m /\ 2 * m \in Nat \ {0}
    OBVIOUS
<1>2. QED
    BY <1>1, DivMonotone, DivFacts DEF JsRound

\* How many of the five dimensions are in a set of them.
In(top, k) == IF k \in top THEN 1 ELSE 0

LEMMA CountDimensions ==
    ASSUME NEW top \in SUBSET Dimensions
    PROVE  Cardinality(top) = Total([k \in Dimensions |-> In(top, k)])
<1> DEFINE S1 == top \cap {"intent"}
           S2 == top \cap {"intent", "boundaries"}
           S3 == top \cap {"intent", "boundaries", "lifestyle"}
           S4 == top \cap {"intent", "boundaries", "lifestyle", "alignment"}
<1>1. \A S, T, k : /\ IsFiniteSet(S) /\ k \notin S
                   /\ T = IF k \in top THEN S \cup {k} ELSE S
                   => IsFiniteSet(T) /\ Cardinality(T) = Cardinality(S) + In(top, k)
    BY FS_AddElement, FS_CardinalityType DEF In
<1>2. IsFiniteSet({}) /\ Cardinality({}) = 0
    BY FS_EmptySet
<1>3. IsFiniteSet(S1) /\ Cardinality(S1) = In(top, "intent")
    <2>1. "intent" \notin {} /\ S1 = IF "intent" \in top THEN {} \cup {"intent"} ELSE {}
        OBVIOUS
    <2>2. In(top, "intent") \in Int
        BY DEF In
    <2> HIDE DEF S1
    <2>3. IsFiniteSet(S1) /\ Cardinality(S1) = Cardinality({}) + In(top, "intent")
        BY <1>1, <1>2, <2>1
    <2>4. QED
        BY <1>2, <2>2, <2>3
<1>4. IsFiniteSet(S2) /\ Cardinality(S2) = Cardinality(S1) + In(top, "boundaries")
    <2>1. "boundaries" \notin S1 /\ S2 = IF "boundaries" \in top THEN S1 \cup {"boundaries"} ELSE S1
        OBVIOUS
    <2> HIDE DEF S1, S2
    <2>2. QED
        BY <1>1, <1>3, <2>1
<1>5. IsFiniteSet(S3) /\ Cardinality(S3) = Cardinality(S2) + In(top, "lifestyle")
    <2>1. "lifestyle" \notin S2 /\ S3 = IF "lifestyle" \in top THEN S2 \cup {"lifestyle"} ELSE S2
        OBVIOUS
    <2> HIDE DEF S2, S3
    <2>2. QED
        BY <1>1, <1>4, <2>1
<1>6. IsFiniteSet(S4) /\ Cardinality(S4) = Cardinality(S3) + In(top, "alignment")
    <2>1. "alignment" \notin S3 /\ S4 = IF "alignment" \in top THEN S3 \cup {"alignment"} ELSE S3
        OBVIOUS
    <2> HIDE DEF S3, S4
    <2>2. QED
        BY <1>1, <1>5, <2>1
<1>7. Cardinality(top) = Cardinality(S4) + In(top, "distance")
    <2>1. "distance" \notin S4 /\ top = IF "distance" \in top THEN S4 \cup {"distance"} ELSE S4
        BY DEF Dimensions
    <2> HIDE DEF S4
    <2>2. QED
        BY <1>1, <1>6, <2>1
<1> HIDE DEF S1, S2, S3, S4
<1>8. QED
    BY <1>3, <1>4, <1>5, <1>6, <1>7 DEF Total, Dimensions

----------------------------------------------------------------------------
(* Sums over the dimensions                                                *)

LEMMA TotalOrder ==
    ASSUME NEW f \in [Dimensions -> Int], NEW g \in [Dimensions -> Int],
           \A k \in Dimensions : f[k] <= g[k]
    PROVE  /\ Total(f) \in Int /\ Total(f) <= Total(g)
           /\ Total(f) = Total(g) => f = g
<1>1. /\ f["intent"] \in Int /\ f["boundaries"] \in Int /\ f["lifestyle"] \in Int
      /\ f["alignment"] \in Int /\ f["distance"] \in Int
      /\ g["intent"] \in Int /\ g["boundaries"] \in Int /\ g["lifestyle"] \in Int
      /\ g["alignment"] \in Int /\ g["distance"] \in Int
    BY DEF Dimensions
<1>2. /\ f["intent"] <= g["intent"] /\ f["boundaries"] <= g["boundaries"]
      /\ f["lifestyle"] <= g["lifestyle"] /\ f["alignment"] <= g["alignment"]
      /\ f["distance"] <= g["distance"]
    BY DEF Dimensions
<1>3. Total(f) \in Int /\ Total(f) <= Total(g)
    BY <1>1, <1>2 DEF Total
<1>4. ASSUME Total(f) = Total(g) PROVE f = g
    <2>1. /\ f["intent"] = g["intent"] /\ f["boundaries"] = g["boundaries"]
          /\ f["lifestyle"] = g["lifestyle"] /\ f["alignment"] = g["alignment"]
          /\ f["distance"] = g["distance"]
        BY <1>1, <1>2, <1>4 DEF Total
    <2>2. \A k \in Dimensions : f[k] = g[k]
        BY <2>1 DEF Dimensions
    <2>3. QED
        BY <2>2
<1>5. QED
    BY <1>3, <1>4

LEMMA TotalSum ==
    ASSUME NEW f \in [Dimensions -> Int], NEW g \in [Dimensions -> Int]
    PROVE  Total([k \in Dimensions |-> f[k] + g[k]]) = Total(f) + Total(g)
<1>1. /\ f["intent"] \in Int /\ f["boundaries"] \in Int /\ f["lifestyle"] \in Int
      /\ f["alignment"] \in Int /\ f["distance"] \in Int
      /\ g["intent"] \in Int /\ g["boundaries"] \in Int /\ g["lifestyle"] \in Int
      /\ g["alignment"] \in Int /\ g["distance"] \in Int
    BY DEF Dimensions
<1>2. QED
    BY <1>1 DEF Total, Dimensions

LEMMA TotalTimes ==
    ASSUME NEW f \in [Dimensions -> Int], NEW m \in Int
    PROVE  Total([k \in Dimensions |-> m * f[k]]) = m * Total(f)
<1>1. /\ f["intent"] \in Int /\ f["boundaries"] \in Int /\ f["lifestyle"] \in Int
      /\ f["alignment"] \in Int /\ f["distance"] \in Int
    BY DEF Dimensions
<1>2. \A a, b, c, d, e \in Int : m * (a + b + c + d + e) = m * a + m * b + m * c + m * d + m * e
    OBVIOUS
<1>3. QED
    BY <1>1, <1>2 DEF Total, Dimensions

----------------------------------------------------------------------------
(* Weights                                                                 *)

Asked(v) == [k \in Dimensions |-> Clamp(v[k], 0, 100)]

\* Shares of a hundred, each within one of the exact share, in the order of what was asked for.
Shares(w, weights) ==
    /\ Total(weights) = 100
    /\ \A k \in Dimensions :
           /\ weights[k] * Total(w) > 100 * w[k] - Total(w)
           /\ weights[k] * Total(w) < 100 * w[k] + Total(w)
    /\ \A j, k \in Dimensions : w[j] > w[k] => weights[j] >= weights[k]

LEMMA AskedInRange ==
    ASSUME NEW v \in [Dimensions -> Number]
    PROVE  /\ Asked(v) \in [Dimensions -> 0 .. 100]
           /\ Total(Asked(v)) \in Nat
<1>1. Asked(v) \in [Dimensions -> 0 .. 100]
    BY ClampRange DEF Asked
<1> DEFINE zero == [k \in Dimensions |-> 0]
<1>2. Total(zero) = 0
    BY DEF Total, Dimensions
<1>3. zero \in [Dimensions -> Int] /\ Asked(v) \in [Dimensions -> Int]
      /\ \A k \in Dimensions : zero[k] <= Asked(v)[k]
    BY <1>1
<1>4. Total(zero) <= Total(Asked(v)) /\ Total(Asked(v)) \in Int
    BY <1>3, TotalOrder
<1>5. QED
    BY <1>1, <1>2, <1>4

\* The one more that a weight gets is covered by what rounding down took from it: were it
\* nothing, the other fractions could not make up for all the ones handed out.
LEMMA NothingForNothing ==
    ASSUME NEW T \in Nat \ {0}, NEW fraction \in [Dimensions -> 0 .. (T - 1)],
           NEW top \in SUBSET Dimensions,
           Total(fraction) = T * Cardinality(top),
           \A k \in top, j \in Dimensions \ top : fraction[j] <= fraction[k],
           NEW k \in top
    PROVE  fraction[k] > 0
<1>1. SUFFICES ASSUME fraction[k] = 0 PROVE FALSE
    BY DEF Dimensions
<1> DEFINE ind == [j \in Dimensions |-> In(top, j)]
<1>2. \A j \in Dimensions : ind[j] \in {0, 1} /\ fraction[j] <= ind[j] * (T - 1)
    <2> SUFFICES ASSUME NEW j \in Dimensions
                 PROVE  ind[j] \in {0, 1} /\ fraction[j] <= ind[j] * (T - 1)
        OBVIOUS
    <2>1. CASE j \in top
        BY <2>1 DEF In
    <2>2. CASE j \notin top
        BY <1>1, <2>2 DEF In
    <2>3. QED
        BY <2>1, <2>2
<1>3. ind[k] = 1 /\ fraction[k] = 0
    BY <1>1 DEF In
<1>4. Cardinality(top) = Total(ind)
    BY CountDimensions
<1> DEFINE product == [j \in Dimensions |-> T * ind[j]]
<1>5. ind \in [Dimensions -> Int]
    BY <1>2
<1>6. Total(product) = T * Total(ind)
    <2> HIDE DEF ind
    <2>1. QED
        BY <1>5, TotalTimes
<1> HIDE DEF ind
<1>7. /\ product \in [Dimensions -> Int] /\ fraction \in [Dimensions -> Int]
      /\ \A j \in Dimensions : fraction[j] <= product[j]
    <2> SUFFICES ASSUME NEW j \in Dimensions
                 PROVE  product[j] \in Int /\ fraction[j] \in Int /\ fraction[j] <= product[j]
        OBVIOUS
    <2>1. CASE ind[j] = 0
        BY <1>2, <2>1
    <2>2. CASE ind[j] = 1
        BY <1>2, <2>2
    <2>3. QED
        BY <1>2, <2>1, <2>2
<1>8. product[k] > fraction[k]
    BY <1>3
<1>9. Total(fraction) = Total(product)
    BY <1>4, <1>6
<1> HIDE DEF product
<1>10. fraction = product
    BY <1>7, <1>9, TotalOrder
<1>11. QED
    BY <1>3, <1>8, <1>10

LEMMA NormalizedAreShares ==
    ASSUME NEW v \in [Dimensions -> Number], NEW weights \in NormalizedWeights(v)
    PROVE  /\ weights \in [Dimensions -> Nat]
           /\ Total(Asked(v)) > 0 => Shares(Asked(v), weights)
<1> DEFINE w == Asked(v)
           T == Total(w)
           floors == [k \in Dimensions |-> (100 * w[k]) \div T]
           fraction == [k \in Dimensions |-> (100 * w[k]) % T]
<1>1. w \in [Dimensions -> 0 .. 100] /\ T \in Nat
    BY AskedInRange
<1>2. CASE T = 0
    BY <1>1, <1>2 DEF NormalizedWeights, Asked, DEFAULT_RANKING_WEIGHTS, Dimensions
<1>3. CASE T # 0
    <2>1. PICK top \in SUBSET Dimensions :
              /\ Cardinality(top) = 100 - Total(floors)
              /\ \A k \in top, j \in Dimensions \ top : ~(fraction[j] > fraction[k])
              /\ weights = [k \in Dimensions |-> IF k \in top THEN floors[k] + 1 ELSE floors[k]]
        BY <1>3 DEF NormalizedWeights, Asked
    <2> HIDE DEF w, T
    <2>2. \A k \in Dimensions :
              /\ floors[k] \in Nat /\ fraction[k] \in 0 .. (T - 1)
              /\ 100 * w[k] = (T * floors[k]) + fraction[k]
        <3> SUFFICES ASSUME NEW k \in Dimensions
                     PROVE  /\ floors[k] \in Nat /\ fraction[k] \in 0 .. (T - 1)
                            /\ 100 * w[k] = (T * floors[k]) + fraction[k]
            OBVIOUS
        <3> DEFINE a == 100 * w[k]
        <3>1. a \in Int /\ 0 <= a /\ T \in Nat \ {0}
            BY <1>1, <1>3
        <3>2. floors[k] = a \div T /\ fraction[k] = a % T
            OBVIOUS
        <3> HIDE DEF a, floors, fraction
        <3>3. 0 \div T <= a \div T
            BY <3>1, DivMonotone
        <3>4. 0 \div T = 0
            BY <3>1
        <3>5. a \div T \in Int /\ a % T \in 0 .. (T - 1) /\ a = (T * (a \div T)) + (a % T)
            BY <3>1, DivFacts
        <3>6. floors[k] \in Nat /\ fraction[k] \in 0 .. (T - 1) /\ a = (T * floors[k]) + fraction[k]
            BY <3>2, <3>3, <3>4, <3>5
        <3>7. QED
            BY <3>6 DEF a
    <2>3. \A j, k \in Dimensions : w[j] > w[k] => floors[j] >= floors[k]
        <3> SUFFICES ASSUME NEW j \in Dimensions, NEW k \in Dimensions, w[j] > w[k]
                     PROVE  floors[j] >= floors[k]
            OBVIOUS
        <3>1. 100 * w[j] \in Int /\ 100 * w[k] \in Int /\ 100 * w[k] <= 100 * w[j]
            BY <1>1
        <3>2. T \in Nat \ {0}
            BY <1>1, <1>3
        <3>3. (100 * w[k]) \div T <= (100 * w[j]) \div T
            BY <3>1, <3>2, DivMonotone
        <3>4. QED
            BY <3>3, <2>2
    <2> DEFINE ones == [k \in Dimensions |-> In(top, k)]
    <2>4. /\ floors \in [Dimensions -> Int] /\ ones \in [Dimensions -> Int]
          /\ w \in [Dimensions -> Int]
        BY <1>1, <2>2 DEF In
    <2>5. fraction \in [Dimensions -> Int] /\ fraction \in [Dimensions -> 0 .. (T - 1)]
        BY <2>2
    <2>6. weights = [k \in Dimensions |-> floors[k] + ones[k]]
        <3>1. \A k \in Dimensions :
                  (IF k \in top THEN floors[k] + 1 ELSE floors[k]) = floors[k] + ones[k]
            BY <2>4 DEF In
        <3> HIDE DEF ones
        <3>2. QED
            BY <2>1, <3>1
    <2>7. Total(ones) = Cardinality(top)
        BY CountDimensions
    <2>8. \A k \in Dimensions : IF k \in top THEN ones[k] = 1 ELSE ones[k] = 0
        BY DEF In
    <2> HIDE DEF floors, fraction, ones
    <2>9. 100 * T = (T * Total(floors)) + Total(fraction)
        <3> DEFINE hundreds == [k \in Dimensions |-> 100 * w[k]]
                   products == [k \in Dimensions |-> T * floors[k]]
        <3>1. Total(hundreds) = 100 * Total(w)
            BY <2>4, TotalTimes
        <3>2. Total(products) = T * Total(floors)
            BY <1>1, <2>4, TotalTimes
        <3>3. products \in [Dimensions -> Int]
            BY <1>1, <2>4
        <3>4. hundreds = [k \in Dimensions |-> products[k] + fraction[k]]
            BY <2>2
        <3> HIDE DEF hundreds, products
        <3>5. Total(hundreds) = Total(products) + Total(fraction)
            BY <2>5, <3>3, <3>4, TotalSum
        <3>6. QED
            BY <3>1, <3>2, <3>5 DEF T
    <2>10. Total(floors) \in Int /\ Total(fraction) \in Int /\ Total(ones) \in Int
        BY <2>4, <2>5, TotalOrder
    <2>11. Total(weights) = 100
        <3>1. Total(weights) = Total(floors) + Total(ones)
            BY <2>4, <2>6, TotalSum
        <3>2. QED
            BY <2>1, <2>7, <2>10, <3>1
    <2>12. \A k \in top : fraction[k] > 0
        <3>1. T * (100 - Total(floors)) = 100 * T - T * Total(floors)
            BY <1>1, <2>10
        <3>2. Total(fraction) = T * Cardinality(top)
            BY <1>1, <2>1, <2>9, <2>10, <3>1
        <3>3. \A k \in top, j \in Dimensions \ top : fraction[j] <= fraction[k]
            BY <2>1, <2>5
        <3>4. QED
            BY <1>1, <1>3, <2>5, <3>2, <3>3, NothingForNothing
    <2>13. ASSUME NEW k \in Dimensions
           PROVE  /\ weights[k] * T > 100 * w[k] - T
                  /\ weights[k] * T < 100 * w[k] + T
        <3>1. /\ floors[k] \in Int /\ fraction[k] \in Int /\ w[k] \in Int
              /\ 0 <= fraction[k] /\ fraction[k] < T /\ 100 * w[k] = (T * floors[k]) + fraction[k]
            BY <1>1, <2>2
        <3>2. CASE k \in top
            <4>1. weights[k] = floors[k] + 1
                BY <2>6, <2>8, <3>2
            <4>2. weights[k] * T = T * floors[k] + T
                BY <1>1, <3>1, <4>1
            <4>3. QED
                BY <1>1, <2>12, <3>1, <3>2, <4>2
        <3>3. CASE k \notin top
            <4>1. weights[k] = floors[k]
                BY <2>6, <2>8, <3>1, <3>3
            <4>2. weights[k] * T = T * floors[k]
                BY <1>1, <3>1, <4>1
            <4>3. QED
                BY <1>1, <3>1, <4>2, <1>3
        <3>4. QED
            BY <3>2, <3>3
    <2>14. ASSUME NEW j \in Dimensions, NEW k \in Dimensions, w[j] > w[k]
           PROVE  weights[j] >= weights[k]
        <3>1. /\ floors[j] \in Int /\ floors[k] \in Int /\ floors[j] >= floors[k]
              /\ ones[j] \in {0, 1} /\ ones[k] \in {0, 1}
              /\ weights[j] = floors[j] + ones[j] /\ weights[k] = floors[k] + ones[k]
            BY <2>3, <2>4, <2>6, <2>8, <2>14
        <3>2. CASE floors[j] = floors[k]
            <4>1. 100 * w[j] > 100 * w[k]
                BY <1>1, <2>14
            <4>2. fraction[j] > fraction[k]
                <5>1. T * floors[j] = T * floors[k] /\ T * floors[j] \in Int
                    BY <1>1, <3>1, <3>2
                <5>2. QED
                    BY <2>2, <4>1, <5>1
            <4>3. k \in top => j \in top
                BY <2>1, <4>2
            <4>4. QED
                BY <2>8, <3>1, <4>3
        <3>3. CASE floors[j] > floors[k]
            BY <3>1, <3>3
        <3>4. QED
            BY <3>1, <3>2, <3>3
    <2>15. weights \in [Dimensions -> Nat]
        <3>1. \A k \in Dimensions : floors[k] + ones[k] \in Nat
            BY <2>2, <2>8
        <3>2. QED
            BY <2>6, <3>1
    <2>16. QED
        BY <2>11, <2>13, <2>14, <2>15 DEF Shares, w, T
<1>4. QED
    BY <1>1, <1>2, <1>3

----------------------------------------------------------------------------
(* Scores                                                                  *)

Profiles == Viewers \cup Candidates

LEMMA Kilometres ==
    ASSUME NEW p \in Profiles
    PROVE  DistanceKm(p) \in Nat /\ MaxDistanceKm(p) \in Nat \ {0}
<1>1. p.distance \in Number /\ p.maxDistance \in Number
    BY ProfileAssumption DEF Profiles, Number
<1>2. Clamp(p.distance, 0, 10000) \in Nat
    BY <1>1, ClampRange
<1>3. Clamp(p.maxDistance, 1, 500) \in Nat \ {0}
    BY <1>1, ClampRange
<1>4. QED
    BY <1>2, <1>3 DEF DistanceKm, MaxDistanceKm

LEMMA RoundIsNatural ==
    ASSUME NEW a \in Nat, NEW m \in Nat \ {0}
    PROVE  JsRound(a, m) \in Nat
<1> DEFINE q == m \div (2 * m)
           r == m % (2 * m)
<1>1. m \in Int /\ 2 * m \in Nat \ {0}
    OBVIOUS
<1>2. q \in Int /\ r \in 0 .. (2 * m - 1) /\ m = ((2 * m) * q) + r
    BY <1>1, DivFacts
<1> HIDE DEF q, r
<1>3. q >= 0
    <2>1. SUFFICES ASSUME q <= -1 PROVE FALSE
        BY <1>2
    <2>2. (2 * m) * q <= -(2 * m)
        BY <1>1, <1>2, <2>1
    <2>3. QED
        BY <1>2, <2>2
<1>4. JsRound(0, m) = q
    BY DEF JsRound, q
<1>5. 0 \in Int /\ a \in Int /\ 0 <= a
    OBVIOUS
<1>6. JsRound(0, m) <= JsRound(a, m) /\ JsRound(a, m) \in Int
    BY <1>5, RoundMonotone
<1>7. QED
    BY <1>2, <1>3, <1>4, <1>6

LEMMA OverlapIsNumber ==
    ASSUME NEW left, NEW right, IsFiniteSet(left), IsFiniteSet(right)
    PROVE  SetOverlapScore(left, right) \in Int
<1>1. CASE left \cup right = {}
    BY <1>1 DEF SetOverlapScore
<1>2. CASE left \cup right # {}
    <2>1. IsFiniteSet(left \cup right) /\ IsFiniteSet(left \cap right)
        BY FS_Union, FS_Intersection
    <2>2. Cardinality(left \cup right) \in Nat /\ Cardinality(left \cap right) \in Nat
        BY <2>1, FS_CardinalityType
    <2>3. Cardinality(left \cup right) # 0
        BY <1>2, <2>1, FS_EmptySet
    <2>4. 100 * Cardinality(left \cap right) \in Int /\ Cardinality(left \cup right) \in Nat \ {0}
        BY <2>2, <2>3
    <2>5. QED
        BY <1>2, <2>4, RoundMonotone DEF SetOverlapScore
<1>3. QED
    BY <1>1, <1>2

\* Below what ends in a half, everything rounds to less than that half rounds up to.
LEMMA BelowHalf ==
    ASSUME NEW a \in Nat, NEW m \in Nat \ {0}, (200 * a) % (2 * m) = m
    PROVE  /\ JsRound(100 * a, m) >= 1
           /\ \A b \in Int : b < a => JsRound(100 * b, m) <= JsRound(100 * a, m) - 1
<1> DEFINE n == 2 * m
           all == 200 * a
           up == all + m
           q == all \div n
           r == up \div n
<1>1. /\ n \in Nat \ {0} /\ m < n /\ n = m + m
      /\ all \in Int /\ all >= 0 /\ up \in Int /\ all % n = m
    OBVIOUS
<1>2. JsRound(100 * a, m) = r
    <2>1. 2 * (100 * a) + m = up
        OBVIOUS
    <2>2. QED
        BY <2>1 DEF JsRound
<1> HIDE DEF n, all, up
<1>3. q \in Int /\ all = (n * q) + m
    <2>1. q \in Int /\ all = (n * q) + (all % n)
        BY <1>1, DivFacts
    <2> HIDE DEF q
    <2>2. QED
        BY <1>1, <2>1
<1>4. r \in Int /\ up % n \in 0 .. (n - 1) /\ up = (n * r) + (up % n)
    BY <1>1, DivFacts
<1>5. up = (n * q) + n
    BY <1>1, <1>3 DEF up
<1> HIDE DEF q, r
<1>6. r >= q + 1
    <2>1. SUFFICES ASSUME r <= q PROVE FALSE
        BY <1>3, <1>4
    <2>2. n * r <= n * q
        BY <1>1, <1>3, <1>4, <2>1
    <2>3. n * r \in Int /\ n * q \in Int
        BY <1>1, <1>3, <1>4
    <2>4. QED
        BY <1>1, <1>4, <1>5, <2>2, <2>3
<1>7. q >= 0
    <2>1. SUFFICES ASSUME q <= -1 PROVE FALSE
        BY <1>3
    <2>2. n * q <= -n
        BY <1>1, <1>3, <2>1
    <2>3. n * q \in Int
        BY <1>1, <1>3
    <2>4. QED
        BY <1>1, <1>3, <2>2, <2>3
<1>8. ASSUME NEW b \in Int, b < a PROVE JsRound(100 * b, m) <= r - 1
    <2> DEFINE down == (200 * b) + m
               t == down \div n
    <2>1. down \in Int /\ down < up
        BY <1>8 DEF up, all
    <2>2. JsRound(100 * b, m) = t
        <3>1. 2 * (100 * b) + m = down
            BY <1>8
        <3>2. QED
            BY <3>1 DEF JsRound, n
    <2> HIDE DEF down
    <2>3. t \in Int /\ down % n \in 0 .. (n - 1) /\ down = (n * t) + (down % n)
        BY <1>1, <2>1, DivFacts
    <2> HIDE DEF t
    <2>4. t <= q
        <3>1. SUFFICES ASSUME t >= q + 1 PROVE FALSE
            BY <1>3, <2>3
        <3>2. n * t >= n * (q + 1)
            BY <1>1, <1>3, <2>3, <3>1
        <3>3. n * (q + 1) = (n * q) + n /\ n * q \in Int /\ n * t \in Int
            BY <1>1, <1>3, <2>3
        <3>4. QED
            BY <1>1, <1>4, <1>5, <2>1, <2>3, <3>2, <3>3
    <2>5. QED
        BY <1>3, <1>4, <1>6, <2>2, <2>3, <2>4
<1>9. QED
    BY <1>2, <1>3, <1>4, <1>6, <1>7, <1>8

\* A half that came out low is still no less than what is scored farther away.
LEMMA NearerScoresNoLess ==
    ASSUME NEW v \in Viewers, NEW c \in Candidates, NEW d \in Candidates,
           NEW short, \A km \in short : HalfLeft(v, km),
           DistanceKm(c) <= DistanceKm(d)
    PROVE  /\ DistanceScore(v, c, short) \in Int /\ DistanceScore(v, d, short) \in Int
           /\ DistanceScore(v, c, short) >= DistanceScore(v, d, short)
<1> DEFINE m == MaxDistanceKm(v)
           x == DistanceKm(c)
           y == DistanceKm(d)
           X == JsRound(100 * (m - x), m)
           Y == JsRound(100 * (m - y), m)
<1>1. m \in Nat \ {0} /\ x \in Nat /\ y \in Nat /\ x <= y
    <2>1. v \in Profiles /\ c \in Profiles /\ d \in Profiles
        BY DEF Profiles
    <2>2. m \in Nat \ {0} /\ x \in Nat /\ y \in Nat
        BY <2>1, Kilometres
    <2>3. x <= y
        OBVIOUS
    <2> HIDE DEF m, x, y, X, Y
    <2>4. QED
        BY <2>2, <2>3
<1>2. /\ DistanceScore(v, c, short) = IF x > m THEN 0 ELSE X - (IF x \in short THEN 1 ELSE 0)
      /\ DistanceScore(v, d, short) = IF y > m THEN 0 ELSE Y - (IF y \in short THEN 1 ELSE 0)
    BY DEF DistanceScore
<1>3. x \in short => (200 * (m - x)) % (2 * m) = m
    BY DEF HalfLeft
<1> HIDE DEF m, x, y
<1>4. X \in Int /\ Y \in Int /\ Y <= X
    <2>1. 100 * (m - y) \in Int /\ 100 * (m - x) \in Int /\ 100 * (m - y) <= 100 * (m - x)
        BY <1>1
    <2>2. 100 * (m - x) <= 100 * (m - x)
        BY <1>1
    <2>3. QED
        BY <1>1, <2>1, <2>2, RoundMonotone
<1>5. x <= m => X >= 0
    <2>1. x <= m => 100 * (m - x) \in Nat
        BY <1>1
    <2>2. x <= m => X \in Nat
        BY <1>1, <2>1, RoundIsNatural
    <2>3. QED
        BY <2>2
<1>6. x <= m /\ x \in short => X >= 1 /\ (x < y => Y <= X - 1)
    <2>1. SUFFICES ASSUME x <= m, x \in short PROVE X >= 1 /\ (x < y => Y <= X - 1)
        OBVIOUS
    <2>2. m - x \in Nat /\ m - y \in Int /\ (x < y => m - y < m - x)
        BY <1>1, <2>1
    <2>3. /\ JsRound(100 * (m - x), m) >= 1
          /\ \A b \in Int : b < m - x => JsRound(100 * b, m) <= JsRound(100 * (m - x), m) - 1
        BY <1>1, <1>3, <2>1, <2>2, BelowHalf
    <2>4. QED
        BY <2>2, <2>3
<1> HIDE DEF X, Y
<1>7. DistanceScore(v, c, short) \in Int /\ DistanceScore(v, d, short) \in Int
    BY <1>2, <1>4
<1>8. CASE x = y
    <2>1. X = Y
        BY <1>8 DEF X, Y
    <2>2. QED
        BY <1>1, <1>2, <1>4, <1>7, <1>8, <2>1
<1>9. CASE x < y
    BY <1>1, <1>2, <1>4, <1>5, <1>6, <1>7, <1>9
<1>10. QED
    BY <1>1, <1>7, <1>8, <1>9

LEMMA ComponentsAreNumbers ==
    ASSUME NEW v \in Viewers, NEW c \in Candidates,
           NEW short, \A km \in short : HalfLeft(v, km)
    PROVE  Components(v, c, short) \in [Dimensions -> Int]
<1>1. IntentCompatibility(v, c) \in Int
    BY DEF IntentCompatibility
<1>2. /\ SetOverlapScore(v.boundaries, c.boundaries) \in Int
      /\ SetOverlapScore(v.lifestyle, c.lifestyle) \in Int
    BY ProfileAssumption, OverlapIsNumber
<1>3. Clamp(c.alignment, 0, 100) \in Int
    <2>1. c.alignment \in Number
        BY ProfileAssumption DEF Number
    <2>2. QED
        BY <2>1, ClampRange
<1>4. DistanceScore(v, c, short) \in Int
    <2>1. c \in Profiles
        BY DEF Profiles
    <2>2. DistanceKm(c) \in Nat
        BY <2>1, Kilometres
    <2>3. DistanceKm(c) <= DistanceKm(c)
        BY <2>2
    <2>4. QED
        BY <2>3, NearerScoresNoLess
<1>5. QED
    BY <1>1, <1>2, <1>3, <1>4 DEF Components, Dimensions

\* The order of two candidates that BetterIsNotBehind is about
Better(c, d) ==
    /\ c = [d EXCEPT !.id = c.id, !.distance = c.distance, !.alignment = c.alignment]
    /\ DistanceKm(c) <= DistanceKm(d)
    /\ Clamp(c.alignment, 0, 100) >= Clamp(d.alignment, 0, 100)

LEMMA BetterComponents ==
    ASSUME NEW v \in Viewers, NEW c \in Candidates, NEW d \in Candidates, Better(c, d),
           NEW short, \A km \in short : HalfLeft(v, km)
    PROVE  \A k \in Dimensions : Components(v, d, short)[k] <= Components(v, c, short)[k]
<1>1. /\ c.intent = d.intent /\ c.openness = d.openness
      /\ c.boundaries = d.boundaries /\ c.lifestyle = d.lifestyle
    <2>1. DOMAIN d = {"id", "intent", "openness", "acceptedIntents", "acceptedOpenness",
                      "boundaries", "required", "lifestyle", "alignment", "distance",
                      "maxDistance"}
        BY ProfileAssumption
    <2> DEFINE e == [d EXCEPT !.id = c.id, !.distance = c.distance, !.alignment = c.alignment]
    <2>2. /\ e.intent = d.intent /\ e.openness = d.openness
          /\ e.boundaries = d.boundaries /\ e.lifestyle = d.lifestyle
        BY <2>1
    <2>3. c = e
        BY DEF Better
    <2> HIDE DEF e
    <2>4. QED
        BY <2>2, <2>3
<1>2. /\ IntentCompatibility(v, c) = IntentCompatibility(v, d)
      /\ SetOverlapScore(v.boundaries, c.boundaries) = SetOverlapScore(v.boundaries, d.boundaries)
      /\ SetOverlapScore(v.lifestyle, c.lifestyle) = SetOverlapScore(v.lifestyle, d.lifestyle)
    BY <1>1 DEF IntentCompatibility
<1>3. Clamp(d.alignment, 0, 100) <= Clamp(c.alignment, 0, 100)
    <2>1. c.alignment \in Number /\ d.alignment \in Number
        BY ProfileAssumption DEF Number
    <2>2. Clamp(c.alignment, 0, 100) \in Int /\ Clamp(d.alignment, 0, 100) \in Int
        BY <2>1, ClampRange
    <2>3. QED
        BY <2>2 DEF Better
<1>4. DistanceScore(v, d, short) <= DistanceScore(v, c, short)
    <2>1. DistanceKm(c) <= DistanceKm(d)
        BY DEF Better
    <2>2. /\ DistanceScore(v, c, short) \in Int /\ DistanceScore(v, d, short) \in Int
          /\ DistanceScore(v, c, short) >= DistanceScore(v, d, short)
        BY <2>1, NearerScoresNoLess
    <2>3. QED
        BY <2>2
<1> DEFINE C == Components(v, c, short)
           D == Components(v, d, short)
<1>5. /\ D["intent"] = C["intent"] /\ D["boundaries"] = C["boundaries"]
      /\ D["lifestyle"] = C["lifestyle"] /\ D["alignment"] <= C["alignment"]
      /\ D["distance"] <= C["distance"]
    BY <1>2, <1>3, <1>4 DEF Components
<1>6. C \in [Dimensions -> Int] /\ D \in [Dimensions -> Int]
    BY ComponentsAreNumbers
<1> HIDE DEF C, D
<1>7. \A k \in Dimensions : D[k] <= C[k]
    BY <1>5, <1>6 DEF Dimensions
<1>8. QED
    BY <1>7 DEF C, D

\* A score that came out just below its half is still no lower than the score of a smaller total.
LEMMA ScoreMonotone ==
    ASSUME NEW s \in [Dimensions -> Int], NEW t \in [Dimensions -> Int],
           \A k \in Dimensions : s[k] <= t[k],
           NEW low, \A u \in low : EndsInHalf(u)
    PROVE  /\ Score(s, low) \in Int /\ Score(t, low) \in Int
           /\ Score(s, low) <= Score(t, low)
<1> DEFINE S == Total(s)
           T == Total(t)
<1>1. S \in Int /\ T \in Int /\ S <= T /\ (S = T => s = t)
    BY TotalOrder
<1>2. JsRound(S, 100) \in Int /\ JsRound(T, 100) \in Int /\ JsRound(S, 100) <= JsRound(T, 100)
    BY <1>1, RoundMonotone
<1>3. /\ Score(s, low) = JsRound(S, 100) - (IF s \in low THEN 1 ELSE 0)
      /\ Score(t, low) = JsRound(T, 100) - (IF t \in low THEN 1 ELSE 0)
    BY DEF Score
<1>4. CASE s = t
    BY <1>2, <1>3, <1>4
<1>5. CASE t \notin low
    BY <1>2, <1>3, <1>5
<1>6. CASE s # t /\ t \in low
    <2>1. T % 100 = 50
        BY <1>6 DEF EndsInHalf
    <2>2. S <= T - 1
        BY <1>1, <1>6
    <2> HIDE DEF S, T
    <2>3. (2 * S + 100) \div 200 <= (2 * (T - 1) + 100) \div 200
        <3>1. 2 * S + 100 <= 2 * (T - 1) + 100
            BY <1>1, <2>2
        <3>2. QED
            BY <1>1, <3>1, DivMonotone
    <2>4. (2 * (T - 1) + 100) \div 200 = ((2 * T + 100) \div 200) - 1
        BY <1>1, <2>1
    <2>5. JsRound(S, 100) <= JsRound(T, 100) - 1
        BY <2>3, <2>4 DEF JsRound
    <2>6. QED
        BY <1>2, <1>3, <1>6, <2>5
<1>7. QED
    BY <1>4, <1>5, <1>6

----------------------------------------------------------------------------
(* Eligibility                                                             *)

LEMMA EligibleIsSymmetric ==
    ASSUME NEW v, NEW c
    PROVE  Eligible(v, c) => Eligible(c, v)
<1> SUFFICES ASSUME Eligible(v, c) PROVE Eligible(c, v)
    OBVIOUS
<1>1. {v, c} = {c, v}
    OBVIOUS
<1>2. MissingBoundaries(v, c) = {}
    BY DEF Eligible, Exclusions
<1>3. v.required \ c.boundaries = {} /\ c.required \ v.boundaries = {}
    <2>1. \A b \in v.required \ c.boundaries : <<"missing_boundary", b>> \in MissingBoundaries(v, c)
        BY DEF MissingBoundaries
    <2>2. \A b \in c.required \ v.boundaries :
              <<"viewer_missing_boundary", b>> \in MissingBoundaries(v, c)
        BY DEF MissingBoundaries
    <2>3. QED
        BY <1>2, <2>1, <2>2
<1>4. MissingBoundaries(c, v) = {}
    BY <1>3 DEF MissingBoundaries
<1>5. Exclusions(c, v) = Exclusions(v, c)
    BY <1>1, <1>2, <1>4 DEF Exclusions
<1>6. QED
    BY <1>5 DEF Eligible

----------------------------------------------------------------------------
(* What a ranking returns                                                  *)

\* Scores of the eligible, for some choice among the distances and the terms that end in a half
Scored(weights, score) ==
    \E short, low :
        /\ \A km \in short : HalfLeft(viewer, km)
        /\ \A terms \in low : EndsInHalf(terms)
        /\ score = [c \in {d \in pool : Eligible(viewer, d)} |->
                        Score(Terms(viewer, c, weights, short), low)]

RankedAsAsked ==
    /\ viewer \in Viewers /\ pool \subseteq Candidates /\ values \in WeightInputs
    /\ Ranked => /\ result.weights \in NormalizedWeights(values)
                 /\ Scored(result.weights, result.score)

LEMMA RankReturns ==
    ASSUME Rank
    PROVE  /\ result'.weights \in NormalizedWeights(values)
           /\ Scored(result'.weights, result'.score)
<1> DEFINE eligible == {c \in pool : Eligible(viewer, c)}
           distances == {DistanceKm(c) : c \in eligible}
<1>1. PICK weights \in NormalizedWeights(values),
           short \in SUBSET {km \in distances : HalfLeft(viewer, km)} :
          LET terms == [c \in eligible |-> Terms(viewer, c, weights, short)]
          IN  \E low \in SUBSET {terms[c] : c \in {d \in eligible : EndsInHalf(terms[d])}} :
              LET score == [c \in eligible |-> Score(terms[c], low)]
              IN  result' = [weights |-> weights, score |-> score, order |-> InOrder(score)]
    BY DEF Rank
<1> DEFINE terms == [c \in eligible |-> Terms(viewer, c, weights, short)]
<1>2. PICK low \in SUBSET {terms[c] : c \in {d \in eligible : EndsInHalf(terms[d])}} :
          LET score == [c \in eligible |-> Score(terms[c], low)]
          IN  result' = [weights |-> weights, score |-> score, order |-> InOrder(score)]
    BY <1>1
<1>3. /\ result'.weights = weights
      /\ result'.score = [c \in eligible |-> Score(terms[c], low)]
    BY <1>2
<1>4. (\A km \in short : HalfLeft(viewer, km)) /\ (\A t \in low : EndsInHalf(t))
    BY <1>2
<1>5. [c \in eligible |-> Score(terms[c], low)]
          = [c \in eligible |-> Score(Terms(viewer, c, weights, short), low)]
    OBVIOUS
<1>6. QED
    BY <1>3, <1>4, <1>5 DEF Scored

LEMMA RankedAsAskedHolds == Spec => []RankedAsAsked
<1>1. Init => RankedAsAsked
    BY DEF Init, RankedAsAsked, Ranked
<1>2. RankedAsAsked /\ [Next]_discoveryVars => RankedAsAsked'
    <2> SUFFICES ASSUME RankedAsAsked, [Next]_discoveryVars PROVE RankedAsAsked'
        OBVIOUS
    <2>1. CASE Rank
        <3>1. viewer' = viewer /\ pool' = pool /\ values' = values
            BY <2>1 DEF Rank
        <3>2. /\ result'.weights \in NormalizedWeights(values)
              /\ Scored(result'.weights, result'.score)
            BY <2>1, RankReturns
        <3>3. QED
            BY <3>1, <3>2 DEF RankedAsAsked, Scored
    <2>2. CASE UNCHANGED discoveryVars
        BY <2>2 DEF RankedAsAsked, Scored, Ranked, discoveryVars
    <2>3. QED
        BY <2>1, <2>2 DEF Next
<1>3. QED
    BY <1>1, <1>2, PTL DEF Spec

----------------------------------------------------------------------------
(* Theorems                                                                *)

LEMMA AskedForNumbers ==
    ASSUME NEW v \in WeightInputs
    PROVE  v \in [Dimensions -> Number]
BY WeightAssumption DEF Number

\* Whatever is asked for, the weights normalize_ranking_weights returns are shares of a hundred,
\* each within one of its exact share, and never in another order than what was asked for.
THEOREM SharesOfAHundred == Spec => []WeightsAreShares
<1>1. RankedAsAsked => WeightsAreShares
    <2> SUFFICES ASSUME RankedAsAsked, Ranked PROVE WeightsAreShares
        BY DEF WeightsAreShares
    <2>1. values \in [Dimensions -> Number] /\ result.weights \in NormalizedWeights(values)
        BY AskedForNumbers DEF RankedAsAsked
    <2>2. Total(Asked(values)) > 0 => Shares(Asked(values), result.weights)
        BY <2>1, NormalizedAreShares
    <2>3. QED
        BY <2>2 DEF WeightsAreShares, Shares, Asked
<1>2. QED
    BY <1>1, RankedAsAskedHolds, PTL

\* Whoever evaluate_discovery_candidate lets a viewer see, it lets see the viewer.
THEOREM SeenBothWays == Spec => []EligibilityIsMutual
<1>1. RankedAsAsked => EligibilityIsMutual
    <2> SUFFICES ASSUME RankedAsAsked, Ranked, NEW c \in pool
                 PROVE  c \in DOMAIN result.score <=> Eligible(c, viewer)
        BY DEF EligibilityIsMutual
    <2>1. DOMAIN result.score = {d \in pool : Eligible(viewer, d)}
        BY DEF RankedAsAsked, Scored
    <2>2. Eligible(viewer, c) <=> Eligible(c, viewer)
        BY EligibleIsSymmetric
    <2>3. QED
        BY <2>1, <2>2
<1>2. QED
    BY <1>1, RankedAsAskedHolds, PTL

\* Rounding, which may go either way at a half, never puts a candidate behind one who differs
\* from it only in being no nearer and no better aligned, whatever the weights.
THEOREM NotBehindTheWorse == Spec => []BetterIsNotBehind
<1>1. RankedAsAsked => BetterIsNotBehind
    <2> SUFFICES ASSUME RankedAsAsked, Ranked,
                        NEW c \in DOMAIN result.score, NEW d \in DOMAIN result.score, Better(c, d)
                 PROVE  result.score[c] >= result.score[d]
        BY DEF BetterIsNotBehind, Better
    <2> DEFINE weights == result.weights
    <2>1. weights \in [Dimensions -> Nat]
        BY AskedForNumbers, NormalizedAreShares DEF RankedAsAsked
    <2>2. PICK short, low :
              /\ \A km \in short : HalfLeft(viewer, km)
              /\ \A terms \in low : EndsInHalf(terms)
              /\ result.score = [e \in {f \in pool : Eligible(viewer, f)} |->
                                     Score(Terms(viewer, e, weights, short), low)]
        BY DEF RankedAsAsked, Scored
    <2> DEFINE s == Terms(viewer, d, weights, short)
               t == Terms(viewer, c, weights, short)
    <2>3. /\ viewer \in Viewers /\ c \in Candidates /\ d \in Candidates
          /\ result.score[c] = Score(t, low) /\ result.score[d] = Score(s, low)
        BY <2>2 DEF RankedAsAsked
    <2>4. /\ Components(viewer, c, short) \in [Dimensions -> Int]
          /\ Components(viewer, d, short) \in [Dimensions -> Int]
          /\ \A k \in Dimensions : Components(viewer, d, short)[k] <= Components(viewer, c, short)[k]
        BY <2>2, <2>3, ComponentsAreNumbers, BetterComponents
    <2>5. \A x, y \in Int, w \in Nat : x <= y => x * w \in Int /\ y * w \in Int /\ x * w <= y * w
        OBVIOUS
    <2>6. /\ s \in [Dimensions -> Int] /\ t \in [Dimensions -> Int]
          /\ \A k \in Dimensions : s[k] <= t[k]
        <3> HIDE DEF weights
        <3>1. \A k \in Dimensions :
                  s[k] \in Int /\ t[k] \in Int /\ s[k] <= t[k]
            BY <2>1, <2>4, <2>5 DEF Terms
        <3>2. QED
            BY <3>1 DEF Terms
    <2> HIDE DEF s, t, weights
    <2>7. Score(s, low) \in Int /\ Score(t, low) \in Int /\ Score(s, low) <= Score(t, low)
        BY <2>2, <2>6, ScoreMonotone
    <2>8. QED
        BY <2>3, <2>7
<1>2. QED
    BY <1>1, RankedAsAskedHolds, PTL

============================================================================
