--------------------------- MODULE TallyTheorems ---------------------------
(***************************************************************************)
(* What the staking proofs need to know about Total: it is a natural       *)
(* number, bounds every entry, is 0 for an empty ledger, and follows an    *)
(* update of one entry or the addition of one; a transfer keeps it.  The   *)
(* second half is about SumRange, the accumulator of a loop.               *)
(***************************************************************************)
EXTENDS Tally, Ledger, FiniteSetsExt, FiniteSetTheorems, WellFoundedInduction, TLAPS

\* An account's coins are as many as its entry says.
LEMMA CoinsCount ==
  ASSUME NEW f, NEW x, f[x] \in Nat
  PROVE  /\ IsFiniteSet(Coins(f, x))
         /\ Cardinality(Coins(f, x)) = f[x]
  <1>1. /\ IsFiniteSet(1 .. f[x])
        /\ Cardinality(1 .. f[x]) = f[x]
    BY SMTT(30), FS_Interval, 1 \in Int, f[x] \in Int
  <1>2. IsFiniteSet({x}) /\ Cardinality({x}) = 1
    BY FS_Singleton
  <1>3. /\ IsFiniteSet({x} \X (1 .. f[x]))
        /\ Cardinality({x} \X (1 .. f[x])) = 1 * f[x]
    BY <1>1, <1>2, FS_Product
  <1> QED  BY <1>3 DEF Coins

\* A ledger over a finite set of accounts has finitely many coins.
LEMMA UnitsFinite ==
  ASSUME NEW S, IsFiniteSet(S), NEW f \in [S -> Nat]
  PROVE  IsFiniteSet(Units(f))
  <1> DEFINE T == {Coins(f, x) : x \in S}
             g == [x \in S |-> Coins(f, x)]
  <1>1. g \in Surjection(S, T)
    BY DEF Surjection
  <1>2. IsFiniteSet(T)
    BY <1>1, FS_Surjection
  <1>3. \A t \in T : IsFiniteSet(t)
    BY CoinsCount
  <1>4. IsFiniteSet(UNION T)
    BY <1>2, <1>3, FS_UNION
  <1> QED  BY <1>4 DEF Units

\* A total is a natural number and no entry exceeds it.
LEMMA TotalBounds ==
  ASSUME NEW S, IsFiniteSet(S), NEW f \in [S -> Nat]
  PROVE  /\ Total(f) \in Nat
         /\ \A x \in S : f[x] <= Total(f)
  <1>1. IsFiniteSet(Units(f))
    BY UnitsFinite
  <1>2. \A x \in S : Coins(f, x) \in SUBSET Units(f)
    BY DEF Units
  <1>3. \A x \in S : Cardinality(Coins(f, x)) <= Cardinality(Units(f))
    BY <1>1, <1>2, FS_Subset
  <1> QED  BY <1>1, <1>3, CoinsCount, FS_CardinalityType DEF Total

\* Nobody holds anything in a ledger of zeros, or in one with no account.
LEMMA TotalZero ==
  ASSUME NEW S, NEW f, DOMAIN f = S, \A x \in S : f[x] = 0
  PROVE  Total(f) = 0
  <1>1. Units(f) = {}
    BY DEF Units, Coins
  <1> QED  BY <1>1, FS_EmptySet DEF Total

\* A ledger that gives the same amount to each member of a group.
LEMMA TotalEven ==
  ASSUME NEW S, IsFiniteSet(S), NEW U \in SUBSET S, NEW c \in Nat, NEW f, DOMAIN f = S,
         \A x \in S : f[x] = IF x \in U THEN c ELSE 0
  PROVE  Total(f) = c * Cardinality(U)
  <1>1. Units(f) = U \X (1 .. c)
    BY DEF Units, Coins
  <1>2. IsFiniteSet(U) /\ Cardinality(U) \in Nat
    BY FS_Subset, FS_CardinalityType
  <1>3. IsFiniteSet(1 .. c) /\ Cardinality(1 .. c) = c
    BY FS_Interval, 1 \in Int, c \in Int
  <1>4. Cardinality(U \X (1 .. c)) = Cardinality(U) * c
    BY <1>2, <1>3, FS_Product
  <1> QED  BY <1>1, <1>2, <1>4 DEF Total

\* One more account adds its entry to the total.
LEMMA TotalExtend ==
  ASSUME NEW S, IsFiniteSet(S), NEW x, x \notin S,
         NEW f \in [S -> Nat], NEW g \in [S \cup {x} -> Nat],
         \A y \in S : g[y] = f[y]
  PROVE  Total(g) = Total(f) + g[x]
  <1>1. Units(g) = Units(f) \cup Coins(g, x)
    BY DEF Units, Coins
  <1>2. Units(f) \cap Coins(g, x) = {}
    BY DEF Units, Coins
  <1>3. IsFiniteSet(Units(f)) /\ Cardinality(Units(f)) \in Nat
    BY UnitsFinite, FS_CardinalityType
  <1>4. IsFiniteSet(Coins(g, x)) /\ Cardinality(Coins(g, x)) = g[x]
    BY CoinsCount
  <1>5. Cardinality(Units(g)) = Cardinality(Units(f)) + g[x] - Cardinality({})
    BY <1>1, <1>2, <1>3, <1>4, FS_Union
  <1> QED  BY <1>3, <1>5, FS_EmptySet DEF Total

\* Two ledgers that agree but for one account differ by its two entries.
LEMMA TotalSwap ==
  ASSUME NEW R, IsFiniteSet(R), NEW x, x \notin R,
         NEW f \in [R \cup {x} -> Nat], NEW g \in [R \cup {x} -> Nat],
         \A y \in R : g[y] = f[y]
  PROVE  Total(g) = Total(f) - f[x] + g[x]
  <1> DEFINE h == [y \in R |-> f[y]]
  <1>1. h \in [R -> Nat]
    OBVIOUS
  <1>2. \A y \in R : f[y] = h[y]
    OBVIOUS
  <1>3. \A y \in R : g[y] = h[y]
    OBVIOUS
  <1> HIDE DEF h
  <1>4. Total(h) \in Nat
    BY <1>1, TotalBounds
  <1>5. Total(f) = Total(h) + f[x]
    BY <1>1, <1>2, TotalExtend
  <1>6. Total(g) = Total(h) + g[x]
    BY <1>1, <1>3, TotalExtend
  <1> QED  BY <1>4, <1>5, <1>6

\* Replacing one entry moves the total by the difference.
LEMMA TotalUpdate ==
  ASSUME NEW S, IsFiniteSet(S), NEW x \in S,
         NEW f \in [S -> Nat], NEW g \in [S -> Nat],
         \A y \in S \ {x} : g[y] = f[y]
  PROVE  Total(g) = Total(f) - f[x] + g[x]
  <1> DEFINE R == S \ {x}
  <1>1. IsFiniteSet(R)
    BY FS_RemoveElement
  <1>2. S = R \cup {x} /\ x \notin R
    OBVIOUS
  <1> HIDE DEF R
  <1>3. f \in [R \cup {x} -> Nat] /\ g \in [R \cup {x} -> Nat]
    BY <1>2
  <1>4. \A y \in R : g[y] = f[y]
    BY DEF R
  <1> QED  BY <1>1, <1>2, <1>3, <1>4, TotalSwap

-----------------------------------------------------------------------------
(* Transfers *)

\* A transfer between accounts that hold naturals leaves naturals, moves
\* the amount and keeps the supply.
LEMMA MoveKeepsSupply ==
  ASSUME NEW S, IsFiniteSet(S), NEW bal \in [S -> Nat], NEW from \in S, NEW to \in S,
         NEW amount \in Int, CanTransfer(bal, from, amount)
  PROVE  /\ Move(bal, from, to, amount) \in [S -> Nat]
         /\ Total(Move(bal, from, to, amount)) = Total(bal)
  <1> DEFINE mid == [bal EXCEPT ![from] = @ - amount]
             new == [mid EXCEPT ![to] = @ + amount]
  <1>1. amount \in Nat /\ bal[from] - amount \in Nat
    BY DEF CanTransfer
  <1>2. mid \in [S -> Nat] /\ mid[from] = bal[from] - amount
    BY <1>1
  <1>3. new \in [S -> Nat] /\ new[to] = mid[to] + amount
    BY <1>1, <1>2
  <1>4. \A y \in S \ {from} : mid[y] = bal[y]
    OBVIOUS
  <1>5. \A y \in S \ {to} : new[y] = mid[y]
    BY <1>2
  <1>6. Move(bal, from, to, amount) = new
    BY DEF Move
  <1> HIDE DEF mid, new
  <1>7. Total(mid) = Total(bal) - bal[from] + mid[from]
    BY <1>2, <1>4, TotalUpdate
  <1>8. Total(new) = Total(mid) - mid[to] + new[to]
    BY <1>2, <1>3, <1>5, TotalUpdate
  <1>9. Total(bal) \in Nat /\ Total(mid) \in Nat /\ mid[to] \in Nat
    BY <1>2, TotalBounds
  <1> QED  BY <1>1, <1>2, <1>3, <1>6, <1>7, <1>8, <1>9

-----------------------------------------------------------------------------
(* Induction over the naturals, stated for a set so that no predicate has  *)
(* to be instantiated.                                                     *)

\* Every nonempty set of naturals has a least element.
LEMMA LeastNatural ==
  ASSUME NEW T \in SUBSET Nat, T # {}
  PROVE  \E m \in T : \A k \in T : m <= k
  <1>1. PICK m \in T : \A k \in T : ~ (<<k, m>> \in OpToRel(<, Nat))
    BY NatLessThanWellFounded, WFMin
  <1>2. \A k \in T : ~ (k < m)
    BY <1>1 DEF OpToRel
  <1> QED  BY <1>2

\* A set of naturals with 0 and the successor of each member is all of Nat.
LEMMA NatSetInduction ==
  ASSUME NEW T \in SUBSET Nat, 0 \in T, \A n \in T : n + 1 \in T
  PROVE  T = Nat
  <1>1. SUFFICES ASSUME Nat \ T # {} PROVE FALSE
    OBVIOUS
  <1>2. PICK m \in Nat \ T : \A k \in Nat \ T : m <= k
    BY <1>1, LeastNatural
  <1>3. m - 1 \in Nat /\ m - 1 \in T
    BY <1>2
  <1> QED  BY <1>2, <1>3

-----------------------------------------------------------------------------
(* Loops that add up: SumRange obeys the recursion it is defined by.       *)

IsRunningSum(f, F, a, b) ==
  f = [i \in a - 1 .. b |-> IF i < a THEN 0 ELSE f[i - 1] + F[i]]

\* There is a running sum up to any bound.
LEMMA RunningSumExists ==
  ASSUME NEW F, NEW a \in Int, NEW n \in Nat
  PROVE  \E f : IsRunningSum(f, F, a, a - 1 + n)
  <1> DEFINE T == {k \in Nat : \E f : IsRunningSum(f, F, a, a - 1 + k)}
  <1>1. 0 \in T
    <2>1. IsRunningSum([i \in a - 1 .. a - 1 |-> 0], F, a, a - 1 + 0)
      BY DEF IsRunningSum
    <2> QED  BY <2>1
  <1>2. ASSUME NEW k \in T PROVE k + 1 \in T
    <2>1. PICK f : IsRunningSum(f, F, a, a - 1 + k)
      BY <1>2
    <2> DEFINE g == [i \in a - 1 .. a - 1 + (k + 1) |->
                       IF i = a - 1 + (k + 1) THEN f[i - 1] + F[i] ELSE f[i]]
    <2>2. IsRunningSum(g, F, a, a - 1 + (k + 1))
      BY <2>1 DEF IsRunningSum
    <2> QED  BY <2>2
  <1> HIDE DEF T
  <1>3. T = Nat
    BY <1>1, <1>2, NatSetInduction DEF T
  <1> QED  BY <1>3 DEF T

\* Two running sums agree as far as both go.
LEMMA RunningSumUnique ==
  ASSUME NEW F, NEW a \in Int, NEW b \in Int, NEW c \in Int, b <= c, a - 1 <= b,
         NEW f, NEW g, IsRunningSum(f, F, a, b), IsRunningSum(g, F, a, c)
  PROVE  f[b] = g[b]
  <1> DEFINE T == {k \in Nat : a - 1 + k <= b => f[a - 1 + k] = g[a - 1 + k]}
  <1>1. 0 \in T
    BY DEF IsRunningSum
  <1>2. ASSUME NEW k \in T PROVE k + 1 \in T
    <2>1. SUFFICES ASSUME a - 1 + (k + 1) <= b
                   PROVE  f[a - 1 + (k + 1)] = g[a - 1 + (k + 1)]
      OBVIOUS
    <2>2. f[a - 1 + k] = g[a - 1 + k]
      BY <2>1
    <2>3. f[a - 1 + (k + 1)] = f[a - 1 + k] + F[a - 1 + (k + 1)]
      BY <2>1 DEF IsRunningSum
    <2>4. g[a - 1 + (k + 1)] = g[a - 1 + k] + F[a - 1 + (k + 1)]
      BY <2>1 DEF IsRunningSum
    <2> QED  BY <2>2, <2>3, <2>4
  <1> HIDE DEF T
  <1>3. T = Nat
    BY <1>1, <1>2, NatSetInduction DEF T
  <1>4. b - (a - 1) \in T
    BY <1>3
  <1> QED  BY <1>4 DEF T

\* SumRange is the last value of a running sum.
LEMMA SumRangeDef ==
  ASSUME NEW F, NEW a \in Int, NEW b \in Int, a - 1 <= b
  PROVE  \E f : IsRunningSum(f, F, a, b) /\ SumRange(F, a, b) = f[b]
  <1> DEFINE f == CHOOSE g : IsRunningSum(g, F, a, b)
  <1>1. \E g : IsRunningSum(g, F, a, b)
    <2>1. b - (a - 1) \in Nat /\ a - 1 + (b - (a - 1)) = b
      OBVIOUS
    <2> QED  BY <2>1, RunningSumExists
  <1>2. IsRunningSum(f, F, a, b)
    BY <1>1
  <1>3. SumRange(F, a, b) = f[b]
    BY DEF SumRange, IsRunningSum
  <1> QED  BY <1>2, <1>3

\* An empty loop leaves the accumulator at 0.
LEMMA SumRangeEmpty ==
  ASSUME NEW F, NEW a \in Int
  PROVE  SumRange(F, a, a - 1) = 0
  <1>1. PICK f : IsRunningSum(f, F, a, a - 1) /\ SumRange(F, a, a - 1) = f[a - 1]
    BY SumRangeDef
  <1> QED  BY <1>1 DEF IsRunningSum

\* The last pass of a loop adds the last entry.
LEMMA SumRangeLast ==
  ASSUME NEW F, NEW a \in Int, NEW b \in Int, a <= b
  PROVE  SumRange(F, a, b) = SumRange(F, a, b - 1) + F[b]
  <1>1. PICK f : IsRunningSum(f, F, a, b) /\ SumRange(F, a, b) = f[b]
    BY SumRangeDef
  <1>2. PICK g : IsRunningSum(g, F, a, b - 1) /\ SumRange(F, a, b - 1) = g[b - 1]
    BY SumRangeDef
  <1>3. g[b - 1] = f[b - 1]
    BY <1>1, <1>2, RunningSumUnique
  <1>4. f[b] = f[b - 1] + F[b]
    BY <1>1 DEF IsRunningSum
  <1> QED  BY <1>1, <1>2, <1>3, <1>4

\* A sum of integers is an integer.
LEMMA SumRangeInt ==
  ASSUME NEW F, NEW a \in Int, NEW b \in Int, a - 1 <= b,
         \A i \in a .. b : F[i] \in Int
  PROVE  SumRange(F, a, b) \in Int
  <1> DEFINE T == {k \in Nat : a - 1 + k <= b => SumRange(F, a, a - 1 + k) \in Int}
  <1>1. 0 \in T
    BY SumRangeEmpty
  <1>2. ASSUME NEW k \in T PROVE k + 1 \in T
    <2>1. SUFFICES ASSUME a - 1 + (k + 1) <= b
                   PROVE  SumRange(F, a, a - 1 + (k + 1)) \in Int
      OBVIOUS
    <2>2. SumRange(F, a, a + k) = SumRange(F, a, a + k - 1) + F[a + k]
      BY SumRangeLast, a + k \in Int, a <= a + k
    <2>3. SumRange(F, a, a + k - 1) \in Int /\ F[a + k] \in Int
      BY <2>1
    <2> QED  BY <2>2, <2>3
  <1> HIDE DEF T
  <1>3. T = Nat
    BY <1>1, <1>2, NatSetInduction DEF T
  <1>4. b - (a - 1) \in T
    BY <1>3
  <1> QED  BY <1>4 DEF T

\* Loops over entries that grow, entry by entry, grow.
LEMMA SumRangeMono ==
  ASSUME NEW F, NEW G, NEW a \in Int, NEW b \in Int, a - 1 <= b,
         \A i \in a .. b : F[i] \in Int /\ G[i] \in Int /\ F[i] <= G[i]
  PROVE  SumRange(F, a, b) <= SumRange(G, a, b)
  <1> DEFINE T == {k \in Nat : a - 1 + k <= b =>
                     /\ SumRange(F, a, a - 1 + k) \in Int
                     /\ SumRange(G, a, a - 1 + k) \in Int
                     /\ SumRange(F, a, a - 1 + k) <= SumRange(G, a, a - 1 + k)}
  <1>1. 0 \in T
    BY SumRangeEmpty
  <1>2. ASSUME NEW k \in T PROVE k + 1 \in T
    <2>1. SUFFICES ASSUME a - 1 + (k + 1) <= b
                   PROVE  /\ SumRange(F, a, a - 1 + (k + 1)) \in Int
                          /\ SumRange(G, a, a - 1 + (k + 1)) \in Int
                          /\ SumRange(F, a, a - 1 + (k + 1))
                               <= SumRange(G, a, a - 1 + (k + 1))
      OBVIOUS
    <2>2. /\ SumRange(F, a, a + k) = SumRange(F, a, a + k - 1) + F[a + k]
          /\ SumRange(G, a, a + k) = SumRange(G, a, a + k - 1) + G[a + k]
      BY SumRangeLast, a + k \in Int, a <= a + k
    <2>3. F[a + k] \in Int /\ G[a + k] \in Int /\ F[a + k] <= G[a + k]
      BY <2>1
    <2> QED  BY <2>1, <2>2, <2>3
  <1> HIDE DEF T
  <1>3. T = Nat
    BY <1>1, <1>2, NatSetInduction DEF T
  <1>4. b - (a - 1) \in T
    BY <1>3
  <1> QED  BY <1>4 DEF T

\* Loops over the same entries have the same sum.
LEMMA SumRangeEqual ==
  ASSUME NEW F, NEW G, NEW a \in Int, NEW b \in Int, a - 1 <= b,
         \A i \in a .. b : F[i] = G[i]
  PROVE  SumRange(F, a, b) = SumRange(G, a, b)
  <1> DEFINE T == {k \in Nat : a - 1 + k <= b =>
                     SumRange(F, a, a - 1 + k) = SumRange(G, a, a - 1 + k)}
  <1>1. 0 \in T
    BY SumRangeEmpty
  <1>2. ASSUME NEW k \in T PROVE k + 1 \in T
    <2>1. SUFFICES ASSUME a - 1 + (k + 1) <= b
                   PROVE  SumRange(F, a, a - 1 + (k + 1)) = SumRange(G, a, a - 1 + (k + 1))
      OBVIOUS
    <2>2. /\ SumRange(F, a, a + k) = SumRange(F, a, a + k - 1) + F[a + k]
          /\ SumRange(G, a, a + k) = SumRange(G, a, a + k - 1) + G[a + k]
      BY SumRangeLast, a + k \in Int, a <= a + k
    <2> QED  BY <2>1, <2>2
  <1> HIDE DEF T
  <1>3. T = Nat
    BY <1>1, <1>2, NatSetInduction DEF T
  <1>4. b - (a - 1) \in T
    BY <1>3
  <1> QED  BY <1>4 DEF T

\* A sum of zeros is 0.
LEMMA SumRangeZeros ==
  ASSUME NEW F, NEW a \in Int, NEW b \in Int, a - 1 <= b,
         \A i \in a .. b : F[i] = 0
  PROVE  SumRange(F, a, b) = 0
  <1> DEFINE T == {k \in Nat : a - 1 + k <= b => SumRange(F, a, a - 1 + k) = 0}
  <1>1. 0 \in T
    BY SumRangeEmpty
  <1>2. ASSUME NEW k \in T PROVE k + 1 \in T
    <2>1. SUFFICES ASSUME a - 1 + (k + 1) <= b
                   PROVE  SumRange(F, a, a - 1 + (k + 1)) = 0
      OBVIOUS
    <2>2. SumRange(F, a, a + k) = SumRange(F, a, a + k - 1) + F[a + k]
      BY SumRangeLast, a + k \in Int, a <= a + k
    <2> QED  BY <2>1, <2>2
  <1> HIDE DEF T
  <1>3. T = Nat
    BY <1>1, <1>2, NatSetInduction DEF T
  <1>4. b - (a - 1) \in T
    BY <1>3
  <1> QED  BY <1>4 DEF T

\* A sum of naturals is a natural.
LEMMA SumRangeNat ==
  ASSUME NEW F, NEW a \in Int, NEW b \in Int, a - 1 <= b,
         \A i \in a .. b : F[i] \in Nat
  PROVE  SumRange(F, a, b) \in Nat
  <1> DEFINE Z == [i \in a .. b |-> 0]
  <1>1. SumRange(Z, a, b) = 0
    BY SumRangeZeros
  <1>2. SumRange(F, a, b) \in Int
    BY SumRangeInt
  <1>3. \A i \in a .. b : Z[i] \in Int /\ F[i] \in Int /\ Z[i] <= F[i]
    OBVIOUS
  <1> HIDE DEF Z
  <1>4. SumRange(Z, a, b) <= SumRange(F, a, b)
    BY <1>3, SumRangeMono
  <1> QED  BY <1>1, <1>2, <1>4

\* No entry exceeds a sum of naturals.
LEMMA SumRangeEntry ==
  ASSUME NEW F, NEW a \in Int, NEW b \in Int, a - 1 <= b,
         \A i \in a .. b : F[i] \in Nat, NEW j \in a .. b
  PROVE  F[j] <= SumRange(F, a, b)
  <1> DEFINE T == {k \in Nat : j + k <= b => F[j] <= SumRange(F, a, j + k)}
  <1>1. \A i \in a - 1 .. b : SumRange(F, a, i) \in Nat
    BY SumRangeNat
  <1>2. \A i \in a .. b : SumRange(F, a, i) = SumRange(F, a, i - 1) + F[i]
    BY SumRangeLast
  <1>3. 0 \in T
    BY <1>1, <1>2, j - 1 \in a - 1 .. b
  <1>4. ASSUME NEW k \in T PROVE k + 1 \in T
    <2>1. SUFFICES ASSUME j + (k + 1) <= b
                   PROVE  F[j] <= SumRange(F, a, j + (k + 1))
      OBVIOUS
    <2>2. SumRange(F, a, j + k + 1) = SumRange(F, a, j + k) + F[j + k + 1]
      BY <1>2, <2>1, j + k + 1 \in a .. b
    <2>3. SumRange(F, a, j + k) \in Nat /\ F[j + k + 1] \in Nat
      BY <1>1, <2>1, j + k \in a - 1 .. b, j + k + 1 \in a .. b
    <2> QED  BY <2>1, <2>2, <2>3
  <1> HIDE DEF T
  <1>5. T = Nat
    BY <1>3, <1>4, NatSetInduction DEF T
  <1>6. b - j \in T
    BY <1>5
  <1> QED  BY <1>6 DEF T

\* Loops whose entries grow by multiples of c grow by the multiple of c.
LEMMA SumRangeScaled ==
  ASSUME NEW F, NEW G, NEW A, NEW a \in Int, NEW b \in Int, a - 1 <= b, NEW c \in Int,
         \A i \in a .. b : F[i] \in Int /\ A[i] \in Int /\ G[i] = F[i] + c * A[i]
  PROVE  SumRange(G, a, b) = SumRange(F, a, b) + c * SumRange(A, a, b)
  <1> DEFINE T == {k \in Nat : a - 1 + k <= b =>
                     /\ SumRange(F, a, a - 1 + k) \in Int
                     /\ SumRange(A, a, a - 1 + k) \in Int
                     /\ SumRange(G, a, a - 1 + k)
                          = SumRange(F, a, a - 1 + k) + c * SumRange(A, a, a - 1 + k)}
  <1>1. 0 \in T
    BY SumRangeEmpty
  <1>2. ASSUME NEW k \in T PROVE k + 1 \in T
    <2>1. SUFFICES ASSUME a - 1 + (k + 1) <= b
                   PROVE  /\ SumRange(F, a, a - 1 + (k + 1)) \in Int
                          /\ SumRange(A, a, a - 1 + (k + 1)) \in Int
                          /\ SumRange(G, a, a - 1 + (k + 1))
                               = SumRange(F, a, a - 1 + (k + 1)) + c * SumRange(A, a, a - 1 + (k + 1))
      OBVIOUS
    <2> DEFINE f == SumRange(F, a, a + k - 1)
               s == SumRange(A, a, a + k - 1)
    <2>2. /\ SumRange(F, a, a + k) = f + F[a + k]
          /\ SumRange(A, a, a + k) = s + A[a + k]
          /\ SumRange(G, a, a + k) = SumRange(G, a, a + k - 1) + G[a + k]
      BY SumRangeLast, a + k \in Int, a <= a + k
    <2>3. F[a + k] \in Int /\ A[a + k] \in Int /\ G[a + k] = F[a + k] + c * A[a + k]
      BY <2>1
    <2>4. f \in Int /\ s \in Int /\ SumRange(G, a, a + k - 1) = f + c * s
      BY <2>1
    <2>5. \A x, y \in Int : c * (x + y) = c * x + c * y
      OBVIOUS
    <2>6. \A x \in Int : c * x \in Int
      OBVIOUS
    <2>9. a - 1 + (k + 1) = a + k
      OBVIOUS
    <2> HIDE DEF f, s, T
    <2>7. c * (s + A[a + k]) = c * s + c * A[a + k]
      BY <2>3, <2>4, <2>5
    <2>8. c * s \in Int /\ c * A[a + k] \in Int
      BY <2>3, <2>4, <2>6
    <2> QED  BY <2>2, <2>3, <2>4, <2>7, <2>8, <2>9
  <1> HIDE DEF T
  <1>3. T = Nat
    BY <1>1, <1>2, NatSetInduction DEF T
  <1>4. b - (a - 1) \in T
    BY <1>3
  <1> QED  BY <1>4 DEF T

\* Loops over multiples of c give the multiple of c.
LEMMA SumRangeMultiple ==
  ASSUME NEW A, NEW a \in Int, NEW b \in Int, a - 1 <= b, NEW c \in Int,
         \A i \in a .. b : A[i] \in Int
  PROVE  SumRange([i \in a .. b |-> c * A[i]], a, b) = c * SumRange(A, a, b)
  <1> DEFINE G == [i \in a .. b |-> c * A[i]]
             T == {k \in Nat : a - 1 + k <= b =>
                     /\ SumRange(A, a, a - 1 + k) \in Int
                     /\ SumRange(G, a, a - 1 + k) = c * SumRange(A, a, a - 1 + k)}
  <1>1. \A i \in a .. b : G[i] = c * A[i]
    OBVIOUS
  <1> HIDE DEF G
  <1>2. 0 \in T
    BY SumRangeEmpty
  <1>3. ASSUME NEW k \in T PROVE k + 1 \in T
    <2>1. SUFFICES ASSUME a - 1 + (k + 1) <= b
                   PROVE  /\ SumRange(A, a, a - 1 + (k + 1)) \in Int
                          /\ SumRange(G, a, a - 1 + (k + 1)) = c * SumRange(A, a, a - 1 + (k + 1))
      OBVIOUS
    <2> DEFINE s == SumRange(A, a, a + k - 1)
    <2>2. /\ SumRange(A, a, a + k) = s + A[a + k]
          /\ SumRange(G, a, a + k) = SumRange(G, a, a + k - 1) + G[a + k]
      BY SumRangeLast, a + k \in Int, a <= a + k
    <2>3. A[a + k] \in Int /\ G[a + k] = c * A[a + k]
      BY <1>1, <2>1
    <2>4. s \in Int /\ SumRange(G, a, a + k - 1) = c * s
      BY <2>1
    <2>5. \A x, y \in Int : c * (x + y) = c * x + c * y
      OBVIOUS
    <2>6. a - 1 + (k + 1) = a + k
      OBVIOUS
    <2> HIDE DEF s, T
    <2>7. c * (s + A[a + k]) = c * s + c * A[a + k]
      BY <2>3, <2>4, <2>5
    <2> QED  BY <2>2, <2>3, <2>4, <2>6, <2>7
  <1> HIDE DEF T
  <1>4. T = Nat
    BY <1>2, <1>3, NatSetInduction DEF T
  <1>5. b - (a - 1) \in T
    BY <1>4
  <1> QED  BY <1>5 DEF T, G

\* Entries in a proportion that holds one by one add up to sums in it.
LEMMA SumRangeBound ==
  ASSUME NEW A, NEW M, NEW a \in Int, NEW b \in Int, a - 1 <= b,
         NEW c \in Int, NEW k \in Int,
         \A i \in a .. b : A[i] \in Int /\ M[i] \in Int /\ c * A[i] <= k * M[i]
  PROVE  c * SumRange(A, a, b) <= k * SumRange(M, a, b)
  <1> DEFINE G == [i \in a .. b |-> c * A[i]]
             H == [i \in a .. b |-> k * M[i]]
  <1>1. SumRange(G, a, b) = c * SumRange(A, a, b)
    BY SumRangeMultiple, ZenonT(40)
  <1>2. SumRange(H, a, b) = k * SumRange(M, a, b)
    BY SumRangeMultiple, ZenonT(40)
  <1>3. \A i \in a .. b : G[i] \in Int /\ H[i] \in Int /\ G[i] <= H[i]
    <2>1. \A x, y \in Int : x * y \in Int
      OBVIOUS
    <2> QED  BY <2>1
  <1> HIDE DEF G, H
  <1>4. SumRange(G, a, b) <= SumRange(H, a, b)
    BY <1>3, SumRangeMono
  <1> QED  BY <1>1, <1>2, <1>4

\* Extending a list by one entry adds the entry.
LEMMA SumRangeAppend ==
  ASSUME NEW F, NEW G, NEW n \in Nat, \A i \in 1 .. n : F[i] = G[i]
  PROVE  SumRange(G, 1, n + 1) = SumRange(F, 1, n) + G[n + 1]
  <1>1. SumRange(G, 1, n + 1) = SumRange(G, 1, n) + G[n + 1]
    BY SumRangeLast, n + 1 \in Int, 1 <= n + 1, n + 1 - 1 = n
  <1>2. SumRange(F, 1, n) = SumRange(G, 1, n)
    BY SumRangeEqual, 1 - 1 <= n, n \in Int
  <1> QED  BY <1>1, <1>2

-----------------------------------------------------------------------------
(* Sums over sets: what MapThenSumSet adds up, entry by entry.  Its         *)
(* accumulator is a function on the subsets; IsSetSum is the equation that  *)
(* defines it for a function f on a finite set, and Net, the difference of  *)
(* two totals, its one solution.                                            *)

IsSetSum(iter, f, S) ==
  iter = [s \in SUBSET S |->
            IF s = {} THEN 0
            ELSE f[CHOOSE x \in s : TRUE] + iter[s \ {CHOOSE x \in s : TRUE}]]

Credit(f, s) == [x \in s |-> IF f[x] > 0 THEN f[x] ELSE 0]
Debit(f, s) == [x \in s |-> IF f[x] < 0 THEN 0 - f[x] ELSE 0]

\* The sum of f over the set s.
Net(f, s) == Total(Credit(f, s)) - Total(Debit(f, s))

\* Credits and debits are ledgers of naturals.
LEMMA CreditDebitType ==
  ASSUME NEW S, NEW f \in [S -> Int], NEW s \in SUBSET S
  PROVE  /\ Credit(f, s) \in [s -> Nat]
         /\ Debit(f, s) \in [s -> Nat]
         /\ \A x \in s : Credit(f, s)[x] - Debit(f, s)[x] = f[x]
  BY DEF Credit, Debit

\* A sum of integers is an integer.
LEMMA NetInt ==
  ASSUME NEW S, IsFiniteSet(S), NEW f \in [S -> Int], NEW s \in SUBSET S
  PROVE  Net(f, s) \in Int
  <1>1. IsFiniteSet(s)
    BY FS_Subset
  <1>2. Credit(f, s) \in [s -> Nat] /\ Debit(f, s) \in [s -> Nat]
    BY CreditDebitType
  <1>3. Total(Credit(f, s)) \in Nat /\ Total(Debit(f, s)) \in Nat
    BY <1>1, <1>2, TotalBounds
  <1> QED  BY <1>3 DEF Net

\* A function of zeros, or the empty set, sums to 0.
LEMMA NetZero ==
  ASSUME NEW f, NEW s, \A x \in s : f[x] = 0
  PROVE  Net(f, s) = 0
  <1>1. /\ DOMAIN Credit(f, s) = s /\ \A x \in s : Credit(f, s)[x] = 0
        /\ DOMAIN Debit(f, s) = s /\ \A x \in s : Debit(f, s)[x] = 0
    BY DEF Credit, Debit
  <1>2. Total(Credit(f, s)) = 0 /\ Total(Debit(f, s)) = 0
    BY <1>1, TotalZero
  <1> QED  BY <1>2 DEF Net

\* Functions that agree on a set have the same sum over it.
LEMMA NetEqual ==
  ASSUME NEW f, NEW g, NEW s, \A x \in s : f[x] = g[x]
  PROVE  Net(f, s) = Net(g, s)
  <1>1. Credit(f, s) = Credit(g, s) /\ Debit(f, s) = Debit(g, s)
    BY DEF Credit, Debit
  <1> QED  BY <1>1 DEF Net

\* One element more adds its entry.
LEMMA NetExtend ==
  ASSUME NEW S, IsFiniteSet(S), NEW f \in [S -> Int], NEW s \in SUBSET S, NEW x \in s
  PROVE  Net(f, s) = f[x] + Net(f, s \ {x})
  <1> DEFINE r == s \ {x}
             C == Credit(f, s)
             D == Debit(f, s)
             c == Credit(f, r)
             d == Debit(f, r)
  <1>1. IsFiniteSet(r) /\ r \cup {x} = s /\ x \notin r /\ r \in SUBSET S
    <2>1. IsFiniteSet(s)
      BY FS_Subset
    <2> QED  BY <2>1, FS_RemoveElement
  <1>2. /\ C \in [s -> Nat] /\ D \in [s -> Nat] /\ C[x] - D[x] = f[x]
        /\ c \in [r -> Nat] /\ d \in [r -> Nat]
    BY <1>1, CreditDebitType
  <1>3. \A y \in r : C[y] = c[y] /\ D[y] = d[y]
    BY DEF Credit, Debit
  <1>4. Net(f, s) = Total(C) - Total(D) /\ Net(f, r) = Total(c) - Total(d)
    BY DEF Net
  <1>5. f[x] \in Int
    OBVIOUS
  <1> HIDE DEF r, C, D, c, d
  <1>6. Total(C) = Total(c) + C[x]
    BY SMTT(30), <1>1, <1>2, <1>3, TotalExtend
  <1>7. Total(D) = Total(d) + D[x]
    <2>1. /\ D \in [r \cup {x} -> Nat] /\ d \in [r -> Nat]
          /\ \A y \in r : D[y] = d[y]
      BY <1>1, <1>2, <1>3
    <2> QED  BY <1>1, <2>1, TotalExtend
  <1>8. Total(c) \in Nat /\ Total(d) \in Nat /\ C[x] \in Nat /\ D[x] \in Nat
    <2>1. C[x] \in Nat /\ D[x] \in Nat
      BY <1>2
    <2> QED  BY <1>1, <1>2, <2>1, TotalBounds
  <1> QED  BY <1>2, <1>4, <1>5, <1>6, <1>7, <1>8 DEF r

\* Replacing one entry moves the sum by the difference.
LEMMA NetUpdate ==
  ASSUME NEW S, IsFiniteSet(S), NEW f \in [S -> Int], NEW g \in [S -> Int], NEW x \in S,
         \A y \in S \ {x} : g[y] = f[y]
  PROVE  Net(g, S) = Net(f, S) - f[x] + g[x]
  <1>1. Net(f, S) = f[x] + Net(f, S \ {x}) /\ Net(g, S) = g[x] + Net(g, S \ {x})
    BY NetExtend, S \in SUBSET S
  <1>2. Net(f, S \ {x}) = Net(g, S \ {x})
    BY NetEqual
  <1>3. Net(f, S \ {x}) \in Int
    BY NetInt, S \ {x} \in SUBSET S
  <1> QED  BY <1>1, <1>2, <1>3

\* Net solves the equation.
LEMMA NetSolves ==
  ASSUME NEW S, IsFiniteSet(S), NEW f \in [S -> Int]
  PROVE  IsSetSum([s \in SUBSET S |-> Net(f, s)], f, S)
  <1> DEFINE iter == [s \in SUBSET S |-> Net(f, s)]
  <1>1. ASSUME NEW s \in SUBSET S
        PROVE  iter[s] = IF s = {} THEN 0
                         ELSE f[CHOOSE x \in s : TRUE] + iter[s \ {CHOOSE x \in s : TRUE}]
    <2>1. CASE s = {}
      BY <2>1, NetZero
    <2>2. CASE s # {}
      <3> DEFINE x == CHOOSE y \in s : TRUE
      <3>1. x \in s
        BY <2>2
      <3> HIDE DEF x
      <3>2. Net(f, s) = f[x] + Net(f, s \ {x})
        BY <3>1, NetExtend
      <3>3. iter[s] = f[x] + iter[s \ {x}]
        BY <3>2
      <3> QED  BY <2>2, <3>3 DEF x
    <2> QED  BY <2>1, <2>2
  <1> QED  BY <1>1 DEF IsSetSum

\* The equation has no other solution.
LEMMA SetSumIsNet ==
  ASSUME NEW S, IsFiniteSet(S), NEW f \in [S -> Int], NEW iter, IsSetSum(iter, f, S)
  PROVE  iter[S] = Net(f, S)
  <1> DEFINE T == {n \in Nat : \A s \in SUBSET S : Cardinality(s) = n => iter[s] = Net(f, s)}
  <1>1. \A s \in SUBSET S : IsFiniteSet(s) /\ Cardinality(s) \in Nat
    BY FS_Subset, FS_CardinalityType
  <1>2. 0 \in T
    <2>1. ASSUME NEW s \in SUBSET S, Cardinality(s) = 0 PROVE iter[s] = Net(f, s)
      <3>1. s = {}
        BY <1>1, <2>1, FS_EmptySet
      <3>2. iter[s] = 0
        BY <3>1 DEF IsSetSum
      <3> QED  BY <3>1, <3>2, NetZero
    <2> QED  BY <2>1
  <1>3. ASSUME NEW n \in T PROVE n + 1 \in T
    <2>1. ASSUME NEW s \in SUBSET S, Cardinality(s) = n + 1 PROVE iter[s] = Net(f, s)
      <3> DEFINE x == CHOOSE y \in s : TRUE
      <3>1. s # {} /\ n \in Nat
        <4>1. n \in Nat /\ n + 1 # 0
          BY <1>3
        <4> QED  BY <2>1, <4>1, FS_EmptySet
      <3>2. x \in s /\ s \ {x} \in SUBSET S
        BY <3>1
      <3>3. iter[s] = f[x] + iter[s \ {x}]
        BY <3>1 DEF IsSetSum
      <3> HIDE DEF x
      <3>4. Cardinality(s \ {x}) = n
        <4>1. Cardinality(s \ {x}) = Cardinality(s) - 1
          BY <1>1, <3>2, FS_RemoveElement
        <4> QED  BY <2>1, <3>1, <4>1
      <3>5. iter[s \ {x}] = Net(f, s \ {x})
        BY <3>2, <3>4
      <3> QED  BY <3>2, <3>3, <3>5, NetExtend
    <2> QED  BY <2>1
  <1> HIDE DEF T
  <1>4. T = Nat
    BY <1>2, <1>3, NatSetInduction DEF T
  <1>5. Cardinality(S) \in T
    BY <1>1, <1>4, S \in SUBSET S
  <1> QED  BY <1>5, S \in SUBSET S DEF T

\* The sum of two functions.
LEMMA NetAdd ==
  ASSUME NEW S, IsFiniteSet(S), NEW f \in [S -> Int], NEW g \in [S -> Int],
         NEW h \in [S -> Int], \A x \in S : h[x] = f[x] + g[x]
  PROVE  Net(h, S) = Net(f, S) + Net(g, S)
  <1> DEFINE iter == [s \in SUBSET S |-> Net(f, s) + Net(g, s)]
  <1>1. ASSUME NEW s \in SUBSET S
        PROVE  iter[s] = IF s = {} THEN 0
                         ELSE h[CHOOSE x \in s : TRUE] + iter[s \ {CHOOSE x \in s : TRUE}]
    <2>1. CASE s = {}
      BY <2>1, NetZero
    <2>2. CASE s # {}
      <3> DEFINE x == CHOOSE y \in s : TRUE
                 r == s \ {x}
      <3>1. x \in s /\ r \in SUBSET S
        BY <2>2
      <3>2. iter[s] = Net(f, s) + Net(g, s) /\ iter[r] = Net(f, r) + Net(g, r)
        BY <3>1
      <3> HIDE DEF iter
      <3>3. Net(f, s) = f[x] + Net(f, r) /\ Net(g, s) = g[x] + Net(g, r)
        <4> HIDE DEF x
        <4> QED  BY <3>1, NetExtend
      <3>4. Net(f, r) \in Int /\ Net(g, r) \in Int
        <4> HIDE DEF r
        <4> QED  BY <3>1, NetInt
      <3>5. f[x] \in Int /\ g[x] \in Int /\ h[x] = f[x] + g[x]
        <4> HIDE DEF x
        <4> QED  BY <3>1
      <3> HIDE DEF x, r
      <3>6. iter[s] = h[x] + iter[r]
        BY <3>2, <3>3, <3>4, <3>5
      <3> QED  BY <2>2, <3>6 DEF x, r
    <2> QED  BY <2>1, <2>2
  <1>2. IsSetSum(iter, h, S)
    BY <1>1 DEF IsSetSum
  <1>3. iter[S] = Net(f, S) + Net(g, S)
    BY S \in SUBSET S
  <1> HIDE DEF iter
  <1> QED  BY <1>2, <1>3, SetSumIsNet

\* A multiple of a function.
LEMMA NetScaled ==
  ASSUME NEW S, IsFiniteSet(S), NEW f \in [S -> Int], NEW c \in Int,
         NEW h \in [S -> Int], \A x \in S : h[x] = c * f[x]
  PROVE  Net(h, S) = c * Net(f, S)
  <1> DEFINE iter == [s \in SUBSET S |-> c * Net(f, s)]
  <1>1. ASSUME NEW s \in SUBSET S
        PROVE  iter[s] = IF s = {} THEN 0
                         ELSE h[CHOOSE x \in s : TRUE] + iter[s \ {CHOOSE x \in s : TRUE}]
    <2>1. CASE s = {}
      BY <2>1, NetZero
    <2>2. CASE s # {}
      <3> DEFINE x == CHOOSE y \in s : TRUE
                 r == s \ {x}
      <3>1. x \in s /\ r \in SUBSET S
        BY <2>2
      <3>2. iter[s] = c * Net(f, s) /\ iter[r] = c * Net(f, r)
        BY <3>1
      <3> HIDE DEF iter
      <3>3. Net(f, s) = f[x] + Net(f, r)
        <4> HIDE DEF x
        <4> QED  BY <3>1, NetExtend
      <3>4. Net(f, r) \in Int
        <4> HIDE DEF r
        <4> QED  BY <3>1, NetInt
      <3>5. f[x] \in Int /\ h[x] = c * f[x]
        <4> HIDE DEF x
        <4> QED  BY <3>1
      <3> HIDE DEF x, r
      <3>6. \A p, q \in Int : c * (p + q) = c * p + c * q
        OBVIOUS
      <3>7. iter[s] = h[x] + iter[r]
        BY <3>2, <3>3, <3>4, <3>5, <3>6
      <3> QED  BY <2>2, <3>7 DEF x, r
    <2> QED  BY <2>1, <2>2
  <1>2. IsSetSum(iter, h, S)
    BY <1>1 DEF IsSetSum
  <1>3. iter[S] = c * Net(f, S)
    BY S \in SUBSET S
  <1> HIDE DEF iter
  <1> QED  BY <1>2, <1>3, SetSumIsNet

\* A sum of naturals is a natural.
LEMMA NetNat ==
  ASSUME NEW S, IsFiniteSet(S), NEW f \in [S -> Nat]
  PROVE  Net(f, S) \in Nat
  <1>1. f \in [S -> Int] /\ S \in SUBSET S
    OBVIOUS
  <1>2. Credit(f, S) \in [S -> Nat]
    BY <1>1, CreditDebitType
  <1>3. Total(Credit(f, S)) \in Nat
    BY <1>2, TotalBounds
  <1>4. Total(Debit(f, S)) = 0
    <2>1. DOMAIN Debit(f, S) = S /\ \A x \in S : Debit(f, S)[x] = 0
      BY DEF Debit
    <2> QED  BY <2>1, TotalZero
  <1> QED  BY <1>3, <1>4 DEF Net

\* A pointwise larger function has a larger sum.
LEMMA NetMono ==
  ASSUME NEW S, IsFiniteSet(S), NEW f \in [S -> Int], NEW g \in [S -> Int],
         \A x \in S : f[x] <= g[x]
  PROVE  Net(f, S) <= Net(g, S)
  <1> DEFINE d == [x \in S |-> g[x] - f[x]]
  <1>1. d \in [S -> Nat] /\ d \in [S -> Int] /\ \A x \in S : g[x] = f[x] + d[x]
    OBVIOUS
  <1> HIDE DEF d
  <1>2. Net(g, S) = Net(f, S) + Net(d, S)
    BY <1>1, NetAdd
  <1>3. Net(d, S) \in Nat /\ Net(f, S) \in Int
    BY <1>1, NetNat, NetInt, S \in SUBSET S
  <1> QED  BY <1>2, <1>3

\* For naturals the sum is the total.
LEMMA NetIsTotal ==
  ASSUME NEW S, IsFiniteSet(S), NEW f \in [S -> Nat]
  PROVE  Net(f, S) = Total(f)
  <1>1. Credit(f, S) = f
    BY DEF Credit
  <1>2. DOMAIN Debit(f, S) = S /\ \A x \in S : Debit(f, S)[x] = 0
    BY DEF Debit
  <1>3. Total(Debit(f, S)) = 0
    BY <1>2, TotalZero
  <1>4. Total(f) \in Nat
    BY TotalBounds
  <1> QED  BY <1>1, <1>3, <1>4 DEF Net

\* A ledger that merges two others, with no account in common.
Merges(h, f, g) ==
  /\ DOMAIN h = DOMAIN f \cup DOMAIN g /\ DOMAIN f \cap DOMAIN g = {}
  /\ \A x \in DOMAIN f : h[x] = f[x]
  /\ \A x \in DOMAIN g : h[x] = g[x]

\* The totals of two ledgers without an account in common add up.
LEMMA TotalUnion ==
  ASSUME NEW h, NEW f, NEW g, IsFiniteSet(Units(f)), IsFiniteSet(Units(g)), Merges(h, f, g)
  PROVE  Total(h) = Total(f) + Total(g)
  <1>1. Units(h) = Units(f) \cup Units(g)
    BY DEF Units, Coins, Merges
  <1>2. Units(f) \cap Units(g) = {}
    BY DEF Units, Coins, Merges
  <1>3. Cardinality(Units(f)) \in Nat /\ Cardinality(Units(g)) \in Nat
    BY FS_CardinalityType
  <1>4. Cardinality(Units(h)) = Cardinality(Units(f)) + Cardinality(Units(g)) - Cardinality({})
    BY <1>1, <1>2, <1>3, FS_Union
  <1> QED  BY <1>3, <1>4, FS_EmptySet DEF Total

\* The sums over two groups add up.
LEMMA NetUnion ==
  ASSUME NEW S, IsFiniteSet(S), NEW f \in [S -> Int],
         NEW A \in SUBSET S, NEW B \in SUBSET S, A \cap B = {}
  PROVE  Net(f, A \cup B) = Net(f, A) + Net(f, B)
  <1>1. PICK U : U = A \cup B
    OBVIOUS
  <1>2. IsFiniteSet(A) /\ IsFiniteSet(B)
    BY FS_Subset
  <1>3. /\ Credit(f, A) \in [A -> Nat] /\ Debit(f, A) \in [A -> Nat]
        /\ Credit(f, B) \in [B -> Nat] /\ Debit(f, B) \in [B -> Nat]
    BY CreditDebitType
  <1>4. /\ IsFiniteSet(Units(Credit(f, A))) /\ IsFiniteSet(Units(Debit(f, A)))
        /\ IsFiniteSet(Units(Credit(f, B))) /\ IsFiniteSet(Units(Debit(f, B)))
    BY <1>2, <1>3, UnitsFinite
  <1>5. Merges(Credit(f, U), Credit(f, A), Credit(f, B))
    BY <1>1 DEF Merges, Credit
  <1>6. Merges(Debit(f, U), Debit(f, A), Debit(f, B))
    BY <1>1 DEF Merges, Debit
  <1>7. Total(Credit(f, U)) = Total(Credit(f, A)) + Total(Credit(f, B))
    BY <1>4, <1>5, TotalUnion
  <1>8. Total(Debit(f, U)) = Total(Debit(f, A)) + Total(Debit(f, B))
    BY <1>4, <1>6, TotalUnion
  <1>9. /\ Total(Credit(f, A)) \in Nat /\ Total(Credit(f, B)) \in Nat
        /\ Total(Debit(f, A)) \in Nat /\ Total(Debit(f, B)) \in Nat
    BY <1>2, <1>3, TotalBounds
  <1>10. Net(f, U) = Net(f, A) + Net(f, B)
    BY <1>7, <1>8, <1>9 DEF Net
  <1> QED  BY <1>1, <1>10
=============================================================================
