----------------------------- MODULE SDWanProofs -----------------------------
(***************************************************************************)
(* Theorems about SDWan, for every number of applications and interfaces,  *)
(* every strategy, packet size, buffer size, traffic and duration, and     *)
(* about RunReport, the report of an experiment.                           *)
(*                                                                         *)
(* First, sums over finite sets, and what the operators of the simulation  *)
(* guarantee, step by step.                                                *)
(*                                                                         *)
(* Plans: every plan of a strategy is a plan, it takes every pending       *)
(* packet, it is empty when nothing is pending, and the packets it gives   *)
(* to an interface are packets of the applications.                        *)
(*                                                                         *)
(* Connections: from the socket SendData writes to, to the list the sink   *)
(* keeps, what every operation preserves of the stream s and of the        *)
(* packets r that were read from it.                                       *)
(*                                                                         *)
(* Report: the file of every strategy has the columns that its header      *)
(* names, and rows are missing for one reason only, for every set of       *)
(* interfaces, all outcomes of the simulations and any number of           *)
(* strategies and runs.                                                    *)
(***************************************************************************)
EXTENDS SDWan, RunReport, SequenceTheorems, FiniteSetTheorems, WellFoundedInduction, TLAPS

-----------------------------------------------------------------------------
(* Sums over a finite set: they are natural numbers, 0 exactly when all    *)
(* terms are, and add up by index, by term and over two indices.           *)

\* The least element of a non-empty set of naturals.
LEMMA LeastNat ==
    ASSUME NEW T \in SUBSET Nat, T # {}
    PROVE  \E n \in T : \A m \in T : n <= m
<1> DEFINE R == {mn \in Nat \X Nat : mn[1] < mn[2]}
<1>1. IsWellFoundedOn(R, Nat)
  BY NatLessThanWellFounded DEF OpToRel
<1>2. PICK n \in T : \A m \in T : ~ (<<m, n>> \in R)
  BY <1>1, WFMin
<1>3. ASSUME NEW m \in T PROVE n <= m
  <2>1. <<m, n>> \in Nat \X Nat /\ <<m, n>>[1] = m /\ <<m, n>>[2] = n
    OBVIOUS
  <2>2. ~(m < n)
    BY <1>2, <2>1
  <2>3. m \in Nat /\ n \in Nat
    OBVIOUS
  <2> QED BY <2>2, <2>3
<1> QED
  BY <1>3

\* The slots of a function of naturals over a finite set are finitely many, so
\* its total is a natural number.
LEMMA TotalIsNat ==
    ASSUME NEW S, IsFiniteSet(S), NEW f \in [S -> Nat]
    PROVE  IsFiniteSet(Slots(f)) /\ Total(f) \in Nat
<1> DEFINE Block(d) == {d} \X (1..f[d])
           Blocks   == {Block(d) : d \in S}
           g        == [d \in S |-> Block(d)]
<1>1. \A d \in S : IsFiniteSet(Block(d))
  <2>1. SUFFICES ASSUME NEW d \in S PROVE IsFiniteSet(Block(d))
    OBVIOUS
  <2>2. IsFiniteSet({d}) BY FS_Singleton
  <2>3. IsFiniteSet(1..f[d]) BY FS_Interval
  <2> QED BY <2>2, <2>3, FS_Product
<1>2. g \in Surjection(S, Blocks)
  BY DEF Surjection
<1>3. IsFiniteSet(Blocks)
  BY <1>2, FS_Surjection
<1>4. \A B \in Blocks : IsFiniteSet(B)
  BY <1>1
<1>5. IsFiniteSet(UNION Blocks)
  <2> HIDE DEF Blocks
  <2> QED BY <1>3, <1>4, FS_UNION
<1>6. Slots(f) = UNION Blocks
  BY DEF Slots
<1> QED
  BY <1>5, <1>6, FS_CardinalityType DEF Total

\* A total is 0 exactly when every term is.
LEMMA TotalZero ==
    ASSUME NEW S, IsFiniteSet(S), NEW f \in [S -> Nat]
    PROVE  Total(f) = 0 <=> \A d \in S : f[d] = 0
<1>1. Total(f) = 0 <=> Slots(f) = {}
  BY TotalIsNat, FS_EmptySet DEF Total
<1>2. ASSUME \A d \in S : f[d] = 0 PROVE Slots(f) = {}
  BY <1>2 DEF Slots
<1>3. ASSUME NEW d \in S, f[d] # 0 PROVE Slots(f) # {}
  <2>1. <<d, 1>> \in {d} \X (1..f[d]) BY <1>3
  <2> QED BY <2>1 DEF Slots
<1> QED
  BY <1>1, <1>2, <1>3

\* The total of the function without arguments.
LEMMA TotalEmpty ==
    ASSUME NEW f, DOMAIN f = {}
    PROVE  Total(f) = 0
  BY FS_EmptySet DEF Total, Slots
-----------------------------------------------------------------------------
(* Induction over a finite set, and what it gives for sums.                *)

\* What holds for the empty set, and for a set once it holds for the set with
\* one element less, holds for every finite set: the loops over applications
\* and interfaces in Compute add up one element at a time.
LEMMA SetInduction ==
    ASSUME NEW S, IsFiniteSet(S), NEW Good, {} \in Good,
           \A T \in SUBSET S : \A d \in T : T \ {d} \in Good => T \in Good
    PROVE  S \in Good
<1> DEFINE Bad == {T \in SUBSET S : T \notin Good}
<1>1. SUFFICES ASSUME S \notin Good PROVE FALSE
  OBVIOUS
<1>2. \A T \in SUBSET S : IsFiniteSet(T)
  BY FS_Subset
<1>3. Bad \subseteq FiniteSubsetsOf(S) /\ Bad # {}
  BY <1>1, <1>2 DEF FiniteSubsetsOf
<1>4. PICK T \in Bad : \A U \in Bad : <<U, T>> \notin StrictSubsetOrdering(S)
  <2> HIDE DEF Bad
  <2> QED BY <1>3, FS_StrictSubsetOrderingWellFounded, WFMin
<1>5. PICK d \in T : TRUE
  OBVIOUS
<1>6. T \ {d} \in Bad
  BY <1>5
<1>7. <<T \ {d}, T>> \in StrictSubsetOrdering(S)
  BY <1>5 DEF StrictSubsetOrdering
<1> QED
  BY <1>4, <1>6, <1>7

\* A function without one of its arguments.
Without(f, d) == [c \in DOMAIN f \ {d} |-> f[c]]

\* A sum over a set is the sum over the rest of it plus one term.
LEMMA TotalSplit ==
    ASSUME NEW S, IsFiniteSet(S), NEW f \in [S -> Nat], NEW d \in S
    PROVE  Total(f) = Total(Without(f, d)) + f[d]
<1> DEFINE Block == {d} \X (1..f[d])
           g == Without(f, d)
<1>0. g \in [S \ {d} -> Nat] /\ \A c \in S \ {d} : g[c] = f[c]
  BY DEF Without
<1>1. IsFiniteSet(S \ {d})
  BY FS_Subset
<1> HIDE DEF g
<1>2. IsFiniteSet(Slots(g)) /\ Total(g) \in Nat
  BY <1>0, <1>1, TotalIsNat
<1>3. IsFiniteSet(Block) /\ Cardinality(Block) = f[d]
  <2>1. IsFiniteSet({d}) /\ Cardinality({d}) = 1
    BY FS_Singleton
  <2>2. f[d] \in Nat
    OBVIOUS
  <2>3. IsFiniteSet(1..f[d]) /\ Cardinality(1..f[d]) = f[d]
    <3>1. \A n \in Nat : IsFiniteSet(1..n) /\ Cardinality(1..n) = n
      BY FS_Interval
    <3> QED BY <2>2, <3>1
  <2>4. IsFiniteSet(Block) /\ Cardinality(Block) = 1 * f[d]
    BY <2>1, <2>3, FS_Product
  <2> HIDE DEF Block
  <2> QED BY <2>2, <2>4
<1>4. Slots(f) = Slots(g) \cup Block
  BY <1>0 DEF Slots
<1>5. Slots(g) \cap Block = {}
  BY <1>0 DEF Slots
<1>6. Cardinality(Slots(g) \cup Block)
        = Cardinality(Slots(g)) + Cardinality(Block) - Cardinality({})
  <2> HIDE DEF Block
  <2> QED BY <1>2, <1>3, <1>5, FS_Union
<1>7. Cardinality({}) = 0
  BY FS_EmptySet
<1> HIDE DEF Block
<1>8. f[d] \in Nat
  OBVIOUS
<1> QED
  BY <1>2, <1>3, <1>4, <1>6, <1>7, <1>8 DEF Total, g

\* Adding two functions argument by argument.
Plus(f, g) == [d \in DOMAIN f |-> f[d] + g[d]]

\* The sum of sums is the sum of the termwise sums.
LEMMA TotalSum ==
    ASSUME NEW S, IsFiniteSet(S), NEW f \in [S -> Nat], NEW g \in [S -> Nat]
    PROVE  Total(Plus(f, g)) = Total(f) + Total(g)
<1> DEFINE F(T) == [d \in T |-> f[d]]
           G(T) == [d \in T |-> g[d]]
           H(T) == [d \in T |-> f[d] + g[d]]
           Good == {T \in SUBSET S : Total(H(T)) = Total(F(T)) + Total(G(T))}
<1>1. {} \in Good
  <2>1. Total(F({})) = 0 /\ Total(G({})) = 0 /\ Total(H({})) = 0
    BY TotalEmpty
  <2> QED BY <2>1
<1>2. ASSUME NEW T \in SUBSET S, NEW d \in T, T \ {d} \in Good
      PROVE  T \in Good
  <2>1. IsFiniteSet(T) /\ IsFiniteSet(T \ {d})
    BY FS_Subset
  <2>2. F(T) \in [T -> Nat] /\ G(T) \in [T -> Nat] /\ H(T) \in [T -> Nat]
    OBVIOUS
  <2>3. /\ F(T \ {d}) \in [T \ {d} -> Nat]
        /\ G(T \ {d}) \in [T \ {d} -> Nat]
        /\ H(T \ {d}) \in [T \ {d} -> Nat]
    OBVIOUS
  <2>4. /\ F(T \ {d}) = Without(F(T), d)
        /\ G(T \ {d}) = Without(G(T), d)
        /\ H(T \ {d}) = Without(H(T), d)
    BY DEF Without
  <2>5. F(T)[d] = f[d] /\ G(T)[d] = g[d] /\ H(T)[d] = f[d] + g[d]
    OBVIOUS
  <2>6. f[d] \in Nat /\ g[d] \in Nat
    OBVIOUS
  <2>7. Total(H(T \ {d})) = Total(F(T \ {d})) + Total(G(T \ {d}))
    BY <1>2
  <2> HIDE DEF F, G, H
  <2>8. /\ Total(F(T)) = Total(F(T \ {d})) + f[d]
        /\ Total(G(T)) = Total(G(T \ {d})) + g[d]
        /\ Total(H(T)) = Total(H(T \ {d})) + (f[d] + g[d])
    BY <2>1, <2>2, <2>3, <2>4, <2>5, TotalSplit
  <2>9. Total(F(T \ {d})) \in Nat /\ Total(G(T \ {d})) \in Nat
    BY <2>1, <2>3, TotalIsNat
  <2>10. Total(H(T)) = Total(F(T)) + Total(G(T))
    BY <2>6, <2>7, <2>8, <2>9
  <2> QED BY <2>10
<1>3. S \in Good
  <2> HIDE DEF Good
  <2> QED BY <1>1, <1>2, SetInduction
<1>4. f = F(S) /\ g = G(S) /\ Plus(f, g) = H(S)
  BY DEF Plus
<1> QED
  BY <1>3, <1>4

\* The sums of the rows and of the columns of a table.
RowTotals(x)       == [a \in DOMAIN x |-> Total(x[a])]
ColumnTotals(x, B) == [b \in B |-> Total([a \in DOMAIN x |-> x[a][b]])]

\* The packets of a plan are the same counted by rows or by columns: what the
\* applications give is what the interfaces get.
LEMMA TotalSwap ==
    ASSUME NEW A, IsFiniteSet(A), NEW B, IsFiniteSet(B), NEW x \in [A -> [B -> Nat]]
    PROVE  Total(RowTotals(x)) = Total(ColumnTotals(x, B))
<1> DEFINE Sums(T)   == [a \in T |-> Total(x[a])]
           Col(T, b) == [a \in T |-> x[a][b]]
           Cols(T)   == [b \in B |-> Total(Col(T, b))]
           Good      == {T \in SUBSET A : Total(Sums(T)) = Total(Cols(T))}
<1>1. {} \in Good
  <2>1. Total(Sums({})) = 0
    BY TotalEmpty
  <2>2. \A b \in B : Total(Col({}, b)) = 0
    BY TotalEmpty
  <2>3. Cols({}) \in [B -> Nat] /\ \A b \in B : Cols({})[b] = 0
    BY <2>2
  <2> HIDE DEF Cols, Col, Sums
  <2>4. Total(Cols({})) = 0
    BY <2>3, TotalZero
  <2>5. Total(Sums({})) = Total(Cols({}))
    BY <2>1, <2>4
  <2> QED BY <2>5
<1>2. ASSUME NEW T \in SUBSET A, NEW d \in T, T \ {d} \in Good
      PROVE  T \in Good
  <2>1. IsFiniteSet(T) /\ IsFiniteSet(T \ {d})
    BY FS_Subset
  <2>2. \A a \in A : x[a] \in [B -> Nat] /\ Total(x[a]) \in Nat
    BY TotalIsNat
  <2>3. Total(Sums(T)) = Total(Sums(T \ {d})) + Total(x[d])
    <3>1. Sums(T) \in [T -> Nat] /\ Sums(T)[d] = Total(x[d])
      BY <2>2
    <3>2. Sums(T \ {d}) = Without(Sums(T), d)
      BY DEF Without
    <3> HIDE DEF Sums
    <3> QED BY <2>1, <3>1, <3>2, TotalSplit
  <2>4. ASSUME NEW b \in B
        PROVE  /\ Total(Col(T, b)) = Total(Col(T \ {d}, b)) + x[d][b]
               /\ Total(Col(T \ {d}, b)) \in Nat
    <3>1. Col(T, b) \in [T -> Nat] /\ Col(T, b)[d] = x[d][b]
      BY <2>2
    <3>2. Col(T \ {d}, b) = Without(Col(T, b), d)
      BY DEF Without
    <3>3. Col(T \ {d}, b) \in [T \ {d} -> Nat]
      BY <2>2
    <3> HIDE DEF Col
    <3>4. Total(Col(T, b)) = Total(Col(T \ {d}, b)) + x[d][b]
      BY <2>1, <3>1, <3>2, <3>3, TotalSplit
    <3> QED BY <2>1, <3>3, <3>4, TotalIsNat
  <2>5. Cols(T) = Plus(Cols(T \ {d}), x[d])
    <3> HIDE DEF Col
    <3> QED BY <2>4 DEF Plus
  <2>6. Cols(T \ {d}) \in [B -> Nat]
    <3> HIDE DEF Col
    <3> QED BY <2>4
  <2>7. Total(Sums(T \ {d})) = Total(Cols(T \ {d}))
    BY <1>2
  <2> HIDE DEF Sums, Cols
  <2>8. Total(Cols(T)) = Total(Cols(T \ {d})) + Total(x[d])
    BY <2>2, <2>5, <2>6, TotalSum
  <2>9. Total(Sums(T)) = Total(Cols(T))
    BY <2>3, <2>7, <2>8
  <2> QED BY <2>9
<1>3. A \in Good
  <2> HIDE DEF Good
  <2> QED BY <1>1, <1>2, SetInduction
<1>4. Sums(A) = RowTotals(x) /\ Cols(A) = ColumnTotals(x, B)
  BY DEF RowTotals, ColumnTotals
<1> QED
  BY <1>3, <1>4

\* How many arguments have each label.
LabelCounts(label, S) ==
    [d \in S |-> Cardinality({t \in DOMAIN label : label[t] = d})]

\* Sorting the elements of a set by a label loses none: counted label by label
\* they are as many as before.
LEMMA TotalByLabel ==
    ASSUME NEW S, IsFiniteSet(S), NEW T, IsFiniteSet(T), NEW label \in [T -> S]
    PROVE  Total(LabelCounts(label, S)) = Cardinality(T)
<1> DEFINE With(d)   == {t \in T : label[t] = d}
           Within(U) == {t \in T : label[t] \in U}
           C(U)      == [d \in U |-> Cardinality(With(d))]
           Good      == {U \in SUBSET S : Total(C(U)) = Cardinality(Within(U))}
<1>1. {} \in Good
  <2>1. Total(C({})) = 0
    BY TotalEmpty
  <2>2. Within({}) = {}
    OBVIOUS
  <2>3. Cardinality(Within({})) = 0
    BY <2>2, FS_EmptySet
  <2> QED BY <2>1, <2>3
<1>2. ASSUME NEW U \in SUBSET S, NEW d \in U, U \ {d} \in Good
      PROVE  U \in Good
  <2>1. IsFiniteSet(U)
    BY FS_Subset
  <2>2. \A c \in S : IsFiniteSet(With(c)) /\ Cardinality(With(c)) \in Nat
    <3>1. \A c \in S : With(c) \subseteq T
      OBVIOUS
    <3> HIDE DEF With
    <3> QED BY <3>1, FS_Subset, FS_CardinalityType
  <2>3. IsFiniteSet(Within(U \ {d})) /\ Cardinality(Within(U \ {d})) \in Nat
    <3>1. Within(U \ {d}) \subseteq T
      OBVIOUS
    <3> HIDE DEF Within
    <3> QED BY <3>1, FS_Subset, FS_CardinalityType
  <2>4. /\ Within(U) = Within(U \ {d}) \cup With(d)
        /\ Within(U \ {d}) \cap With(d) = {}
    OBVIOUS
  <2>5. C(U) \in [U -> Nat] /\ C(U)[d] = Cardinality(With(d))
    <3> HIDE DEF With
    <3> QED BY <2>2
  <2>6. C(U \ {d}) = Without(C(U), d)
    BY DEF Without
  <2>7. Total(C(U \ {d})) = Cardinality(Within(U \ {d}))
    BY <1>2
  <2> HIDE DEF With, Within, C
  <2>8. Cardinality(Within(U))
          = Cardinality(Within(U \ {d})) + Cardinality(With(d)) - Cardinality({})
    BY <2>2, <2>3, <2>4, FS_Union
  <2>9. Cardinality({}) = 0
    BY FS_EmptySet
  <2>10. Total(C(U)) = Total(C(U \ {d})) + Cardinality(With(d))
    BY <2>1, <2>5, <2>6, TotalSplit
  <2>11. Total(C(U)) = Cardinality(Within(U))
    BY <2>2, <2>3, <2>7, <2>8, <2>9, <2>10
  <2> QED BY <2>11
<1>3. S \in Good
  <2> HIDE DEF Good
  <2> QED BY <1>1, <1>2, SetInduction
<1>4. Within(S) = T /\ C(S) = LabelCounts(label, S)
  BY DEF LabelCounts
<1> QED
  BY <1>3, <1>4

-----------------------------------------------------------------------------
(* Plans *)

\* There are finitely many applications and interfaces, so the sums of Compute
\* over either of them are defined.
LEMMA IndexSetsAreFinite == IsFiniteSet(Apps) /\ IsFiniteSet(Ifaces)
  BY StrategyAssumption, FS_Interval DEF Apps, Ifaces

\* The totals the code accumulates from a plan are natural numbers.
LEMMA PlanTotals ==
    ASSUME NEW x \in Plans
    PROVE  /\ \A a \in Apps : Total(x[a]) \in Nat
           /\ CostOf(x) \in Nat
<1>1. ASSUME NEW a \in Apps PROVE Total(x[a]) \in Nat
  <2>1. x[a] \in [Ifaces -> Nat] BY DEF Plans
  <2> QED BY <2>1, IndexSetsAreFinite, TotalIsNat
<1>2. CostOf(x) \in Nat
  <2> DEFINE f == [aj \in Apps \X Ifaces |-> x[aj[1]][aj[2]] * Cost[aj[2]]]
  <2>1. \A a \in Apps, j \in Ifaces : x[a][j] \in Nat /\ Cost[j] \in Nat
    BY StrategyAssumption DEF Plans
  <2>2. \A n, m \in Nat : n * m \in Nat
    OBVIOUS
  <2>3. f \in [Apps \X Ifaces -> Nat]
    BY <2>1, <2>2
  <2>4. IsFiniteSet(Apps \X Ifaces)
    BY IndexSetsAreFinite, FS_Product
  <2> HIDE DEF f
  <2>5. Total(f) \in Nat
    BY <2>3, <2>4, TotalIsNat
  <2> QED BY <2>5 DEF CostOf, f
<1> QED
  BY <1>1, <1>2

\* Every plan of a strategy that sends all pending packets is a plan.
LEMMA FullPlansArePlans ==
    ASSUME NEW pending \in Pending, NEW x \in FullPlans(pending)
    PROVE  /\ x \in Plans
           /\ \A a \in Apps : Total(x[a]) = pending[a]
<1>1. \A a \in Apps : x[a] \in UNION {Rows(pending[b]) : b \in Apps}
  BY DEF FullPlans
<1>2. \A b \in Apps : Rows(pending[b]) \subseteq [Ifaces -> Nat]
  <2>1. SUFFICES ASSUME NEW b \in Apps, NEW row \in [Ifaces -> 0..pending[b]]
                 PROVE  row \in [Ifaces -> Nat]
    BY DEF Rows
  <2>2. pending[b] \in Nat BY DEF Pending
  <2> QED BY <2>2
<1>3. \A a \in Apps : x[a] \in [Ifaces -> Nat]
  BY <1>1, <1>2
<1>4. x = [a \in Apps |-> x[a]] /\ \A a \in Apps : Total(x[a]) = pending[a]
  BY DEF FullPlans
<1> QED
  BY <1>3, <1>4 DEF Plans

\* The number of packets that RoundRobinStrategy has handed out before it
\* reaches application a is a natural number.
LEMMA EnqueuedBeforeIsNat ==
    ASSUME NEW pending \in Pending, NEW a \in Apps
    PROVE  EnqueuedBefore(pending, a) \in Nat
<1> DEFINE S == {c \in Apps : c < a}
           f == [b \in S |-> pending[b]]
<1>1. f \in [S -> Nat]
  BY DEF Pending
<1>2. IsFiniteSet(S)
  BY IndexSetsAreFinite, FS_Subset
<1> HIDE DEF S, f
<1>3. Total(f) \in Nat
  BY <1>1, <1>2, TotalIsNat
<1> QED
  BY <1>3 DEF EnqueuedBefore, S, f

\* RoundRobinStrategy gives a natural number of packets to every interface, to
\* all of them together the pending packets of the application, and none of an
\* application that has none.
LEMMA RoundRobinPlanIsPlan ==
    ASSUME NEW pending \in Pending
    PROVE  /\ RoundRobinPlan(pending) \in Plans
           /\ \A a \in Apps : Total(RoundRobinPlan(pending)[a]) = pending[a]
           /\ \A a \in Apps, j \in Ifaces :
                 pending[a] = 0 => RoundRobinPlan(pending)[a][j] = 0
<1> DEFINE Turn(a, j) ==
             {n \in (EnqueuedBefore(pending, a) + 1)
                      ..(EnqueuedBefore(pending, a) + pending[a]) :
                 (n - 1) % NumInterfaces = j - 1}
<1>1. ASSUME NEW a \in Apps, NEW j \in Ifaces
      PROVE  /\ Cardinality(Turn(a, j)) \in Nat
             /\ pending[a] = 0 => Cardinality(Turn(a, j)) = 0
  <2>1. EnqueuedBefore(pending, a) \in Nat /\ pending[a] \in Nat
    BY EnqueuedBeforeIsNat DEF Pending
  <2>2. IsFiniteSet((EnqueuedBefore(pending, a) + 1)
                      ..(EnqueuedBefore(pending, a) + pending[a]))
    BY <2>1, FS_Interval
  <2>3. IsFiniteSet(Turn(a, j))
    BY <2>2, FS_Subset
  <2>4. pending[a] = 0 => Turn(a, j) = {}
    BY <2>1
  <2> HIDE DEF Turn
  <2> QED BY <2>3, <2>4, FS_CardinalityType, FS_EmptySet
<1>2. RoundRobinPlan(pending) = [a \in Apps |-> [j \in Ifaces |-> Cardinality(Turn(a, j))]]
  BY DEF RoundRobinPlan
<1>3. ASSUME NEW a \in Apps
      PROVE  Total(RoundRobinPlan(pending)[a]) = pending[a]
  <2> DEFINE lo       == EnqueuedBefore(pending, a)
             Numbers  == (lo + 1)..(lo + pending[a])
             label    == [n \in Numbers |-> ((n - 1) % NumInterfaces) + 1]
  <2>1. lo \in Nat /\ pending[a] \in Nat
    BY EnqueuedBeforeIsNat DEF Pending
  <2>2. IsFiniteSet(Numbers) /\ Cardinality(Numbers) = pending[a]
    <3>1. \A m, n \in Int : /\ IsFiniteSet(m..n)
                            /\ Cardinality(m..n) = IF m > n THEN 0 ELSE n - m + 1
      BY FS_Interval
    <3>2. lo + 1 \in Int /\ lo + pending[a] \in Int
      BY <2>1
    <3>3. IsFiniteSet(Numbers)
      BY <3>1, <3>2
    <3>4. Cardinality(Numbers) = IF lo + 1 > lo + pending[a] THEN 0
                                 ELSE (lo + pending[a]) - (lo + 1) + 1
      BY <3>1, <3>2
    <3> HIDE DEF lo, Numbers
    <3> QED BY <2>1, <3>3, <3>4
  <2>3. \A n \in Numbers : ((n - 1) % NumInterfaces) + 1 \in Ifaces
    <3>1. NumInterfaces \in Nat \ {0}
      BY StrategyAssumption
    <3>2. \A n \in Numbers : n - 1 \in Int
      BY <2>1
    <3> HIDE DEF Numbers
    <3> QED BY <3>1, <3>2 DEF Ifaces
  <2>4. label \in [Numbers -> Ifaces]
    <3> HIDE DEF Numbers
    <3> QED BY <2>3
  <2>5. \A j \in Ifaces : Turn(a, j) = {n \in Numbers : label[n] = j}
    <3>1. NumInterfaces \in Nat \ {0} /\ Ifaces \subseteq Int
      BY StrategyAssumption DEF Ifaces
    <3>2. \A n \in Numbers : n - 1 \in Int /\ (n - 1) % NumInterfaces \in Int
      BY <2>1, <3>1
    <3>3. \A j \in Ifaces : Turn(a, j) = {n \in Numbers : (n - 1) % NumInterfaces = j - 1}
      OBVIOUS
    <3> HIDE DEF Numbers, Turn
    <3>4. ASSUME NEW j \in Ifaces, NEW n \in Numbers
          PROVE  (n - 1) % NumInterfaces = j - 1 <=> label[n] = j
      <4> DEFINE m == (n - 1) % NumInterfaces
      <4>1. m \in Int /\ j \in Int
        BY <3>1, <3>2
      <4>2. label[n] = m + 1
        OBVIOUS
      <4> HIDE DEF m, label
      <4>3. m = j - 1 <=> label[n] = j
        BY <4>1, <4>2
      <4> QED BY <4>3 DEF m
    <3> HIDE DEF label
    <3> QED BY <3>3, <3>4
  <2>6. RoundRobinPlan(pending)[a]
          = [j \in Ifaces |-> Cardinality({n \in Numbers : label[n] = j})]
    <3> DEFINE OfTurn(j) == {n \in Numbers : label[n] = j}
    <3>1. \A j \in Ifaces : Turn(a, j) = OfTurn(j)
      BY <2>5
    <3>2. RoundRobinPlan(pending)[a] = [j \in Ifaces |-> Cardinality(Turn(a, j))]
      <4> HIDE DEF Turn
      <4> QED BY <1>2
    <3> HIDE DEF Turn, OfTurn
    <3>3. RoundRobinPlan(pending)[a] = [j \in Ifaces |-> Cardinality(OfTurn(j))]
      BY <3>1, <3>2
    <3> QED BY <3>3 DEF OfTurn
  <2>7. RoundRobinPlan(pending)[a] = LabelCounts(label, Ifaces)
    <3>1. DOMAIN label = Numbers
      OBVIOUS
    <3> HIDE DEF Numbers, label
    <3> QED BY <2>6, <3>1 DEF LabelCounts
  <2> HIDE DEF Numbers, label
  <2> QED BY <2>2, <2>4, <2>7, IndexSetsAreFinite, TotalByLabel
<1> HIDE DEF Turn
<1>4. RoundRobinPlan(pending) \in Plans
  BY <1>1, <1>2 DEF Plans
<1>5. \A a \in Apps, j \in Ifaces : pending[a] = 0 => RoundRobinPlan(pending)[a][j] = 0
  BY <1>1, <1>2
<1> QED
  BY <1>3, <1>4, <1>5

\* Whatever the strategy, Compute follows a plan, the plan gives every pending
\* packet to one interface and nothing when nothing is pending, and every
\* pending packet leaves the queue of its application.
LEMMA ComputePlansAreFull ==
    ASSUME NEW kind \in StrategyTypes, NEW pending \in Pending, NEW required,
           NEW interfaces, NEW t,
           NEW x \in ComputePlans(kind, pending, required, interfaces, t)
    PROVE  /\ x \in Plans
           /\ \A a \in Apps : Total(x[a]) = pending[a]
           /\ \A a \in Apps : pending[a] = 0 => \A j \in Ifaces : x[a][j] = 0
           /\ \A a \in Apps : Remaining(kind, pending, x, a) = 0
<1>1. CASE kind = "ROUND_ROBIN"
  <2>1. x = RoundRobinPlan(pending)
    BY <1>1 DEF ComputePlans
  <2> QED BY <1>1, <2>1, RoundRobinPlanIsPlan DEF Remaining
<1>2. CASE kind # "ROUND_ROBIN"
  <2>1. x \in FullPlans(pending)
    BY <1>2 DEF ComputePlans, StrategyTypes, RandomPlans, Solve,
       LinearPlans, ReactivePlans
  <2>2. x \in Plans /\ \A a \in Apps : Total(x[a]) = pending[a]
    BY <2>1, FullPlansArePlans
  <2>3. \A a \in Apps : pending[a] = 0 => \A j \in Ifaces : x[a][j] = 0
    <3>1. SUFFICES ASSUME NEW a \in Apps, pending[a] = 0
                   PROVE  \A j \in Ifaces : x[a][j] = 0
      OBVIOUS
    <3>2. x[a] \in [Ifaces -> Nat] BY <2>2 DEF Plans
    <3>3. Total(x[a]) = 0 BY <2>2, <3>1
    <3> QED BY <3>2, <3>3, IndexSetsAreFinite, TotalZero
  <2>4. \A a \in Apps : Remaining(kind, pending, x, a) = 0
    <3>1. \A a \in Apps : pending[a] \in Nat BY DEF Pending
    <3> QED BY <2>2, <3>1 DEF Remaining
  <2> QED BY <2>2, <2>3, <2>4
<1> QED
  BY <1>1, <1>2

\* The packets of a plan given to interface j by the first a applications.
LEMMA UpToIsNat ==
    ASSUME NEW x \in Plans, NEW j \in Ifaces, NEW a \in 0..NumApplications
    PROVE  UpTo(x, j, a) \in Nat /\ (a = 0 => UpTo(x, j, a) = 0)
<1>1. a \in Nat /\ 1..a \subseteq Apps
  BY StrategyAssumption DEF Apps
<1> DEFINE f == Column(x, j, 1..a)
<1>2. f \in [1..a -> Nat]
  <2>1. \A b \in Apps : x[b][j] \in Nat BY DEF Plans
  <2> QED BY <1>1, <2>1 DEF Column
<1>3. IsFiniteSet(1..a)
  BY <1>1, FS_Interval
<1> HIDE DEF f
<1>4. Total(f) \in Nat
  BY <1>2, <1>3, TotalIsNat
<1>5. a = 0 => DOMAIN f = {}
  BY <1>2
<1>6. a = 0 => Total(f) = 0
  BY <1>5, TotalEmpty
<1> QED
  BY <1>4, <1>6 DEF UpTo, f

\* Every packet of a plan belongs to an application: an interface's queue only
\* ever receives packets of applications, as many as the plan gives it.
LEMMA PacketsForIsSeq ==
    ASSUME NEW x \in Plans, NEW j \in Ifaces
    PROVE  /\ PacketsFor(x, j) \in Seq(Apps)
           /\ Len(PacketsFor(x, j)) = Total(Column(x, j, Apps))
           /\ (\A a \in Apps : x[a][j] = 0) => PacketsFor(x, j) = << >>
<1> DEFINE N == Total(Column(x, j, Apps))
           P(n, a) == UpTo(x, j, a - 1) < n /\ n <= UpTo(x, j, a)
<1>1. NumApplications \in Nat /\ NumApplications \in 0..NumApplications
  BY StrategyAssumption
<1>2. N = UpTo(x, j, NumApplications)
  BY DEF UpTo, Apps
<1>3. N \in Nat
  BY <1>1, <1>2, UpToIsNat
<1>4. ASSUME NEW n \in 1..N PROVE \E a \in Apps : P(n, a)
  <2> DEFINE T == {a \in Apps : n <= UpTo(x, j, a)}
  <2>1. T \in SUBSET Nat /\ NumApplications \in T
    BY <1>2, <1>3, StrategyAssumption DEF Apps
  <2>2. PICK a \in T : \A m \in T : a <= m
    <3> HIDE DEF T
    <3> QED BY <2>1, LeastNat
  <2>3. /\ a \in 1..NumApplications /\ a - 1 \in 0..NumApplications
        /\ a - 1 # 0 => a - 1 \in Apps
    BY <1>1 DEF Apps
  <2>4. UpTo(x, j, a - 1) \in Nat /\ (a - 1 = 0 => UpTo(x, j, a - 1) = 0)
    BY <2>3, UpToIsNat
  <2>5. a - 1 \notin T
    BY <2>2, <2>3
  <2>6. UpTo(x, j, a - 1) < n
    BY <2>3, <2>4, <2>5, <1>3
  <2> QED BY <2>6
<1>5. \A n \in 1..N : (CHOOSE a \in Apps : P(n, a)) \in Apps
  BY <1>4
<1>6. PacketsFor(x, j) = [n \in 1..N |-> CHOOSE a \in Apps : P(n, a)]
  BY DEF PacketsFor
<1> DEFINE s == PacketsFor(x, j)
<1>7. s \in [1..N -> Apps]
  BY <1>5, <1>6
<1> HIDE DEF s, N, P
<1>8. s \in Seq(Apps) /\ Len(s) = N
  BY <1>3, <1>7
<1>9. (\A a \in Apps : x[a][j] = 0) => N = 0
  <2> DEFINE f == Column(x, j, Apps)
  <2>1. f \in [Apps -> Nat] /\ \A a \in Apps : f[a] = x[a][j]
    BY DEF Plans, Column
  <2> HIDE DEF f
  <2>2. Total(f) = 0 <=> \A a \in Apps : f[a] = 0
    BY <2>1, IndexSetsAreFinite, TotalZero
  <2> QED BY <2>1, <2>2 DEF f, N
<1>10. (\A a \in Apps : x[a][j] = 0) => s = << >>
  BY <1>8, <1>9
<1> QED
  BY <1>8, <1>10 DEF s, N

\* What the interfaces receive from a plan is what the applications give: Compute
\* enqueues as many packets as the rows of the plan have.
LEMMA PlanIsHandedOut ==
    ASSUME NEW x \in Plans, NEW pending \in Pending,
           \A a \in Apps : Total(x[a]) = pending[a]
    PROVE  Total([j \in Ifaces |-> Len(PacketsFor(x, j))]) = Total(pending)
<1>1. \A j \in Ifaces : Len(PacketsFor(x, j)) = Total([a \in Apps |-> x[a][j]])
  BY PacketsForIsSeq DEF Column
<1>2. [j \in Ifaces |-> Len(PacketsFor(x, j))]
        = [j \in Ifaces |-> Total([a \in Apps |-> x[a][j]])]
  BY <1>1, Zenon
<1>3. pending = [a \in Apps |-> Total(x[a])]
  BY DEF Pending
<1>4. x \in [Apps -> [Ifaces -> Nat]]
  BY DEF Plans
<1>5. Total(RowTotals(x)) = Total(ColumnTotals(x, Ifaces))
  BY <1>4, IndexSetsAreFinite, TotalSwap
<1>6. DOMAIN x = Apps
  BY <1>4
<1> QED
  BY <1>2, <1>3, <1>5, <1>6, Zenon DEF RowTotals, ColumnTotals

-----------------------------------------------------------------------------
(* Connections *)

\* The marks of the stream are ordered, what is not acknowledged fits the TX
\* buffer, less than a packet waits to be read, and r is what was written.
StreamInv(s, r) ==
    /\ s.head <= s.nextRx /\ s.rxHead <= s.nextRx
    /\ s.nextRx <= s.highTxMark /\ s.highTxMark <= Written(s)
    /\ GetTxAvailable(s) \in 0..SndBufSize
    /\ GetRxAvailable(s) \in 0..(PacketSizeByte - 1)
    /\ s.rxHead = PacketSizeByte * Len(r)
    /\ Len(r) <= Len(s.data)
    /\ \A k \in 1..Len(r) : r[k] = s.data[k]

-----------------------------------------------------------------------------
(* Arithmetic of a stream of packets of p bytes *)

\* The quotient that HandleRead computes by repeated reading: the packets in d
\* bytes and what is left over.
LEMMA DivBounds ==
    ASSUME NEW p \in Nat \ {0}, NEW d \in Nat
    PROVE  /\ d \div p \in Nat
           /\ p * (d \div p) <= d
           /\ d < p * (d \div p) + p
  OBVIOUS

\* An offset within the k-th packet belongs to packet k: the division that
\* attributes a byte to a FlowIdTag has one answer.
LEMMA DivUnique ==
    ASSUME NEW p \in Nat \ {0}, NEW m \in Nat
    PROVE  (p * m) \div p = m
<1> DEFINE q == (p * m) \div p
<1>1. p * m \in Nat
  OBVIOUS
<1>2. q \in Nat /\ p * q <= p * m /\ p * m < p * q + p
  BY <1>1, DivBounds
<1> HIDE DEF q
<1>3. p * (q + 1) = p * q + p
  BY <1>2
<1>4. ~(q < m)
  <2>1. SUFFICES ASSUME q + 1 <= m PROVE FALSE BY <1>2
  <2>2. p * (q + 1) <= p * m BY <1>2, <2>1
  <2> QED BY <1>2, <1>3, <2>2
<1>5. ~(m < q)
  <2>1. SUFFICES ASSUME m + 1 <= q PROVE FALSE BY <1>2
  <2>2. p * (m + 1) <= p * q BY <1>2, <2>1
  <2>3. p * (m + 1) = p * m + p OBVIOUS
  <2> QED BY <1>1, <1>2, <2>2, <2>3
<1> QED
  BY <1>2, <1>4, <1>5 DEF q

\* More packets are more bytes: the byte marks of a stream and the packet counts
\* of sender and sink are in the same order.
LEMMA TimesMonotone ==
    ASSUME NEW p \in Nat \ {0}, NEW m \in Nat, NEW n \in Nat, p * m <= p * n
    PROVE  m <= n
<1>1. SUFFICES ASSUME n + 1 <= m PROVE FALSE
  OBVIOUS
<1>2. p * (n + 1) <= p * m BY <1>1
<1>3. p * (n + 1) = p * n + p OBVIOUS
<1> QED BY <1>2, <1>3

-----------------------------------------------------------------------------
(* The operations *)

\* The bytes that Send has accepted are a natural number.
LEMMA WrittenIsNat ==
    ASSUME NEW s \in SockState
    PROVE  Len(s.data) \in Nat /\ Written(s) \in Nat
<1>1. Len(s.data) \in Nat
  BY DEF SockState
<1> QED
  BY <1>1, StrategyAssumption DEF Written

\* A new connection, and one whose SYN has just left.
LEMMA NewStream ==
    /\ NewSocket \in SockState /\ StreamInv(NewSocket, << >>)
    /\ Connected \in SockState /\ StreamInv(Connected, << >>)
<1>1. SynRetries - 1 \in Nat /\ DataRetries \in Nat /\ SndBufSize \in Nat
  BY TcpAssumption
<1>2. PacketSizeByte \in Nat \ {0} /\ PacketSizeByte * 0 = 0
  BY StrategyAssumption
<1>3. << >> \in Seq(Apps) /\ Len(<< >>) = 0
  OBVIOUS
<1>4. NewSocket \in SockState /\ StreamInv(NewSocket, << >>)
  BY <1>1, <1>2, <1>3
  DEF NewSocket, EmptySocket, SockState, StreamInv, Written, GetTxAvailable, GetRxAvailable
<1>5. Connected \in SockState /\ StreamInv(Connected, << >>)
  BY <1>1, <1>2, <1>3
  DEF Connected, EmptySocket, SockState, StreamInv, Written, GetTxAvailable, GetRxAvailable
<1> QED
  BY <1>4, <1>5

\* A step that changes neither the data nor the marks preserves StreamInv.
LEMMA SameStream ==
    ASSUME NEW s, NEW u, NEW r, StreamInv(s, r),
           u.data = s.data, u.highTxMark = s.highTxMark, u.head = s.head,
           u.nextRx = s.nextRx, u.rxHead = s.rxHead
    PROVE  StreamInv(u, r)
  BY DEF StreamInv, Written, GetTxAvailable, GetRxAvailable

\* The fields that control a connection are not part of its stream.
LEMMA ControlFields ==
    ASSUME NEW s \in SockState, NEW r, StreamInv(s, r)
    PROVE  /\ \A st \in {"CLOSED", "SYN_SENT", "ESTABLISHED"} :
                 /\ [s EXCEPT !.m_state = st] \in SockState
                 /\ StreamInv([s EXCEPT !.m_state = st], r)
           /\ /\ [s EXCEPT !.endPoint = FALSE] \in SockState
              /\ StreamInv([s EXCEPT !.endPoint = FALSE], r)
           /\ \A n \in Nat :
                 /\ [s EXCEPT !.m_synCount = n] \in SockState
                 /\ StreamInv([s EXCEPT !.m_synCount = n], r)
                 /\ [s EXCEPT !.m_dataRetrCount = n] \in SockState
                 /\ StreamInv([s EXCEPT !.m_dataRetrCount = n], r)
<1>1. ASSUME NEW st \in {"CLOSED", "SYN_SENT", "ESTABLISHED"}
      PROVE  /\ [s EXCEPT !.m_state = st] \in SockState
             /\ StreamInv([s EXCEPT !.m_state = st], r)
  BY SameStream DEF SockState
<1>2. /\ [s EXCEPT !.endPoint = FALSE] \in SockState
      /\ StreamInv([s EXCEPT !.endPoint = FALSE], r)
  <2> DEFINE u == [s EXCEPT !.endPoint = FALSE]
  <2>1. u \in SockState
    BY DEF SockState
  <2>2. /\ u.data = s.data /\ u.highTxMark = s.highTxMark /\ u.head = s.head
        /\ u.nextRx = s.nextRx /\ u.rxHead = s.rxHead
    BY DEF SockState
  <2> HIDE DEF u
  <2>3. StreamInv(u, r)
    BY <2>2, SameStream
  <2> QED BY <2>1, <2>3 DEF u
<1>3. ASSUME NEW n \in Nat
      PROVE  /\ [s EXCEPT !.m_synCount = n] \in SockState
             /\ StreamInv([s EXCEPT !.m_synCount = n], r)
             /\ [s EXCEPT !.m_dataRetrCount = n] \in SockState
             /\ StreamInv([s EXCEPT !.m_dataRetrCount = n], r)
  BY SameStream DEF SockState
<1> QED
  BY <1>1, <1>2, <1>3, Zenon

\* Send of a packet that fits the TX buffer.
LEMMA SendStream ==
    ASSUME NEW s \in SockState, NEW r \in Seq(Apps), StreamInv(s, r),
           PacketSizeByte <= GetTxAvailable(s), NEW flow \in Apps
    PROVE  Send(s, flow) \in SockState /\ StreamInv(Send(s, flow), r)
<1> DEFINE u == Send(s, flow)
<1>1. /\ u.data = Append(s.data, flow)
      /\ u.highTxMark = s.highTxMark /\ u.head = s.head
      /\ u.nextRx = s.nextRx /\ u.rxHead = s.rxHead
  BY DEF Send, SockState
<1>2. /\ u.data \in Seq(Apps) /\ Len(u.data) = Len(s.data) + 1
      /\ \A k \in 1..Len(s.data) : u.data[k] = s.data[k]
  BY <1>1, AppendProperties DEF SockState
<1>3. u \in SockState
  BY <1>2 DEF Send, SockState
<1>4. /\ Written(u) = Written(s) + PacketSizeByte
      /\ Written(s) \in Nat /\ Len(s.data) \in Nat
  <2>1. Len(s.data) \in Nat /\ Written(s) \in Nat BY WrittenIsNat
  <2> QED BY <1>2, <2>1, StrategyAssumption DEF Written
<1> HIDE DEF u
<1>5. /\ s.head \in Nat /\ s.nextRx \in Nat /\ s.rxHead \in Nat
      /\ s.highTxMark \in Nat /\ PacketSizeByte \in Nat \ {0} /\ SndBufSize \in Nat
      /\ Len(r) \in Nat
  BY StrategyAssumption, TcpAssumption DEF SockState
<1>6. GetTxAvailable(u) \in 0..SndBufSize
  <2>1. /\ GetTxAvailable(u) = GetTxAvailable(s) - PacketSizeByte
        /\ GetTxAvailable(s) \in Int
    BY <1>1, <1>4, <1>5 DEF GetTxAvailable
  <2>2. GetTxAvailable(s) \in 0..SndBufSize
    BY DEF StreamInv
  <2> QED BY <1>5, <2>1, <2>2
<1>7. Len(r) <= Len(u.data) /\ \A k \in 1..Len(r) : r[k] = u.data[k]
  <2>1. Len(r) <= Len(s.data) /\ \A k \in 1..Len(r) : r[k] = s.data[k]
    BY Zenon DEF StreamInv
  <2>2. ASSUME NEW k \in 1..Len(r) PROVE r[k] = u.data[k]
    <3>1. k \in 1..Len(s.data) BY <1>4, <1>5, <2>1
    <3> QED BY <1>2, <2>1, <3>1, Zenon
  <2> QED BY <1>2, <1>4, <1>5, <2>1, <2>2
<1>8. u.highTxMark <= Written(u)
  BY <1>1, <1>4, <1>5 DEF StreamInv
<1>9. StreamInv(u, r)
  BY <1>1, <1>6, <1>7, <1>8 DEF StreamInv, GetRxAvailable
<1> QED
  BY <1>3, <1>9 DEF u

\* More of the stream is transmitted.
LEMMA TransmitStream ==
    ASSUME NEW s \in SockState, NEW r \in Seq(Apps), StreamInv(s, r),
           NEW mark \in (s.highTxMark + 1)..Written(s)
    PROVE  /\ [s EXCEPT !.highTxMark = mark] \in SockState
           /\ StreamInv([s EXCEPT !.highTxMark = mark], r)
<1> DEFINE u == [s EXCEPT !.highTxMark = mark]
<1>1. s.highTxMark \in Nat /\ s.nextRx \in Nat /\ Written(s) \in Nat /\ mark \in Nat
  <2>1. s.highTxMark \in Nat /\ s.nextRx \in Nat BY DEF SockState
  <2> QED BY <2>1, WrittenIsNat
<1>2. u \in SockState
  BY <1>1 DEF SockState
<1>3. /\ u.data = s.data /\ u.highTxMark = mark /\ u.head = s.head
      /\ u.nextRx = s.nextRx /\ u.rxHead = s.rxHead
  BY DEF SockState
<1> HIDE DEF u
<1>4. u.nextRx <= u.highTxMark /\ u.highTxMark <= Written(s)
  BY <1>1, <1>3 DEF StreamInv
<1>5. StreamInv(u, r)
  BY <1>3, <1>4 DEF StreamInv, Written, GetTxAvailable, GetRxAvailable
<1> QED
  BY <1>2, <1>5 DEF u

\* More of the stream is acknowledged, which makes room in the TX buffer.
LEMMA AckStream ==
    ASSUME NEW s \in SockState, NEW r \in Seq(Apps), StreamInv(s, r),
           NEW ack \in (s.head + 1)..s.nextRx
    PROVE  /\ [s EXCEPT !.head = ack] \in SockState
           /\ StreamInv([s EXCEPT !.head = ack], r)
<1> DEFINE u == [s EXCEPT !.head = ack]
<1>1. /\ s.highTxMark \in Nat /\ s.nextRx \in Nat /\ s.head \in Nat /\ ack \in Nat
      /\ SndBufSize \in Nat /\ Written(s) \in Nat
  <2>1. s.highTxMark \in Nat /\ s.nextRx \in Nat /\ s.head \in Nat BY DEF SockState
  <2> QED BY <2>1, WrittenIsNat, TcpAssumption
<1>2. u \in SockState
  BY <1>1 DEF SockState
<1>3. /\ u.data = s.data /\ u.highTxMark = s.highTxMark /\ u.head = ack
      /\ u.nextRx = s.nextRx /\ u.rxHead = s.rxHead
  BY DEF SockState
<1> HIDE DEF u
<1>4. GetTxAvailable(u) \in 0..SndBufSize
  <2>1. ack <= Written(s) /\ s.head < ack
    BY <1>1 DEF StreamInv
  <2>2. SndBufSize - (Written(s) - s.head) \in 0..SndBufSize
    BY DEF StreamInv, GetTxAvailable
  <2>3. SndBufSize - (Written(s) - ack) \in 0..SndBufSize
    BY <1>1, <2>1, <2>2
  <2>4. Written(u) = Written(s)
    BY <1>3 DEF Written
  <2> QED BY <1>3, <2>3, <2>4 DEF GetTxAvailable
<1>5. StreamInv(u, r)
  BY <1>1, <1>3, <1>4 DEF StreamInv, Written, GetRxAvailable
<1> QED
  BY <1>2, <1>5 DEF u

\* Bytes up to next arrive in order and HandleRead runs: the list continues with
\* the packets that follow in the stream, and stops less than a packet short of
\* the bytes that arrived.
LEMMA ReadStream ==
    ASSUME NEW s \in SockState, NEW r \in Seq(Apps), StreamInv(s, r),
           NEW next \in (s.nextRx + 1)..s.highTxMark
    PROVE  LET v == [s EXCEPT !.nextRx = next]
           IN /\ AfterRead(v) \in SockState
              /\ AfterRead(v).data = s.data
              /\ PacketsToRead(v) \in Nat
              /\ FlowsRead(v) \in Seq(Apps)
              /\ Len(r) + PacketsToRead(v) <= Len(s.data)
              /\ r \o FlowsRead(v) = SubSeq(s.data, 1, Len(r) + PacketsToRead(v))
              /\ StreamInv(AfterRead(v), r \o FlowsRead(v))
<1> DEFINE v == [s EXCEPT !.nextRx = next]
           P == PacketSizeByte
           L == Len(r)
           M == Len(s.data)
           n == PacketsToRead(v)
           u == AfterRead(v)
<1>1. /\ P \in Nat \ {0} /\ L \in Nat /\ M \in Nat /\ next \in Nat
      /\ s.nextRx \in Nat /\ s.highTxMark \in Nat /\ s.rxHead \in Nat /\ s.head \in Nat
      /\ Written(s) = P * M /\ Written(s) \in Nat
  <2>1. s.nextRx \in Nat /\ s.highTxMark \in Nat /\ s.rxHead \in Nat /\ s.head \in Nat
    BY DEF SockState
  <2> QED BY <2>1, WrittenIsNat, StrategyAssumption DEF Written
<1>2. /\ v \in SockState
      /\ v.data = s.data /\ v.highTxMark = s.highTxMark /\ v.head = s.head
      /\ v.nextRx = next /\ v.rxHead = s.rxHead
  BY <1>1 DEF SockState
<1>3. /\ s.rxHead = P * L /\ s.rxHead <= next /\ s.head <= next
      /\ next <= s.highTxMark /\ s.highTxMark <= P * M
  BY <1>1 DEF StreamInv
<1> HIDE DEF v, P, L, M
<1>4. next - s.rxHead \in Nat
  BY <1>1, <1>3
<1>5. /\ n \in Nat
      /\ P * n <= next - s.rxHead /\ next - s.rxHead < P * n + P
  <2>1. n = (next - s.rxHead) \div P
    BY <1>2 DEF PacketsToRead, GetRxAvailable, P
  <2> QED BY <1>1, <1>4, <2>1, DivBounds
<1> HIDE DEF n
<1>6. P * (L + n) = P * L + P * n /\ n * P = P * n /\ P * n \in Nat /\ P * L \in Nat
  BY <1>1, <1>5
<1>7. L + n <= M
  <2>1. P * (L + n) <= P * M
    BY <1>1, <1>3, <1>5, <1>6
  <2> QED BY <1>1, <1>5, <2>1, TimesMonotone
<1>8. ASSUME NEW k \in 1..n
      PROVE  FlowIdTag(v, v.rxHead + (k - 1) * P) = s.data[L + k]
  <2>1. k - 1 \in Nat /\ L + (k - 1) \in Nat /\ L + (k - 1) + 1 = L + k
    BY <1>1, <1>5
  <2>2. P * L + (k - 1) * P = P * (L + (k - 1))
    BY <1>1, <2>1
  <2>3. (P * (L + (k - 1))) \div P = L + (k - 1)
    BY <1>1, <2>1, DivUnique
  <2>4. (v.rxHead + (k - 1) * P) \div P = L + (k - 1)
    BY <1>2, <1>3, <2>2, <2>3
  <2> QED BY <1>2, <2>1, <2>4 DEF FlowIdTag, P
<1> DEFINE f == FlowsRead(v)
<1>9. s.data \in Seq(Apps) /\ \A k \in 1..M : s.data[k] \in Apps
  <2>1. s.data \in Seq(Apps) BY DEF SockState
  <2> QED BY <2>1, ElementOfSeq DEF M
<1>10. /\ f = [k \in 1..n |-> s.data[L + k]]
       /\ \A k \in 1..n : L + k \in 1..M
  <2>1. f = [k \in 1..n |-> FlowIdTag(v, v.rxHead + (k - 1) * P)]
    BY DEF FlowsRead, n, P
  <2>2. \A k \in 1..n : L + k \in 1..M
    BY <1>1, <1>5, <1>7
  <2> HIDE DEF f
  <2> QED BY <1>8, <2>1, <2>2
<1> HIDE DEF f
<1>11. f \in Seq(Apps) /\ Len(f) = n /\ \A k \in 1..n : f[k] = s.data[L + k]
  <2>1. f \in [1..n -> Apps]
    BY <1>9, <1>10
  <2> QED BY <1>5, <1>10, <2>1
<1> DEFINE c == r \o f
<1>12. /\ c \in Seq(Apps) /\ Len(c) = L + n
       /\ \A k \in 1..(L + n) : c[k] = IF k <= L THEN r[k] ELSE f[k - L]
  BY <1>11, ConcatProperties DEF L
<1> HIDE DEF c
<1>13. \A k \in 1..(L + n) : c[k] = s.data[k]
  <2>1. SUFFICES ASSUME NEW k \in 1..(L + n) PROVE c[k] = s.data[k]
    OBVIOUS
  <2>2. CASE k <= L
    <3>1. \A l \in 1..L : r[l] = s.data[l] BY Zenon DEF StreamInv, L
    <3>2. k \in 1..L BY <1>1, <1>5, <2>2
    <3>3. c[k] = r[k] BY <1>12, <2>2, Zenon
    <3> QED BY <3>1, <3>2, <3>3, Zenon
  <2>3. CASE ~(k <= L)
    <3>1. k - L \in 1..n /\ L + (k - L) = k BY <1>1, <1>5, <2>3
    <3> QED BY <1>11, <1>12, <2>3, <3>1
  <2> QED BY <2>2, <2>3
<1>14. c = SubSeq(s.data, 1, L + n)
  <2> DEFINE t == SubSeq(s.data, 1, L + n)
  <2>1. \A k \in 1..(L + n) : s.data[k] \in Apps
    BY <1>1, <1>5, <1>7, <1>9
  <2>2. /\ t \in Seq(Apps) /\ Len(t) = L + n
        /\ \A k \in 1..(L + n) : t[k] = s.data[k]
    BY <1>1, <1>5, <2>1, SubSeqProperties
  <2> HIDE DEF t
  <2>3. c = t
    BY <1>12, <1>13, <2>2, SeqEqual
  <2> QED BY <2>3 DEF t
<1>15. /\ u \in SockState
       /\ u.data = s.data /\ u.highTxMark = s.highTxMark /\ u.head = s.head
       /\ u.nextRx = next /\ u.rxHead = s.rxHead + n * P
  <2>1. v.rxHead + n * P \in Nat
    BY <1>1, <1>2, <1>6
  <2>2. u = [v EXCEPT !.rxHead = v.rxHead + n * P]
    BY DEF AfterRead, n, P
  <2> HIDE DEF u
  <2> QED BY <1>2, <2>1, <2>2 DEF SockState
<1> HIDE DEF u
<1>16. StreamInv(u, c)
  <2>1. GetRxAvailable(u) \in 0..(P - 1)
    BY <1>1, <1>5, <1>6, <1>15 DEF GetRxAvailable
  <2>2. u.rxHead = P * Len(c) /\ u.rxHead <= u.nextRx
    <3>1. u.rxHead = P * (L + n)
      BY <1>3, <1>6, <1>15
    <3>2. P * L + n * P <= next
      BY <1>1, <1>3, <1>5, <1>6
    <3> QED BY <1>3, <1>12, <1>15, <3>1, <3>2
  <2>3. GetTxAvailable(u) \in 0..SndBufSize /\ Written(u) = Written(s)
    BY <1>15 DEF StreamInv, GetTxAvailable, Written
  <2>4. Len(c) <= Len(u.data) /\ \A k \in 1..Len(c) : c[k] = u.data[k]
    BY <1>7, <1>12, <1>13, <1>15 DEF M
  <2> QED
    BY <1>1, <1>3, <1>15, <2>1, <2>2, <2>3, <2>4 DEF StreamInv, P
<1> QED
  BY <1>5, <1>7, <1>11, <1>14, <1>15, <1>16 DEF v, n, u, c, f, L, M

-----------------------------------------------------------------------------

(***************************************************************************)
(* The inductive invariant.  Its parts beside the invariants of SDWan:     *)
(***************************************************************************)

\* An application that still generates has a sample left to read.
SampleLeft(ap) ==
    ~ap.allPacketsGenerated => ap.currentSample < SimulationDurationInSeconds

SampleInv == \A a \in Apps : SampleLeft(app[a])

\* Before the sender starts nothing has been written or received.
BeforeStart ==
    /\ listening => started
    /\ ~started => \A i \in Ifaces : sock[i] = NewSocket /\ receivedPacketInfo[i] = << >>

\* Every connection and the list the sink keeps for it.
Streams == \A i \in Ifaces : StreamInv(sock[i], receivedPacketInfo[i])

IInv == TypeOK /\ SampleInv /\ BeforeStart /\ Streams

-----------------------------------------------------------------------------
(* The applications *)

\* Starting or updating an application leaves a well-formed application that
\* never reads past the last sample.
LEMMA ApplicationSteps ==
    ASSUME NEW ap \in AppState, SampleLeft(ap), NEW sv \in SinValues
    PROVE  /\ OnApplicationStart(Static, ap, sv) \in AppState
           /\ SampleLeft(OnApplicationStart(Static, ap, sv))
           /\ Update(Static, ap, sv) \in AppState
           /\ SampleLeft(Update(Static, ap, sv))
<1>1. /\ enqueuePacketsForCurrentSample(ap, sv) \in AppState
      /\ SampleLeft(enqueuePacketsForCurrentSample(ap, sv))
  <2>1. CASE ap.allPacketsGenerated
    BY <2>1 DEF enqueuePacketsForCurrentSample
  <2>2. CASE ~ap.allPacketsGenerated
    <3>1. ap.currentSample \in SampleIndexes
      BY <2>2, DurationAssumption DEF SampleLeft, SampleIndexes, AppState
    <3>2. sv[ap.currentSample] \in Nat
      BY <3>1 DEF SinValues
    <3>3. enqueuePacketsForCurrentSample(ap, sv) \in AppState
      BY <2>2, <3>2 DEF enqueuePacketsForCurrentSample, AppState
    <3>4. SampleLeft(enqueuePacketsForCurrentSample(ap, sv))
      <4>1. ap.currentSample + 1 # SimulationDurationInSeconds
               => ap.currentSample + 1 < SimulationDurationInSeconds
        BY <2>2, DurationAssumption DEF SampleLeft, AppState
      <4> QED
        BY <2>2, <4>1, Zenon DEF enqueuePacketsForCurrentSample, SampleLeft
    <3> QED BY <3>3, <3>4
  <2> QED BY <2>1, <2>2
<1>2. /\ StaticOnApplicationStart(ap, sv) \in AppState
      /\ SampleLeft(StaticOnApplicationStart(ap, sv))
  <2>1. IsFiniteSet(SampleIndexes)
    BY DurationAssumption, FS_Interval DEF SampleIndexes
  <2>2. getTotalData(sv) \in Nat
    BY <2>1, TotalIsNat DEF getTotalData, SinValues
  <2> QED
    BY <2>2 DEF StaticOnApplicationStart, AppState, SampleLeft
<1> QED
  BY <1>1, <1>2 DEF OnApplicationStart, Update, OnUpdate

\* Updating an application that has stopped changes nothing.
LEMMA StoppedApplicationStays ==
    ASSUME NEW ap, NEW sv, getHasStoppedGeneratingData(ap)
    PROVE  Update(Static, ap, sv) = ap
  BY DEF Update

-----------------------------------------------------------------------------
(* Compute *)

\* The part of the type invariant that Compute can disturb.
ComputeTypes ==
    /\ app \in [Apps -> AppState]
    /\ iface \in [Ifaces -> IfaceState]
    /\ computeScheduled \in BOOLEAN
    /\ now \in Nat
    /\ strategyData \in [totalCost : Nat, totalAmountOfPackets : Nat]
    /\ hasBeenComputed \in BOOLEAN
    /\ reports \in Nat
    /\ aborted \in {"no", "infeasible", "send"}

\* One Compute, with the applications in the state apps.
LEMMA ComputeStep ==
    ASSUME TypeOK, NEW apps \in [Apps -> AppState], \A a \in Apps : SampleLeft(apps[a]),
           NEW t \in Nat, ComputeAndContinue(apps, t)
    PROVE  ComputeTypes' /\ SampleInv'
<1> DEFINE updated == [a \in Apps |-> Update(Static, apps[a], sinValues[a])]
           pending == [a \in Apps |-> updated[a].pendingpackets]
<1>1. updated \in [Apps -> AppState] /\ \A a \in Apps : SampleLeft(updated[a])
  <2>1. \A a \in Apps : sinValues[a] \in SinValues
    BY SenderAssumption DEF TypeOK
  <2> QED BY <2>1, ApplicationSteps
<1>2. pending \in Pending
  BY <1>1 DEF Pending, AppState
<1>3. /\ ComputeNothing(updated) \/ Compute(updated, t)
      /\ computeScheduled' \in BOOLEAN
      /\ now' = t
  BY DEF ComputeAndContinue
<1> HIDE DEF updated
<1>4. CASE ComputeNothing(updated)
  BY <1>1, <1>3, <1>4 DEF ComputeNothing, ComputeTypes, TypeOK, SampleInv
<1>5. CASE Compute(updated, t)
  <2> DEFINE required == [a \in Apps |-> getRequiredPacketRate(sinValues[a])]
             plans    == ComputePlans(strategyType, pending, required, iface, 1000 * t)
  <2> DEFINE Follows(x) ==
               /\ app' = [a \in Apps |->
                            [updated[a] EXCEPT
                               !.pendingpackets = Remaining(strategyType, pending, x, a)]]
               /\ iface' = [i \in Ifaces |->
                              [iface[i] EXCEPT !.pendingpackets = @ \o PacketsFor(x, i)]]
               /\ AddDataPoint(pending, x)
               /\ hasBeenComputed' = (strategyType = "LINEAR")
               /\ UNCHANGED aborted
             Infeasible ==
               /\ plans = {}
               /\ aborted' = "infeasible"
               /\ app' = updated
               /\ UNCHANGED <<iface, strategyData, hasBeenComputed, reports>>
  <2>0. (\E x \in plans : Follows(x)) \/ Infeasible
    BY <1>5 DEF Compute
  <2>1. CASE Infeasible
    BY <1>1, <1>3, <2>1 DEF ComputeTypes, TypeOK, SampleInv
  <2>2. ASSUME NEW x \in plans, Follows(x)
        PROVE  ComputeTypes' /\ SampleInv'
    <3> HIDE DEF pending, required
    <3>1. x \in Plans /\ \A a \in Apps : Remaining(strategyType, pending, x, a) = 0
      <4>1. strategyType \in StrategyTypes
        BY StrategyAssumption DEF TypeOK
      <4> QED BY <1>2, <4>1, ComputePlansAreFull
    <3>2. app' \in [Apps -> AppState] /\ SampleInv'
      <4>1. \A ap \in AppState : SampleLeft(ap) =>
               /\ [ap EXCEPT !.pendingpackets = 0] \in AppState
               /\ SampleLeft([ap EXCEPT !.pendingpackets = 0])
        BY DEF AppState, SampleLeft
      <4>2. app' = [a \in Apps |-> [updated[a] EXCEPT !.pendingpackets = 0]]
        BY <2>2, <3>1, Zenon
      <4>3. \A a \in Apps : app'[a] \in AppState /\ SampleLeft(app'[a])
        BY <1>1, <4>1, <4>2, Zenon
      <4> QED BY <4>2, <4>3, Zenon DEF SampleInv, SampleLeft
    <3>3. iface' \in [Ifaces -> IfaceState]
      <4>1. \A i \in Ifaces : PacketsFor(x, i) \in Seq(Apps)
        BY <3>1, PacketsForIsSeq
      <4>2. \A i \in Ifaces : iface[i].pendingpackets \o PacketsFor(x, i) \in Seq(Apps)
        BY <4>1, ConcatProperties DEF TypeOK, IfaceState
      <4>3. \A i \in Ifaces : iface[i] \in IfaceState
        BY DEF TypeOK
      <4>4. \A c \in IfaceState, q \in Seq(Apps) :
               [c EXCEPT !.pendingpackets = q] \in IfaceState
        BY DEF IfaceState
      <4>5. \A i \in Ifaces : iface'[i] \in IfaceState
        BY <2>2, <4>2, <4>3, <4>4, Zenon
      <4> QED BY <2>2, <4>5, Zenon
    <3>4. /\ strategyData' \in [totalCost : Nat, totalAmountOfPackets : Nat]
          /\ reports' \in Nat
      <4>1. CostOf(x) \in Nat /\ Total(pending) \in Nat
        BY <1>2, <3>1, PlanTotals, IndexSetsAreFinite, TotalIsNat DEF Pending
      <4> QED BY <2>2, <4>1 DEF AddDataPoint, TypeOK
    <3> QED
      BY <1>3, <2>2, <3>2, <3>3, <3>4 DEF ComputeTypes, TypeOK
  <2> QED
    <3> HIDE DEF Follows, Infeasible, plans
    <3> QED BY <2>0, <2>1, <2>2
<1> QED
  BY <1>3, <1>4, <1>5

-----------------------------------------------------------------------------
(* The connections *)

StreamTypes ==
    /\ sock \in [Ifaces -> SockState]
    /\ receivedPacketInfo \in [Ifaces -> Seq(Apps)]

\* A step of one connection that preserves its stream preserves all of them.
LEMMA OneStream ==
    ASSUME StreamTypes, Streams, NEW i \in Ifaces,
           NEW u \in SockState, NEW q \in Seq(Apps), StreamInv(u, q),
           sock' = [sock EXCEPT ![i] = u],
           receivedPacketInfo' = [receivedPacketInfo EXCEPT ![i] = q]
    PROVE  StreamTypes' /\ Streams'
<1>1. StreamTypes'
  BY DEF StreamTypes
<1>2. ASSUME NEW j \in Ifaces PROVE StreamInv(sock'[j], receivedPacketInfo'[j])
  <2>1. CASE j = i
    BY <2>1 DEF StreamTypes
  <2>2. CASE j # i
    BY <2>2 DEF StreamTypes, Streams
  <2> QED BY <2>1, <2>2
<1>3. Streams'
  BY <1>2, Zenon DEF Streams, StreamInv, Written, GetTxAvailable, GetRxAvailable
<1> QED
  BY <1>1, <1>3

\* The steps of TCP: timers, handshake, transmission and acknowledgement.
LEMMA TcpSteps ==
    ASSUME StreamTypes, Streams, NEW i \in Ifaces, UNCHANGED receivedPacketInfo,
           \/ SynTimeout(i) \/ HandshakeCompleted(i) \/ SendPendingData(i)
           \/ ReTxTimeout(i) \/ NewAck(i)
    PROVE  StreamTypes' /\ Streams'
<1> DEFINE s == sock[i]
           r == receivedPacketInfo[i]
<1>1. s \in SockState /\ r \in Seq(Apps) /\ StreamInv(s, r)
  BY DEF StreamTypes, Streams
<1>2. receivedPacketInfo' = [receivedPacketInfo EXCEPT ![i] = r]
  BY DEF StreamTypes
<1>3. SUFFICES \E u \in SockState : StreamInv(u, r) /\ sock' = [sock EXCEPT ![i] = u]
  BY <1>1, <1>2, OneStream
<1>4. CASE SynTimeout(i)
  <2>1. CASE /\ s.m_synCount > 0
             /\ sock' = [sock EXCEPT ![i].m_synCount = @ - 1]
    <3> DEFINE u == [s EXCEPT !.m_synCount = s.m_synCount - 1]
    <3>1. s.m_synCount - 1 \in Nat
      BY <1>1, <2>1 DEF SockState
    <3>2. u \in SockState /\ StreamInv(u, r)
      BY <1>1, <3>1, ControlFields
    <3>3. sock' = [sock EXCEPT ![i] = u]
      BY <2>1, Zenon
    <3> QED BY <3>2, <3>3
  <2>2. CASE sock' = [sock EXCEPT ![i] =
                         [@ EXCEPT !.m_state = "CLOSED", !.endPoint = FALSE]]
    <3> DEFINE w == [s EXCEPT !.m_state = "CLOSED"]
               u == [w EXCEPT !.endPoint = FALSE]
    <3>1. w \in SockState /\ StreamInv(w, r)
      BY <1>1, ControlFields
    <3>2. u \in SockState /\ StreamInv(u, r)
      <4> HIDE DEF w
      <4> QED BY <3>1, ControlFields
    <3>3. sock' = [sock EXCEPT ![i] = u]
      BY <2>2, Zenon
    <3> QED BY <3>2, <3>3
  <2> QED BY <1>4, <2>1, <2>2, Zenon DEF SynTimeout
<1>5. CASE HandshakeCompleted(i)
  <2> DEFINE u == [s EXCEPT !.m_state = "ESTABLISHED"]
  <2>1. u \in SockState /\ StreamInv(u, r)
    BY <1>1, ControlFields
  <2>2. sock' = [sock EXCEPT ![i] = u]
    BY <1>5, Zenon DEF HandshakeCompleted
  <2> QED BY <2>1, <2>2
<1>6. CASE SendPendingData(i)
  <2>1. PICK mark \in (s.highTxMark + 1)..Written(s) :
           sock' = [sock EXCEPT ![i] = [s EXCEPT !.highTxMark = mark]]
    BY <1>6, Zenon DEF SendPendingData
  <2>2. /\ [s EXCEPT !.highTxMark = mark] \in SockState
        /\ StreamInv([s EXCEPT !.highTxMark = mark], r)
    BY <1>1, TransmitStream
  <2> QED BY <2>1, <2>2
<1>7. CASE ReTxTimeout(i)
  <2>1. CASE /\ s.m_dataRetrCount > 0
             /\ sock' = [sock EXCEPT ![i].m_dataRetrCount = @ - 1]
    <3> DEFINE u == [s EXCEPT !.m_dataRetrCount = s.m_dataRetrCount - 1]
    <3>1. s.m_dataRetrCount - 1 \in Nat
      BY <1>1, <2>1 DEF SockState
    <3>2. u \in SockState /\ StreamInv(u, r)
      BY <1>1, <3>1, ControlFields
    <3>3. sock' = [sock EXCEPT ![i] = u]
      BY <2>1, Zenon
    <3> QED BY <3>2, <3>3
  <2>2. CASE sock' = [sock EXCEPT ![i].endPoint = FALSE]
    <3> DEFINE u == [s EXCEPT !.endPoint = FALSE]
    <3>1. u \in SockState /\ StreamInv(u, r)
      BY <1>1, ControlFields
    <3>2. sock' = [sock EXCEPT ![i] = u]
      BY <2>2, Zenon
    <3> QED BY <3>1, <3>2
  <2> QED BY <1>7, <2>1, <2>2, Zenon DEF ReTxTimeout
<1>8. CASE NewAck(i)
  <2>1. PICK ack \in (s.head + 1)..s.nextRx :
           sock' = [sock EXCEPT ![i] =
                       [s EXCEPT !.head = ack, !.m_dataRetrCount = DataRetries]]
    BY <1>8, Zenon DEF NewAck
  <2> DEFINE w == [s EXCEPT !.head = ack]
             u == [w EXCEPT !.m_dataRetrCount = DataRetries]
  <2>2. w \in SockState /\ StreamInv(w, r)
    BY <1>1, AckStream
  <2>3. u \in SockState /\ StreamInv(u, r)
    <3> HIDE DEF w
    <3> QED BY <2>2, ControlFields, TcpAssumption
  <2>4. sock' = [sock EXCEPT ![i] = u]
    BY <2>1
  <2> QED BY <2>3, <2>4
<1> QED
  BY <1>4, <1>5, <1>6, <1>7, <1>8

-----------------------------------------------------------------------------
(* SendPacket *)

\* The part of the type invariant that SendPacket can disturb beside the streams.
SendTypes ==
    /\ iface \in [Ifaces -> IfaceState]
    /\ m_totBytes \in Nat
    /\ sendScheduled \in [Ifaces -> BOOLEAN]
    /\ aborted \in {"no", "infeasible", "send"}

\* Taking the first packet out of the queue of an interface.
LEMMA PopPacket ==
    ASSUME NEW c \in IfaceState, getHasAnyAvailablePackage(c)
    PROVE  /\ Head(c.pendingpackets) \in Apps
           /\ [c EXCEPT !.pendingpackets = Tail(@)] \in IfaceState
           /\ [[c EXCEPT !.pendingpackets = Tail(@)] EXCEPT !.corruptPackages = @ + 1]
                 \in IfaceState
           /\ [[c EXCEPT !.pendingpackets = Tail(@)] EXCEPT !.correctPackages = @ + 1]
                 \in IfaceState
<1>1. c.pendingpackets \in Seq(Apps) /\ c.pendingpackets # << >>
  BY DEF IfaceState, getHasAnyAvailablePackage
<1>2. Head(c.pendingpackets) \in Apps /\ Tail(c.pendingpackets) \in Seq(Apps)
  BY <1>1, HeadTailProperties
<1> DEFINE d == [c EXCEPT !.pendingpackets = Tail(@)]
<1>3. d \in IfaceState
  BY <1>2 DEF IfaceState
<1> HIDE DEF d
<1>4. /\ [d EXCEPT !.corruptPackages = @ + 1] \in IfaceState
      /\ [d EXCEPT !.correctPackages = @ + 1] \in IfaceState
  BY <1>3 DEF IfaceState
<1> QED
  BY <1>2, <1>3, <1>4 DEF d

\* A step that leaves the sockets and the lists of the sink alone.
LEMMA NoStream ==
    ASSUME StreamTypes, Streams, UNCHANGED <<sock, receivedPacketInfo>>
    PROVE  StreamTypes' /\ Streams'
  BY DEF StreamTypes, Streams, StreamInv, Written, GetTxAvailable, GetRxAvailable

\* One SendPacket event keeps the types and the streams.
LEMMA SendSteps ==
    ASSUME SendTypes, StreamTypes, Streams, NEW i \in Ifaces,
           SendPacket(i), UNCHANGED receivedPacketInfo
    PROVE  SendTypes' /\ StreamTypes' /\ Streams'
<1> DEFINE c == iface[i]
           s == sock[i]
           r == receivedPacketInfo[i]
<1>1. c \in IfaceState /\ s \in SockState /\ r \in Seq(Apps) /\ StreamInv(s, r)
  BY DEF SendTypes, StreamTypes, Streams
<1>2. CASE SendLoopEnds(i)
  <2>1. SendTypes'
    BY <1>2 DEF SendLoopEnds, SendTypes
  <2>2. UNCHANGED sock
    BY <1>2 DEF SendLoopEnds
  <2> QED BY <2>1, <2>2, NoStream
<1>3. CASE SendLater(i)
  <2>1. SendTypes' /\ UNCHANGED sock
    BY <1>3 DEF SendLater, SendTypes
  <2> QED BY <2>1, NoStream
<1>4. CASE SendCorrupt(i)
  <2> DEFINE d == [[c EXCEPT !.pendingpackets = Tail(@)] EXCEPT !.corruptPackages = @ + 1]
  <2>1. d \in IfaceState
    BY <1>1, <1>4, PopPacket DEF SendCorrupt, Poppable
  <2>2. iface' = [iface EXCEPT ![i] = d] /\ UNCHANGED <<m_totBytes, aborted, sock, sendScheduled>>
    BY <1>4, Zenon DEF SendCorrupt
  <2> HIDE DEF d
  <2>3. SendTypes'
    BY <2>1, <2>2 DEF SendTypes
  <2> QED BY <2>2, <2>3, NoStream
<1>5. CASE SendCorrect(i) /\ SendAccepts(s)
  <2> DEFINE d == [[c EXCEPT !.pendingpackets = Tail(@)] EXCEPT !.correctPackages = @ + 1]
             u == Send(s, Head(c.pendingpackets))
  <2>1. d \in IfaceState /\ Head(c.pendingpackets) \in Apps
    BY <1>1, <1>5, PopPacket DEF SendCorrect, Poppable
  <2>2. /\ iface' = [iface EXCEPT ![i] = d]
        /\ sock' = [sock EXCEPT ![i] = u]
        /\ m_totBytes' = m_totBytes + PacketSizeByte
        /\ UNCHANGED <<aborted, sendScheduled>>
    BY <1>5, Zenon DEF SendCorrect
  <2>3. u \in SockState /\ StreamInv(u, r)
    BY <1>1, <1>5, <2>1, SendStream DEF SendAccepts
  <2> HIDE DEF d, u
  <2>4. SendTypes'
    BY <2>1, <2>2, StrategyAssumption DEF SendTypes
  <2>5. receivedPacketInfo' = [receivedPacketInfo EXCEPT ![i] = r]
    BY DEF StreamTypes
  <2>6. StreamTypes' /\ Streams'
    BY <1>1, <2>2, <2>3, <2>5, OneStream
  <2> QED BY <2>4, <2>6
<1>6. CASE SendCorrect(i) /\ ~SendAccepts(s)
  <2> DEFINE d == [c EXCEPT !.pendingpackets = Tail(@)]
  <2>1. d \in IfaceState
    BY <1>1, <1>6, PopPacket DEF SendCorrect, Poppable
  <2>2. /\ iface' = [iface EXCEPT ![i] = d] /\ aborted' = "send"
        /\ UNCHANGED <<m_totBytes, sock, sendScheduled>>
    BY <1>6, Zenon DEF SendCorrect
  <2> HIDE DEF d
  <2>3. SendTypes'
    BY <2>1, <2>2 DEF SendTypes
  <2> QED BY <2>2, <2>3, NoStream
<1> QED
  BY <1>2, <1>3, <1>4, <1>5, <1>6 DEF SendPacket, SendData

-----------------------------------------------------------------------------
(* The inductive invariant *)

\* The state that RunSimulation sets up satisfies the inductive invariant.
LEMMA InitIInv == Init => IInv
<1> SUFFICES ASSUME Init PROVE IInv
  OBVIOUS
<1> USE DEF Init, SenderInit, ReceiverInit
<1>1. NewSocket \in SockState /\ StreamInv(NewSocket, << >>)
  BY NewStream
<1>2. NewApplication \in AppState /\ SampleLeft(NewApplication)
  BY DurationAssumption DEF NewApplication, AppState, SampleLeft
<1>3. << >> \in Seq(Apps)
  OBVIOUS
<1>4. [pendingpackets |-> << >>, correctPackages |-> 0, corruptPackages |-> 0,
       connected |-> FALSE] \in IfaceState
  BY <1>3 DEF IfaceState
<1>5. TypeOK
  BY <1>1, <1>2, <1>3, <1>4 DEF TypeOK
<1>6. SampleInv
  BY <1>2 DEF SampleInv
<1>7. BeforeStart
  BY DEF BeforeStart
<1>8. Streams
  BY <1>1 DEF Streams
<1> QED
  BY <1>5, <1>6, <1>7, <1>8 DEF IInv

\* Every event of the simulation preserves the inductive invariant, one step per
\* event handler of the sender, the sink and the sockets.
LEMMA NextIInv == IInv /\ [Next]_vars => IInv'
<1> SUFFICES ASSUME IInv, [Next]_vars PROVE IInv'
  OBVIOUS
<1>1. TypeOK /\ SampleInv /\ BeforeStart /\ Streams /\ StreamTypes /\ SendTypes
  BY DEF IInv, TypeOK, StreamTypes, SendTypes
<1>2. CASE StartSender
  <2> DEFINE apps == [a \in Apps |-> OnApplicationStart(Static, app[a], sinValues[a])]
  <2>1. /\ ~started /\ started' = TRUE
        /\ sock' = [i \in Ifaces |-> Connected]
        /\ sendScheduled' = [i \in Ifaces |-> TRUE]
        /\ ComputeAndContinue(apps, 0)
        /\ UNCHANGED <<strategyType, sinValues, m_totBytes, receiverVars>>
    BY <1>2 DEF StartSender, SenderStartApplication
  <2>2. apps \in [Apps -> AppState] /\ \A a \in Apps : SampleLeft(apps[a])
    <3>1. \A a \in Apps : sinValues[a] \in SinValues /\ app[a] \in AppState
      BY <1>1, SenderAssumption DEF TypeOK
    <3> QED BY <1>1, <3>1, ApplicationSteps DEF SampleInv
  <2> HIDE DEF apps
  <2>3. ComputeTypes' /\ SampleInv'
    BY <1>1, <2>1, <2>2, ComputeStep
  <2>4. StreamTypes' /\ Streams'
    <3>1. \A i \in Ifaces : sock'[i] = Connected /\ receivedPacketInfo'[i] = << >>
      BY <1>1, <2>1 DEF BeforeStart, receiverVars
    <3>2. Connected \in SockState /\ StreamInv(Connected, << >>)
      BY NewStream
    <3>3. Streams'
      BY <3>1, <3>2, Zenon
      DEF Streams, StreamInv, Written, GetTxAvailable, GetRxAvailable
    <3>4. StreamTypes'
      BY <1>1, <2>1, <3>2 DEF StreamTypes, receiverVars
    <3> QED BY <3>3, <3>4
  <2>5. TypeOK'
    BY <1>1, <2>1, <2>3, <2>4 DEF TypeOK, ComputeTypes, StreamTypes, receiverVars
  <2>6. BeforeStart'
    BY <2>1 DEF BeforeStart
  <2> QED BY <2>3, <2>4, <2>5, <2>6 DEF IInv
<1>3. CASE StartReceiver
  <2>1. /\ started /\ listening' = TRUE
        /\ UNCHANGED <<receivedPacketInfo, m_totalRx, senderVars, sock>>
    BY <1>3 DEF StartReceiver
  <2>2. StreamTypes' /\ Streams'
    BY <1>1, <2>1, NoStream
  <2>3. TypeOK'
    BY <1>1, <2>1 DEF TypeOK, senderVars
  <2>4. SampleInv' /\ BeforeStart'
    BY <1>1, <2>1 DEF SampleInv, SampleLeft, BeforeStart, senderVars
  <2> QED BY <2>2, <2>3, <2>4 DEF IInv
<1>4. CASE ComputeEvent
  <2> DEFINE t == IF now < MaxNow THEN now + 1 ELSE now
  <2>1. /\ listening /\ ComputeAndContinue(app, t)
        /\ UNCHANGED <<strategyType, sinValues, started, m_totBytes, sendScheduled, sock, receiverVars>>
    BY <1>4 DEF ComputeEvent, ComputeStrategyAndContinue
  <2>2. app \in [Apps -> AppState] /\ (\A a \in Apps : SampleLeft(app[a])) /\ t \in Nat
    BY <1>1 DEF TypeOK, SampleInv
  <2> HIDE DEF t
  <2>3. ComputeTypes' /\ SampleInv'
    BY <1>1, <2>1, <2>2, ComputeStep
  <2>4. StreamTypes' /\ Streams'
    BY <1>1, <2>1, NoStream DEF receiverVars
  <2>5. TypeOK'
    BY <1>1, <2>1, <2>3 DEF TypeOK, ComputeTypes, receiverVars
  <2>6. BeforeStart'
    BY <1>1, <2>1 DEF BeforeStart, receiverVars
  <2> QED BY <2>3, <2>4, <2>5, <2>6 DEF IInv
<1>5. ASSUME NEW i \in Ifaces, SendEvent(i) PROVE IInv'
  <2>1. listening /\ SendPacket(i) /\ UNCHANGED receiverVars
    BY <1>5 DEF SendEvent
  <2>2. SendTypes' /\ StreamTypes' /\ Streams'
    BY <1>1, <2>1, SendSteps DEF receiverVars
  <2>3. UNCHANGED <<strategyType, sinValues, started, app, computeScheduled, now, strategyData,
                    hasBeenComputed, reports>>
    BY <2>1 DEF SendPacket
  <2>4. TypeOK'
    BY <1>1, <2>1, <2>2, <2>3 DEF TypeOK, SendTypes, StreamTypes, receiverVars
  <2>5. SampleInv' /\ BeforeStart'
    BY <1>1, <2>1, <2>3 DEF SampleInv, SampleLeft, BeforeStart, receiverVars
  <2> QED BY <2>2, <2>4, <2>5 DEF IInv
<1>6. ASSUME NEW i \in Ifaces, ConnectEvent(i) PROVE IInv'
  <2>1. /\ listening /\ UNCHANGED receiverVars
        /\ iface' = [iface EXCEPT ![i].connected = TRUE]
        /\ UNCHANGED <<strategyType, sinValues, started, app, m_totBytes, computeScheduled,
                       sendScheduled, now, strategyData, hasBeenComputed, reports,
                       aborted, sock>>
    BY <1>6 DEF ConnectEvent, ConnectionSucceeded
  <2>2. StreamTypes' /\ Streams'
    BY <1>1, <2>1, NoStream DEF receiverVars
  <2>3. iface' \in [Ifaces -> IfaceState]
    <3>1. \A c \in IfaceState : [c EXCEPT !.connected = TRUE] \in IfaceState
      BY DEF IfaceState
    <3>2. iface[i] \in IfaceState /\ iface \in [Ifaces -> IfaceState]
      BY <1>1 DEF TypeOK
    <3> DEFINE d == [iface[i] EXCEPT !.connected = TRUE]
    <3>3. d \in IfaceState /\ iface' = [iface EXCEPT ![i] = d]
      BY <2>1, <3>1, <3>2, Zenon
    <3> HIDE DEF d
    <3> QED BY <3>2, <3>3
  <2>4. TypeOK'
    BY <1>1, <2>1, <2>3 DEF TypeOK, receiverVars
  <2>5. SampleInv' /\ BeforeStart'
    BY <1>1, <2>1 DEF SampleInv, SampleLeft, BeforeStart, receiverVars
  <2> QED BY <2>2, <2>4, <2>5 DEF IInv
<1>7. ASSUME NEW i \in Ifaces, ReceiveEvent(i) PROVE IInv'
  <2>1. /\ listening /\ UNCHANGED listening /\ UNCHANGED senderVars
    BY <1>7 DEF ReceiveEvent, ReceivedData
  <2>2. PICK next \in (sock[i].nextRx + 1)..sock[i].highTxMark :
           HandleRead(i, [sock[i] EXCEPT !.nextRx = next])
    BY <1>7 DEF ReceiveEvent, ReceivedData
  <2> DEFINE v == [sock[i] EXCEPT !.nextRx = next]
             r == receivedPacketInfo[i]
  <2>3. /\ AfterRead(v) \in SockState /\ PacketsToRead(v) \in Nat
        /\ r \in Seq(Apps) /\ FlowsRead(v) \in Seq(Apps)
        /\ StreamInv(AfterRead(v), r \o FlowsRead(v))
    <3>1. sock[i] \in SockState /\ r \in Seq(Apps) /\ StreamInv(sock[i], r)
      BY <1>1 DEF StreamTypes, Streams
    <3> QED BY <3>1, ReadStream
  <2>4. /\ sock' = [sock EXCEPT ![i] = AfterRead(v)]
        /\ receivedPacketInfo' = [receivedPacketInfo EXCEPT ![i] = r \o FlowsRead(v)]
        /\ m_totalRx' = m_totalRx + PacketsToRead(v) * PacketSizeByte
    BY <2>2, Zenon DEF HandleRead
  <2> HIDE DEF v, r
  <2>5. StreamTypes' /\ Streams'
    <3>1. r \o FlowsRead(v) \in Seq(Apps)
      BY <2>3, ConcatProperties
    <3> QED BY <1>1, <2>3, <2>4, <3>1, OneStream
  <2>6. m_totalRx' \in Nat
    BY <1>1, <2>3, <2>4, StrategyAssumption DEF TypeOK
  <2>7. TypeOK'
    BY <1>1, <2>1, <2>5, <2>6 DEF TypeOK, StreamTypes, senderVars
  <2>8. SampleInv' /\ BeforeStart'
    BY <1>1, <2>1 DEF SampleInv, SampleLeft, BeforeStart, senderVars
  <2> QED BY <2>5, <2>7, <2>8 DEF IInv
<1>8. ASSUME NEW i \in Ifaces, TcpEvent(i) PROVE IInv'
  <2>1. listening /\ UNCHANGED <<senderVars, receiverVars>>
    BY <1>8 DEF TcpEvent, TcpStep
  <2>2. StreamTypes' /\ Streams'
    BY <1>1, <1>8, <2>1, TcpSteps DEF TcpEvent, TcpStep, receiverVars
  <2>3. TypeOK'
    BY <1>1, <2>1, <2>2 DEF TypeOK, StreamTypes, senderVars, receiverVars
  <2>4. SampleInv' /\ BeforeStart'
    BY <1>1, <2>1 DEF SampleInv, SampleLeft, BeforeStart, senderVars, receiverVars
  <2> QED BY <2>2, <2>3, <2>4 DEF IInv
<1>9. CASE UNCHANGED vars
  <2>1. StreamTypes' /\ Streams'
    BY <1>1, <1>9, NoStream DEF vars, receiverVars
  <2>2. TypeOK'
    BY <1>1, <1>9 DEF TypeOK, vars, senderVars, receiverVars
  <2>3. SampleInv' /\ BeforeStart'
    BY <1>1, <1>9 DEF SampleInv, SampleLeft, BeforeStart, vars, senderVars, receiverVars
  <2> QED BY <2>1, <2>2, <2>3 DEF IInv
<1> QED
  BY <1>2, <1>3, <1>4, <1>5, <1>6, <1>7, <1>8, <1>9 DEF Next

\* IInv is an invariant of every run.
THEOREM Invariance == Spec => []IInv
  BY InitIInv, NextIInv, PTL DEF Spec

\* Every variable keeps its type.
THEOREM TypeCorrect == Spec => []TypeOK
<1>1. IInv => TypeOK
  BY DEF IInv
<1> QED
  BY <1>1, Invariance, PTL

\* The marks of every stream stay ordered and its unacknowledged part fits the
\* TX buffer, whatever the timers and the segments do: GetTxAvailable, which
\* SendData checks before it pops a packet, never underflows.
THEOREM WindowsHold == Spec => []TcpWindows
<1>1. IInv => TcpWindows
  BY DEF IInv, Streams, StreamInv, TcpWindows
<1> QED
  BY <1>1, Invariance, PTL

\* HandleRead attributes every packet to the application that sent it, for any
\* packet size and however TCP cuts the stream into segments.
THEOREM InOrder == Spec => []ReceivedInOrder
<1>1. IInv => ReceivedInOrder
  BY DEF IInv, Streams, StreamInv, ReceivedInOrder
<1> QED
  BY <1>1, Invariance, PTL

\* HandleRead never leaves a whole packet in the RX buffer.
THEOREM NothingUnread == Spec => []NoWholePacketUnread
<1>1. IInv => NoWholePacketUnread
  BY DEF IInv, Streams, StreamInv, NoWholePacketUnread
<1> QED
  BY <1>1, Invariance, PTL

-----------------------------------------------------------------------------
(* Termination of the loops *)

\* With everything sent, another Compute finds nothing to do: stopped
\* applications stay stopped and the plan of any strategy is empty.
LEMMA ComputeKeepsAllSent ==
    ASSUME TypeOK, AllDataHasBeenSent, NEW t \in Nat, ComputeAndContinue(app, t)
    PROVE  AllDataHasBeenSent'
<1> DEFINE updated == [a \in Apps |-> Update(Static, app[a], sinValues[a])]
           pending == [a \in Apps |-> updated[a].pendingpackets]
<1>1. /\ \A a \in Apps : getHasStoppedGeneratingData(app[a])
      /\ \A i \in Ifaces : iface[i].pendingpackets = << >>
  BY DEF AllDataHasBeenSent, getAllDataHasBeenSent, getHasAnyAvailablePackage
<1>2. updated = app
  BY <1>1, StoppedApplicationStays DEF TypeOK
<1>3. pending \in Pending /\ \A a \in Apps : pending[a] = 0
  BY <1>1, <1>2 DEF Pending, getHasStoppedGeneratingData
<1>4. ComputeNothing(updated) \/ Compute(updated, t)
  BY DEF ComputeAndContinue
<1> SUFFICES /\ \A a \in Apps : app'[a].pendingpackets = 0 /\ app'[a].allPacketsGenerated
             /\ \A i \in Ifaces : iface'[i].pendingpackets = << >>
  BY Zenon DEF AllDataHasBeenSent, getAllDataHasBeenSent, getHasAnyAvailablePackage,
     getHasStoppedGeneratingData
<1> HIDE DEF updated
<1>5. CASE app' = updated /\ UNCHANGED iface
  BY <1>1, <1>2, <1>5 DEF getHasStoppedGeneratingData
<1>6. CASE Compute(updated, t) /\ ~(app' = updated /\ UNCHANGED iface)
  <2> DEFINE required == [a \in Apps |-> getRequiredPacketRate(sinValues[a])]
             plans    == ComputePlans(strategyType, pending, required, iface, 1000 * t)
             Follows(x) ==
               /\ app' = [a \in Apps |-> [updated[a] EXCEPT
                            !.pendingpackets = Remaining(strategyType, pending, x, a)]]
               /\ iface' = [i \in Ifaces |->
                              [iface[i] EXCEPT !.pendingpackets = @ \o PacketsFor(x, i)]]
               /\ AddDataPoint(pending, x)
               /\ hasBeenComputed' = (strategyType = "LINEAR")
               /\ UNCHANGED aborted
  <2>0. (\E x \in plans : Follows(x)) \/ (app' = updated /\ UNCHANGED iface)
    BY <1>6 DEF Compute
  <2>1. PICK x \in plans : Follows(x)
    <3> HIDE DEF Follows, plans
    <3> QED BY <1>6, <2>0
  <2> HIDE DEF pending, required
  <2>2. /\ x \in Plans
        /\ \A a \in Apps : pending[a] = 0 => \A j \in Ifaces : x[a][j] = 0
        /\ \A a \in Apps : Remaining(strategyType, pending, x, a) = 0
    <3>1. strategyType \in StrategyTypes
      BY StrategyAssumption DEF TypeOK
    <3> QED BY <1>3, <3>1, ComputePlansAreFull
  <2>3. \A i \in Ifaces : PacketsFor(x, i) = << >>
    BY <1>3, <2>2, PacketsForIsSeq
  <2>4. \A a \in Apps : app'[a].pendingpackets = 0 /\ app'[a].allPacketsGenerated
    <3>1. \A a \in Apps : updated[a] \in AppState /\ updated[a].allPacketsGenerated
      BY <1>1, <1>2 DEF TypeOK, getHasStoppedGeneratingData
    <3>2. \A ap \in AppState : ap.allPacketsGenerated =>
             /\ [ap EXCEPT !.pendingpackets = 0].pendingpackets = 0
             /\ [ap EXCEPT !.pendingpackets = 0].allPacketsGenerated
      BY DEF AppState
    <3>3. app' = [a \in Apps |-> [updated[a] EXCEPT !.pendingpackets = 0]]
      BY <2>1, <2>2, Zenon
    <3> QED BY <3>1, <3>2, <3>3, Zenon
  <2>5. \A i \in Ifaces : iface'[i].pendingpackets = << >>
    <3>1. SUFFICES ASSUME NEW i \in Ifaces PROVE iface'[i].pendingpackets = << >>
      OBVIOUS
    <3>2. /\ iface[i] \in IfaceState
          /\ iface[i].pendingpackets \o PacketsFor(x, i) = << >>
      BY <1>1, <2>3 DEF TypeOK
    <3>3. iface'[i] = [iface[i] EXCEPT !.pendingpackets = << >>]
      BY <2>1, <3>2, Zenon
    <3> QED BY <3>2, <3>3 DEF IfaceState
  <2> QED BY <2>4, <2>5
<1> QED
  BY <1>4, <1>5, <1>6 DEF ComputeNothing

\* The queues and the applications are all that getAllDataHasBeenSent reads.
LEMMA AllSentReads ==
    ASSUME TypeOK, UNCHANGED app,
           \A i \in Ifaces : iface'[i].pendingpackets = iface[i].pendingpackets
    PROVE  AllDataHasBeenSent' = AllDataHasBeenSent
  BY Zenon DEF AllDataHasBeenSent, getAllDataHasBeenSent, getHasAnyAvailablePackage,
     getHasStoppedGeneratingData

\* No step of a started run undoes getAllDataHasBeenSent.
LEMMA AllSentStep ==
    ASSUME IInv, [Next]_vars, started, AllDataHasBeenSent
    PROVE  AllDataHasBeenSent'
<1>1. TypeOK
  BY DEF IInv
<1>2. CASE ComputeEvent
  <2> DEFINE t == IF now < MaxNow THEN now + 1 ELSE now
  <2>1. t \in Nat
    BY <1>1 DEF TypeOK
  <2>2. ComputeAndContinue(app, t)
    BY <1>2 DEF ComputeEvent, ComputeStrategyAndContinue
  <2> HIDE DEF t
  <2> QED BY <1>1, <2>1, <2>2, ComputeKeepsAllSent
<1>3. ASSUME NEW i \in Ifaces, SendEvent(i) PROVE UNCHANGED <<app, iface>>
  BY <1>3 DEF SendEvent, SendPacket, SendLoopEnds
<1>4. ASSUME NEW i \in Ifaces, ConnectEvent(i)
      PROVE  /\ UNCHANGED app
             /\ \A j \in Ifaces : iface'[j].pendingpackets = iface[j].pendingpackets
  <2>1. UNCHANGED app /\ iface' = [iface EXCEPT ![i].connected = TRUE]
    BY <1>4 DEF ConnectEvent, ConnectionSucceeded
  <2>2. SUFFICES ASSUME NEW j \in Ifaces
                 PROVE  iface'[j].pendingpackets = iface[j].pendingpackets
    BY <2>1
  <2>3. iface[j] \in IfaceState /\ iface \in [Ifaces -> IfaceState]
    BY <1>1 DEF TypeOK
  <2>4. iface'[j] = iface[j] \/ iface'[j] = [iface[j] EXCEPT !.connected = TRUE]
    BY <2>1, <2>3, Zenon
  <2> QED BY <2>3, <2>4 DEF IfaceState
<1>5. ASSUME NEW i \in Ifaces, ReceiveEvent(i) \/ TcpEvent(i)
      PROVE  UNCHANGED <<app, iface>>
  BY <1>5 DEF ReceiveEvent, TcpEvent, TcpStep, senderVars
<1>6. CASE StartReceiver \/ UNCHANGED vars
  <2>1. UNCHANGED <<app, iface>>
    BY <1>6 DEF StartReceiver, vars, senderVars
  <2> QED BY <1>1, <2>1, AllSentReads
<1>7. ~StartSender
  BY DEF StartSender, SenderStartApplication
<1> QED
  BY <1>1, <1>2, <1>3, <1>4, <1>5, <1>6, <1>7, AllSentReads DEF Next

\* getAllDataHasBeenSent, once true after the start, is never false again: the
\* loops that stopped on it are not needed any more.
THEOREM AllSentStable == Spec => AllSentIsStable
<1>1. IInv /\ [Next]_vars => [(started /\ AllDataHasBeenSent) => AllDataHasBeenSent']_vars
  BY AllSentStep
<1> QED
  BY <1>1, Invariance, PTL DEF Spec, AllSentIsStable

\* While a packet waits anywhere, every loop of the sender is scheduled, in every
\* interleaving of the compute and the send events and with every strategy.
THEOREM NothingStranded == Spec => []NoStrandedPackets
<1>1. Init => NoStrandedPackets
  BY DEF Init, SenderInit, NoStrandedPackets
<1>2. ASSUME IInv, NoStrandedPackets, [Next]_vars PROVE NoStrandedPackets'
  <2> DEFINE Running == computeScheduled /\ \A i \in Ifaces : sendScheduled[i]
  <2>1. SUFFICES ASSUME started', aborted' = "no", ~AllDataHasBeenSent'
                 PROVE  Running'
    BY Zenon DEF NoStrandedPackets
  <2>2. ASSUME ComputeAndContinue(app, IF now < MaxNow THEN now + 1 ELSE now)
        PROVE  computeScheduled'
    BY <2>1, <2>2 DEF ComputeAndContinue, AllDataHasBeenSent
  <2>3. CASE StartSender
    <3>1. /\ \A i \in Ifaces : sendScheduled'[i]
          /\ computeScheduled' = (aborted' = "no" /\ ~getAllDataHasBeenSent(app', iface'))
      BY <2>3 DEF StartSender, SenderStartApplication, ComputeAndContinue
    <3>2. ~getAllDataHasBeenSent(app', iface')
      BY <2>1 DEF AllDataHasBeenSent
    <3> QED BY <2>1, <3>1, <3>2
  <2>4. ASSUME ~StartSender PROVE started /\ ~AllDataHasBeenSent /\ Running
    <3>1. UNCHANGED started
      BY <1>2, <2>4 DEF Next, StartReceiver, ComputeEvent, ComputeStrategyAndContinue,
         SendEvent, SendPacket, ConnectEvent, ConnectionSucceeded, ReceiveEvent, TcpEvent,
         TcpStep, vars, senderVars
    <3>2. aborted = "no"
      BY <1>2, <2>1 DEF Next, vars, senderVars
    <3>3. started /\ ~AllDataHasBeenSent
      BY <1>2, <2>1, <3>1, AllSentStep
    <3> QED BY <1>2, <3>2, <3>3 DEF NoStrandedPackets
  <2>5. ASSUME ~StartSender, ComputeEvent PROVE Running'
    <3>1. computeScheduled' /\ UNCHANGED sendScheduled
      BY <2>2, <2>5 DEF ComputeEvent, ComputeStrategyAndContinue
    <3> QED BY <2>4, <2>5, <3>1
  <2>6. ASSUME ~StartSender, NEW i \in Ifaces, SendEvent(i) PROVE Running'
    <3>1. UNCHANGED computeScheduled /\ UNCHANGED sendScheduled
      BY <2>4, <2>6 DEF SendEvent, SendPacket, SendLoopEnds, SendData, SendLater,
         SendCorrupt, SendCorrect
    <3> QED BY <2>4, <2>6, <3>1
  <2>7. ASSUME ~StartSender, NEW i \in Ifaces,
               ConnectEvent(i) \/ ReceiveEvent(i) \/ TcpEvent(i)
        PROVE  Running'
    <3>1. UNCHANGED computeScheduled /\ UNCHANGED sendScheduled
      BY <2>7 DEF ConnectEvent, ConnectionSucceeded, ReceiveEvent, TcpEvent, TcpStep,
         senderVars
    <3> QED BY <2>4, <2>7, <3>1
  <2>8. ASSUME ~StartSender, StartReceiver \/ UNCHANGED vars PROVE Running'
    <3>1. UNCHANGED computeScheduled /\ UNCHANGED sendScheduled
      BY <2>8 DEF StartReceiver, vars, senderVars
    <3> QED BY <2>4, <2>8, <3>1
  <2> QED
    BY <1>2, <2>3, <2>5, <2>6, <2>7, <2>8 DEF Next
<1> QED
  BY <1>1, <1>2, Invariance, PTL DEF Spec

-----------------------------------------------------------------------------
(* Failing connections *)

\* The fatal error of SendData needs a connection that was closed before it was
\* established: neither a full TX buffer nor a dropped connection causes it.
THEOREM FatalSend == Spec => []FatalSendOnlyIfClosed
<1>1. Init => FatalSendOnlyIfClosed
  BY DEF Init, SenderInit, FatalSendOnlyIfClosed
<1>2. ASSUME IInv, FatalSendOnlyIfClosed, [Next]_vars PROVE FatalSendOnlyIfClosed'
  <2>1. SUFFICES ASSUME aborted' = "send"
                 PROVE  \E i \in Ifaces : sock'[i].m_state = "CLOSED"
    BY DEF FatalSendOnlyIfClosed
  <2>2. CASE UNCHANGED vars
    BY <1>2, <2>1, <2>2 DEF FatalSendOnlyIfClosed, vars, senderVars
  <2>3. CASE Next
    <3>1. PICK i \in Ifaces : SendEvent(i)
      <4>1. aborted = "no"
        BY <2>3 DEF Next
      <4>2. ~StartSender /\ ~ComputeEvent
        BY <2>1, <4>1 DEF StartSender, SenderStartApplication, ComputeEvent,
           ComputeStrategyAndContinue, ComputeAndContinue, ComputeNothing, Compute
      <4>3. ~StartReceiver
        BY <2>1, <4>1 DEF StartReceiver, senderVars
      <4>4. \A i \in Ifaces : ~ConnectEvent(i) /\ ~ReceiveEvent(i) /\ ~TcpEvent(i)
        BY <2>1, <4>1 DEF ConnectEvent, ConnectionSucceeded, ReceiveEvent, TcpEvent,
           TcpStep, senderVars
      <4> QED BY <2>3, <4>2, <4>3, <4>4 DEF Next
    <3>2. SendCorrect(i) /\ ~SendAccepts(sock[i]) /\ UNCHANGED sock
      BY <2>1, <2>3, <3>1 DEF Next, SendEvent, SendPacket, SendLoopEnds, SendData,
         SendLater, SendCorrupt, SendCorrect
    <3>3. sock[i] \in SockState
      BY <1>2 DEF IInv, TypeOK
    <3>4. GetTxAvailable(sock[i]) \in Int /\ PacketSizeByte \in Int
      BY <3>3, WrittenIsNat, StrategyAssumption, TcpAssumption DEF SockState, GetTxAvailable
    <3>5. sock[i].m_state = "CLOSED"
      BY <3>2, <3>3, <3>4 DEF SendCorrect, Poppable, SendAccepts, SockState
    <3> QED BY <3>2, <3>5
  <2> QED BY <1>2, <2>2, <2>3
<1> QED
  BY <1>1, <1>2, Invariance, PTL DEF Spec

\* A dead connection stays dead and transmits nothing, although Send accepts
\* packets for a connection whose end point was deallocated.
THEOREM DeadIsSilent == Spec => DeadConnectionIsSilent
<1> DEFINE Silent(j) == /\ Dead(sock'[j])
                        /\ sock'[j].highTxMark = sock[j].highTxMark
                        /\ sock'[j].head = sock[j].head
<1>1. ASSUME IInv, Next, started, NEW j \in Ifaces, Dead(sock[j])
      PROVE  Silent(j)
  <2>1. sock \in [Ifaces -> SockState] /\ sock[j] \in SockState
    BY <1>1 DEF IInv, TypeOK
  <2>2. CASE UNCHANGED sock
    BY <1>1, <2>2
  <2>3. ASSUME NEW i \in Ifaces, NEW u, sock' = [sock EXCEPT ![i] = u],
               i = j => /\ u.m_state = sock[j].m_state /\ u.endPoint = sock[j].endPoint
                        /\ u.highTxMark = sock[j].highTxMark /\ u.head = sock[j].head
        PROVE  Silent(j)
    BY <1>1, <2>1, <2>3 DEF Dead
  <2>4. ASSUME NEW i \in Ifaces, SendEvent(i), ~UNCHANGED sock PROVE Silent(j)
    <3>1. sock' = [sock EXCEPT ![i] = Send(sock[i], Head(iface[i].pendingpackets))]
      BY <2>4, Zenon DEF SendEvent, SendPacket, SendLoopEnds, SendData, SendLater,
         SendCorrupt, SendCorrect
    <3> DEFINE u == Send(sock[i], Head(iface[i].pendingpackets))
    <3>2. i = j => /\ u.m_state = sock[j].m_state /\ u.endPoint = sock[j].endPoint
                   /\ u.highTxMark = sock[j].highTxMark /\ u.head = sock[j].head
      BY <2>1 DEF Send, SockState
    <3> HIDE DEF u
    <3> QED BY <2>3, <3>1, <3>2 DEF u
  <2>5. ASSUME NEW i \in Ifaces, ReceiveEvent(i) PROVE Silent(j)
    <3>1. PICK next \in (sock[i].nextRx + 1)..sock[i].highTxMark :
             sock' = [sock EXCEPT ![i] = AfterRead([sock[i] EXCEPT !.nextRx = next])]
      BY <2>5 DEF ReceiveEvent, ReceivedData, HandleRead
    <3> DEFINE v == [sock[i] EXCEPT !.nextRx = next]
               u == AfterRead(v)
    <3>2. /\ v \in SockState
          /\ v.m_state = sock[i].m_state /\ v.endPoint = sock[i].endPoint
          /\ v.highTxMark = sock[i].highTxMark /\ v.head = sock[i].head
      <4>1. sock[i] \in SockState
        BY <2>1
      <4>2. next \in Nat
        BY <4>1 DEF SockState
      <4> QED BY <4>1, <4>2 DEF SockState
    <3> HIDE DEF v
    <3>3. /\ u.m_state = v.m_state /\ u.endPoint = v.endPoint
          /\ u.highTxMark = v.highTxMark /\ u.head = v.head
      BY <3>2 DEF AfterRead, SockState
    <3>4. sock' = [sock EXCEPT ![i] = u]
      BY <3>1 DEF v
    <3> HIDE DEF u
    <3> QED BY <2>3, <3>2, <3>3, <3>4
  <2>6. ASSUME NEW i \in Ifaces, TcpEvent(i) PROVE Silent(j)
    <3>1. CASE i = j
      BY <1>1, <2>6, <3>1 DEF TcpEvent, TcpStep, SynTimeout, HandshakeCompleted,
         SendPendingData, ReTxTimeout, NewAck, Dead
    <3>2. CASE i # j
      <4>1. PICK u : sock' = [sock EXCEPT ![i] = u]
        BY <2>6, Zenon DEF TcpEvent, TcpStep, SynTimeout, HandshakeCompleted,
           SendPendingData, ReTxTimeout, NewAck
      <4> QED BY <2>3, <3>2, <4>1
    <3> QED BY <3>1, <3>2
  <2>7. ASSUME NEW i \in Ifaces, ConnectEvent(i) PROVE UNCHANGED sock
    BY <2>7 DEF ConnectEvent, ConnectionSucceeded
  <2>8. CASE StartReceiver \/ ComputeEvent
    <3>1. UNCHANGED sock
      BY <2>8 DEF StartReceiver, ComputeEvent, ComputeStrategyAndContinue
    <3> QED BY <2>2, <3>1
  <2>9. ~StartSender
    BY <1>1 DEF StartSender, SenderStartApplication
  <2> QED
    BY <1>1, <2>2, <2>4, <2>5, <2>6, <2>7, <2>8, <2>9 DEF Next
<1>2. IInv /\ [Next]_vars =>
         [\A i \in Ifaces :
             (started /\ Dead(sock[i])) => /\ Dead(sock'[i])
                                           /\ sock'[i].highTxMark = sock[i].highTxMark
                                           /\ sock'[i].head = sock[i].head]_vars
  BY <1>1
<1> QED
  BY <1>2, Invariance, PTL DEF Spec, DeadConnectionIsSilent

-----------------------------------------------------------------------------
(* Refinement *)

\* What a connection carries is not changed by its timers, transmissions and
\* acknowledgements: only Send adds a packet.
LEMMA TcpKeepsData ==
    ASSUME sock \in [Ifaces -> SockState], NEW i \in Ifaces, TcpStep(i), NEW j \in Ifaces
    PROVE  sock'[j].data = sock[j].data
<1>1. sock[i] \in SockState /\ sock[j] \in SockState
  OBVIOUS
<1>2. CASE SynTimeout(i)
  <2> DEFINE w == [sock[i] EXCEPT !.m_state = "CLOSED"]
  <2>1. w \in SockState /\ w.data = sock[i].data
    BY <1>1 DEF SockState
  <2> HIDE DEF w
  <2>2. [w EXCEPT !.endPoint = FALSE].data = w.data
    BY <2>1 DEF SockState
  <2>3. [sock[i] EXCEPT !.m_synCount = @ - 1].data = sock[i].data
    BY <1>1 DEF SockState
  <2>4. \/ sock' = [sock EXCEPT ![i] = [w EXCEPT !.endPoint = FALSE]]
        \/ sock' = [sock EXCEPT ![i] = [sock[i] EXCEPT !.m_synCount = @ - 1]]
    BY <1>2, Zenon DEF SynTimeout, w
  <2> QED BY <2>1, <2>2, <2>3, <2>4, Zenon
<1>3. CASE HandshakeCompleted(i)
  BY <1>1, <1>3 DEF HandshakeCompleted, SockState
<1>4. CASE SendPendingData(i)
  BY <1>1, <1>4 DEF SendPendingData, SockState
<1>5. CASE ReTxTimeout(i)
  <2>1. /\ [sock[i] EXCEPT !.endPoint = FALSE].data = sock[i].data
        /\ [sock[i] EXCEPT !.m_dataRetrCount = @ - 1].data = sock[i].data
    BY <1>1 DEF SockState
  <2>2. \/ sock' = [sock EXCEPT ![i] = [sock[i] EXCEPT !.endPoint = FALSE]]
        \/ sock' = [sock EXCEPT ![i] = [sock[i] EXCEPT !.m_dataRetrCount = @ - 1]]
    BY <1>5, Zenon DEF ReTxTimeout
  <2> QED BY <2>1, <2>2, Zenon
<1>6. CASE NewAck(i)
  BY <1>1, <1>6 DEF NewAck, SockState
<1> QED
  BY <1>2, <1>3, <1>4, <1>5, <1>6 DEF TcpStep

\* Every connection is a FIFO channel of packets: the run implements
\* DeliveryService, with the packets accepted by Send as what is written and
\* the lists of the sink as what is recorded.
THEOREM Refinement == Spec => DeliverySpec
<1> DEFINE written == [i \in Ifaces |-> sock[i].data]
<1>1. Init => Delivery!Init
  BY DEF Init, ReceiverInit, NewSocket, EmptySocket, Delivery!Init
<1>2. ASSUME IInv, Next PROVE [Delivery!Next]_(Delivery!dsVars)
  <2>1. /\ sock \in [Ifaces -> SockState]
        /\ receivedPacketInfo \in [Ifaces -> Seq(Apps)]
        /\ \A i \in Ifaces : StreamInv(sock[i], receivedPacketInfo[i])
    BY <1>2 DEF IInv, TypeOK, Streams
  <2>2. ASSUME UNCHANGED receivedPacketInfo, \A i \in Ifaces : sock'[i].data = sock[i].data
        PROVE  UNCHANGED Delivery!dsVars
    BY <2>2 DEF Delivery!dsVars
  <2>3. CASE StartSender
    <3>1. /\ \A i \in Ifaces : sock[i].data = << >> /\ sock'[i].data = << >>
          /\ UNCHANGED receivedPacketInfo
      BY <1>2, <2>3 DEF IInv, BeforeStart, NewSocket, EmptySocket, StartSender,
         SenderStartApplication, Connected, receiverVars
    <3> QED BY <2>2, <3>1
  <2>4. CASE StartReceiver \/ ComputeEvent \/ \E i \in Ifaces : ConnectEvent(i)
    <3>1. UNCHANGED <<sock, receivedPacketInfo>>
      BY <2>4 DEF StartReceiver, ComputeEvent, ComputeStrategyAndContinue, ConnectEvent,
         ConnectionSucceeded, receiverVars
    <3> QED BY <2>2, <3>1
  <2>5. ASSUME NEW i \in Ifaces, TcpEvent(i) PROVE UNCHANGED Delivery!dsVars
    <3>1. UNCHANGED receivedPacketInfo
      BY <2>5 DEF TcpEvent, TcpStep, receiverVars
    <3>2. \A j \in Ifaces : sock'[j].data = sock[j].data
      BY <1>2, <2>5, TcpKeepsData DEF IInv, TypeOK, TcpEvent
    <3> QED BY <2>2, <3>1, <3>2
  <2>6. ASSUME NEW i \in Ifaces, SendEvent(i) PROVE [Delivery!Next]_(Delivery!dsVars)
    <3>1. UNCHANGED receivedPacketInfo
      BY <2>6 DEF SendEvent, receiverVars
    <3>2. CASE UNCHANGED sock
      BY <2>2, <3>1, <3>2
    <3>3. CASE ~UNCHANGED sock
      <4>1. /\ sock' = [sock EXCEPT ![i] = Send(sock[i], Head(iface[i].pendingpackets))]
            /\ Poppable(i)
        BY <2>6, <3>3, Zenon DEF SendEvent, SendPacket, SendLoopEnds, SendData, SendLater,
           SendCorrupt, SendCorrect
      <4>2. PICK f \in Apps : sock' = [sock EXCEPT ![i] = Send(sock[i], f)]
        BY <1>2, <4>1, PopPacket DEF IInv, TypeOK, Poppable
      <4>3. Send(sock[i], f).data = Append(sock[i].data, f)
        BY <2>1 DEF Send, SockState
      <4>4. written' = [written EXCEPT ![i] = Append(@, f)]
        BY <2>1, <4>2, <4>3
      <4>5. Delivery!Write(i, f)
        BY <3>1, <4>4 DEF Delivery!Write
      <4>6. Delivery!Next
        BY <4>5 DEF Delivery!Next
      <4> QED BY <4>6
    <3> QED BY <3>2, <3>3
  <2>7. ASSUME NEW i \in Ifaces, ReceiveEvent(i) PROVE Delivery!Next
    <3>1. PICK next \in (sock[i].nextRx + 1)..sock[i].highTxMark :
             HandleRead(i, [sock[i] EXCEPT !.nextRx = next])
      BY <2>7 DEF ReceiveEvent, ReceivedData
    <3> DEFINE v == [sock[i] EXCEPT !.nextRx = next]
               r == receivedPacketInfo[i]
               n == Len(r) + PacketsToRead(v)
    <3>2. /\ sock' = [sock EXCEPT ![i] = AfterRead(v)]
          /\ receivedPacketInfo' = [receivedPacketInfo EXCEPT ![i] = r \o FlowsRead(v)]
      BY <3>1, Zenon DEF HandleRead
    <3>3. /\ AfterRead(v).data = sock[i].data
          /\ PacketsToRead(v) \in Nat /\ n <= Len(sock[i].data)
          /\ r \o FlowsRead(v) = SubSeq(sock[i].data, 1, n)
      <4>1. sock[i] \in SockState /\ r \in Seq(Apps) /\ StreamInv(sock[i], r)
        BY <2>1
      <4> QED BY <4>1, ReadStream
    <3>4. n \in Len(r)..Len(sock[i].data)
      <4>1. Len(r) \in Nat /\ Len(sock[i].data) \in Nat
        BY <2>1 DEF SockState
      <4> HIDE DEF v, r
      <4> QED BY <3>3, <4>1
    <3> HIDE DEF v, n
    <3>5. written' = written
      BY <2>1, <3>2, <3>3
    <3>6. Delivery!Record(i, n)
      <4>1. receivedPacketInfo' = [receivedPacketInfo EXCEPT ![i] = SubSeq(written[i], 1, n)]
        BY <3>2, <3>3
      <4> QED BY <3>5, <4>1 DEF Delivery!Record
    <3>7. n \in Len(receivedPacketInfo[i])..Len(written[i])
      BY <3>4
    <3> QED BY <3>6, <3>7 DEF Delivery!Next
  <2> QED
    BY <1>2, <2>3, <2>4, <2>5, <2>6, <2>7 DEF Next
<1>3. UNCHANGED vars => UNCHANGED Delivery!dsVars
  BY DEF vars, receiverVars, Delivery!dsVars
<1>4. IInv /\ [Next]_vars => [Delivery!Next]_(Delivery!dsVars)
  BY <1>2, <1>3
<1> QED
  BY <1>1, <1>4, Invariance, PTL DEF Spec, DeliverySpec, Delivery!Spec

-----------------------------------------------------------------------------
(***************************************************************************)
(* The accounts of the packets.  A second inductive invariant, Ledger,     *)
(* relates the numbers that the applications, the strategy, the interfaces *)
(* and the sockets keep independently of one another.                      *)
(***************************************************************************)

\* An application has given the samples up to the next one and no others; a static
\* one has given all of them once it has started.
Sampled(ap, sv) ==
    IF Static
    THEN ap.allPacketsGenerated => ap.generatedPackets = Total(sv)
    ELSE /\ ap.currentSample <= SimulationDurationInSeconds
         /\ ap.allPacketsGenerated <=> (ap.currentSample = SimulationDurationInSeconds)
         /\ ap.generatedPackets
              = Total([s \in 0..(ap.currentSample - 1) |-> sv[s]])

SamplesGiven == \A a \in Apps : Sampled(app[a], sinValues[a])

\* StartApplication finds the applications as their constructors left them.
AppsBeforeStart == ~started => \A a \in Apps : app[a] = NewApplication

QueueOf(apps) == [a \in Apps |-> apps[a].pendingpackets]
GivenBy(apps) == [a \in Apps |-> apps[a].generatedPackets]

\* The strategy's total is what it has taken out of the queues.
TotalsMatch ==
    ~Static => strategyData.totalAmountOfPackets + Total(QueueOf(app))
                 = Total(GivenBy(app))

\* The csv is written when the compute loop ends, and not before.
ReportAtTheEnd ==
    /\ Static => reports = 0
    /\ (~Static /\ aborted = "no")
          => reports = IF started /\ ~computeScheduled THEN 1 ELSE 0

\* A program that aborts leaves a loop scheduled unless all has been sent.
StoppedByItself ==
    /\ aborted = "send" => \E i \in Ifaces : sendScheduled[i]
    /\ LoopsStopped => AllDataHasBeenSent

Ledger ==
    /\ SamplesGiven
    /\ AppsBeforeStart
    /\ PacketConservation
    /\ TotalsMatch
    /\ ReportAtTheEnd
    /\ StoppedByItself

-----------------------------------------------------------------------------
(* Samples *)

\* Giving one more sample adds it to the sum of those given.
LEMMA OneMoreSample ==
    ASSUME NEW sv \in SinValues, NEW c \in SampleIndexes
    PROVE  Total([s \in 0..c |-> sv[s]]) = Total([s \in 0..(c - 1) |-> sv[s]]) + sv[c]
<1> DEFINE f == [s \in 0..c |-> sv[s]]
           g == [s \in 0..(c - 1) |-> sv[s]]
<1>1. c \in Nat /\ 0..c \subseteq SampleIndexes
  BY DurationAssumption DEF SampleIndexes
<1>2. f \in [0..c -> Nat] /\ f[c] = sv[c] /\ c \in 0..c
  BY <1>1 DEF SinValues
<1>3. IsFiniteSet(0..c)
  BY <1>1, FS_Interval
<1>4. g = Without(f, c)
  <2>1. (0..c) \ {c} = 0..(c - 1)
    BY <1>1
  <2>2. Without(f, c) = [s \in (0..c) \ {c} |-> f[s]]
    BY DEF Without
  <2>3. \A s \in 0..(c - 1) : f[s] = sv[s]
    BY <1>1
  <2> HIDE DEF f
  <2> QED BY <2>1, <2>2, <2>3
<1> HIDE DEF f, g
<1>5. Total(f) = Total(g) + f[c]
  BY <1>2, <1>3, <1>4, TotalSplit
<1> QED
  BY <1>2, <1>5 DEF f, g

\* What a step of an application may do to its numbers: it gives whole samples,
\* each of them into its queue.
Balanced(before, after) ==
    after.generatedPackets + before.pendingpackets
        = before.generatedPackets + after.pendingpackets

\* enqueuePacketsForCurrentSample gives the next sample, unless there is none.
LEMMA SampleStep ==
    ASSUME ~Static, NEW ap \in AppState, NEW sv \in SinValues, Sampled(ap, sv)
    PROVE  /\ Sampled(enqueuePacketsForCurrentSample(ap, sv), sv)
           /\ Balanced(ap, enqueuePacketsForCurrentSample(ap, sv))
<1> DEFINE c  == ap.currentSample
           ap2 == enqueuePacketsForCurrentSample(ap, sv)
<1>1. CASE ap.allPacketsGenerated
  BY <1>1 DEF enqueuePacketsForCurrentSample, Balanced, AppState
<1>2. CASE ~ap.allPacketsGenerated
  <2>1. c \in SampleIndexes /\ c + 1 <= SimulationDurationInSeconds /\ c \in Nat
    BY <1>2, DurationAssumption DEF Sampled, SampleIndexes, AppState
  <2>2. sv[c] \in Nat /\ ap.generatedPackets \in Nat /\ ap.pendingpackets \in Nat
    BY <2>1 DEF SinValues, AppState
  <2>3. /\ ap2.pendingpackets = ap.pendingpackets + sv[c]
        /\ ap2.generatedPackets = ap.generatedPackets + sv[c]
        /\ ap2.currentSample = c + 1
        /\ ap2.allPacketsGenerated <=> (c + 1 = SimulationDurationInSeconds)
    BY <1>2 DEF enqueuePacketsForCurrentSample
  <2>4. ap.generatedPackets = Total([s \in 0..(c - 1) |-> sv[s]])
    BY DEF Sampled
  <2>5. Total([s \in 0..c |-> sv[s]]) = ap.generatedPackets + sv[c]
    BY <2>1, <2>4, OneMoreSample
  <2>6. (c + 1) - 1 = c
    BY <2>1
  <2> HIDE DEF c, ap2
  <2>7. Total([s \in 0..(ap2.currentSample - 1) |-> sv[s]]) = ap2.generatedPackets
    BY <2>3, <2>5, <2>6
  <2>8. Sampled(ap2, sv)
    BY <2>1, <2>3, <2>7 DEF Sampled
  <2>9. Balanced(ap, ap2)
    BY <2>2, <2>3 DEF Balanced
  <2> QED BY <2>8, <2>9 DEF ap2
<1> QED
  BY <1>1, <1>2

\* Starting an application and updating it keep its account.
LEMMA ApplicationAccounts ==
    ASSUME NEW ap \in AppState, NEW sv \in SinValues
    PROVE  /\ ap = NewApplication
                 => /\ Sampled(OnApplicationStart(Static, ap, sv), sv)
                    /\ Balanced(ap, OnApplicationStart(Static, ap, sv))
           /\ Sampled(ap, sv) => /\ Sampled(Update(Static, ap, sv), sv)
                                 /\ Balanced(ap, Update(Static, ap, sv))
<1>1. Balanced(ap, ap)
  BY DEF Balanced, AppState
<1>2. ASSUME Sampled(ap, sv)
      PROVE  Sampled(Update(Static, ap, sv), sv) /\ Balanced(ap, Update(Static, ap, sv))
  BY <1>1, <1>2, SampleStep DEF Update, OnUpdate
<1>3. ASSUME ap = NewApplication, ~Static
      PROVE  /\ Sampled(OnApplicationStart(Static, ap, sv), sv)
             /\ Balanced(ap, OnApplicationStart(Static, ap, sv))
  <2> DEFINE g == [s \in 0..(ap.currentSample - 1) |-> sv[s]]
  <2>1. /\ ap.currentSample = 0 /\ ap.generatedPackets = 0
        /\ ap.allPacketsGenerated = FALSE
    BY <1>3 DEF NewApplication
  <2>2. DOMAIN g = {}
    BY <2>1
  <2>3. Total(g) = 0
    <3> HIDE DEF g
    <3> QED BY <2>2, TotalEmpty
  <2>4. Sampled(ap, sv)
    BY <1>3, <2>1, <2>3, DurationAssumption DEF Sampled
  <2> QED BY <1>3, <2>4, SampleStep DEF OnApplicationStart
<1>4. ASSUME ap = NewApplication, Static
      PROVE  /\ Sampled(OnApplicationStart(Static, ap, sv), sv)
             /\ Balanced(ap, OnApplicationStart(Static, ap, sv))
  <2>1. IsFiniteSet(SampleIndexes)
    BY DurationAssumption, FS_Interval DEF SampleIndexes
  <2>2. Total(sv) \in Nat
    BY <2>1, TotalIsNat DEF SinValues
  <2> QED
    BY <1>4, <2>2 DEF OnApplicationStart, StaticOnApplicationStart, getTotalData, Sampled,
       Balanced, NewApplication
<1> QED
  BY <1>2, <1>3, <1>4

\* Steps that give whole samples into the queues keep the difference between what
\* was given and what waits.
LEMMA BalancedTotals ==
    ASSUME NEW before \in [Apps -> AppState], NEW after \in [Apps -> AppState],
           \A a \in Apps : Balanced(before[a], after[a])
    PROVE  /\ Total(GivenBy(after)) + Total(QueueOf(before))
                = Total(GivenBy(before)) + Total(QueueOf(after))
           /\ Total(GivenBy(after)) \in Nat /\ Total(QueueOf(after)) \in Nat
           /\ Total(GivenBy(before)) \in Nat /\ Total(QueueOf(before)) \in Nat
<1>1. /\ GivenBy(before) \in [Apps -> Nat] /\ QueueOf(before) \in [Apps -> Nat]
      /\ GivenBy(after) \in [Apps -> Nat] /\ QueueOf(after) \in [Apps -> Nat]
  BY DEF GivenBy, QueueOf, AppState
<1>2. Plus(GivenBy(after), QueueOf(before)) = Plus(GivenBy(before), QueueOf(after))
  BY DEF Plus, GivenBy, QueueOf, Balanced
<1> QED
  BY <1>1, <1>2, IndexSetsAreFinite, TotalSum, TotalIsNat

-----------------------------------------------------------------------------
(* Compute *)

\* Where the packets of an interface are once Compute has handed them out.
OnTheWay ==
    [i \in Ifaces |-> Len(iface[i].pendingpackets) + Len(sock[i].data)
                        + iface[i].corruptPackages]

\* The applications after the update that precedes every Compute.
Updated(apps) == [a \in Apps |-> Update(Static, apps[a], sinValues[a])]

\* The part of an application that Compute leaves alone.
SameSamples(ap, bp) ==
    /\ ap.generatedPackets = bp.generatedPackets
    /\ ap.currentSample = bp.currentSample
    /\ ap.allPacketsGenerated = bp.allPacketsGenerated

\* Compute moves packets from the queues of the applications to those of the
\* interfaces, adds them to the strategy's total and writes the csv when it is
\* the last one; without a plan it moves nothing.
LEMMA ComputeAccounts ==
    ASSUME TypeOK, NEW apps \in [Apps -> AppState], \A a \in Apps : SampleLeft(apps[a]),
           NEW t \in Nat, ComputeAndContinue(apps, t),
           UNCHANGED <<strategyType, sinValues>>,
           \A i \in Ifaces : sock'[i].data = sock[i].data
    PROVE  /\ Updated(apps) \in [Apps -> AppState]
           /\ \A a \in Apps : SameSamples(app'[a], Updated(apps)[a])
           /\ Total(QueueOf(app')) + Total(OnTheWay')
                = Total(QueueOf(Updated(apps))) + Total(OnTheWay)
           /\ ~Static => strategyData'.totalAmountOfPackets + Total(QueueOf(app'))
                           = strategyData.totalAmountOfPackets
                               + Total(QueueOf(Updated(apps)))
           /\ Static => UNCHANGED reports
           /\ (~Static /\ aborted = "no" /\ aborted' = "no")
                 => reports' = IF computeScheduled' THEN reports ELSE reports + 1
<1> DEFINE updated == Updated(apps)
           pending == [a \in Apps |-> updated[a].pendingpackets]
<1>1. updated \in [Apps -> AppState]
  <2>1. \A a \in Apps : sinValues[a] \in SinValues
    BY SenderAssumption DEF TypeOK
  <2> QED BY <2>1, ApplicationSteps DEF Updated
<1>2. pending = QueueOf(updated)
  BY DEF QueueOf
<1>3. pending \in Pending /\ Total(pending) \in Nat
  <2>1. pending \in [Apps -> Nat]
    BY <1>1 DEF AppState
  <2> HIDE DEF pending
  <2> QED BY <2>1, IndexSetsAreFinite, TotalIsNat DEF Pending
<1>4. /\ ComputeNothing(updated) \/ Compute(updated, t)
      /\ computeScheduled' = (aborted' = "no" /\ ~getAllDataHasBeenSent(app', iface'))
  BY DEF ComputeAndContinue, Updated
<1>5. OnTheWay \in [Ifaces -> Nat] /\ Total(OnTheWay) \in Nat
  <2>1. OnTheWay \in [Ifaces -> Nat]
    <3>1. ASSUME NEW i \in Ifaces
          PROVE  Len(iface[i].pendingpackets) + Len(sock[i].data)
                        + iface[i].corruptPackages \in Nat
      <4>1. /\ iface[i].pendingpackets \in Seq(Apps) /\ sock[i].data \in Seq(Apps)
            /\ iface[i].corruptPackages \in Nat
        BY DEF TypeOK, IfaceState, SockState
      <4>2. Len(iface[i].pendingpackets) \in Nat /\ Len(sock[i].data) \in Nat
        BY <4>1, LenProperties
      <4>3. \A k, m, n \in Nat : k + m + n \in Nat
        OBVIOUS
      <4> QED BY <4>1, <4>2, <4>3
    <3> QED BY <3>1 DEF OnTheWay
  <2> QED BY <2>1, IndexSetsAreFinite, TotalIsNat
<1>6. strategyData.totalAmountOfPackets \in Nat /\ reports \in Nat
  BY DEF TypeOK
<1> HIDE DEF updated
<1>7. CASE /\ app' = updated
           /\ UNCHANGED <<iface, strategyData, reports>>
           /\ Static \/ aborted' # "no"
  <2> HIDE DEF pending
  <2>1. \A a \in Apps : SameSamples(app'[a], updated[a])
    BY <1>7 DEF SameSamples
  <2>2. OnTheWay' = OnTheWay
    BY <1>7 DEF OnTheWay
  <2>3. QueueOf(app') = pending
    BY <1>2, <1>7
  <2> QED BY <1>1, <1>2, <1>7, <2>1, <2>2, <2>3 DEF updated
<1>8. CASE Compute(updated, t) /\ ~(/\ app' = updated
                                    /\ UNCHANGED <<iface, strategyData, reports>>
                                    /\ Static \/ aborted' # "no")
  <2> DEFINE required == [a \in Apps |-> getRequiredPacketRate(sinValues[a])]
             plans    == ComputePlans(strategyType, pending, required, iface, 1000 * t)
             Follows(x) ==
               /\ app' = [a \in Apps |-> [updated[a] EXCEPT
                            !.pendingpackets = Remaining(strategyType, pending, x, a)]]
               /\ iface' = [i \in Ifaces |->
                              [iface[i] EXCEPT !.pendingpackets = @ \o PacketsFor(x, i)]]
               /\ AddDataPoint(pending, x)
               /\ hasBeenComputed' = (strategyType = "LINEAR")
               /\ UNCHANGED aborted
             Infeasible ==
               /\ plans = {}
               /\ aborted' = "infeasible"
               /\ app' = updated
               /\ UNCHANGED <<iface, strategyData, hasBeenComputed, reports>>
  <2>0. (\E x \in plans : Follows(x)) \/ Infeasible
    BY <1>8 DEF Compute
  <2>1. PICK x \in plans : Follows(x)
    <3>1. ~Infeasible
      BY <1>8
    <3> HIDE DEF Follows, plans, Infeasible
    <3> QED BY <2>0, <3>1
  <2> HIDE DEF required, pending
  <2>2. /\ x \in Plans
        /\ \A a \in Apps : Total(x[a]) = pending[a]
        /\ \A a \in Apps : Remaining(strategyType, pending, x, a) = 0
    <3>1. strategyType \in StrategyTypes
      BY StrategyAssumption DEF TypeOK
    <3> QED BY <1>3, <3>1, ComputePlansAreFull
  <2>3. app' = [a \in Apps |-> [updated[a] EXCEPT !.pendingpackets = 0]]
    BY <2>1, <2>2, Zenon
  <2>4. \A a \in Apps : app'[a].pendingpackets = 0 /\ SameSamples(app'[a], updated[a])
    <3>1. \A ap \in AppState : /\ [ap EXCEPT !.pendingpackets = 0].pendingpackets = 0
                               /\ SameSamples([ap EXCEPT !.pendingpackets = 0], ap)
      BY DEF AppState, SameSamples
    <3> QED BY <1>1, <2>3, <3>1
  <2>5. Total(QueueOf(app')) = 0
    <3> DEFINE q == QueueOf(app')
    <3>1. q \in [Apps -> Nat] /\ \A a \in Apps : q[a] = 0
      BY <2>4 DEF QueueOf
    <3> HIDE DEF q
    <3> QED BY <3>1, IndexSetsAreFinite, TotalZero DEF q
  <2>6. Total(OnTheWay') = Total(OnTheWay) + Total(pending)
    <3> DEFINE parts == [i \in Ifaces |-> Len(PacketsFor(x, i))]
    <3>1. parts \in [Ifaces -> Nat] /\ Total(parts) = Total(pending)
      <4>1. \A i \in Ifaces : Len(PacketsFor(x, i)) \in Nat
        <5>1. \A i \in Ifaces : PacketsFor(x, i) \in Seq(Apps)
          BY <2>2, PacketsForIsSeq
        <5> QED BY <5>1, LenProperties
      <4> QED BY <1>3, <2>2, <4>1, PlanIsHandedOut
    <3>2. ASSUME NEW i \in Ifaces
          PROVE  OnTheWay'[i] = OnTheWay[i] + parts[i]
      <4> DEFINE p == iface[i].pendingpackets
                 q == PacketsFor(x, i)
      <4>1. /\ p \in Seq(Apps) /\ q \in Seq(Apps)
            /\ iface[i].corruptPackages \in Nat /\ sock[i].data \in Seq(Apps)
        BY <2>2, PacketsForIsSeq DEF TypeOK, IfaceState, SockState
      <4>2. Len(p \o q) = Len(p) + Len(q) /\ Len(p) \in Nat /\ Len(q) \in Nat
        BY <4>1, ConcatProperties, LenProperties
      <4>3. /\ iface'[i].pendingpackets = p \o q
            /\ iface'[i].corruptPackages = iface[i].corruptPackages
        <5>1. iface'[i] = [iface[i] EXCEPT !.pendingpackets = p \o q]
          BY <2>1, Zenon
        <5>2. iface[i] \in IfaceState
          BY DEF TypeOK
        <5> HIDE DEF p, q
        <5> QED BY <5>1, <5>2 DEF IfaceState
      <4>4. Len(sock[i].data) \in Nat
        BY <4>1
      <4>5. /\ OnTheWay[i] = Len(p) + Len(sock[i].data) + iface[i].corruptPackages
            /\ OnTheWay'[i] = Len(p \o q) + Len(sock[i].data) + iface[i].corruptPackages
            /\ parts[i] = Len(q)
        <5>1. OnTheWay'[i] = Len(iface'[i].pendingpackets) + Len(sock'[i].data)
                               + iface'[i].corruptPackages
          BY DEF OnTheWay
        <5>2. OnTheWay'[i] = Len(p \o q) + Len(sock[i].data) + iface[i].corruptPackages
          BY <4>3, <5>1
        <5>3. OnTheWay[i] = Len(p) + Len(sock[i].data) + iface[i].corruptPackages
          BY DEF OnTheWay
        <5>4. parts[i] = Len(q)
          OBVIOUS
        <5> QED BY <5>2, <5>3, <5>4
      <4> HIDE DEF p, q, parts
      <4> DEFINE old == OnTheWay[i]
                 new == OnTheWay'[i]
                 part == parts[i]
                 k == Len(p)
                 l == Len(sock[i].data)
                 m == iface[i].corruptPackages
                 n == Len(q)
      <4>6. k \in Nat /\ l \in Nat /\ m \in Nat /\ n \in Nat
        BY <4>1, <4>2, <4>4
      <4>7. old = k + l + m /\ new = (k + n) + l + m /\ part = n
        BY <4>2, <4>5
      <4> HIDE DEF old, new, part, k, l, m, n
      <4>8. new = old + part
        BY <4>6, <4>7
      <4> QED BY <4>8 DEF new, old, part
    <3>3. OnTheWay' = Plus(OnTheWay, parts)
      <4>1. OnTheWay' = [i \in Ifaces |-> OnTheWay'[i]]
        BY DEF OnTheWay
      <4>2. DOMAIN OnTheWay = Ifaces
        BY DEF OnTheWay
      <4> HIDE DEF parts
      <4> QED BY <3>2, <4>1, <4>2, Zenon DEF Plus
    <3> HIDE DEF parts
    <3> QED BY <1>5, <3>1, <3>3, IndexSetsAreFinite, TotalSum
  <2>7. ~Static => strategyData'.totalAmountOfPackets
                     = strategyData.totalAmountOfPackets + Total(pending)
    BY <2>1 DEF AddDataPoint, Static
  <2>8. Static => UNCHANGED reports
    BY <2>1 DEF AddDataPoint, Static
  <2>9. (~Static /\ aborted = "no" /\ aborted' = "no")
           => reports' = IF computeScheduled' THEN reports ELSE reports + 1
    <3>1. ~Static => reports' = IF getAllDataHasBeenSent(app', iface') THEN reports + 1
                                ELSE reports
      BY <2>1 DEF AddDataPoint, Static
    <3> QED BY <1>4, <3>1
  <2> HIDE DEF plans, Follows
  <2>10. Total(QueueOf(app')) + Total(OnTheWay') = Total(pending) + Total(OnTheWay)
    BY <1>3, <1>5, <2>5, <2>6
  <2>11. ~Static => strategyData'.totalAmountOfPackets + Total(QueueOf(app'))
                      = strategyData.totalAmountOfPackets + Total(pending)
    BY <1>3, <1>6, <2>5, <2>7
  <2> QED BY <1>1, <1>2, <2>4, <2>8, <2>9, <2>10, <2>11 DEF updated
<1>9. CASE ComputeNothing(updated)
  <2>1. /\ app' = updated /\ UNCHANGED <<iface, strategyData, reports>> /\ Static
    BY <1>9 DEF ComputeNothing, Static
  <2> QED BY <1>7, <2>1
<1> QED
  BY <1>4, <1>7, <1>8, <1>9

\* The accounts that every event has to balance.
Books ==
    /\ SamplesGiven
    /\ AppsBeforeStart
    /\ PacketConservation
    /\ TotalsMatch
    /\ ReportAtTheEnd

\* The event of a Compute, the first one or a later one, keeps the accounts.
LEMMA ComputeBooks ==
    ASSUME TypeOK, TypeOK', Books, aborted = "no", started',
           ~Static => reports = 0,
           NEW apps \in [Apps -> AppState],
           \A a \in Apps : SampleLeft(apps[a]),
           \A a \in Apps : Balanced(app[a], apps[a]),
           \A a \in Apps : Sampled(apps[a], sinValues[a]),
           NEW t \in Nat, ComputeAndContinue(apps, t),
           UNCHANGED <<strategyType, sinValues>>,
           \A i \in Ifaces : sock'[i].data = sock[i].data
    PROVE  Books'
<1> DEFINE u == Updated(apps)
<1>1. u \in [Apps -> AppState] /\ app \in [Apps -> AppState] /\ app' \in [Apps -> AppState]
  BY ComputeAccounts DEF TypeOK
<1>2. \A a \in Apps : SameSamples(app'[a], u[a])
  BY ComputeAccounts
<1>3. \A a \in Apps : Balanced(apps[a], u[a]) /\ Sampled(u[a], sinValues[a])
  <2>1. \A a \in Apps : sinValues[a] \in SinValues
    BY SenderAssumption DEF TypeOK
  <2> QED BY <2>1, ApplicationAccounts DEF Updated
<1>4. Static' = Static
  BY DEF Static
<1>5. SamplesGiven'
  <2>1. ASSUME NEW a \in Apps PROVE Sampled(app[a], sinValues[a])'
    BY <1>2, <1>3, <1>4 DEF Sampled, SameSamples
  <2> QED BY <2>1 DEF SamplesGiven
<1>6. AppsBeforeStart'
  BY DEF AppsBeforeStart
<1> DEFINE O  == Total(OnTheWay)
           O2 == Total(OnTheWay')
           Q0 == Total(QueueOf(app))
           Q1 == Total(QueueOf(apps))
           Q2 == Total(QueueOf(u))
           Q3 == Total(QueueOf(app'))
           G0 == Total(GivenBy(app))
           G1 == Total(GivenBy(apps))
           G2 == Total(GivenBy(u))
           G3 == Total(GivenBy(app'))
           S  == strategyData.totalAmountOfPackets
           S2 == strategyData'.totalAmountOfPackets
<1>7. Q3 + O2 = Q2 + O /\ (~Static => S2 + Q3 = S + Q2)
  BY ComputeAccounts
<1>8. G3 = G2
  <2>1. GivenBy(app') = GivenBy(u)
    BY <1>2 DEF GivenBy, SameSamples
  <2> QED BY <2>1
<1>9. /\ G1 + Q0 = G0 + Q1
      /\ G0 \in Nat /\ G1 \in Nat /\ Q0 \in Nat /\ Q1 \in Nat
  BY <1>1, BalancedTotals
<1>10. /\ G2 + Q1 = G1 + Q2
       /\ G2 \in Nat /\ Q2 \in Nat
  <2> HIDE DEF u
  <2> QED BY <1>1, <1>3, BalancedTotals
<1>11. Q3 \in Nat
  <2>1. \A a \in Apps : Balanced(app'[a], app'[a])
    BY <1>1 DEF Balanced, AppState
  <2> QED BY <1>1, <2>1, BalancedTotals
<1>12. O \in Nat /\ O2 \in Nat
  <2>1. ASSUME NEW i \in Ifaces
        PROVE  OnTheWay[i] \in Nat /\ OnTheWay'[i] \in Nat
    <3>1. /\ iface[i].pendingpackets \in Seq(Apps) /\ sock[i].data \in Seq(Apps)
          /\ iface[i].corruptPackages \in Nat
          /\ iface'[i].pendingpackets \in Seq(Apps) /\ sock'[i].data \in Seq(Apps)
          /\ iface'[i].corruptPackages \in Nat
      BY DEF TypeOK, IfaceState, SockState
    <3>2. /\ Len(iface[i].pendingpackets) \in Nat /\ Len(sock[i].data) \in Nat
          /\ Len(iface'[i].pendingpackets) \in Nat /\ Len(sock'[i].data) \in Nat
      BY <3>1, LenProperties
    <3>3. \A k, m, n \in Nat : k + m + n \in Nat
      OBVIOUS
    <3>4. /\ OnTheWay[i] = Len(iface[i].pendingpackets) + Len(sock[i].data)
                             + iface[i].corruptPackages
          /\ OnTheWay'[i] = Len(iface'[i].pendingpackets) + Len(sock'[i].data)
                             + iface'[i].corruptPackages
      BY DEF OnTheWay
    <3> DEFINE n1 == OnTheWay[i]
               n2 == OnTheWay'[i]
               l1 == Len(iface[i].pendingpackets)
               l2 == Len(iface'[i].pendingpackets)
               d1 == Len(sock[i].data)
               d2 == Len(sock'[i].data)
               c1 == iface[i].corruptPackages
               c2 == iface'[i].corruptPackages
    <3>5. n1 = l1 + d1 + c1 /\ n2 = l2 + d2 + c2
      BY <3>4
    <3>6. /\ l1 \in Nat /\ d1 \in Nat /\ c1 \in Nat
          /\ l2 \in Nat /\ d2 \in Nat /\ c2 \in Nat
      BY <3>1, <3>2
    <3> HIDE DEF n1, n2, l1, l2, d1, d2, c1, c2
    <3>7. n1 \in Nat /\ n2 \in Nat
      BY <3>3, <3>5, <3>6
    <3> QED BY <3>7 DEF n1, n2
  <2>2. OnTheWay = [i \in Ifaces |-> OnTheWay[i]] /\ OnTheWay' = [i \in Ifaces |-> OnTheWay'[i]]
    BY DEF OnTheWay
  <2>3. OnTheWay \in [Ifaces -> Nat] /\ OnTheWay' \in [Ifaces -> Nat]
    BY <2>1, <2>2
  <2> QED BY <2>3, IndexSetsAreFinite, TotalIsNat
<1>13. G0 = Q0 + O
  BY DEF Books, PacketConservation, GivenBy, QueueOf, OnTheWay
<1>14. ~Static => S + Q0 = G0
  BY DEF Books, TotalsMatch
<1>15. S \in Nat /\ S2 \in Nat
  BY DEF TypeOK
<1>16. PacketConservation'
  <2>1. G3 = Q3 + O2
    <3> HIDE DEF O, O2, Q0, Q1, Q2, Q3, G0, G1, G2, G3, u
    <3> QED BY <1>7, <1>8, <1>9, <1>10, <1>11, <1>12, <1>13
  <2> QED BY <2>1 DEF PacketConservation, GivenBy, QueueOf, OnTheWay
<1>17. TotalsMatch'
  <2>1. ASSUME ~Static PROVE S2 + Q3 = G3
    <3>1. S2 + Q3 = S + Q2 /\ S + Q0 = G0
      BY <1>7, <1>14, <2>1
    <3> HIDE DEF O, O2, Q0, Q1, Q2, Q3, G0, G1, G2, G3, S, S2, u
    <3>2. S + Q2 = G2
      BY <1>9, <1>10, <1>15, <3>1
    <3> QED BY <1>8, <3>1, <3>2
  <2> QED BY <1>4, <2>1 DEF TotalsMatch, QueueOf, GivenBy
<1>18. ReportAtTheEnd'
  <2>1. Static => reports = 0
    BY DEF Books, ReportAtTheEnd
  <2>2. /\ Static => reports' = reports
        /\ (~Static /\ aborted' = "no")
              => reports' = IF computeScheduled' THEN reports ELSE reports + 1
    BY ComputeAccounts
  <2> QED BY <1>4, <2>1, <2>2 DEF ReportAtTheEnd
<1> QED
  BY <1>5, <1>6, <1>16, <1>17, <1>18 DEF Books

-----------------------------------------------------------------------------
(* The other events *)

\* An event that neither computes nor takes a packet away keeps the accounts.
LEMMA QuietBooks ==
    ASSUME Books, aborted' = aborted \/ aborted' = "send",
           UNCHANGED <<strategyType, sinValues, started, app, computeScheduled,
                       strategyData, reports>>,
           aborted' # "send" => OnTheWay' = OnTheWay
    PROVE  Books'
<1>1. Static' = Static
  BY DEF Static
<1>2. SamplesGiven' /\ AppsBeforeStart'
  BY <1>1 DEF Books, SamplesGiven, Sampled, AppsBeforeStart
<1>3. PacketConservation'
  BY DEF Books, PacketConservation, OnTheWay
<1>4. TotalsMatch' /\ ReportAtTheEnd'
  BY <1>1 DEF Books, TotalsMatch, QueueOf, GivenBy, ReportAtTheEnd
<1> QED
  BY <1>2, <1>3, <1>4 DEF Books

\* A SendPacket event moves a packet from the queue to the socket or to the
\* corrupt ones; only the packet whose Send fails is in none of the places.
LEMMA SendKeepsPackets ==
    ASSUME TypeOK, NEW i \in Ifaces, SendPacket(i), aborted' # "send"
    PROVE  OnTheWay' = OnTheWay
<1> DEFINE c == iface[i]
           s == sock[i]
           d == [c EXCEPT !.pendingpackets = Tail(@)]
<1>1. /\ c \in IfaceState /\ s \in SockState
      /\ iface \in [Ifaces -> IfaceState] /\ sock \in [Ifaces -> SockState]
  BY DEF TypeOK
<1>2. CASE UNCHANGED <<iface, sock>>
  BY <1>2 DEF OnTheWay
<1>3. ASSUME Poppable(i)
      PROVE  /\ d \in IfaceState /\ Len(d.pendingpackets) = Len(c.pendingpackets) - 1
             /\ Len(c.pendingpackets) \in Nat
             /\ d.corruptPackages = c.corruptPackages
             /\ Head(c.pendingpackets) \in Apps
  <2>1. c.pendingpackets \in Seq(Apps) /\ c.pendingpackets # << >>
    BY <1>1, <1>3 DEF IfaceState, Poppable, getHasAnyAvailablePackage
  <2>2. /\ Len(Tail(c.pendingpackets)) = Len(c.pendingpackets) - 1
        /\ Tail(c.pendingpackets) \in Seq(Apps)
        /\ Len(c.pendingpackets) \in Nat /\ Head(c.pendingpackets) \in Apps
    BY <2>1, HeadTailProperties, LenProperties
  <2> QED BY <1>1, <2>2 DEF IfaceState
<1>4. ASSUME NEW e \in IfaceState, NEW v \in SockState,
             iface' = [iface EXCEPT ![i] = e], sock' = [sock EXCEPT ![i] = v],
             Len(e.pendingpackets) + Len(v.data) + e.corruptPackages
               = Len(c.pendingpackets) + Len(s.data) + c.corruptPackages
      PROVE  OnTheWay' = OnTheWay
  <2>1. ASSUME NEW j \in Ifaces
        PROVE  Len(iface'[j].pendingpackets) + Len(sock'[j].data) + iface'[j].corruptPackages
                 = Len(iface[j].pendingpackets) + Len(sock[j].data) + iface[j].corruptPackages
    <3>1. CASE j = i
      BY <1>1, <1>4, <3>1
    <3>2. CASE j # i
      BY <1>1, <1>4, <3>2
    <3> QED BY <3>1, <3>2
  <2> QED BY <2>1 DEF OnTheWay
<1>5. CASE SendCorrupt(i)
  <2> DEFINE e == [d EXCEPT !.corruptPackages = @ + 1]
  <2>1. Poppable(i)
    BY <1>5 DEF SendCorrupt
  <2>2. iface' = [iface EXCEPT ![i] = e] /\ sock' = [sock EXCEPT ![i] = s]
    <3>1. iface' = [iface EXCEPT ![i] = e] /\ UNCHANGED sock
      BY <1>5, Zenon DEF SendCorrupt
    <3> QED BY <1>1, <3>1
  <2>3. e \in IfaceState
    BY <1>1, <2>1, PopPacket DEF Poppable
  <2> HIDE DEF d
  <2>4. /\ e.pendingpackets = d.pendingpackets
        /\ e.corruptPackages = c.corruptPackages + 1
    BY <1>3, <2>1 DEF IfaceState
  <2>5. Len(s.data) \in Nat /\ c.corruptPackages \in Nat
    BY <1>1, LenProperties DEF SockState, IfaceState
  <2> HIDE DEF e, c, s
  <2>6. Len(e.pendingpackets) + Len(s.data) + e.corruptPackages
               = Len(c.pendingpackets) + Len(s.data) + c.corruptPackages
    <3> DEFINE l  == Len(c.pendingpackets)
               l2 == Len(e.pendingpackets)
               n  == Len(s.data)
               k  == c.corruptPackages
               k2 == e.corruptPackages
    <3>1. l2 = l - 1 /\ l \in Nat
      BY <1>3, <2>1, <2>4
    <3>2. k2 = k + 1 /\ k \in Nat /\ n \in Nat
      BY <2>4, <2>5
    <3> HIDE DEF l, l2, n, k, k2
    <3>3. l2 + n + k2 = l + n + k
      BY <3>1, <3>2
    <3> QED BY <3>3 DEF l, l2, n, k, k2
  <2> QED BY <1>1, <1>4, <2>2, <2>3, <2>6
<1>6. CASE SendCorrect(i)
  <2> DEFINE e == [d EXCEPT !.correctPackages = @ + 1]
             v == Send(s, Head(c.pendingpackets))
  <2>1. Poppable(i)
    BY <1>6 DEF SendCorrect
  <2>2. iface' = [iface EXCEPT ![i] = e] /\ sock' = [sock EXCEPT ![i] = v]
    <3>1. SendAccepts(s)
      BY <1>6 DEF SendCorrect
    <3> QED BY <1>6, <3>1, Zenon DEF SendCorrect
  <2>3. e \in IfaceState
    BY <1>1, <2>1, PopPacket DEF Poppable
  <2>4. v \in SockState /\ Len(v.data) = Len(s.data) + 1 /\ Len(s.data) \in Nat
    <3>1. s.data \in Seq(Apps) /\ Head(c.pendingpackets) \in Apps
      BY <1>1, <1>3, <2>1 DEF SockState
    <3>2. /\ Append(s.data, Head(c.pendingpackets)) \in Seq(Apps)
          /\ Len(Append(s.data, Head(c.pendingpackets))) = Len(s.data) + 1
          /\ Len(s.data) \in Nat
      BY <3>1, AppendProperties, LenProperties
    <3> HIDE DEF c
    <3> QED BY <1>1, <3>2 DEF Send, SockState
  <2> HIDE DEF d
  <2>5. /\ e.pendingpackets = d.pendingpackets
        /\ e.corruptPackages = c.corruptPackages
    BY <1>3, <2>1 DEF IfaceState
  <2>6. c.corruptPackages \in Nat
    BY <1>1 DEF IfaceState
  <2> HIDE DEF e, c, s, v
  <2>7. Len(e.pendingpackets) + Len(v.data) + e.corruptPackages
               = Len(c.pendingpackets) + Len(s.data) + c.corruptPackages
    <3> DEFINE l  == Len(c.pendingpackets)
               l2 == Len(e.pendingpackets)
               n  == Len(s.data)
               n2 == Len(v.data)
               k  == c.corruptPackages
    <3>1. l2 = l - 1 /\ l \in Nat
      BY <1>3, <2>1, <2>5
    <3>2. n2 = n + 1 /\ n \in Nat /\ k \in Nat
      BY <2>4, <2>6
    <3> HIDE DEF l, l2, n, n2, k
    <3>3. l2 + n2 + k = l + n + k
      BY <3>1, <3>2
    <3> QED BY <2>5, <3>3 DEF l, l2, n, n2, k
  <2> QED BY <1>4, <2>2, <2>3, <2>4, <2>7
<1>7. CASE SendLoopEnds(i) \/ SendLater(i)
  BY <1>2, <1>7 DEF SendLoopEnds, SendLater
<1> QED
  BY <1>5, <1>6, <1>7 DEF SendPacket, SendData

\* The other events of one connection leave every packet where it is.
LEMMA ConnectionsKeepPackets ==
    ASSUME IInv, NEW i \in Ifaces, ConnectEvent(i) \/ ReceiveEvent(i) \/ TcpEvent(i)
    PROVE  OnTheWay' = OnTheWay
<1>1. /\ sock \in [Ifaces -> SockState] /\ iface \in [Ifaces -> IfaceState]
      /\ receivedPacketInfo[i] \in Seq(Apps)
      /\ StreamInv(sock[i], receivedPacketInfo[i])
  BY DEF IInv, TypeOK, Streams
<1>0. ASSUME UNCHANGED iface, \A j \in Ifaces : sock'[j].data = sock[j].data
      PROVE  OnTheWay' = OnTheWay
  BY <1>0 DEF OnTheWay
<1>2. CASE ConnectEvent(i)
  <2>1. iface' = [iface EXCEPT ![i].connected = TRUE] /\ UNCHANGED sock
    BY <1>2 DEF ConnectEvent, ConnectionSucceeded
  <2>2. ASSUME NEW j \in Ifaces
        PROVE  /\ iface'[j].pendingpackets = iface[j].pendingpackets
               /\ iface'[j].corruptPackages = iface[j].corruptPackages
    <3>1. iface'[j] = iface[j] \/ iface'[j] = [iface[j] EXCEPT !.connected = TRUE]
      BY <1>1, <2>1, Zenon
    <3> QED BY <1>1, <3>1 DEF IfaceState
  <2>3. OnTheWay' = [j \in Ifaces |-> Len(iface'[j].pendingpackets) + Len(sock[j].data)
                                         + iface'[j].corruptPackages]
    BY <2>1 DEF OnTheWay
  <2> QED BY <2>2, <2>3, Zenon DEF OnTheWay
<1>3. CASE TcpEvent(i)
  <2>1. UNCHANGED iface /\ \A j \in Ifaces : sock'[j].data = sock[j].data
    BY <1>1, <1>3, TcpKeepsData DEF TcpEvent, TcpStep, senderVars
  <2> QED BY <1>0, <2>1
<1>4. CASE ReceiveEvent(i)
  <2>1. PICK next \in (sock[i].nextRx + 1)..sock[i].highTxMark :
           sock' = [sock EXCEPT ![i] = AfterRead([sock[i] EXCEPT !.nextRx = next])]
    BY <1>4 DEF ReceiveEvent, ReceivedData, HandleRead
  <2> DEFINE w == AfterRead([sock[i] EXCEPT !.nextRx = next])
  <2>2. w.data = sock[i].data
    BY <1>1, ReadStream
  <2> HIDE DEF w
  <2>3. UNCHANGED iface /\ \A j \in Ifaces : sock'[j].data = sock[j].data
    <3>1. sock' = [sock EXCEPT ![i] = w]
      BY <2>1 DEF w
    <3>2. UNCHANGED iface
      BY <1>4 DEF ReceiveEvent, senderVars
    <3> QED BY <1>1, <2>2, <3>1, <3>2
  <2> QED BY <1>0, <2>3
<1> QED
  BY <1>2, <1>3, <1>4

-----------------------------------------------------------------------------
(* The accounts are an invariant *)

\* Before the start nothing has been given, and nothing is on its way.
LEMMA InitLedger == Init => Ledger
<1> SUFFICES ASSUME Init PROVE Ledger
  OBVIOUS
<1> USE DEF Init, SenderInit
<1>1. /\ app \in [Apps -> AppState] /\ iface \in [Ifaces -> IfaceState]
      /\ sock \in [Ifaces -> SockState] /\ sinValues \in [Apps -> SinValues]
  <2>1. IInv
    BY InitIInv
  <2> QED BY <2>1, SenderAssumption DEF IInv, TypeOK
<1>2. /\ Total(GivenBy(app)) = 0
      /\ Total(QueueOf(app)) = 0
      /\ Total(OnTheWay) = 0
  <2>1. /\ GivenBy(app) \in [Apps -> Nat] /\ \A a \in Apps : GivenBy(app)[a] = 0
        /\ QueueOf(app) \in [Apps -> Nat] /\ \A a \in Apps : QueueOf(app)[a] = 0
    BY DEF GivenBy, QueueOf, NewApplication
  <2>2. OnTheWay \in [Ifaces -> Nat] /\ \A i \in Ifaces : OnTheWay[i] = 0
    <3>1. Len(<< >>) = 0 /\ 0 + 0 + 0 = 0
      OBVIOUS
    <3>2. \A i \in Ifaces : Len(iface[i].pendingpackets) + Len(sock[i].data)
                              + iface[i].corruptPackages = 0
      BY <3>1 DEF NewSocket, EmptySocket
    <3> QED BY <3>2 DEF OnTheWay
  <2> QED BY <2>1, <2>2, IndexSetsAreFinite, TotalZero
<1>3. SamplesGiven
  <2>1. ASSUME NEW a \in Apps PROVE Sampled(app[a], sinValues[a])
    <3> DEFINE g == [s \in 0..(app[a].currentSample - 1) |-> sinValues[a][s]]
    <3>1. /\ app[a].currentSample = 0 /\ app[a].generatedPackets = 0
          /\ app[a].allPacketsGenerated = FALSE
      BY DEF NewApplication
    <3>2. DOMAIN g = {}
      BY <3>1
    <3>3. Total(g) = 0
      <4> HIDE DEF g
      <4> QED BY <3>2, TotalEmpty
    <3> QED BY <3>1, <3>3, DurationAssumption DEF Sampled
  <2> QED BY <2>1 DEF SamplesGiven
<1>4. AppsBeforeStart
  BY DEF AppsBeforeStart
<1>5. PacketConservation
  <2>1. Total(GivenBy(app)) = Total(QueueOf(app)) + Total(OnTheWay)
    BY <1>2
  <2> QED BY <2>1 DEF PacketConservation, GivenBy, QueueOf, OnTheWay
<1>6. TotalsMatch
  <2>1. strategyData.totalAmountOfPackets = 0
    OBVIOUS
  <2> QED BY <1>2, <2>1 DEF TotalsMatch
<1>7. ReportAtTheEnd
  BY DEF ReportAtTheEnd
<1>8. StoppedByItself
  BY DEF StoppedByItself, LoopsStopped
<1> QED
  BY <1>3, <1>4, <1>5, <1>6, <1>7, <1>8 DEF Ledger

\* Every event keeps the accounts; only StartApplication and
\* ComputeStrategyAndContinue change more than the place of a packet.
LEMMA NextBooks ==
    ASSUME IInv, IInv', Books, [Next]_vars
    PROVE  Books'
<1>1. /\ TypeOK /\ TypeOK' /\ SampleInv /\ BeforeStart
      /\ SamplesGiven /\ AppsBeforeStart /\ ReportAtTheEnd
      /\ app \in [Apps -> AppState]
  BY DEF IInv, Books, TypeOK
<1>2. \A a \in Apps : sinValues[a] \in SinValues /\ app[a] \in AppState
  BY <1>1, SenderAssumption DEF TypeOK
<1>3. CASE StartSender /\ aborted = "no"
  <2> DEFINE apps == [a \in Apps |-> OnApplicationStart(Static, app[a], sinValues[a])]
  <2>1. /\ ~started /\ started'
        /\ \A i \in Ifaces : sock'[i] = Connected
        /\ ComputeAndContinue(apps, 0)
        /\ UNCHANGED <<strategyType, sinValues>>
    BY <1>3 DEF StartSender, SenderStartApplication
  <2>2. \A a \in Apps : app[a] = NewApplication
    BY <1>1, <2>1 DEF AppsBeforeStart
  <2>3. /\ apps \in [Apps -> AppState]
        /\ \A a \in Apps : SampleLeft(apps[a])
    BY <1>1, <1>2, ApplicationSteps DEF SampleInv
  <2>4. \A a \in Apps : Balanced(app[a], apps[a]) /\ Sampled(apps[a], sinValues[a])
    BY <1>2, <2>2, ApplicationAccounts
  <2>5. \A i \in Ifaces : sock'[i].data = sock[i].data
    BY <1>1, <2>1 DEF BeforeStart, NewSocket, Connected, EmptySocket
  <2>6. ~Static => reports = 0
    BY <1>1, <1>3, <2>1 DEF ReportAtTheEnd
  <2> HIDE DEF apps
  <2> QED BY <1>1, <1>3, <2>1, <2>3, <2>4, <2>5, <2>6, ComputeBooks
<1>4. CASE ComputeEvent /\ aborted = "no"
  <2> DEFINE t == IF now < MaxNow THEN now + 1 ELSE now
  <2>1. /\ listening /\ computeScheduled /\ ComputeAndContinue(app, t)
        /\ UNCHANGED <<strategyType, sinValues, started, sock>>
    BY <1>4 DEF ComputeEvent, ComputeStrategyAndContinue
  <2>2. t \in Nat
    BY <1>1 DEF TypeOK
  <2>3. /\ \A a \in Apps : SampleLeft(app[a])
        /\ \A a \in Apps : Sampled(app[a], sinValues[a])
    BY <1>1 DEF SampleInv, SamplesGiven
  <2>4. \A a \in Apps : Balanced(app[a], app[a])
    BY <1>2 DEF Balanced, AppState
  <2>5. started' /\ (~Static => reports = 0)
    BY <1>1, <1>4, <2>1 DEF BeforeStart, ReportAtTheEnd
  <2> HIDE DEF t
  <2> QED BY <1>1, <1>4, <2>1, <2>2, <2>3, <2>4, <2>5, ComputeBooks
<1>5. ASSUME NEW i \in Ifaces, SendEvent(i) PROVE Books'
  <2>1. SendPacket(i)
    BY <1>5 DEF SendEvent
  <2>2. /\ UNCHANGED <<strategyType, sinValues, started, app, computeScheduled,
                       strategyData, reports>>
        /\ aborted' = aborted \/ aborted' = "send"
    BY <2>1 DEF SendPacket, SendLoopEnds, SendData, SendLater, SendCorrupt, SendCorrect
  <2>3. aborted' # "send" => OnTheWay' = OnTheWay
    BY <1>1, <2>1, SendKeepsPackets
  <2> QED BY <2>2, <2>3, QuietBooks
<1>6. ASSUME NEW i \in Ifaces, ConnectEvent(i) \/ ReceiveEvent(i) \/ TcpEvent(i)
      PROVE  Books'
  <2>1. UNCHANGED <<strategyType, sinValues, started, app, computeScheduled,
                    strategyData, reports, aborted>>
    BY <1>6 DEF ConnectEvent, ConnectionSucceeded, ReceiveEvent, TcpEvent, TcpStep, senderVars
  <2>2. OnTheWay' = OnTheWay
    BY <1>6, ConnectionsKeepPackets
  <2> QED BY <2>1, <2>2, QuietBooks
<1>7. CASE StartReceiver \/ UNCHANGED vars
  <2>1. UNCHANGED <<strategyType, sinValues, started, app, computeScheduled,
                    strategyData, reports, aborted, iface, sock>>
    BY <1>7 DEF StartReceiver, vars, senderVars
  <2>2. OnTheWay' = OnTheWay
    BY <2>1 DEF OnTheWay
  <2> QED BY <2>1, <2>2, QuietBooks
<1> QED
  BY <1>3, <1>4, <1>5, <1>6, <1>7 DEF Next

\* A program that dies does so in an event of a loop that is still needed: the
\* failing SendPacket is scheduled, and a Compute fails only with packets left,
\* or at the start.
LEMMA NextStopped ==
    ASSUME IInv, NoStrandedPackets, NoStrandedPackets', StoppedByItself, [Next]_vars
    PROVE  StoppedByItself'
<1>0. 1 \in Ifaces
  BY StrategyAssumption DEF Ifaces
<1>1. CASE UNCHANGED vars
  BY <1>1 DEF StoppedByItself, LoopsStopped, AllDataHasBeenSent, getAllDataHasBeenSent,
     vars, senderVars
<1>2. CASE Next
  <2>1. aborted = "no"
    BY <1>2 DEF Next
  <2>2. CASE aborted' = "no"
    BY <2>2 DEF NoStrandedPackets, StoppedByItself, LoopsStopped
  <2>3. CASE StartSender
    <3>1. aborted' # "send" /\ sendScheduled' = [i \in Ifaces |-> TRUE]
      BY <2>1, <2>3 DEF StartSender, SenderStartApplication, ComputeAndContinue,
         ComputeNothing, Compute
    <3> QED BY <1>0, <3>1 DEF StoppedByItself, LoopsStopped
  <2>4. CASE ComputeEvent
    <3>1. aborted' # "send" /\ UNCHANGED <<started, sendScheduled>>
      <4> DEFINE t == IF now < MaxNow THEN now + 1 ELSE now
      <4>1. UNCHANGED <<started, sendScheduled>> /\ ComputeAndContinue(app, t)
        BY <2>4 DEF ComputeEvent, ComputeStrategyAndContinue
      <4> HIDE DEF t
      <4>2. aborted' # "send"
        BY <2>1, <4>1 DEF ComputeAndContinue, ComputeNothing, Compute
      <4> QED BY <4>1, <4>2
    <3>2. ASSUME LoopsStopped' PROVE AllDataHasBeenSent'
      <4>1. started /\ \A i \in Ifaces : ~sendScheduled[i]
        BY <3>1, <3>2 DEF LoopsStopped
      <4>2. AllDataHasBeenSent
        BY <1>0, <2>1, <4>1 DEF NoStrandedPackets
      <4> QED BY <4>1, <4>2, AllSentStep
    <3> QED BY <3>1, <3>2 DEF StoppedByItself
  <2>5. ASSUME NEW i \in Ifaces, SendEvent(i), aborted' # "no"
        PROVE  StoppedByItself'
    <3>1. sendScheduled[i] /\ UNCHANGED sendScheduled
      BY <2>1, <2>5 DEF SendEvent, SendPacket, SendLoopEnds, SendData, SendLater,
         SendCorrupt, SendCorrect
    <3> QED BY <3>1 DEF StoppedByItself, LoopsStopped
  <2>6. ASSUME NEW i \in Ifaces, ConnectEvent(i) \/ ReceiveEvent(i) \/ TcpEvent(i)
        PROVE  UNCHANGED aborted
    BY <2>6 DEF ConnectEvent, ConnectionSucceeded, ReceiveEvent, TcpEvent, TcpStep, senderVars
  <2>7. StartReceiver => UNCHANGED aborted
    BY DEF StartReceiver, senderVars
  <2> QED
    BY <1>2, <2>1, <2>2, <2>3, <2>4, <2>5, <2>6, <2>7 DEF Next
<1> QED
  BY <1>1, <1>2

\* The accounts balance in every state of every run.
THEOREM LedgerHolds == Spec => []Ledger
<1>1. Init => Ledger
  BY InitLedger
<1>2. ASSUME IInv, IInv', NoStrandedPackets, NoStrandedPackets', Ledger, [Next]_vars
      PROVE  Ledger'
  <2>1. Books /\ StoppedByItself
    BY <1>2 DEF Ledger, Books
  <2>2. Books' /\ StoppedByItself'
    BY <1>2, <2>1, NextBooks, NextStopped
  <2> QED BY <2>2 DEF Ledger, Books
<1> QED
  BY <1>1, <1>2, Invariance, NothingStranded, PTL DEF Spec

\* Neither Compute nor SendData loses or duplicates a packet, whatever the
\* strategy, the plans and the interleaving of the events.
THEOREM PacketsConserved == Spec => []PacketConservation
<1>1. Ledger => PacketConservation
  BY DEF Ledger
<1> QED
  BY <1>1, LedgerHolds, PTL

\* The csv of a strategy is written exactly once, by the last Compute, and its last
\* row accounts for every packet the applications have given.
THEOREM ReportComplete == Spec => []ReportIsComplete
<1>1. ASSUME IInv, NoStrandedPackets, Ledger PROVE ReportIsComplete
  <2>1. SUFFICES ASSUME started, aborted = "no", ~computeScheduled
                 PROVE  IF Static THEN reports = 0
                        ELSE /\ reports = 1
                             /\ strategyData.totalAmountOfPackets = Total(GivenBy(app))
    BY DEF ReportIsComplete, Static, GivenBy
  <2>2. AllDataHasBeenSent
    BY <1>1, <2>1 DEF NoStrandedPackets
  <2>3. QueueOf(app) \in [Apps -> Nat] /\ \A a \in Apps : QueueOf(app)[a] = 0
    BY <2>2 DEF QueueOf, AllDataHasBeenSent, getAllDataHasBeenSent,
       getHasStoppedGeneratingData
  <2>4. Total(QueueOf(app)) = 0
    BY <2>3, IndexSetsAreFinite, TotalZero
  <2>5. strategyData.totalAmountOfPackets \in Nat
    BY <1>1 DEF IInv, TypeOK
  <2>6. ASSUME ~Static
        PROVE  strategyData.totalAmountOfPackets = Total(GivenBy(app))
    <3>1. strategyData.totalAmountOfPackets + Total(QueueOf(app)) = Total(GivenBy(app))
      BY <1>1, <2>6 DEF Ledger, TotalsMatch
    <3> QED BY <2>4, <2>5, <3>1
  <2> QED BY <1>1, <2>1, <2>6 DEF Ledger, ReportAtTheEnd
<1> QED
  BY <1>1, Invariance, NothingStranded, LedgerHolds, PTL

\* Over a whole simulation an application gives all its samples but the last one,
\* and the static application of LINEAR that one too.
THEOREM TrafficGiven == Spec => []GeneratedTraffic
<1>1. ASSUME IInv, Ledger PROVE GeneratedTraffic
  <2>1. SUFFICES ASSUME NEW a \in Apps, app[a].allPacketsGenerated
                 PROVE  app[a].generatedPackets
                          = Total(sinValues[a]) - IF strategyType = "LINEAR" THEN 0
                                ELSE sinValues[a][SimulationDurationInSeconds]
    BY DEF GeneratedTraffic
  <2> DEFINE sv == sinValues[a]
             D  == SimulationDurationInSeconds
             N  == app[a].generatedPackets
  <2>2. sv \in SinValues /\ Sampled(app[a], sv) /\ N \in Nat
    BY <1>1, SenderAssumption DEF IInv, TypeOK, Ledger, SamplesGiven, AppState
  <2>3. CASE Static
    <3>1. N = Total(sv)
      BY <2>1, <2>2, <2>3 DEF Sampled
    <3>2. N = N - 0
      BY <2>2
    <3> QED BY <2>3, <3>1, <3>2 DEF Static
  <2>4. CASE ~Static
    <3>1. N = Total([s \in 0..(D - 1) |-> sv[s]])
      BY <2>1, <2>2, <2>4 DEF Sampled
    <3>2. D \in SampleIndexes
      BY DurationAssumption DEF SampleIndexes
    <3>3. Total([s \in 0..D |-> sv[s]]) = Total([s \in 0..(D - 1) |-> sv[s]]) + sv[D]
      BY <2>2, <3>2, OneMoreSample
    <3>4. sv = [s \in 0..D |-> sv[s]] /\ sv[D] \in Nat
      BY <2>2, <3>2 DEF SinValues, SampleIndexes
    <3>5. Total(sv) = N + sv[D]
      BY <3>1, <3>3, <3>4
    <3> DEFINE T == Total(sv)
               v == sv[D]
    <3>6. T = N + v /\ v \in Nat
      BY <3>4, <3>5
    <3> HIDE DEF T, v, N
    <3>7. N = T - v
      BY <2>2, <3>6
    <3> QED BY <2>4, <3>7 DEF T, v, N, Static
  <2> QED BY <2>3, <2>4
<1> QED
  BY <1>1, Invariance, LedgerHolds, PTL

-----------------------------------------------------------------------------
(* Losses *)

\* The sink's list counted application by application has the length of the lists
\* of all interfaces together.
LEMMA ReceivedByApplication ==
    ASSUME receivedPacketInfo \in [Ifaces -> Seq(Apps)]
    PROVE  Total([a \in Apps |-> ReceivedPackets(a)])
             = Total([i \in Ifaces |-> Len(receivedPacketInfo[i])])
<1> DEFINE From(a, i) == {k \in DOMAIN receivedPacketInfo[i] : receivedPacketInfo[i][k] = a}
           x == [a \in Apps |-> [i \in Ifaces |-> Cardinality(From(a, i))]]
<1>1. ASSUME NEW i \in Ifaces
      PROVE  /\ receivedPacketInfo[i] \in [DOMAIN receivedPacketInfo[i] -> Apps]
             /\ IsFiniteSet(DOMAIN receivedPacketInfo[i])
             /\ Cardinality(DOMAIN receivedPacketInfo[i]) = Len(receivedPacketInfo[i])
  <2> DEFINE r == receivedPacketInfo[i]
             n == Len(r)
  <2>1. r \in Seq(Apps)
    OBVIOUS
  <2>2. n \in Nat /\ DOMAIN r = 1..n /\ r \in [1..n -> Apps]
    BY <2>1, LenProperties
  <2>3. \A m \in Nat : IsFiniteSet(1..m) /\ Cardinality(1..m) = m
    BY FS_Interval
  <2> HIDE DEF r, n
  <2>4. IsFiniteSet(DOMAIN r) /\ Cardinality(DOMAIN r) = n
    BY <2>2, <2>3
  <2> QED BY <2>2, <2>4 DEF r, n
<1>2. ASSUME NEW a \in Apps, NEW i \in Ifaces
      PROVE  Cardinality(From(a, i)) \in Nat
  <2>1. From(a, i) \subseteq DOMAIN receivedPacketInfo[i]
    OBVIOUS
  <2> HIDE DEF From
  <2> QED BY <1>1, <2>1, FS_Subset, FS_CardinalityType
<1>3. x \in [Apps -> [Ifaces -> Nat]]
  <2> HIDE DEF From
  <2> QED BY <1>2
<1>4. RowTotals(x) = [a \in Apps |-> ReceivedPackets(a)]
  <2>1. ASSUME NEW a \in Apps PROVE ReceivedPackets(a) = Total(x[a])
    <3>1. x[a] = [i \in Ifaces |-> Cardinality(From(a, i))]
      OBVIOUS
    <3> HIDE DEF x
    <3> QED BY <3>1 DEF ReceivedPackets
  <2>2. DOMAIN x = Apps
    OBVIOUS
  <2> HIDE DEF x
  <2> QED BY <2>1, <2>2 DEF RowTotals
<1>5. ColumnTotals(x, Ifaces) = [i \in Ifaces |-> Len(receivedPacketInfo[i])]
  <2>1. ASSUME NEW i \in Ifaces
        PROVE  Total([a \in Apps |-> x[a][i]]) = Len(receivedPacketInfo[i])
    <3> DEFINE r == receivedPacketInfo[i]
    <3>1. [a \in Apps |-> x[a][i]] = LabelCounts(r, Apps)
      BY DEF LabelCounts
    <3>2. /\ r \in [DOMAIN r -> Apps] /\ IsFiniteSet(DOMAIN r)
          /\ Cardinality(DOMAIN r) = Len(r)
      BY <1>1
    <3> HIDE DEF r
    <3>3. Total(LabelCounts(r, Apps)) = Len(r)
      BY <3>2, IndexSetsAreFinite, TotalByLabel
    <3> QED BY <3>1, <3>3 DEF r
  <2>2. DOMAIN x = Apps
    OBVIOUS
  <2> HIDE DEF x
  <2> QED BY <2>1, <2>2 DEF ColumnTotals
<1>6. Total(RowTotals(x)) = Total(ColumnTotals(x, Ifaces))
  <2> HIDE DEF x
  <2> QED BY <1>3, IndexSetsAreFinite, TotalSwap
<1> QED
  BY <1>4, <1>5, <1>6, Zenon

\* A stream whose bytes are all acknowledged has been read to its last packet.
LEMMA AcknowledgedIsRead ==
    ASSUME NEW s \in SockState, NEW r \in Seq(Apps), StreamInv(s, r), s.head = Written(s)
    PROVE  Len(r) = Len(s.data)
<1> DEFINE p == PacketSizeByte
           m == Len(s.data)
           n == Len(r)
<1>1. p \in Nat \ {0} /\ m \in Nat /\ n \in Nat
  BY StrategyAssumption, LenProperties DEF SockState
<1>2. n <= m /\ p * m - p * n <= p - 1
  <2>1. /\ s.nextRx = Written(s)
        /\ s.nextRx - s.rxHead <= p - 1
        /\ s.rxHead = p * n /\ Written(s) = p * m /\ n <= m
    <3>1. p * m \in Nat
      BY <1>1
    <3> QED BY <1>1, <3>1 DEF StreamInv, SockState, Written, GetRxAvailable
  <2> HIDE DEF p, m, n
  <2> QED BY <2>1
<1> HIDE DEF p, m, n
<1>3. ASSUME n < m PROVE FALSE
  <2>1. PICK k \in Nat : m = n + 1 + k
    <3>1. m - n - 1 \in Nat /\ m = n + 1 + (m - n - 1)
      BY <1>1, <1>3
    <3> QED BY <3>1
  <2>2. p * m = p * n + p + p * k
    BY <1>1, <2>1
  <2>3. p * k \in Nat /\ p * n \in Nat
    BY <1>1, <2>1
  <2> QED BY <1>1, <1>2, <2>2, <2>3
<1> QED
  BY <1>1, <1>2, <1>3 DEF m, n

\* When the event list is empty and no connection has died, the sink has every
\* packet but those the sender's own error models dropped.
THEOREM LossExplained == Spec => []LossIsCorruption
<1>1. ASSUME IInv, Ledger PROVE LossIsCorruption
  <2>1. SUFFICES ASSUME SimulationOver, ~SomeConnectionDead
                 PROVE  Total([a \in Apps |-> app[a].generatedPackets])
                          = Total([a \in Apps |-> ReceivedPackets(a)])
                            + Total([i \in Ifaces |-> iface[i].corruptPackages])
    BY DEF LossIsCorruption
  <2>2. /\ app \in [Apps -> AppState] /\ iface \in [Ifaces -> IfaceState]
        /\ sock \in [Ifaces -> SockState] /\ receivedPacketInfo \in [Ifaces -> Seq(Apps)]
        /\ \A i \in Ifaces : StreamInv(sock[i], receivedPacketInfo[i])
    BY <1>1 DEF IInv, TypeOK, Streams
  <2>3. AllDataHasBeenSent /\ aborted # "send"
    BY <1>1, <2>1 DEF Ledger, StoppedByItself, SimulationOver, LoopsStopped
  <2>4. Total(QueueOf(app)) = 0
    <3>1. QueueOf(app) \in [Apps -> Nat] /\ \A a \in Apps : QueueOf(app)[a] = 0
      BY <2>3 DEF QueueOf, AllDataHasBeenSent, getAllDataHasBeenSent,
         getHasStoppedGeneratingData
    <3> QED BY <3>1, IndexSetsAreFinite, TotalZero
  <2> DEFINE received == [i \in Ifaces |-> Len(receivedPacketInfo[i])]
             corrupt  == [i \in Ifaces |-> iface[i].corruptPackages]
  <2>5. ASSUME NEW i \in Ifaces
        PROVE  /\ iface[i].pendingpackets = << >>
               /\ Len(sock[i].data) = Len(receivedPacketInfo[i])
               /\ Len(receivedPacketInfo[i]) \in Nat
               /\ iface[i].corruptPackages \in Nat
    <3>1. sock[i].head = Written(sock[i])
      BY <2>1 DEF SimulationOver, LoopsStopped, SomeConnectionDead
    <3>2. Len(sock[i].data) = Len(receivedPacketInfo[i])
      BY <2>2, <3>1, AcknowledgedIsRead
    <3> QED
      BY <2>2, <2>3, <3>2, LenProperties
      DEF AllDataHasBeenSent, getAllDataHasBeenSent, getHasAnyAvailablePackage, IfaceState
  <2>6. OnTheWay = Plus(received, corrupt)
    <3>1. ASSUME NEW i \in Ifaces
          PROVE  Len(iface[i].pendingpackets) + Len(sock[i].data) + iface[i].corruptPackages
                   = received[i] + corrupt[i]
      <4> DEFINE n == Len(receivedPacketInfo[i])
                 k == iface[i].corruptPackages
      <4>1. Len(iface[i].pendingpackets) = 0 /\ Len(sock[i].data) = n
            /\ n \in Nat /\ k \in Nat
        BY <2>5
      <4>2. received[i] = n /\ corrupt[i] = k
        OBVIOUS
      <4> HIDE DEF n, received, corrupt
      <4>3. 0 + n + k = n + k
        BY <4>1
      <4> QED BY <4>1, <4>2, <4>3
    <3>2. DOMAIN received = Ifaces
      OBVIOUS
    <3> HIDE DEF received, corrupt
    <3> QED BY <3>1, <3>2, Zenon DEF OnTheWay, Plus
  <2>7. received \in [Ifaces -> Nat] /\ corrupt \in [Ifaces -> Nat]
    BY <2>5
  <2>8. Total(GivenBy(app)) = Total(QueueOf(app)) + Total(OnTheWay)
    BY <1>1, <2>3 DEF Ledger, PacketConservation, GivenBy, QueueOf, OnTheWay
  <2>9. Total([a \in Apps |-> ReceivedPackets(a)]) = Total(received)
    BY <2>2, ReceivedByApplication
  <2> HIDE DEF received, corrupt
  <2>10. Total(OnTheWay) = Total(received) + Total(corrupt)
    BY <2>6, <2>7, IndexSetsAreFinite, TotalSum
  <2>11. Total(received) \in Nat /\ Total(corrupt) \in Nat
    BY <2>7, IndexSetsAreFinite, TotalIsNat
  <2>12. Total(GivenBy(app)) = Total(received) + Total(corrupt)
    BY <2>4, <2>8, <2>10, <2>11
  <2> QED BY <2>9, <2>12 DEF GivenBy, corrupt
<1> QED
  BY <1>1, Invariance, LedgerHolds, PTL

-----------------------------------------------------------------------------
(* The report of the experiment (RunReport) *)

\* A run in which the sink received nothing from some application.
Silent(sim) == \E a \in ApplicationIds : Received(sim, a) = 0

\* The runs that have a complete row.
Telling == {sim \in Outcomes : ~Silent(sim)}

ReportTypeOK ==
    /\ strategy \in 1..Strategies
    /\ program \in {"running", "exited", "died", "unopened", "terminated"}
    /\ files \in [1..Strategies -> Seq({Row(RunInfo(sim)) : sim \in Telling})]
    /\ simulated \in [1..Strategies -> Seq(Outcomes)]
    /\ results \in Seq({RunInfo(sim) : sim \in Outcomes})

\* What main keeps of the runs of the strategy it is at.
Kept == program = "running" =>
    /\ Len(results) = Len(simulated[strategy])
    /\ \A k \in 1..Len(results) : results[k] = RunInfo(simulated[strategy][k])

\* The strategies that main has not got to have no runs and no rows, and the one it is at
\* has no rows before its report.
Untried ==
    /\ program \in {"running", "died", "unopened"} => files[strategy] = <<>>
    /\ \A s \in (strategy + 1)..Strategies : files[s] = <<>> /\ simulated[s] = <<>>

\* A strategy whose report is finished has a row for every run.
Reported ==
    \A s \in 1..Strategies :
        s < strategy \/ (s = strategy /\ program = "exited") => Len(files[s]) = Len(simulated[s])

\* A row is that of the run at its position, and this run was not silent.
RowsOfRuns ==
    \A s \in 1..Strategies :
        /\ Len(files[s]) <= Len(simulated[s])
        /\ \A k \in 1..Len(files[s]) :
              /\ files[s][k] = Row(RunInfo(simulated[s][k]))
              /\ ~Silent(simulated[s][k])

\* The exception came from the first run without a row.
Cause == program = "terminated" =>
    /\ Len(files[strategy]) < Len(simulated[strategy])
    /\ Silent(simulated[strategy][Len(files[strategy]) + 1])

ReportIInv == ReportTypeOK /\ Kept /\ Untried /\ Reported /\ RowsOfRuns /\ Cause

-----------------------------------------------------------------------------
(* The condensation of a run *)

\* The packets received from an application are a number.
LEMMA ReceivedIsNat ==
    ASSUME NEW sim \in Outcomes, NEW a \in ApplicationIds
    PROVE  Received(sim, a) \in Nat
<1>1. sim.received[a] \in [Interface -> Nat] /\ IsFiniteSet(Interface)
  BY ReportAssumption
<1> QED
  BY <1>1, TotalIsNat DEF Received

\* Only all application ids are three.
LEMMA SizeOfSome ==
    ASSUME NEW S \in SUBSET ApplicationIds
    PROVE  /\ IsFiniteSet(S) /\ Cardinality(S) \in Nat
           /\ Cardinality(S) = 3 <=> S = ApplicationIds
           /\ Cardinality(S) <= 3
<1>1. IsFiniteSet(ApplicationIds) /\ Cardinality(ApplicationIds) = 3
  <2>1. \A a, b \in Int : /\ IsFiniteSet(a..b)
                          /\ Cardinality(a..b) = IF a > b THEN 0 ELSE b - a + 1
    BY FS_Interval
  <2>2. 1 \in Int /\ 3 \in Int /\ ~(1 > 3) /\ 3 - 1 + 1 = 3
    OBVIOUS
  <2>3. IsFiniteSet(1..3) /\ Cardinality(1..3) = 3
    BY ONLY <2>1, <2>2
  <2> QED BY <2>3 DEF ApplicationIds
<1> QED
  BY <1>1, FS_Subset, FS_CardinalityType

\* The ids of all applications in ascending order.
LEMMA AscendingOfAll == Ascending(ApplicationIds) = [k \in 1..3 |-> k]
<1> DEFINE id == [k \in 1..3 |-> k]
           Rising(s) == \A k, l \in 1..3 : k < l => s[k] < s[l]
           All == [1..3 -> ApplicationIds]
<1>1. Ascending(ApplicationIds) = CHOOSE s \in All : Rising(s)
  <2>1. Cardinality(ApplicationIds) = 3
    BY SizeOfSome
  <2> QED BY <2>1 DEF Ascending
<1>2. id \in All /\ Rising(id)
  BY DEF ApplicationIds
<1>3. ASSUME NEW s \in All, Rising(s) PROVE s = id
  <2>1. 1 \in 1..3 /\ 2 \in 1..3 /\ 3 \in 1..3 /\ \A k \in 1..3 : k = 1 \/ k = 2 \/ k = 3
    OBVIOUS
  <2>2. s[1] \in 1..3 /\ s[2] \in 1..3 /\ s[3] \in 1..3 /\ s[1] < s[2] /\ s[2] < s[3]
    BY <1>3, <2>1 DEF ApplicationIds
  <2>3. s[1] = 1 /\ s[2] = 2 /\ s[3] = 3
    BY <2>2
  <2>4. \A k \in 1..3 : s[k] = id[k]
    BY <2>1, <2>3
  <2> QED BY <2>4
<1> HIDE DEF All, Rising, id
<1>4. Ascending(ApplicationIds) = id
  BY <1>1, <1>2, <1>3
<1> QED
  BY <1>4 DEF id

\* Fewer ids can be put in ascending order too.
LEMMA AscendingOfSome ==
    ASSUME NEW S \in SUBSET ApplicationIds
    PROVE  Ascending(S) \in [1..Cardinality(S) -> S]
<1> DEFINE Rising(s, n) == \A k, l \in 1..n : k < l => s[k] < s[l]
           n == Cardinality(S)
<1>1. SUFFICES \E s \in [1..n -> S] : Rising(s, n)
  BY DEF Ascending
<1>2. n \in Nat /\ IsFiniteSet(S)
  BY SizeOfSome
<1>3. CASE S = {}
  <2>1. n = 0
    BY <1>3, FS_EmptySet
  <2>2. <<>> \in [1..0 -> S] /\ Rising(<<>>, 0)
    OBVIOUS
  <2> QED BY <2>1, <2>2
<1>4. CASE \E a \in ApplicationIds : S = {a}
  <2>1. PICK a \in ApplicationIds : S = {a}
    BY <1>4
  <2>2. n = 1
    BY <2>1, FS_Singleton
  <2>3. [k \in 1..1 |-> a] \in [1..1 -> S] /\ Rising([k \in 1..1 |-> a], 1)
    BY <2>1
  <2> QED BY <2>2, <2>3
<1>5. CASE \E a, b \in ApplicationIds : a < b /\ S = {a, b}
  <2>1. PICK a \in ApplicationIds, b \in ApplicationIds : a < b /\ S = {a, b}
    BY <1>5
  <2>2. n = 2
    <3>1. IsFiniteSet({a}) /\ Cardinality({a}) = 1
      BY FS_Singleton
    <3>2. b \notin {a} /\ S = {a} \union {b}
      BY <2>1 DEF ApplicationIds
    <3> QED BY <3>1, <3>2, FS_AddElement
  <2> DEFINE s == [k \in 1..2 |-> IF k = 1 THEN a ELSE b]
  <2>3. s \in [1..2 -> S] /\ Rising(s, 2)
    BY <2>1
  <2> HIDE DEF s
  <2> QED BY <2>2, <2>3
<1>6. CASE S = ApplicationIds
  <2> DEFINE s == [k \in 1..3 |-> k]
  <2>1. s \in [1..3 -> ApplicationIds] /\ Rising(s, 3)
    BY DEF ApplicationIds
  <2>2. n = 3
    BY <1>6, SizeOfSome
  <2> HIDE DEF s
  <2> QED BY <1>6, <2>1, <2>2
<1>7. S \in SUBSET {1, 2, 3} /\ ApplicationIds = {1, 2, 3}
  BY DEF ApplicationIds
<1> QED
  <2>1. 1 < 2 /\ 1 < 3 /\ 2 < 3
    OBVIOUS
  <2>2. \/ S = {} \/ S = {1} \/ S = {2} \/ S = {3}
        \/ S = {1, 2} \/ S = {1, 3} \/ S = {2, 3} \/ S = {1, 2, 3}
    BY <1>7
  <2> QED BY <1>3, <1>4, <1>5, <1>6, <1>7, <2>1, <2>2

-----------------------------------------------------------------------------
(* The row of a run *)

\* The groups are those of all applications, or fewer than three.
LEMMA Groups ==
    ASSUME NEW sim \in Outcomes
    PROVE  /\ ~Silent(sim) => FlowGroups(sim) = [k \in 1..3 |-> k]
           /\ \E n \in Nat : /\ FlowGroups(sim) \in [1..n -> ApplicationIds]
                             /\ n = 3 <=> ~Silent(sim)
                             /\ n <= 3
<1>1. Delivering(sim) \in SUBSET ApplicationIds
  BY DEF Delivering
<1>2. Delivering(sim) = ApplicationIds <=> ~Silent(sim)
  BY ReceivedIsNat DEF Delivering, Silent
<1>3. ~Silent(sim) => FlowGroups(sim) = [k \in 1..3 |-> k]
  BY <1>2, AscendingOfAll DEF FlowGroups
<1> DEFINE n == Cardinality(Delivering(sim))
<1>4. n \in Nat /\ n <= 3 /\ (n = 3 <=> ~Silent(sim))
  BY <1>1, <1>2, SizeOfSome
<1>5. FlowGroups(sim) \in [1..n -> ApplicationIds]
  <2>1. FlowGroups(sim) \in [1..n -> Delivering(sim)]
    BY <1>1, AscendingOfSome DEF FlowGroups
  <2> QED BY <1>1, <2>1
<1> HIDE DEF n
<1> QED
  BY <1>3, <1>4, <1>5

\* A function on 1..n is a sequence of n elements, such as a column with one for each group.
LEMMA ColumnIsSeq ==
    ASSUME NEW n \in Nat, NEW S, NEW g \in [1..n -> S]
    PROVE  g \in Seq(S) /\ Len(g) = n
<1>1. g \in Seq(S)
  BY SeqDef
<1>2. Len(g) \in Nat /\ DOMAIN g = 1..Len(g)
  BY <1>1, LenProperties
<1>3. 1..n = 1..Len(g)
  BY <1>2
<1>4. Len(g) = n
  BY <1>2, <1>3
<1> QED
  BY <1>1, <1>4

\* A run has a complete row exactly when no application was silent.
LEMMA CompleteRow ==
    ASSUME NEW sim \in Outcomes
    PROVE  Complete(RunInfo(sim)) <=> ~Silent(sim)
<1> DEFINE flows == FlowGroups(sim)
           column == [k \in DOMAIN flows |-> AverageBandwidth(sim, flows[k])]
           S == {AverageBandwidth(sim, a) : a \in ApplicationIds}
<1>1. PICK n \in Nat : /\ flows \in [1..n -> ApplicationIds]
                       /\ n = 3 <=> ~Silent(sim)
                       /\ n <= 3
  BY Groups
<1>2. column \in [1..n -> S]
  <2>1. DOMAIN flows = 1..n /\ \A k \in 1..n : flows[k] \in ApplicationIds
    BY <1>1
  <2>2. \A k \in 1..n : AverageBandwidth(sim, flows[k]) \in S
    BY ONLY <2>1
  <2> HIDE DEF flows, S
  <2> QED BY <2>1, <2>2
<1>3. Len(column) = n
  <2> HIDE DEF column, S
  <2> QED BY <1>2, ColumnIsSeq
<1>4. RunInfo(sim).applicationBandWidth = column
  BY DEF RunInfo
<1>5. Complete(RunInfo(sim)) <=> Len(column) >= 3
  BY <1>4 DEF Complete
<1> HIDE DEF column, flows
<1>6. Complete(RunInfo(sim)) <=> n >= 3
  BY <1>3, <1>5
<1> QED
  BY <1>1, <1>6

\* The columns of a complete row are those of the applications, in their order.
LEMMA ColumnsOfRow ==
    ASSUME NEW sim \in Outcomes, ~Silent(sim), NEW a \in ApplicationIds
    PROVE  /\ Row(RunInfo(sim)).errorRates[a] = ErrorRate(sim, a)
           /\ Row(RunInfo(sim)).bandWidth[a] = AverageBandwidth(sim, a)
<1> DEFINE flows == FlowGroups(sim)
           errors == [k \in DOMAIN flows |-> ErrorRate(sim, flows[k])]
           widths == [k \in DOMAIN flows |-> AverageBandwidth(sim, flows[k])]
<1>1. flows = [k \in 1..3 |-> k]
  BY Groups
<1>2. \A k \in 1..3 : errors[k] = ErrorRate(sim, k) /\ widths[k] = AverageBandwidth(sim, k)
  <2> HIDE DEF flows
  <2> QED BY <1>1
<1>3. /\ RunInfo(sim).applicationErrorRates = errors
      /\ RunInfo(sim).applicationBandWidth = widths
  BY DEF RunInfo
<1> HIDE DEF errors, widths
<1>4. /\ Row(RunInfo(sim)).errorRates = SubSeq(errors, 1, 3)
      /\ Row(RunInfo(sim)).bandWidth = SubSeq(widths, 1, 3)
  BY <1>3 DEF Row
<1>5. ASSUME NEW s PROVE \A k \in 1..3 : SubSeq(s, 1, 3)[k] = s[k]
  <2> DEFINE S == {s[k] : k \in 1..3}
  <2>1. \A k \in 1..3 : s[k] \in S
    OBVIOUS
  <2> HIDE DEF S
  <2>2. \A k \in 1..(3 - 1 + 1) : SubSeq(s, 1, 3)[k] = s[1 + k - 1]
    BY <2>1, SubSeqProperties
  <2>3. \A k \in 1..3 : k \in 1..(3 - 1 + 1) /\ 1 + k - 1 = k
    OBVIOUS
  <2> QED BY <2>2, <2>3
<1> QED
  BY <1>2, <1>4, <1>5 DEF ApplicationIds

-----------------------------------------------------------------------------
(* The rows of a file *)

\* printResultsToFile writes the rows before the first that lacks a column: those of the
\* runs before the first silent one, which ends the program.
LEMMA RowsPrinted ==
    ASSUME NEW sims \in Seq(Outcomes), NEW infos \in Seq({RunInfo(sim) : sim \in Outcomes}),
           Len(infos) = Len(sims), \A k \in 1..Len(infos) : infos[k] = RunInfo(sims[k])
    PROVE  /\ Printed(infos) \in Seq({RunInfo(sim) : sim \in Outcomes})
           /\ Len(Printed(infos)) <= Len(sims)
           /\ \A k \in 1..Len(Printed(infos)) : /\ Printed(infos)[k] = RunInfo(sims[k])
                                                /\ ~Silent(sims[k])
           /\ (\E k \in DOMAIN infos : ~Complete(infos[k])) =>
                 /\ Len(Printed(infos)) < Len(sims)
                 /\ Silent(sims[Len(Printed(infos)) + 1])
           /\ ~(\E k \in DOMAIN infos : ~Complete(infos[k])) => Len(Printed(infos)) = Len(sims)
<1> DEFINE short == {k \in DOMAIN infos : ~Complete(infos[k])}
           len == IF short = {} THEN Len(infos) ELSE Min(short) - 1
           Infos == {RunInfo(sim) : sim \in Outcomes}
<1>1. /\ Len(infos) \in Nat /\ DOMAIN infos = 1..Len(infos) /\ infos \in [1..Len(infos) -> Infos]
      /\ sims \in [1..Len(sims) -> Outcomes]
  BY LenProperties
<1>2. \A k \in 1..Len(infos) : Complete(infos[k]) <=> ~Silent(sims[k])
  <2>1. SUFFICES ASSUME NEW k \in 1..Len(infos) PROVE Complete(infos[k]) <=> ~Silent(sims[k])
    OBVIOUS
  <2>2. sims[k] \in Outcomes /\ infos[k] = RunInfo(sims[k])
    BY <1>1
  <2> QED BY <2>2, CompleteRow
<1>3. /\ len \in 0..Len(infos)
      /\ \A k \in 1..len : k \notin short
      /\ short # {} => len + 1 \in short
  <2>1. CASE short = {}
    BY <1>1, <2>1
  <2>2. CASE short # {}
    <3>1. short \in SUBSET Nat /\ short \subseteq 1..Len(infos)
      BY <1>1
    <3>2. \E n \in short : \A m \in short : n <= m
      BY <2>2, <3>1, LeastNat
    <3>3. Min(short) \in short /\ \A m \in short : Min(short) <= m
      BY <3>2 DEF Min
    <3>4. len = Min(short) - 1
      BY <2>2
    <3> HIDE DEF short, len
    <3>5. Min(short) \in 1..Len(infos)
      BY <3>1, <3>3
    <3>6. len \in 0..Len(infos) /\ len + 1 = Min(short)
      BY <1>1, <3>4, <3>5
    <3>7. \A k \in 1..len : ~(Min(short) <= k)
      BY <3>4, <3>5, <3>6, <1>1
    <3> QED BY <3>3, <3>6, <3>7
  <2> QED BY <2>1, <2>2
<1>4. Printed(infos) = SubSeq(infos, 1, len)
  BY DEF Printed
<1>5. \A k \in DOMAIN infos : k \in short <=> Silent(sims[k])
  BY <1>1, <1>2
<1>6. (\E k \in DOMAIN infos : ~Complete(infos[k])) <=> short # {}
  OBVIOUS
<1>7. short \subseteq DOMAIN infos
  OBVIOUS
<1>13. ASSUME short = {} PROVE len = Len(sims)
  BY <1>13
<1> HIDE DEF short, len, Infos
<1>8. /\ Printed(infos) \in Seq(Infos) /\ Len(Printed(infos)) = len
      /\ \A k \in 1..len : Printed(infos)[k] = infos[k]
  <2>1. \A k \in 1..len : infos[k] \in Infos
    BY <1>1, <1>3
  <2>2. /\ SubSeq(infos, 1, len) \in Seq(Infos)
        /\ Len(SubSeq(infos, 1, len)) = IF 1 <= len THEN len - 1 + 1 ELSE 0
        /\ \A k \in 1..(len - 1 + 1) : SubSeq(infos, 1, len)[k] = infos[1 + k - 1]
    <3>1. 1 \in Int /\ len \in Int
      BY <1>1, <1>3
    <3> QED BY <2>1, <3>1, SubSeqProperties
  <2>3. len \in Nat /\ len - 1 + 1 = len /\ \A k \in 1..len : 1 + k - 1 = k
    BY <1>1, <1>3
  <2> QED BY <1>4, <2>2, <2>3
<1>9. \A k \in 1..len : k \in DOMAIN infos /\ k \in 1..Len(infos)
  BY <1>1, <1>3
<1>10. ASSUME short # {} PROVE len < Len(sims) /\ Silent(sims[len + 1])
  <2>1. len + 1 \in DOMAIN infos
    BY <1>3, <1>7, <1>10
  <2>2. len + 1 <= Len(infos) /\ len \in Nat
    BY <1>1, <1>3, <2>1
  <2> QED BY <1>1, <1>3, <1>5, <1>10, <2>1, <2>2
<1>11. \A k \in 1..len : Printed(infos)[k] = RunInfo(sims[k]) /\ ~Silent(sims[k])
  BY <1>3, <1>5, <1>8, <1>9
<1>12. len <= Len(sims)
  BY <1>1, <1>3
<1> QED
  BY <1>6, <1>8, <1>10, <1>11, <1>12, <1>13 DEF Infos

\* RunSimulation: the results stay those of the runs.
LEMMA StepRunSimulation == ReportIInv /\ RunSimulation => ReportIInv'
<1> SUFFICES ASSUME ReportIInv, RunSimulation
             PROVE  ReportIInv'
  OBVIOUS
<1> DEFINE Infos == {RunInfo(sim) : sim \in Outcomes}
           runs == simulated[strategy]
<1>1. PICK sim \in Outcomes :
         /\ results' = Append(results, RunInfo(sim))
         /\ simulated' = [simulated EXCEPT ![strategy] = Append(@, sim)]
  BY DEF RunSimulation
<1>2. /\ program = "running" /\ program' = program /\ strategy' = strategy /\ files' = files
      /\ strategy \in 1..Strategies /\ Strategies \in Nat
  BY ReportAssumption DEF RunSimulation, ReportIInv, ReportTypeOK
<1>3. /\ runs \in Seq(Outcomes) /\ results \in Seq(Infos) /\ RunInfo(sim) \in Infos
      /\ simulated \in [1..Strategies -> Seq(Outcomes)]
  BY <1>2 DEF ReportIInv, ReportTypeOK
<1>4. /\ simulated' \in [1..Strategies -> Seq(Outcomes)]
      /\ simulated'[strategy] = Append(runs, sim)
      /\ \A s \in 1..Strategies : s # strategy => simulated'[s] = simulated[s]
  BY <1>1, <1>2, <1>3, AppendProperties
<1> HIDE DEF Infos, runs
<1>5. /\ Append(results, RunInfo(sim)) \in Seq(Infos)
      /\ Len(Append(results, RunInfo(sim))) = Len(results) + 1
      /\ \A k \in 1..Len(results) : Append(results, RunInfo(sim))[k] = results[k]
      /\ Append(results, RunInfo(sim))[Len(results) + 1] = RunInfo(sim)
  BY <1>3, AppendProperties
<1>6. /\ Len(Append(runs, sim)) = Len(runs) + 1
      /\ \A k \in 1..Len(runs) : Append(runs, sim)[k] = runs[k]
      /\ Append(runs, sim)[Len(runs) + 1] = sim
      /\ Len(runs) \in Nat
  BY <1>3, AppendProperties, LenProperties
<1>7. ReportTypeOK'
  BY <1>1, <1>2, <1>4, <1>5 DEF ReportIInv, ReportTypeOK, Infos
<1>8. Len(results) = Len(runs) /\ \A k \in 1..Len(results) : results[k] = RunInfo(runs[k])
  BY <1>2 DEF ReportIInv, Kept, runs
<1>9. Kept'
  <2>1. Len(results') = Len(simulated'[strategy'])
    BY <1>1, <1>2, <1>4, <1>5, <1>6, <1>8
  <2>2. ASSUME NEW k \in 1..Len(results')
        PROVE  results'[k] = RunInfo(simulated'[strategy'][k])
    <3>1. k \in 1..Len(runs) \/ k = Len(runs) + 1
      BY <1>1, <1>5, <1>6, <1>8
    <3> QED BY <1>1, <1>2, <1>4, <1>5, <1>6, <1>8, <3>1
  <2> QED BY <2>1, <2>2 DEF Kept
<1>10. Untried'
  <2>1. \A s \in (strategy + 1)..Strategies : s \in 1..Strategies /\ s # strategy
    BY <1>2
  <2> QED BY <1>2, <1>4, <2>1 DEF ReportIInv, Untried
<1>13. Reported'
  BY <1>2, <1>4 DEF ReportIInv, Reported
<1>11. RowsOfRuns'
  <2>1. SUFFICES ASSUME NEW s \in 1..Strategies
                 PROVE  /\ Len(files[s]) <= Len(simulated'[s])
                        /\ \A k \in 1..Len(files[s]) :
                              /\ files[s][k] = Row(RunInfo(simulated'[s][k]))
                              /\ ~Silent(simulated'[s][k])
    BY <1>2 DEF RowsOfRuns
  <2>2. CASE s = strategy
    <3>1. files[s] = <<>>
      BY <1>2, <2>2 DEF ReportIInv, Untried
    <3> QED BY <1>4, <1>6, <2>2, <3>1
  <2>3. CASE s # strategy
    BY <1>4, <2>3 DEF ReportIInv, RowsOfRuns
  <2> QED BY <2>2, <2>3
<1>12. Cause'
  BY <1>2 DEF Cause
<1> QED
  BY <1>7, <1>9, <1>10, <1>11, <1>12, <1>13 DEF ReportIInv

\* PrintResults: the rows are those of the runs before the first silent one.
LEMMA StepPrintResults == ReportIInv /\ PrintResults => ReportIInv'
<1> SUFFICES ASSUME ReportIInv, PrintResults
             PROVE  ReportIInv'
  OBVIOUS
<1> DEFINE Infos == {RunInfo(sim) : sim \in Outcomes}
           AllRows == {Row(RunInfo(sim)) : sim \in Telling}
           runs == simulated[strategy]
           printed == Printed(results)
           rows == [k \in DOMAIN printed |-> Row(printed[k])]
           lacking == \E k \in DOMAIN results : ~Complete(results[k])
<1>1. /\ program = "running" /\ simulated' = simulated /\ results' = <<>>
      /\ files' = [files EXCEPT ![strategy] = rows]
      /\ program' = IF lacking THEN "terminated"
                    ELSE IF strategy = Strategies THEN "exited" ELSE "running"
      /\ strategy' = IF program' = "running" THEN strategy + 1 ELSE strategy
  BY DEF PrintResults
<1>2. /\ strategy \in 1..Strategies /\ Strategies \in Nat
      /\ simulated \in [1..Strategies -> Seq(Outcomes)]
      /\ files \in [1..Strategies -> Seq(AllRows)]
      /\ results \in Seq(Infos) /\ runs \in Seq(Outcomes)
  BY ReportAssumption DEF ReportIInv, ReportTypeOK
<1>3. Len(results) = Len(runs) /\ \A k \in 1..Len(results) : results[k] = RunInfo(runs[k])
  BY <1>1 DEF ReportIInv, Kept
<1>4. /\ printed \in Seq(Infos)
      /\ Len(printed) <= Len(runs)
      /\ \A k \in 1..Len(printed) : printed[k] = RunInfo(runs[k]) /\ ~Silent(runs[k])
      /\ lacking => Len(printed) < Len(runs) /\ Silent(runs[Len(printed) + 1])
      /\ ~lacking => Len(printed) = Len(runs)
  <2> HIDE DEF runs
  <2> QED BY <1>2, <1>3, RowsPrinted
<1>5. /\ rows \in Seq(AllRows) /\ Len(rows) = Len(printed)
      /\ \A k \in 1..Len(printed) : rows[k] = Row(printed[k])
  <2>1. Len(printed) \in Nat /\ DOMAIN printed = 1..Len(printed)
    BY <1>4, LenProperties
  <2>2. ASSUME NEW k \in 1..Len(printed) PROVE Row(printed[k]) \in AllRows
    <3>1. runs[k] \in Outcomes
      <4>1. Len(runs) \in Nat /\ k \in 1..Len(runs)
        BY <1>2, <1>4, <2>1, LenProperties
      <4> HIDE DEF runs
      <4> QED BY <1>2, <4>1, ElementOfSeq
    <3>2. printed[k] = RunInfo(runs[k]) /\ runs[k] \in Telling
      BY <1>4, <3>1 DEF Telling
    <3> HIDE DEF printed, runs
    <3> QED BY <3>2
  <2> HIDE DEF printed, Infos, AllRows
  <2>3. rows \in [1..Len(printed) -> AllRows] /\ \A k \in 1..Len(printed) : rows[k] = Row(printed[k])
    BY <2>1, <2>2
  <2> HIDE DEF rows
  <2> QED BY <2>1, <2>3, ColumnIsSeq
<1> HIDE DEF Infos, AllRows, runs, printed, rows, lacking
<1>6. /\ files' \in [1..Strategies -> Seq(AllRows)] /\ files'[strategy] = rows
      /\ \A s \in 1..Strategies : s # strategy => files'[s] = files[s]
  BY <1>1, <1>2, <1>5
<1>7. /\ program' \in {"running", "exited", "terminated"} /\ strategy' \in 1..Strategies
      /\ program' # "terminated" => ~lacking
      /\ program' # "running" => strategy' = strategy
      /\ program' = "running" => strategy' = strategy + 1
      /\ program' = "terminated" => lacking /\ strategy' = strategy
  BY <1>1, <1>2
<1>8. ReportTypeOK'
  <2>1. results' \in Seq(Infos)
    BY <1>1, EmptySeq
  <2> QED BY <1>1, <1>2, <1>6, <1>7, <2>1 DEF ReportTypeOK, Infos, AllRows
<1>9. ASSUME program' = "running"
      PROVE  /\ strategy' \in (strategy + 1)..Strategies /\ strategy' # strategy
             /\ files[strategy'] = <<>> /\ simulated[strategy'] = <<>>
  <2>1. strategy' \in (strategy + 1)..Strategies /\ strategy' # strategy
    BY <1>2, <1>7, <1>9
  <2> QED BY <1>1, <2>1 DEF ReportIInv, Untried
<1>10. Kept'
  <2>1. SUFFICES ASSUME program' = "running"
                 PROVE  /\ Len(results') = Len(simulated'[strategy'])
                        /\ \A k \in 1..Len(results') : results'[k] = RunInfo(simulated'[strategy'][k])
    BY DEF Kept
  <2>2. results' = <<>> /\ simulated'[strategy'] = <<>>
    BY <1>1, <1>9, <2>1
  <2>3. Len(results') = 0 /\ \A k \in 1..0 : FALSE
    BY <2>2
  <2> QED BY <2>2, <2>3
<1>11. Untried'
  <2>1. program' = "running" => files'[strategy'] = <<>>
    BY <1>6, <1>7, <1>9
  <2>2. program' \notin {"died", "unopened"}
    BY <1>7
  <2>3. \A s \in (strategy' + 1)..Strategies :
          s \in (strategy + 1)..Strategies /\ s \in 1..Strategies /\ s # strategy
    <3>1. strategy' = strategy \/ strategy' = strategy + 1
      BY <1>7
    <3> QED BY <1>2, <3>1
  <2>4. \A s \in (strategy + 1)..Strategies : files[s] = <<>> /\ simulated[s] = <<>>
    BY DEF ReportIInv, Untried
  <2> QED BY <1>1, <1>6, <2>1, <2>2, <2>3, <2>4 DEF Untried
<1>14. Reported'
  <2>1. SUFFICES ASSUME NEW s \in 1..Strategies,
                        s < strategy' \/ (s = strategy' /\ program' = "exited")
                 PROVE  Len(files'[s]) = Len(simulated[s])
    BY <1>1 DEF Reported
  <2>2. CASE s = strategy
    <3>1. program' # "terminated"
      BY <1>2, <1>7, <2>1, <2>2
    <3>2. files'[s] = rows /\ simulated[s] = runs
      BY <1>6, <2>2 DEF runs
    <3> QED BY <1>4, <1>5, <1>7, <3>1, <3>2
  <2>3. CASE s # strategy
    <3>1. s < strategy
      BY <1>2, <1>7, <2>1, <2>3
    <3> QED BY <1>6, <2>3, <3>1 DEF ReportIInv, Reported
  <2> QED BY <2>2, <2>3
<1>12. RowsOfRuns'
  <2>1. SUFFICES ASSUME NEW s \in 1..Strategies
                 PROVE  /\ Len(files'[s]) <= Len(simulated[s])
                        /\ \A k \in 1..Len(files'[s]) :
                              /\ files'[s][k] = Row(RunInfo(simulated[s][k]))
                              /\ ~Silent(simulated[s][k])
    BY <1>1 DEF RowsOfRuns
  <2>2. CASE s = strategy
    <3>1. files'[s] = rows /\ simulated[s] = runs
      BY <1>6, <2>2 DEF runs
    <3> QED BY <1>4, <1>5, <3>1
  <2>3. CASE s # strategy
    BY <1>6, <2>3 DEF ReportIInv, RowsOfRuns
  <2> QED BY <2>2, <2>3
<1>13. Cause'
  <2>1. SUFFICES ASSUME program' = "terminated"
                 PROVE  /\ Len(files'[strategy']) < Len(simulated'[strategy'])
                        /\ Silent(simulated'[strategy'][Len(files'[strategy']) + 1])
    BY DEF Cause
  <2>2. files'[strategy'] = rows /\ simulated'[strategy'] = runs
    BY <1>1, <1>6, <1>7, <2>1 DEF runs
  <2> QED BY <1>4, <1>5, <1>7, <2>1, <2>2
<1> QED
  BY <1>8, <1>10, <1>11, <1>12, <1>13, <1>14 DEF ReportIInv

\* SimulationDies and FileCannotBeOpened: what was kept for the strategy is lost with the
\* program, and nothing else is.
LEMMA StepEndsEarly == ReportIInv /\ (SimulationDies \/ FileCannotBeOpened) => ReportIInv'
<1> SUFFICES ASSUME ReportIInv, SimulationDies \/ FileCannotBeOpened
             PROVE  ReportIInv'
  OBVIOUS
<1>1. /\ program = "running" /\ program' \in {"died", "unopened"}
      /\ UNCHANGED <<strategy, results, files, simulated>>
  BY DEF SimulationDies, FileCannotBeOpened
<1>2. ReportTypeOK'
  BY <1>1 DEF ReportIInv, ReportTypeOK
<1>3. Kept' /\ Untried'
  BY <1>1 DEF ReportIInv, Kept, Untried
<1>4. Reported' /\ RowsOfRuns' /\ Cause'
  BY <1>1 DEF ReportIInv, Reported, RowsOfRuns, Cause
<1> QED
  BY <1>2, <1>3, <1>4 DEF ReportIInv

-----------------------------------------------------------------------------
(* Theorems *)

\* Every run and every file of main leaves the rows those of the runs.
THEOREM ReportInvariance == ReportSpec => []ReportIInv
<1>1. ReportInit => ReportIInv
  <2>1. SUFFICES ASSUME ReportInit PROVE ReportIInv
    OBVIOUS
  <2> DEFINE AllRows == {Row(RunInfo(sim)) : sim \in Telling}
             Infos == {RunInfo(sim) : sim \in Outcomes}
  <2>2. <<>> \in Seq(AllRows) /\ <<>> \in Seq(Infos) /\ <<>> \in Seq(Outcomes) /\ Len(<<>>) = 0
    <3> HIDE DEF AllRows, Infos
    <3> QED BY EmptySeq
  <2>3. /\ strategy = 1 /\ results = <<>> /\ program = "running"
        /\ files = [s \in 1..Strategies |-> <<>>] /\ simulated = [s \in 1..Strategies |-> <<>>]
        /\ Strategies \in Nat \ {0} /\ strategy \in 1..Strategies
    BY <2>1, ReportAssumption DEF ReportInit
  <2> HIDE DEF AllRows, Infos
  <2>4. ReportTypeOK
    <3>1. /\ files \in [1..Strategies -> Seq(AllRows)] /\ results \in Seq(Infos)
          /\ simulated \in [1..Strategies -> Seq(Outcomes)]
      BY <2>2, <2>3
    <3> QED BY <2>3, <3>1 DEF ReportTypeOK, AllRows, Infos
  <2>5. \A s \in 1..Strategies : files[s] = <<>> /\ simulated[s] = <<>>
    BY <2>3
  <2>6. Kept
    BY <2>2, <2>3, <2>5 DEF Kept
  <2>7. Untried
    <3>1. \A s \in (strategy + 1)..Strategies : s \in 1..Strategies
      BY <2>3
    <3> QED BY <2>3, <2>5, <3>1 DEF Untried
  <2>8. RowsOfRuns /\ Reported
    BY <2>2, <2>5 DEF RowsOfRuns, Reported
  <2>9. Cause
    BY <2>3 DEF Cause
  <2> QED BY <2>4, <2>6, <2>7, <2>8, <2>9 DEF ReportIInv
<1>2. ReportIInv /\ [ReportNext]_reportVars => ReportIInv'
  <2>1. ASSUME ReportIInv, UNCHANGED reportVars PROVE ReportIInv'
    BY <2>1 DEF reportVars, ReportIInv, ReportTypeOK, Kept, Untried, Reported, RowsOfRuns, Cause
  <2> QED BY <2>1, StepRunSimulation, StepPrintResults, StepEndsEarly DEF ReportNext
<1> QED
  BY <1>1, <1>2, PTL DEF ReportSpec

\* The columns of a row are those of the applications in the header: a RunInfo from which
\* RunSimulation dropped an application is too short to become a row.
THEOREM ColumnsBelong == ReportSpec => []ColumnsBelongToApplications
<1>1. ReportIInv => ColumnsBelongToApplications
  <2>1. SUFFICES ASSUME ReportIInv, NEW s \in 1..Strategies, NEW k \in DOMAIN files[s],
                        NEW a \in ApplicationIds
                 PROVE  /\ files[s][k].errorRates[a] = ErrorRate(simulated[s][k], a)
                        /\ files[s][k].bandWidth[a] = AverageBandwidth(simulated[s][k], a)
    BY DEF ColumnsBelongToApplications
  <2> DEFINE AllRows == {Row(RunInfo(sim)) : sim \in Telling}
             sim == simulated[s][k]
  <2>2. files[s] \in Seq(AllRows) /\ simulated[s] \in Seq(Outcomes)
    BY <2>1 DEF ReportIInv, ReportTypeOK
  <2> HIDE DEF AllRows
  <2>3. /\ DOMAIN files[s] = 1..Len(files[s]) /\ Len(files[s]) \in Nat /\ Len(simulated[s]) \in Nat
        /\ Len(files[s]) <= Len(simulated[s])
    BY <2>1, <2>2, LenProperties DEF ReportIInv, RowsOfRuns
  <2>4. k \in 1..Len(files[s]) /\ k \in 1..Len(simulated[s])
    BY <2>1, <2>3
  <2>5. sim \in Outcomes
    BY <2>2, <2>4, ElementOfSeq
  <2>6. files[s][k] = Row(RunInfo(sim)) /\ ~Silent(sim)
    BY <2>1, <2>4 DEF ReportIInv, RowsOfRuns
  <2> HIDE DEF sim
  <2>7. files[s][k].errorRates[a] = ErrorRate(sim, a) /\ files[s][k].bandWidth[a] = AverageBandwidth(sim, a)
    BY <2>1, <2>5, <2>6, ColumnsOfRow
  <2> QED BY <2>7 DEF sim
<1> QED
  BY <1>1, ReportInvariance, PTL

\* A simulated run without a row belongs to the strategy main was at when the program ended:
\* it has no rows at all if a simulation died or its file could not be opened, and
\* the rows before the first silent run if the exception of at() ended the program.
THEOREM RowsLost == ReportSpec => []LostRowsHaveACause
<1>1. ReportIInv => LostRowsHaveACause
  <2>1. SUFFICES ASSUME ReportIInv, NEW s \in 1..Strategies, Len(files[s]) # Len(simulated[s])
                 PROVE  /\ s = strategy
                        /\ \/ program \in {"running", "died", "unopened"} /\ Len(files[s]) = 0
                           \/ /\ program = "terminated"
                              /\ Len(files[s]) < Len(simulated[s])
                              /\ Silent(simulated[s][Len(files[s]) + 1])
                              /\ \A k \in 1..Len(files[s]) : ~Silent(simulated[s][k])
    BY DEF LostRowsHaveACause, Silent
  <2>2. strategy \in 1..Strategies /\ Strategies \in Nat
    BY <2>1, ReportAssumption DEF ReportIInv, ReportTypeOK
  <2>3. s = strategy /\ program # "exited"
    <3>1. ~(s > strategy)
      BY <2>1, <2>2 DEF ReportIInv, Untried
    <3> QED BY <2>1, <2>2, <3>1 DEF ReportIInv, Reported
  <2>4. CASE program = "terminated"
    BY <2>1, <2>2, <2>3, <2>4 DEF ReportIInv, Cause, RowsOfRuns
  <2>5. CASE program \in {"running", "died", "unopened"}
    <3>1. files[s] = <<>>
      BY <2>1, <2>3, <2>5 DEF ReportIInv, Untried
    <3> QED BY <2>3, <2>5, <3>1
  <2> QED BY <2>1, <2>3, <2>4, <2>5 DEF ReportIInv, ReportTypeOK
<1> QED
  BY <1>1, ReportInvariance, PTL
=============================================================================
