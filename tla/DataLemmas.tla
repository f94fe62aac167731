------------------------------ MODULE DataLemmas ------------------------------
(***************************************************************************)
(* Facts about numbers, sums and tilings, by induction.  The provers take  *)
(* induction in one form: a set of counterexamples has a least member.     *)
(***************************************************************************)
EXTENDS FiniteSetsExt, FiniteSetTheorems, Functions, Integers, TLAPS

\* Every set of numbers has a least one, for the finite sets of numbers are well
\* founded under inclusion.
LEMMA Least ==
    ASSUME NEW T \in SUBSET Nat, T # {}
    PROVE  \E x \in T : \A y \in T : x <= y
<1> DEFINE R == StrictSubsetOrdering(Nat)
           S == FiniteSubsetsOf(Nat)
           I == {0 .. x : x \in T}
<1>1. I \subseteq S /\ I # {}
  <2>1. ASSUME NEW x \in T PROVE 0 .. x \in S
    <3>1. 0 \in Int /\ x \in Int /\ 0 .. x \subseteq Nat
      OBVIOUS
    <3>2. IsFiniteSet(0 .. x)
      BY <3>1, FS_Interval
    <3>. QED BY <3>1, <3>2 DEF FiniteSubsetsOf
  <2>. QED BY <2>1
<1>2. PICK i \in I : \A j \in I : <<j, i>> \notin R
  <2>1. IsWellFoundedOn(R, S)
    BY FS_StrictSubsetOrderingWellFounded
  <2> HIDE DEF R, S, I
  <2>. QED BY <1>1, <2>1, WFMin
<1>3. PICK x \in T : i = 0 .. x
  OBVIOUS
<1>4. ASSUME NEW y \in T, y < x PROVE FALSE
  <2>1. 0 .. y \in I /\ 0 .. y \subseteq 0 .. x /\ x \in 0 .. x /\ x \notin 0 .. y
    BY <1>4
  <2>2. <<0 .. y, 0 .. x>> \in R
    BY <2>1 DEF StrictSubsetOrdering
  <2>. QED BY <1>2, <1>3, <2>1, <2>2
<1>. QED BY <1>4

\* A set of finite sets that is not empty has a smallest one.
LEMMA Smallest ==
    ASSUME NEW C, C # {}, \A S \in C : IsFiniteSet(S)
    PROVE  \E S \in C : \A T \in C : Cardinality(S) <= Cardinality(T)
<1> DEFINE N == {Cardinality(S) : S \in C}
<1>1. N \in SUBSET Nat /\ N # {}
  BY FS_CardinalityType
<1> HIDE DEF N
<1>2. PICK n \in N : \A m \in N : n <= m
  BY <1>1, Least
<1>. QED BY <1>2 DEF N

\* A finite set of numbers that is not empty has a greatest one.
LEMMA Greatest ==
    ASSUME NEW S \in SUBSET Nat, IsFiniteSet(S), S # {}
    PROVE  Max(S) \in S /\ \A y \in S : y <= Max(S)
<1> DEFINE C == {T \in SUBSET Nat : /\ IsFiniteSet(T) /\ T # {}
                                    /\ ~ \E x \in T : \A y \in T : x >= y}
<1>1. C = {}
  <2> SUFFICES ASSUME C # {} PROVE FALSE
    OBVIOUS
  <2>1. PICK T \in C : \A U \in C : Cardinality(T) <= Cardinality(U)
    <3>1. \A U \in C : IsFiniteSet(U)
      OBVIOUS
    <3> HIDE DEF C
    <3>. QED BY <3>1, Smallest
  <2>2. PICK a \in T : TRUE
    OBVIOUS
  <2> DEFINE U == T \ {a}
  <2>3. IsFiniteSet(U) /\ Cardinality(U) < Cardinality(T)
    <3>1. IsFiniteSet(T) /\ a \in T
      OBVIOUS
    <3> HIDE DEF C
    <3>2. IsFiniteSet(U) /\ Cardinality(U) = Cardinality(T) - 1
      BY <3>1, FS_RemoveElement
    <3>3. Cardinality(T) \in Nat
      BY <3>1, FS_CardinalityType
    <3>. QED BY <3>2, <3>3
  <2>4. U = {} \/ \E x \in U : \A y \in U : x >= y
    <3>1. Cardinality(T) \in Nat /\ Cardinality(U) \in Nat
      BY <2>3, FS_CardinalityType
    <3>2. U \notin C
      <4> HIDE DEF C, U
      <4>. QED BY <2>1, <2>3, <3>1
    <3>. QED BY <2>3, <3>2
  <2>. QED BY <2>4
<1>2. \E x \in S : \A y \in S : x >= y
  BY <1>1
<1>. QED BY <1>2 DEF Max

\* Induction up to a bound: what holds at 0 and at the successor of every number
\* it holds at holds everywhere.
LEMMA Upwards ==
    ASSUME NEW n \in Nat, NEW P, 0 \in P, \A k \in 1 .. n : k - 1 \in P => k \in P
    PROVE  0 .. n \subseteq P
<1> DEFINE T == (0 .. n) \ P
<1>1. SUFFICES ASSUME T # {} PROVE FALSE
  OBVIOUS
<1>2. PICK k \in T : \A j \in T : k <= j
  <2>1. T \in SUBSET Nat
    OBVIOUS
  <2> HIDE DEF T
  <2>. QED BY <1>1, <2>1, Least
<1>3. k \in 1 .. n /\ k - 1 \in 0 .. n /\ k - 1 \notin T
  BY <1>2
<1>. QED BY <1>2, <1>3

\* The highest of some of the first n numbers.
LEMMA MaxIn ==
    ASSUME NEW n \in Nat, NEW w \in SUBSET (1 .. n), w # {}
    PROVE  Max(w) \in w
<1>1. w \in SUBSET Nat /\ 1 \in Int /\ n \in Int
  OBVIOUS
<1>2. IsFiniteSet(w)
  BY <1>1, FS_Interval, FS_Subset
<1>. QED BY <1>1, <1>2, Greatest

\* The highest of the first k numbers.
LEMMA MaxUpto ==
    ASSUME NEW k \in Nat \ {0}
    PROVE  Max(1 .. k) = k /\ (1 .. k) \ {Max(1 .. k)} = 1 .. (k - 1)
<1>1. Max(1 .. k) \in 1 .. k /\ \A y \in 1 .. k : y <= Max(1 .. k)
  <2>1. 1 \in Int /\ k \in Int /\ 1 .. k \in SUBSET Nat /\ 1 .. k # {}
    OBVIOUS
  <2>2. IsFiniteSet(1 .. k)
    BY <2>1, FS_Interval
  <2>. QED BY <2>1, <2>2, Greatest
<1>. QED BY <1>1

\* The recursion that FoldLeft runs over a sequence of n members, where F gives
\* the next value from the last one and a position.
IsFold(g, n, F, base) ==
    g = [s \in SUBSET (1 .. n) |->
           IF s = {} THEN base
           ELSE LET x == Max(s) IN F[<<g[s \ {x}], x>>]]

\* It has a solution, and the solution stays among the values of F.
LEMMA FoldExists ==
    ASSUME NEW n \in Nat, NEW D, NEW base \in D, NEW F \in [D \X (1 .. n) -> D]
    PROVE  \E g : IsFold(g, n, F, base) /\ \A s \in SUBSET (1 .. n) : g[s] \in D
<1> DEFINE All        == SUBSET (1 .. n)
           Small(m)   == {s \in All : Cardinality(s) <= m}
           Step(g, s) == IF s = {} THEN base ELSE LET x == Max(s) IN F[<<g[s \ {x}], x>>]
           Solves(g, m) == /\ g = [s \in Small(m) |-> Step(g, s)]
                           /\ \A s \in Small(m) : g[s] \in D
           P == {m \in Nat : \E g : Solves(g, m)}
<1>1. ASSUME NEW s \in All
      PROVE  /\ IsFiniteSet(s) /\ Cardinality(s) \in Nat
             /\ s # {} => /\ Max(s) \in s /\ Max(s) \in 1 .. n
                          /\ s \ {Max(s)} \in All
                          /\ Cardinality(s \ {Max(s)}) = Cardinality(s) - 1
  <2>1. IsFiniteSet(1 .. n)
    BY FS_Interval
  <2>2. IsFiniteSet(s) /\ Cardinality(s) \in Nat
    BY <2>1, FS_Subset, FS_CardinalityType
  <2>3. ASSUME s # {} PROVE Max(s) \in s
    <3>1. s \in SUBSET Nat
      OBVIOUS
    <3>. QED BY <2>2, <2>3, <3>1, Greatest
  <2>. QED BY <2>2, <2>3, FS_RemoveElement
<1>2. 0 \in P
  <2> DEFINE g == [s \in Small(0) |-> base]
  <2>1. ASSUME NEW s \in Small(0) PROVE s = {}
    <3>1. s \in All /\ Cardinality(s) <= 0
      OBVIOUS
    <3>2. IsFiniteSet(s) /\ Cardinality(s) \in Nat
      BY <1>1
    <3>. QED BY <3>1, <3>2, FS_EmptySet
  <2>2. Solves(g, 0)
    BY <2>1
  <2>. QED BY <2>2
<1>3. ASSUME NEW m \in 1 .. n, m - 1 \in P PROVE m \in P
  <2>1. PICK g : Solves(g, m - 1)
    BY <1>3
  <2> DEFINE h == [s \in Small(m) |-> Step(g, s)]
  <2>2. ASSUME NEW s \in Small(m), s # {}
        PROVE  s \ {Max(s)} \in Small(m - 1)
    BY <1>1, <2>2
  <2>3. \A s \in Small(m - 1) : s \in Small(m) /\ h[s] = g[s]
    <3>1. ASSUME NEW s \in Small(m - 1) PROVE s \in Small(m)
      <4>1. Cardinality(s) \in Nat /\ Cardinality(s) <= m - 1
        BY <1>1
      <4>. QED BY <4>1
    <3>. QED BY <2>1, <3>1
  <2>4. ASSUME NEW s \in Small(m) PROVE Step(g, s) = Step(h, s) /\ Step(g, s) \in D
    <3>1. CASE s = {}
      BY <3>1
    <3>2. CASE s # {}
      <4>1. /\ s \ {Max(s)} \in Small(m - 1) /\ Max(s) \in 1 .. n
            /\ g[s \ {Max(s)}] \in D /\ h[s \ {Max(s)}] = g[s \ {Max(s)}]
        BY <1>1, <2>1, <2>2, <2>3, <3>2
      <4> HIDE DEF h
      <4>. QED BY <3>2, <4>1
    <3>. QED BY <3>1, <3>2
  <2>5. Solves(h, m)
    <3>1. \A s \in Small(m) : h[s] = Step(g, s)
      OBVIOUS
    <3> HIDE DEF Step, Small
    <3>. QED BY <2>4, <3>1
  <2> HIDE DEF Solves, h
  <2>. QED BY <2>5
<1>4. PICK g : Solves(g, n)
  <2> HIDE DEF P
  <2>1. n \in P
    BY <1>2, <1>3, Upwards
  <2>. QED BY <2>1 DEF P
<1>5. Small(n) = All
  <2>1. ASSUME NEW s \in All PROVE Cardinality(s) <= n
    <3>1. IsFiniteSet(1 .. n) /\ Cardinality(1 .. n) = n
      BY FS_Interval
    <3>2. s \in SUBSET (1 .. n)
      OBVIOUS
    <3> HIDE DEF All, Small, Solves, P
    <3>3. Cardinality(s) <= Cardinality(1 .. n)
      BY <3>1, <3>2, FS_Subset
    <3>. QED BY <3>1, <3>3
  <2>. QED BY <2>1
<1>. QED BY <1>4, <1>5 DEF IsFold

\* The recursion that SumFunction runs, on the subsets of a set.
IsSum(g, S, fun) ==
    g = [s \in SUBSET S |->
           IF s = {} THEN 0
           ELSE LET x == CHOOSE x \in s : TRUE IN fun[x] + g[s \ {x}]]

\* The recursion has a solution, up to sets of any size.
LEMMA SumExists ==
    ASSUME NEW S, IsFiniteSet(S), NEW fun \in [S -> Int]
    PROVE  \E g : IsSum(g, S, fun)
<1> DEFINE Small(n)  == {s \in SUBSET S : Cardinality(s) <= n}
           Step(g, s) == IF s = {} THEN 0
                         ELSE LET x == CHOOSE x \in s : TRUE IN fun[x] + g[s \ {x}]
           Upto(n)   == \E g : g = [s \in Small(n) |-> Step(g, s)]
           Bad       == {n \in Nat : ~Upto(n)}
<1>1. Upto(0)
  <2> DEFINE g == [s \in Small(0) |-> 0]
  <2>1. \A s \in Small(0) : s = {}
    BY FS_Subset, FS_EmptySet, FS_CardinalityType
  <2>2. g = [s \in Small(0) |-> Step(g, s)]
    BY <2>1
  <2>. QED BY <2>2
<1>2. ASSUME NEW n \in Nat, Upto(n) PROVE Upto(n + 1)
  <2>1. PICK g : g = [s \in Small(n) |-> Step(g, s)]
    BY <1>2
  <2> DEFINE h == [s \in Small(n + 1) |-> Step(g, s)]
  <2>2. ASSUME NEW s \in Small(n + 1), s # {}, NEW x \in s
        PROVE  s \ {x} \in Small(n) /\ s \ {x} \in Small(n + 1)
    <3>1. IsFiniteSet(s) /\ s \subseteq S
      BY FS_Subset
    <3>2. Cardinality(s \ {x}) = Cardinality(s) - 1 /\ Cardinality(s) \in Nat
      BY <2>2, <3>1, FS_RemoveElement, FS_CardinalityType
    <3>3. Cardinality(s) <= n + 1
      OBVIOUS
    <3>. QED BY <3>1, <3>2, <3>3
  <2>3. \A s \in Small(n) : s \in Small(n + 1)
    <3>1. \A s \in SUBSET S : Cardinality(s) \in Nat
      BY FS_Subset, FS_CardinalityType
    <3>. QED BY <3>1
  <2>4. \A s \in Small(n) : h[s] = g[s]
    BY <2>1, <2>3
  <2>5. ASSUME NEW s \in Small(n + 1) PROVE Step(g, s) = Step(h, s)
    <3>1. CASE s = {}
      BY <3>1
    <3>2. CASE s # {}
      <4>1. (CHOOSE x \in s : TRUE) \in s
        BY <3>2
      <4>. QED BY <2>2, <2>4, <3>2, <4>1
    <3>. QED BY <3>1, <3>2
  <2>6. h = [s \in Small(n + 1) |-> Step(h, s)]
    <3> HIDE DEF Step, Small
    <3>. QED BY <2>5
  <2>. QED BY <2>6
<1>3. \A n \in Nat : Upto(n)
  <2> SUFFICES ASSUME Bad # {} PROVE FALSE
    OBVIOUS
  <2>1. PICK n \in Bad : \A m \in Bad : n <= m
    <3>1. Bad \in SUBSET Nat
      OBVIOUS
    <3> HIDE DEF Bad
    <3>. QED BY <3>1, Least
  <2>2. n \in Nat /\ ~Upto(n) /\ \A m \in Nat : m < n => Upto(m)
    <3> HIDE DEF Upto
    <3>1. n \in Nat /\ ~Upto(n)
      OBVIOUS
    <3>2. \A m \in Nat : ~Upto(m) => n <= m
      BY <2>1
    <3>. QED BY <3>1, <3>2
  <2> HIDE DEF Upto, Bad
  <2>3. n # 0
    BY <1>1, <2>2
  <2>4. n - 1 \in Nat /\ Upto(n - 1)
    BY <2>2, <2>3
  <2>5. Upto(n - 1 + 1)
    BY <1>2, <2>4
  <2>6. n - 1 + 1 = n
    BY <2>2
  <2>. QED BY <2>2, <2>5, <2>6
<1>4. Small(Cardinality(S)) = SUBSET S
  BY FS_Subset, FS_CardinalityType
<1>5. Cardinality(S) \in Nat
  BY FS_CardinalityType
<1>6. PICK g : g = [s \in Small(Cardinality(S)) |-> Step(g, s)]
  BY <1>3, <1>5
<1>7. g = [s \in SUBSET S |-> Step(g, s)]
  <2> HIDE DEF Small, Step
  <2>. QED BY <1>4, <1>6
<1>. QED BY <1>7 DEF IsSum

\* The sum is what the recursion says.
LEMMA SumIs ==
    ASSUME NEW S, IsFiniteSet(S), NEW fun \in [S -> Int]
    PROVE  \E g : IsSum(g, S, fun) /\ SumFunction(fun) = g[S]
<1> DEFINE g == CHOOSE g : IsSum(g, S, fun)
<1>1. IsSum(g, S, fun)
  BY SumExists
<1>2. SumFunction(fun) = g[S]
  BY DEF SumFunction, SumFunctionOnSet, FoldFunctionOnSet, MapThenFoldSet, IsSum
<1>. QED BY <1>1, <1>2

\* A sum of numbers is a number.
LEMMA SumType ==
    ASSUME NEW S, IsFiniteSet(S), NEW fun \in [S -> Int], NEW g, IsSum(g, S, fun),
           NEW T \in SUBSET S
    PROVE  g[T] \in Int
<1> DEFINE C == {s \in SUBSET S : g[s] \notin Int}
<1>1. SUFFICES ASSUME C # {} PROVE FALSE
  OBVIOUS
<1>2. PICK s \in C : \A t \in C : Cardinality(s) <= Cardinality(t)
  <2>1. \A t \in C : IsFiniteSet(t)
    BY FS_Subset
  <2> HIDE DEF C
  <2>. QED BY <1>1, <2>1, Smallest
<1> DEFINE x == CHOOSE x \in s : TRUE
<1>3. s # {} /\ g[s] = fun[x] + g[s \ {x}] /\ g[s] \notin Int
  BY DEF IsSum
<1>4. x \in s /\ x \in S /\ s \in SUBSET S
  BY <1>3
<1> HIDE DEF x
<1>5. Cardinality(s \ {x}) = Cardinality(s) - 1 /\ Cardinality(s) \in Nat
  BY <1>4, FS_Subset, FS_RemoveElement, FS_CardinalityType
<1>6. s \ {x} \notin C
  <2> HIDE DEF C
  <2>. QED BY <1>2, <1>5
<1>7. g[s \ {x}] \in Int
  BY <1>4, <1>6
<1>. QED BY <1>3, <1>4, <1>7

\* A sum takes its terms in any order.
LEMMA SumRemove ==
    ASSUME NEW S, IsFiniteSet(S), NEW fun \in [S -> Int], NEW g, IsSum(g, S, fun),
           NEW T \in SUBSET S, NEW y \in T
    PROVE  g[T] = fun[y] + g[T \ {y}]
<1> DEFINE C == {s \in SUBSET S : \E z \in s : g[s] # fun[z] + g[s \ {z}]}
<1>1. SUFFICES ASSUME C # {} PROVE FALSE
  OBVIOUS
<1>2. PICK s \in C : \A t \in C : Cardinality(s) <= Cardinality(t)
  <2>1. \A t \in C : IsFiniteSet(t)
    BY FS_Subset
  <2> HIDE DEF C
  <2>. QED BY <1>1, <2>1, Smallest
<1>3. PICK z \in s : g[s] # fun[z] + g[s \ {z}]
  OBVIOUS
<1> DEFINE x == CHOOSE x \in s : TRUE
<1>4. x \in s /\ s \in SUBSET S
  OBVIOUS
<1>5. g[s] = fun[x] + g[s \ {x}]
  BY <1>4 DEF IsSum
<1> HIDE DEF x
<1>6. x # z
  BY <1>3, <1>5
<1>7. ASSUME NEW v \in s PROVE s \ {v} \in SUBSET S /\ s \ {v} \notin C
  <2>1. Cardinality(s \ {v}) = Cardinality(s) - 1 /\ Cardinality(s) \in Nat
    BY <1>4, FS_Subset, FS_RemoveElement, FS_CardinalityType
  <2> HIDE DEF C
  <2>. QED BY <1>2, <1>4, <2>1
<1>8. /\ g[s \ {x}] = fun[z] + g[(s \ {x}) \ {z}]
      /\ g[s \ {z}] = fun[x] + g[(s \ {z}) \ {x}]
  BY <1>4, <1>6, <1>7
<1>9. /\ (s \ {x}) \ {z} = (s \ {z}) \ {x} /\ (s \ {z}) \ {x} \in SUBSET S
      /\ g[(s \ {z}) \ {x}] \in Int /\ fun[x] \in Int /\ fun[z] \in Int
  BY <1>4, SumType
<1> DEFINE w == (s \ {z}) \ {x}
<1> HIDE DEF C
<1>10. g[s] = fun[x] + (fun[z] + g[w]) /\ g[s] # fun[z] + (fun[x] + g[w])
  BY <1>3, <1>5, <1>8, <1>9
<1>11. fun[x] \in Int /\ fun[z] \in Int /\ g[w] \in Int
  BY <1>9
<1> HIDE DEF w
<1>. QED BY <1>10, <1>11

\* What is known of the recursion: it sums integers, one term at a time.
Adds(g, S, fun) ==
    /\ g[{}] = 0
    /\ \A T \in SUBSET S :
          /\ g[T] \in Int
          /\ \A y \in T : g[T] = fun[y] + g[T \ {y}]

\* The sum over a finite set is the last value of such a recursion.
LEMMA SumAdds ==
    ASSUME NEW S, IsFiniteSet(S), NEW fun \in [S -> Int]
    PROVE  \E g : Adds(g, S, fun) /\ SumFunction(fun) = g[S]
<1>1. PICK g : IsSum(g, S, fun) /\ SumFunction(fun) = g[S]
  BY SumIs
<1>2. g[{}] = 0
  BY <1>1 DEF IsSum
<1>3. ASSUME NEW T \in SUBSET S
      PROVE  /\ g[T] \in Int
             /\ \A y \in T : g[T] = fun[y] + g[T \ {y}]
  BY <1>1, SumType, SumRemove
<1>. QED BY <1>1, <1>2, <1>3 DEF Adds

\* Functions that agree on a set have the same sum over it.
LEMMA SumAgree ==
    ASSUME NEW S, IsFiniteSet(S), NEW f \in [S -> Int], NEW h \in [S -> Int],
           NEW g, Adds(g, S, f), NEW k, Adds(k, S, h),
           NEW T \in SUBSET S, \A y \in T : f[y] = h[y]
    PROVE  g[T] = k[T]
<1> DEFINE C == {s \in SUBSET T : g[s] # k[s]}
<1>1. SUFFICES ASSUME C # {} PROVE FALSE
  OBVIOUS
<1>2. PICK s \in C : \A t \in C : Cardinality(s) <= Cardinality(t)
  <2>1. \A t \in C : IsFiniteSet(t)
    BY FS_Subset
  <2> HIDE DEF C
  <2>. QED BY <1>1, <2>1, Smallest
<1>3. s \in SUBSET T /\ g[s] # k[s]
  OBVIOUS
<1>4. s # {}
  BY <1>3 DEF Adds
<1>5. PICK x : x \in s /\ x \in T
  BY <1>3, <1>4
<1>6. g[s] = f[x] + g[s \ {x}] /\ k[s] = h[x] + k[s \ {x}]
  BY <1>3, <1>5 DEF Adds
<1>7. Cardinality(s \ {x}) = Cardinality(s) - 1 /\ Cardinality(s) \in Nat
  BY <1>3, <1>5, FS_Subset, FS_RemoveElement, FS_CardinalityType
<1>8. s \ {x} \notin C
  <2> HIDE DEF C
  <2>. QED BY <1>2, <1>7
<1>9. g[s \ {x}] = k[s \ {x}]
  BY <1>3, <1>8
<1>. QED BY <1>3, <1>5, <1>6, <1>9

\* What becomes of a sum when one of its terms changes.
LEMMA SumChange ==
    ASSUME NEW S, IsFiniteSet(S), NEW f \in [S -> Int], NEW h \in [S -> Int],
           NEW x \in S, \A y \in S \ {x} : h[y] = f[y]
    PROVE  /\ SumFunction(f) \in Int /\ SumFunction(h) \in Int
           /\ SumFunction(h) = SumFunction(f) - f[x] + h[x]
<1>1. PICK g : Adds(g, S, f) /\ SumFunction(f) = g[S]
  BY SumAdds
<1>2. PICK k : Adds(k, S, h) /\ SumFunction(h) = k[S]
  BY SumAdds
<1>3. S \ {x} \in SUBSET S
  OBVIOUS
<1>4. g[S] = f[x] + g[S \ {x}] /\ k[S] = h[x] + k[S \ {x}]
  BY <1>1, <1>2 DEF Adds
<1>5. g[S \ {x}] = k[S \ {x}]
  BY <1>1, <1>2, <1>3, SumAgree
<1>6. g[S \ {x}] \in Int /\ f[x] \in Int /\ h[x] \in Int
  BY <1>1, <1>3 DEF Adds
<1>. QED BY <1>1, <1>2, <1>4, <1>5, <1>6

\* A sum of nothings is nothing.
LEMMA SumOfZeros ==
    ASSUME NEW S, IsFiniteSet(S), NEW f \in [S -> Int], \A y \in S : f[y] = 0
    PROVE  SumFunction(f) = 0
<1>1. PICK g : Adds(g, S, f) /\ SumFunction(f) = g[S]
  BY SumAdds
<1> DEFINE C == {s \in SUBSET S : g[s] # 0}
<1>2. SUFFICES ASSUME C # {} PROVE FALSE
  BY <1>1
<1>3. PICK s \in C : \A t \in C : Cardinality(s) <= Cardinality(t)
  <2>1. \A t \in C : IsFiniteSet(t)
    BY FS_Subset
  <2> HIDE DEF C
  <2>. QED BY <1>2, <2>1, Smallest
<1>4. s \in SUBSET S /\ g[s] # 0 /\ s # {}
  BY <1>1 DEF Adds
<1>5. PICK x : x \in s
  BY <1>4
<1>6. g[s] = 0 + g[s \ {x}]
  BY <1>1, <1>4, <1>5 DEF Adds
<1>7. Cardinality(s \ {x}) = Cardinality(s) - 1 /\ Cardinality(s) \in Nat
  BY <1>4, <1>5, FS_Subset, FS_RemoveElement, FS_CardinalityType
<1>8. s \ {x} \notin C
  <2> HIDE DEF C
  <2>. QED BY <1>3, <1>7
<1>. QED BY <1>4, <1>6, <1>8

----------------------------------------------------------------------------
(* Tilings: the intervals st[a] .. st[a] + ln[a] - 1, in the order of their *)
(* numbers, lie one after the other and cover 0 .. total - 1.               *)

Tiles(D, st, ln, total) ==
    /\ \A a, b \in D : a < b => st[a] + ln[a] <= st[b]
    /\ \A b \in D : (\A a \in D : a <= b) => st[b] + ln[b] = total
    /\ \A i \in 0 .. total - 1 : \E a \in D : st[a] <= i /\ i < st[a] + ln[a]

\* No interval goes beyond the total.
LEMMA TilesBound ==
    ASSUME NEW D \in SUBSET Nat, IsFiniteSet(D), NEW st \in [D -> Nat], NEW ln \in [D -> Nat],
           NEW total \in Nat, Tiles(D, st, ln, total), NEW a \in D
    PROVE  st[a] + ln[a] <= total
<1>1. Max(D) \in D /\ \A y \in D : y <= Max(D)
  BY Greatest
<1> DEFINE m == Max(D)
<1> HIDE DEF m
<1>2. m \in D /\ (\A y \in D : y <= m) /\ m \in Nat /\ a \in Nat
  BY <1>1 DEF m
<1>3. st[m] + ln[m] = total /\ st[m] \in Nat /\ ln[m] \in Nat
  BY <1>2 DEF Tiles
<1>4. CASE a = m
  BY <1>3, <1>4
<1>5. CASE a # m
  <2>1. a < m
    BY <1>2, <1>5
  <2>2. st[a] + ln[a] <= st[m]
    BY <1>2, <2>1 DEF Tiles
  <2>. QED BY <1>3, <2>2
<1>. QED BY <1>4, <1>5

\* No place is covered twice.
LEMMA TilesUnique ==
    ASSUME NEW D \in SUBSET Nat, NEW st \in [D -> Nat], NEW ln \in [D -> Nat],
           NEW total \in Nat, Tiles(D, st, ln, total), NEW a \in D, NEW b \in D, NEW i \in Nat,
           st[a] <= i, i < st[a] + ln[a], st[b] <= i, i < st[b] + ln[b]
    PROVE  a = b
<1>1. a \in Nat /\ b \in Nat /\ st[a] \in Nat /\ st[b] \in Nat /\ ln[a] \in Nat /\ ln[b] \in Nat
  OBVIOUS
<1>2. ~(a < b) /\ ~(b < a)
  BY <1>1 DEF Tiles
<1>. QED BY <1>1, <1>2

\* Without the last interval the total is where that one began.
LEMMA TilesDrop ==
    ASSUME NEW D \in SUBSET Nat, NEW st \in [D -> Nat], NEW ln \in [D -> Nat],
           NEW total \in Nat, Tiles(D, st, ln, total),
           NEW c \in D, \A a \in D : a <= c
    PROVE  Tiles(D \ {c}, st, ln, st[c])
<1>1. st[c] \in Nat /\ st[c] + ln[c] = total /\ ln[c] \in Nat /\ c \in Nat
  BY DEF Tiles
<1>2. ASSUME NEW i \in 0 .. st[c] - 1
      PROVE  \E a \in D \ {c} : st[a] <= i /\ i < st[a] + ln[a]
  <2>1. i \in 0 .. total - 1
    BY <1>1
  <2>2. PICK a \in D : st[a] <= i /\ i < st[a] + ln[a]
    BY <2>1 DEF Tiles
  <2>3. a # c
    BY <1>1, <2>2
  <2>. QED BY <2>2, <2>3
<1>3. ASSUME NEW b \in D \ {c}, \A a \in D \ {c} : a <= b
      PROVE  st[b] + ln[b] = st[c]
  <2>1. b < c /\ st[b] \in Nat /\ ln[b] \in Nat
    BY <1>1
  <2>2. st[b] + ln[b] <= st[c]
    BY <2>1 DEF Tiles
  <2>3. CASE st[c] = 0
    BY <2>1, <2>2, <2>3
  <2>4. CASE st[c] # 0
    <3>1. st[c] - 1 \in 0 .. st[c] - 1
      BY <1>1, <2>4
    <3>2. PICK a \in D \ {c} : st[a] <= st[c] - 1 /\ st[c] - 1 < st[a] + ln[a]
      BY <1>2, <3>1
    <3>3. a <= b /\ a \in Nat /\ b \in Nat /\ st[a] \in Nat /\ ln[a] \in Nat
      BY <1>3, <3>2
    <3>4. a = b \/ st[a] + ln[a] <= st[b]
      BY <3>3 DEF Tiles
    <3>. QED BY <1>1, <2>1, <2>2, <3>2, <3>3, <3>4
  <2>. QED BY <2>3, <2>4
<1>4. \A a, b \in D \ {c} : a < b => st[a] + ln[a] <= st[b]
  BY DEF Tiles
<1>. QED BY <1>2, <1>3, <1>4 DEF Tiles

\* An empty interval after the last.
LEMMA TilesAdd ==
    ASSUME NEW E \in SUBSET Nat, IsFiniteSet(E), NEW st \in [E -> Nat], NEW ln \in [E -> Nat],
           NEW c \in E, \A a \in E : a <= c,
           NEW total \in Nat, Tiles(E \ {c}, st, ln, total), st[c] = total, ln[c] = 0
    PROVE  Tiles(E, st, ln, total)
<1> DEFINE D == E \ {c}
<1>1. \A a \in D : st[a] + ln[a] <= total
  <2> DEFINE s == [a \in D |-> st[a]]
             l == [a \in D |-> ln[a]]
  <2>1. s \in [D -> Nat] /\ l \in [D -> Nat] /\ Tiles(D, s, l, total)
    BY DEF Tiles
  <2>2. IsFiniteSet(D) /\ D \in SUBSET Nat
    BY FS_RemoveElement
  <2>3. \A a \in D : s[a] + l[a] <= total
    <3> HIDE DEF s, l, D
    <3>. QED BY <2>1, <2>2, TilesBound
  <2>. QED BY <2>3
<1>2. \A a, b \in E : a < b => st[a] + ln[a] <= st[b]
  BY <1>1 DEF Tiles
<1>3. \A b \in E : (\A a \in E : a <= b) => st[b] + ln[b] = total
  OBVIOUS
<1>4. \A i \in 0 .. total - 1 : \E a \in E : st[a] <= i /\ i < st[a] + ln[a]
  BY DEF Tiles
<1>. QED BY <1>2, <1>3, <1>4 DEF Tiles

\* The last interval ends elsewhere.
LEMMA TilesEnd ==
    ASSUME NEW D \in SUBSET Nat, NEW st, NEW ln,
           \A a \in D : st[a] \in Nat /\ ln[a] \in Nat,
           NEW total \in Nat, Tiles(D, st, ln, total),
           NEW c \in D, \A a \in D : a <= c,
           NEW st2, NEW ln2, \A a \in D : st2[a] = st[a],
           \A a \in D \ {c} : ln2[a] = ln[a], ln2[c] \in Nat
    PROVE  Tiles(D, st2, ln2, st[c] + ln2[c])
<1>1. st[c] + ln[c] = total /\ st[c] \in Nat /\ ln[c] \in Nat
  BY DEF Tiles
<1>2. \A a \in D \ {c} : st[a] + ln[a] <= st[c]
  BY DEF Tiles
<1>3. ASSUME NEW a \in D, NEW b \in D, a < b PROVE st2[a] + ln2[a] <= st2[b]
  BY <1>3 DEF Tiles
<1>4. \A b \in D : (\A a \in D : a <= b) => st2[b] + ln2[b] = st[c] + ln2[c]
  OBVIOUS
<1>5. ASSUME NEW i \in 0 .. (st[c] + ln2[c]) - 1
      PROVE  \E a \in D : st2[a] <= i /\ i < st2[a] + ln2[a]
  <2>1. CASE i >= st[c]
    BY <1>1, <2>1
  <2>2. CASE i < st[c]
    <3>1. i \in 0 .. total - 1
      BY <1>1, <2>2
    <3>2. PICK a \in D : st[a] <= i /\ i < st[a] + ln[a]
      BY <3>1 DEF Tiles
    <3>3. a # c
      BY <1>1, <2>2, <3>2
    <3>. QED BY <3>2, <3>3
  <2>. QED BY <1>1, <2>1, <2>2
<1>. QED BY <1>3, <1>4, <1>5 DEF Tiles

\* What is covered is as much as the intervals are long.
LEMMA TilesSum ==
    ASSUME NEW D \in SUBSET Nat, IsFiniteSet(D), NEW st \in [D -> Nat], NEW ln \in [D -> Nat],
           NEW total \in Nat, Tiles(D, st, ln, total)
    PROVE  SumFunction(ln) = total
<1>0. ln \in [D -> Int]
  OBVIOUS
<1>1. PICK g : Adds(g, D, ln) /\ SumFunction(ln) = g[D]
  BY <1>0, SumAdds
<1> DEFINE C == {s \in SUBSET D : \E t \in Nat : Tiles(s, st, ln, t) /\ g[s] # t}
<1>2. SUFFICES ASSUME C # {} PROVE FALSE
  BY <1>1
<1>3. PICK s \in C : \A u \in C : Cardinality(s) <= Cardinality(u)
  <2>1. \A u \in C : IsFiniteSet(u)
    BY FS_Subset
  <2> HIDE DEF C
  <2>. QED BY <1>2, <2>1, Smallest
<1>4. PICK t \in Nat : Tiles(s, st, ln, t) /\ g[s] # t
  OBVIOUS
<1>5. s \in SUBSET D /\ IsFiniteSet(s) /\ s \in SUBSET Nat
  BY FS_Subset
<1>6. s # {}
  <2> SUFFICES ASSUME s = {} PROVE FALSE
    OBVIOUS
  <2>1. g[s] = 0
    BY <1>1 DEF Adds
  <2>2. t = 0
    <3>1. t # 0 => 0 \in 0 .. t - 1
      OBVIOUS
    <3>. QED BY <1>4, <3>1 DEF Tiles
  <2>. QED BY <1>4, <2>1, <2>2
<1> HIDE DEF C
<1> DEFINE c == Max(s)
           r == s \ {c}
<1>7. c \in s /\ \A a \in s : a <= c
  BY <1>5, <1>6, Greatest
<1>8. g[s] = ln[c] + g[r]
  BY <1>1, <1>5, <1>7 DEF Adds
<1> HIDE DEF c
<1>9. st[c] + ln[c] = t /\ st[c] \in Nat /\ ln[c] \in Nat
  BY <1>4, <1>5, <1>7 DEF Tiles
<1>10. Tiles(r, st, ln, st[c])
  <2> DEFINE st2 == [a \in s |-> st[a]]
             ln2 == [a \in s |-> ln[a]]
  <2>1. st2 \in [s -> Nat] /\ ln2 \in [s -> Nat] /\ Tiles(s, st2, ln2, t)
    BY <1>4, <1>5 DEF Tiles
  <2>2. st2[c] = st[c] /\ \A a \in s : st2[a] = st[a] /\ ln2[a] = ln[a]
    BY <1>7
  <2> HIDE DEF st2, ln2
  <2>3. Tiles(r, st2, ln2, st2[c])
    BY <1>5, <1>7, <2>1, TilesDrop
  <2>. QED BY <2>2, <2>3 DEF Tiles
<1>11. r \in SUBSET D /\ Cardinality(r) = Cardinality(s) - 1 /\ Cardinality(s) \in Nat
  BY <1>5, <1>7, FS_RemoveElement, FS_CardinalityType
<1> HIDE DEF r
<1>12. r \notin C
  BY <1>3, <1>11
<1>13. g[r] = st[c]
  BY <1>9, <1>10, <1>11, <1>12 DEF C
<1>. QED BY <1>4, <1>8, <1>9, <1>13
=============================================================================
