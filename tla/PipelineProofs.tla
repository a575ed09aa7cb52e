--------------------------- MODULE PipelineProofs ---------------------------
(***************************************************************************)
(* Theorems about Pipeline: for every set of runs, months and rows, every  *)
(* interleaving of the runs' statements and every number of failures.      *)
(*                                                                         *)
(* The layers have no locks, so what a script leaves behind is promised    *)
(* only to a run that was alone.  The inductive invariant therefore has    *)
(* two parts.  TypeInv types the state and says that the scripts in which  *)
(* a run has been alone form a chain that ends at the current one (Chain). *)
(* ProgressInv says, statement by statement, what a lone run has left in   *)
(* the tables so far.  A step of another run ends the solitude or leaves   *)
(* everything as it was (OthersStep), so each case is about one run.       *)
(*                                                                         *)
(* The order: sums over finite sets, which the totals need; the statements *)
(* of each script; types; what the statements write; one section per       *)
(* script; the theorems.                                                   *)
(***************************************************************************)
EXTENDS Pipeline, FiniteSetTheorems, SequenceTheorems, WellFoundedInduction, TLAPS

-----------------------------------------------------------------------------
(* Sums.  The library's induction theorems take an operator, which the     *)
(* provers cannot instantiate; a nonempty set of counterexamples has a     *)
(* smallest member, and that they can use.                                 *)

LEMMA SmallestSet ==
    ASSUME NEW S, IsFiniteSet(S), NEW T, T \subseteq SUBSET S, T # {}
    PROVE  \E s \in T : \A t \in T : ~(t \subseteq s /\ t # s)
<1>1. IsWellFoundedOn(StrictSubsetOrdering(S), SUBSET S)
  BY FS_FiniteSubsetsOfFinite, FS_StrictSubsetOrderingWellFounded
<1>2. PICK s \in T : \A t \in T : <<t, s>> \notin StrictSubsetOrdering(S)
  BY <1>1, WFMin
<1>3. \A t \in T : t \subseteq s /\ t # s => <<t, s>> \in StrictSubsetOrdering(S)
  BY DEF StrictSubsetOrdering
<1>4. \A t \in T : ~(t \subseteq s /\ t # s)
  BY <1>2, <1>3
<1> QED
  BY <1>4

\* The element a fold takes first.
First(s) == CHOOSE x \in s : TRUE

LEMMA FirstIn == \A s : s # {} => First(s) \in s
BY DEF First

\* g gives the sum of f over each subset of S.
Sums(g, f, S) ==
    g = [s \in SUBSET S |-> IF s = {} THEN 0 ELSE f[First(s)] + g[s \ {First(s)}]]

SumTable(f, S) == CHOOSE g : Sums(g, f, S)

LEMMA SumOverIs == \A f, S : SumOver(f, S) = SumTable(f, S)[S]
BY DEF SumOver, MapThenSumSet, MapThenFoldSet, SumTable, Sums, First

\* There is one sum over a subset.
LEMMA SumsAgree ==
    ASSUME NEW f, NEW U, NEW V, IsFiniteSet(U), NEW g, NEW k, Sums(g, f, U), Sums(k, f, V)
    PROVE  \A s : s \subseteq U /\ s \subseteq V => g[s] = k[s]
<1> DEFINE T == {s \in SUBSET U : s \subseteq V /\ g[s] # k[s]}
<1> SUFFICES ASSUME T # {} PROVE FALSE
  OBVIOUS
<1>0. T \subseteq SUBSET U
  OBVIOUS
<1> HIDE DEF T
<1>1. PICK s \in T : \A t \in T : ~(t \subseteq s /\ t # s)
  BY <1>0, SmallestSet
<1> USE DEF T
<1>2. /\ g[s] = IF s = {} THEN 0 ELSE f[First(s)] + g[s \ {First(s)}]
      /\ k[s] = IF s = {} THEN 0 ELSE f[First(s)] + k[s \ {First(s)}]
  BY DEF Sums
<1>3. s # {} => g[s \ {First(s)}] = k[s \ {First(s)}]
  BY <1>1, FirstIn
<1> QED
  BY <1>2, <1>3

\* The recursion of a fold has a solution.
LEMMA SumsExist ==
    ASSUME NEW f, NEW S, IsFiniteSet(S)
    PROVE  Sums(SumTable(f, S), f, S)
<1> DEFINE T == {s \in SUBSET S : ~Sums(SumTable(f, s), f, s)}
<1> SUFFICES ASSUME T # {} PROVE FALSE
  OBVIOUS
<1>0. T \subseteq SUBSET S
  OBVIOUS
<1> HIDE DEF T
<1>1. PICK s \in T : \A t \in T : ~(t \subseteq s /\ t # s)
  BY <1>0, SmallestSet
<1> USE DEF T
<1>2. \A t \in SUBSET S : t \subseteq s /\ t # s => Sums(SumTable(f, t), f, t)
  BY <1>1
<1> DEFINE Less(t) == t \ {First(t)}
           g == [t \in SUBSET s |-> IF t = {} THEN 0
                                    ELSE f[First(t)] + SumTable(f, Less(t))[Less(t)]]
<1>3. ASSUME NEW t \in SUBSET s, t # {}
      PROVE  g[Less(t)] = SumTable(f, Less(t))[Less(t)]
  <2>1. Less(t) \subseteq s /\ Less(t) # s /\ Less(t) \in SUBSET S
    BY <1>3, FirstIn
  <2>2. Sums(SumTable(f, Less(t)), f, Less(t))
    BY <1>2, <2>1
  <2>3. SumTable(f, Less(t))[Less(t)] =
          IF Less(t) = {} THEN 0
          ELSE f[First(Less(t))] + SumTable(f, Less(t))[Less(Less(t))]
    BY <2>2 DEF Sums
  <2>4. ASSUME Less(t) # {}
        PROVE  SumTable(f, Less(t))[Less(Less(t))] = SumTable(f, Less(Less(t)))[Less(Less(t))]
    <3>1. Less(Less(t)) \subseteq s /\ Less(Less(t)) # s /\ Less(Less(t)) \in SUBSET S
      BY <2>1
    <3>2. Sums(SumTable(f, Less(Less(t))), f, Less(Less(t)))
      BY <1>2, <3>1
    <3>3. IsFiniteSet(Less(t))
      BY <2>1, FS_Subset
    <3> HIDE DEF Less
    <3>4. Less(Less(t)) \subseteq Less(t)
      BY DEF Less
    <3> QED
      BY <2>2, <3>2, <3>3, <3>4, SumsAgree
  <2> HIDE DEF Less
  <2>5. g[Less(t)] = IF Less(t) = {} THEN 0
                     ELSE f[First(Less(t))] + SumTable(f, Less(Less(t)))[Less(Less(t))]
    BY <2>1
  <2> HIDE DEF g
  <2> QED
    BY <2>3, <2>4, <2>5
<1>4. Sums(g, f, s)
  <2>1. g = [t \in SUBSET s |-> IF t = {} THEN 0 ELSE f[First(t)] + g[Less(t)]]
    BY <1>3
  <2> QED
    BY <2>1 DEF Sums
<1> HIDE DEF g
<1>5. Sums(SumTable(f, s), f, s)
  BY <1>4 DEF SumTable
<1> QED
  BY <1>1, <1>5

\* The two equations of a sum, in the order in which a fold takes the elements.
LEMMA SumEmpty == \A f : SumOver(f, {}) = 0
<1> TAKE f
<1>1. Sums(SumTable(f, {}), f, {})
  BY SumsExist, FS_EmptySet
<1>2. SumTable(f, {})[{}] = 0
  BY <1>1 DEF Sums
<1> QED
  BY <1>2, SumOverIs

LEMMA SumFirst ==
    ASSUME NEW f, NEW S, IsFiniteSet(S), S # {}
    PROVE  SumOver(f, S) = f[First(S)] + SumOver(f, S \ {First(S)})
<1> DEFINE R == S \ {First(S)}
<1>1. IsFiniteSet(R) /\ R \subseteq S
  BY FS_Subset
<1>2. Sums(SumTable(f, S), f, S)
  BY SumsExist
<1>3. Sums(SumTable(f, R), f, R)
  BY <1>1, SumsExist
<1>4. SumTable(f, S)[S] = f[First(S)] + SumTable(f, S)[R]
  BY <1>2 DEF Sums
<1> HIDE DEF R
<1>5. \A s : s \subseteq S /\ s \subseteq R => SumTable(f, S)[s] = SumTable(f, R)[s]
  BY <1>2, <1>3, SumsAgree
<1> QED
  BY <1>1, <1>4, <1>5, SumOverIs DEF R

\* A sum of natural numbers is one.
LEMMA SumNat ==
    ASSUME NEW f, NEW S, IsFiniteSet(S), \A x \in S : f[x] \in Nat
    PROVE  SumOver(f, S) \in Nat
<1> DEFINE T == {s \in SUBSET S : SumOver(f, s) \notin Nat}
<1>1. T \subseteq SUBSET S /\ \A s \in SUBSET S : s \notin T => SumOver(f, s) \in Nat
  OBVIOUS
<1>2. \A s \in T : SumOver(f, s) \notin Nat
  OBVIOUS
<1> HIDE DEF T
<1>3. ASSUME T # {} PROVE FALSE
  <2>1. PICK s \in T : \A t \in T : ~(t \subseteq s /\ t # s)
    BY <1>1, <1>3, SmallestSet
  <2>2. s # {} /\ s \subseteq S /\ IsFiniteSet(s)
    <3>1. SumOver(f, {}) \in Nat
      BY SumEmpty
    <3> QED
      BY <1>1, <1>2, <3>1, FS_Subset
  <2>3. First(s) \in s
    BY <2>2, FirstIn
  <2>4. SumOver(f, s \ {First(s)}) \in Nat
    BY <1>1, <2>1, <2>2, <2>3
  <2>5. f[First(s)] \in Nat
    BY <2>2, <2>3
  <2>6. SumOver(f, s) = f[First(s)] + SumOver(f, s \ {First(s)})
    BY <2>2, SumFirst
  <2> QED
    BY <1>2, <2>4, <2>5, <2>6
<1> QED
  BY <1>1, <1>3

\* A sum depends on the values over its set only.
LEMMA SumSame ==
    ASSUME NEW f, NEW g, NEW S, IsFiniteSet(S), \A x \in S : f[x] = g[x]
    PROVE  SumOver(f, S) = SumOver(g, S)
<1> DEFINE T == {s \in SUBSET S : SumOver(f, s) # SumOver(g, s)}
<1>1. T \subseteq SUBSET S /\ \A s \in SUBSET S : s \notin T => SumOver(f, s) = SumOver(g, s)
  OBVIOUS
<1>2. \A s \in T : SumOver(f, s) # SumOver(g, s)
  OBVIOUS
<1> HIDE DEF T
<1>3. ASSUME T # {} PROVE FALSE
  <2>1. PICK s \in T : \A t \in T : ~(t \subseteq s /\ t # s)
    BY <1>1, <1>3, SmallestSet
  <2>2. s # {} /\ s \subseteq S /\ IsFiniteSet(s)
    BY <1>1, <1>2, SumEmpty, FS_Subset
  <2>3. First(s) \in s
    BY <2>2, FirstIn
  <2>4. SumOver(f, s \ {First(s)}) = SumOver(g, s \ {First(s)})
    BY <1>1, <2>1, <2>2, <2>3
  <2>5. f[First(s)] = g[First(s)]
    BY <2>2, <2>3
  <2>6. /\ SumOver(f, s) = f[First(s)] + SumOver(f, s \ {First(s)})
        /\ SumOver(g, s) = g[First(s)] + SumOver(g, s \ {First(s)})
    BY <2>2, SumFirst
  <2> QED
    BY <1>2, <2>4, <2>5, <2>6
<1> QED
  BY <1>1, <1>3

\* Any element may be taken out first.
LEMMA SumTake ==
    ASSUME NEW f, NEW S, IsFiniteSet(S), \A x \in S : f[x] \in Nat
    PROVE  \A a \in S : SumOver(f, S) = f[a] + SumOver(f, S \ {a})
<1> DEFINE Holds(s) == \A a \in s : SumOver(f, s) = f[a] + SumOver(f, s \ {a})
           T == {s \in SUBSET S : ~Holds(s)}
<1>1. T \subseteq SUBSET S /\ \A s \in SUBSET S : s \notin T => Holds(s)
  OBVIOUS
<1>2. \A s \in T : ~Holds(s)
  OBVIOUS
<1> HIDE DEF T
<1>3. ASSUME T # {} PROVE FALSE
  <2>1. PICK s \in T : \A t \in T : ~(t \subseteq s /\ t # s)
    BY <1>1, <1>3, SmallestSet
  <2>2. PICK a \in s : SumOver(f, s) # f[a] + SumOver(f, s \ {a})
    BY <1>2
  <2>3. s # {} /\ s \subseteq S /\ IsFiniteSet(s)
    BY <1>1, <2>2, FS_Subset
  <2> DEFINE x == First(s)
             r == s \ {x}
             q == s \ {a}
             b == q \ {x}
  <2>4. x \in s /\ SumOver(f, s) = f[x] + SumOver(f, r)
    BY <2>3, FirstIn, SumFirst
  <2>5. x # a
    BY <2>2, <2>4
  <2>6. Holds(r) /\ Holds(q)
    BY <1>1, <2>1, <2>2, <2>3, <2>4
  <2>7. a \in r /\ x \in q /\ r \ {a} = b
    BY <2>2, <2>4, <2>5
  <2>8. SumOver(f, r) = f[a] + SumOver(f, b) /\ SumOver(f, q) = f[x] + SumOver(f, b)
    BY <2>6, <2>7
  <2>9. b \subseteq S /\ IsFiniteSet(b)
    BY <2>3, FS_Subset
  <2> HIDE DEF b
  <2>10. SumOver(f, b) \in Nat
    BY <2>9, SumNat
  <2>11. f[a] \in Nat /\ f[x] \in Nat
    BY <2>2, <2>3, <2>4
  <2> QED
    BY <2>2, <2>4, <2>8, <2>10, <2>11
<1> QED
  BY <1>1, <1>3

\* The sum of a function that counts the members of A.
LEMMA SumCounts ==
    ASSUME NEW f, NEW S, IsFiniteSet(S), NEW A, \A x \in S : f[x] = IF x \in A THEN 1 ELSE 0
    PROVE  SumOver(f, S) = Cardinality({x \in S : x \in A})
<1> DEFINE Members(s) == {x \in s : x \in A}
           Holds(s) == SumOver(f, s) = Cardinality(Members(s))
           T == {s \in SUBSET S : ~Holds(s)}
<1>1. T \subseteq SUBSET S /\ \A s \in SUBSET S : s \notin T => Holds(s)
  OBVIOUS
<1>2. \A s \in T : ~Holds(s)
  OBVIOUS
<1> HIDE DEF T
<1>3. ASSUME T # {} PROVE FALSE
  <2>1. PICK s \in T : \A t \in T : ~(t \subseteq s /\ t # s)
    BY <1>1, <1>3, SmallestSet
  <2>2. s # {}
    <3>1. Members({}) = {}
      OBVIOUS
    <3>2. Cardinality({}) = 0
      BY FS_EmptySet
    <3>3. Holds({})
      BY <3>1, <3>2, SumEmpty
    <3> QED
      BY <1>2, <3>3
  <2>3. s \subseteq S /\ IsFiniteSet(s)
    BY <1>1, FS_Subset
  <2> DEFINE x == First(s)
             r == s \ {x}
  <2>4. x \in s /\ SumOver(f, s) = f[x] + SumOver(f, r)
    BY <2>2, <2>3, FirstIn, SumFirst
  <2>5. SumOver(f, r) = Cardinality(Members(r))
    BY <1>1, <2>1, <2>3, <2>4
  <2>6. IsFiniteSet(Members(s)) /\ IsFiniteSet(Members(r))
    <3>1. Members(s) \subseteq s /\ Members(r) \subseteq s
      OBVIOUS
    <3> HIDE DEF Members, r
    <3> QED
      BY <2>3, <3>1, FS_Subset
  <2>7. Cardinality(Members(r)) \in Nat
    BY <2>6, FS_CardinalityType
  <2>8. CASE x \in A
    <3>1. Members(s) = Members(r) \union {x} /\ x \notin Members(r) /\ f[x] = 1
      BY <2>3, <2>4, <2>8
    <3> HIDE DEF Members, r, x
    <3>2. Cardinality(Members(s)) = Cardinality(Members(r)) + 1
      BY <2>6, <3>1, FS_AddElement
    <3>3. SumOver(f, s) = 1 + Cardinality(Members(r))
      BY <2>4, <2>5, <3>1
    <3>4. SumOver(f, s) # Cardinality(Members(s))
      BY <1>2
    <3> QED
      BY <2>7, <3>2, <3>3, <3>4
  <2>9. CASE x \notin A
    <3>1. Members(s) = Members(r) /\ f[x] = 0
      BY <2>3, <2>4, <2>9
    <3> QED
      BY <1>2, <2>4, <2>5, <2>7, <3>1
  <2> QED
    BY <2>8, <2>9
<1> QED
  BY <1>1, <1>3

\* All but one of the terms are zero.
LEMMA SumOfOne ==
    ASSUME NEW f, NEW S, IsFiniteSet(S), NEW a \in S, f[a] \in Nat,
           \A x \in S : x # a => f[x] = 0
    PROVE  SumOver(f, S) = f[a]
<1>1. IsFiniteSet(S \ {a}) /\ \A x \in S : f[x] \in Nat
  BY FS_Subset
<1>2. SumOver(f, S \ {a}) = Cardinality({x \in S \ {a} : x \in {}})
  BY <1>1, SumCounts
<1>3. {x \in S \ {a} : x \in {}} = {}
  OBVIOUS
<1>4. SumOver(f, S \ {a}) = 0
  BY <1>2, <1>3, FS_EmptySet
<1> QED
  BY <1>1, <1>4, SumTake

\* Summing the sums of the groups is summing everything.
LEMMA SumOfGroups ==
    ASSUME NEW f, NEW S, IsFiniteSet(S), \A x \in S : f[x] \in Nat,
           NEW C, IsFiniteSet(C), NEW key, \A x \in S : key[x] \in C
    PROVE  SumOver([c \in C |-> SumOver(f, {x \in S : key[x] = c})], C) = SumOver(f, S)
<1> DEFINE Group(s, c) == {x \in s : key[x] = c}
           Groups(s) == [c \in C |-> SumOver(f, Group(s, c))]
           Holds(s) == SumOver(Groups(s), C) = SumOver(f, s)
           T == {s \in SUBSET S : ~Holds(s)}
<1>1. T \subseteq SUBSET S /\ \A s \in SUBSET S : s \notin T => Holds(s)
  OBVIOUS
<1>2. \A s \in T : ~Holds(s)
  OBVIOUS
<1>3. \A s, c : s \subseteq S /\ c \in C =>
        /\ IsFiniteSet(Group(s, c)) /\ Group(s, c) \subseteq S
        /\ Groups(s)[c] = SumOver(f, Group(s, c))
        /\ Groups(s)[c] \in Nat
  <2> SUFFICES ASSUME NEW s, NEW c \in C, s \subseteq S
               PROVE  /\ IsFiniteSet(Group(s, c)) /\ Group(s, c) \subseteq S
                      /\ SumOver(f, Group(s, c)) \in Nat
    OBVIOUS
  <2>1. Group(s, c) \subseteq S
    OBVIOUS
  <2> HIDE DEF Group
  <2>2. IsFiniteSet(Group(s, c))
    BY <2>1, FS_Subset
  <2> QED
    BY <2>1, <2>2, SumNat
<1> HIDE DEF T
<1>4. ASSUME T # {} PROVE FALSE
  <2>1. PICK s \in T : \A t \in T : ~(t \subseteq s /\ t # s)
    BY <1>1, <1>4, SmallestSet
  <2>2. s \subseteq S /\ IsFiniteSet(s)
    BY <1>1, FS_Subset
  <2>3. s # {}
    <3>1. \A c \in C : Groups({})[c] = 0
      <4>1. \A c : Group({}, c) = {}
        OBVIOUS
      <4> QED
        BY <4>1, SumEmpty
    <3> HIDE DEF Groups
    <3>2. SumOver(Groups({}), C) = Cardinality({c \in C : c \in {}})
      BY <3>1, SumCounts
    <3>3. {c \in C : c \in {}} = {}
      OBVIOUS
    <3>4. Holds({})
      BY <3>2, <3>3, SumEmpty, FS_EmptySet
    <3> QED
      BY <1>2, <3>4
  <2> DEFINE x == First(s)
             r == s \ {x}
             g == key[x]
  <2>4. x \in s /\ SumOver(f, s) = f[x] + SumOver(f, r) /\ f[x] \in Nat /\ g \in C
    BY <2>2, <2>3, FirstIn, SumFirst
  <2>5. SumOver(Groups(r), C) = SumOver(f, r)
    BY <1>1, <2>1, <2>2, <2>4
  <2>6. r \subseteq S
    BY <2>2
  <2>7. Groups(s)[g] = f[x] + Groups(r)[g]
    <3>1. x \in Group(s, g) /\ Group(r, g) = Group(s, g) \ {x}
      BY <2>4
    <3>2. IsFiniteSet(Group(s, g)) /\ Group(s, g) \subseteq S
      BY <1>3, <2>2, <2>4
    <3>3. Groups(s)[g] = SumOver(f, Group(s, g)) /\ Groups(r)[g] = SumOver(f, Group(r, g))
      BY <1>3, <2>2, <2>4, <2>6
    <3> HIDE DEF Group, Groups, x, r, g
    <3>4. \A y \in Group(s, g) : f[y] \in Nat
      BY <3>2
    <3>5. SumOver(f, Group(s, g)) = f[x] + SumOver(f, Group(s, g) \ {x})
      BY <3>1, <3>2, <3>4, SumTake
    <3> QED
      BY <3>1, <3>3, <3>5
  <2>8. \A c \in C \ {g} : Groups(s)[c] = Groups(r)[c]
    <3>1. \A c \in C \ {g} : Group(s, c) = Group(r, c)
      BY <2>4
    <3> QED
      BY <3>1
  <2>9. \A c \in C : Groups(s)[c] \in Nat /\ Groups(r)[c] \in Nat
    BY <1>3, <2>2, <2>6
  <2>10. SumOver(f, r) \in Nat
    <3>1. IsFiniteSet(r) /\ \A y \in r : f[y] \in Nat
      BY <2>2, <2>6, FS_Subset
    <3> HIDE DEF r
    <3> QED
      BY <3>1, SumNat
  <2>11. SumOver(f, s) # SumOver(Groups(s), C)
    BY <1>2
  <2> HIDE DEF Groups, Group, x, r, g
  <2>12. IsFiniteSet(C \ {g})
    BY FS_Subset
  <2>13. SumOver(Groups(s), C \ {g}) = SumOver(Groups(r), C \ {g})
    BY <2>8, <2>12, SumSame
  <2>14. /\ SumOver(Groups(s), C) = Groups(s)[g] + SumOver(Groups(s), C \ {g})
         /\ SumOver(Groups(r), C) = Groups(r)[g] + SumOver(Groups(r), C \ {g})
    BY <2>4, <2>9, SumTake
  <2>15. SumOver(Groups(r), C \ {g}) \in Nat /\ Groups(r)[g] \in Nat
    BY <2>4, <2>9, <2>12, SumNat
  <2> QED
    BY <2>4, <2>5, <2>7, <2>10, <2>11, <2>13, <2>14, <2>15
<1>5. S \notin T
  BY <1>4
<1> QED
  BY <1>1, <1>5

-----------------------------------------------------------------------------
(* The statements of each script.                                          *)

\* What a concatenation holds.
LEMMA Joined ==
    ASSUME NEW S, NEW p \in Seq(S), NEW q \in Seq(S)
    PROVE  /\ p \o q \in Seq(S)
           /\ Len(p \o q) = Len(p) + Len(q)
           /\ \A i \in 1..Len(p) : (p \o q)[i] = p[i]
           /\ \A i \in 1..Len(q) : (p \o q)[Len(p) + i] = q[i]
<1>1. Len(p) \in Nat /\ Len(q) \in Nat
  OBVIOUS
<1>2. /\ p \o q \in Seq(S)
      /\ Len(p \o q) = Len(p) + Len(q)
      /\ \A i \in 1..(Len(p) + Len(q)) :
           (p \o q)[i] = IF i <= Len(p) THEN p[i] ELSE q[i - Len(p)]
  BY ConcatProperties
<1>3. ASSUME NEW i \in 1..Len(p) PROVE (p \o q)[i] = p[i]
  BY <1>1, <1>2
<1>4. ASSUME NEW i \in 1..Len(q) PROVE (p \o q)[Len(p) + i] = q[i]
  <2>1. (p \o q)[Len(p) + i] = q[(Len(p) + i) - Len(p)]
    BY <1>1, <1>2
  <2>2. (Len(p) + i) - Len(p) = i
    BY <1>1
  <2> QED
    BY <2>1, <2>2
<1> QED
  BY <1>2, <1>3, <1>4

\* A sequence of n members of S; q of length k behind p of length n.
Sized(s, S, n) == s \in Seq(S) /\ Len(s) = n
Behind(s, p, n, q, k) ==
    /\ \A i \in 1..n : s[i] = p[i]
    /\ \A i \in 1..k : s[n + i] = q[i]

LEMMA JoinedSized ==
    ASSUME NEW S, NEW n \in Nat, NEW k \in Nat, NEW p, NEW q, Sized(p, S, n), Sized(q, S, k)
    PROVE  Sized(p \o q, S, n + k) /\ Behind(p \o q, p, n, q, k)
<1>1. p \in Seq(S) /\ q \in Seq(S)
  BY DEF Sized
<1>2. /\ p \o q \in Seq(S)
      /\ Len(p \o q) = Len(p) + Len(q)
      /\ \A i \in 1..Len(p) : (p \o q)[i] = p[i]
      /\ \A i \in 1..Len(q) : (p \o q)[Len(p) + i] = q[i]
  BY <1>1, Joined
<1>3. Len(p) = n /\ Len(q) = k
  BY DEF Sized
<1>4. Sized(p \o q, S, n + k)
  BY <1>2, <1>3 DEF Sized
<1> QED
  BY <1>2, <1>3, <1>4 DEF Behind

\* s is four pairs of statements, one behind the other.
PairsInARow(s, a, b, c, d) ==
    /\ Len(s) = 8 /\ DOMAIN s = 1..8
    /\ s[1] = a[1] /\ s[2] = a[2] /\ s[3] = b[1] /\ s[4] = b[2]
    /\ s[5] = c[1] /\ s[6] = c[2] /\ s[7] = d[1] /\ s[8] = d[2]

LEMMA FourPairs ==
    ASSUME NEW S, NEW a, NEW b, NEW c, NEW d,
           Sized(a, S, 2), Sized(b, S, 2), Sized(c, S, 2), Sized(d, S, 2)
    PROVE  PairsInARow(a \o b \o c \o d, a, b, c, d)
<1> DEFINE t == a \o b
           u == t \o c
           s == u \o d
<1>1. Sized(t, S, 2 + 2) /\ Behind(t, a, 2, b, 2)
  BY JoinedSized
<1> HIDE DEF t
<1>2. Sized(t, S, 4) /\ t[1] = a[1] /\ t[2] = a[2] /\ t[3] = b[1] /\ t[4] = b[2]
  BY <1>1 DEF Behind
<1>3. Sized(u, S, 4 + 2) /\ Behind(u, t, 4, c, 2)
  BY <1>2, JoinedSized
<1> HIDE DEF u
<1>4. /\ Sized(u, S, 6) /\ u[1] = t[1] /\ u[2] = t[2] /\ u[3] = t[3] /\ u[4] = t[4]
      /\ u[5] = c[1] /\ u[6] = c[2]
  BY <1>3 DEF Behind
<1>5. Sized(s, S, 6 + 2) /\ Behind(s, u, 6, d, 2)
  BY <1>4, JoinedSized
<1> HIDE DEF s
<1>6. /\ Sized(s, S, 8)
      /\ s[1] = u[1] /\ s[2] = u[2] /\ s[3] = u[3] /\ s[4] = u[4]
      /\ s[5] = u[5] /\ s[6] = u[6] /\ s[7] = d[1] /\ s[8] = d[2]
  BY <1>5 DEF Behind
<1>7. Len(s) = 8 /\ DOMAIN s = 1..8
  BY <1>6 DEF Sized
<1>8. a \o b \o c \o d = s
  BY DEF t, u, s
<1>9. PairsInARow(s, a, b, c, d)
  BY <1>2, <1>4, <1>6, <1>7 DEF PairsInARow
<1> QED
  BY <1>8, <1>9

\* s is three groups of four statements.
FoursInARow(s, p, q, r) ==
    /\ Len(s) = 12 /\ DOMAIN s = 1..12
    /\ \A i \in 1..4 : s[i] = p[i] /\ s[4 + i] = q[i] /\ s[8 + i] = r[i]

LEMMA ThreeFours ==
    ASSUME NEW S, NEW p, NEW q, NEW r, Sized(p, S, 4), Sized(q, S, 4), Sized(r, S, 4)
    PROVE  FoursInARow(p \o q \o r, p, q, r)
<1> DEFINE t == p \o q
           s == t \o r
<1>1. Sized(t, S, 4 + 4) /\ Behind(t, p, 4, q, 4)
  BY JoinedSized
<1> HIDE DEF t
<1>2. Sized(t, S, 8)
  BY <1>1
<1>3. Sized(s, S, 8 + 4) /\ Behind(s, t, 8, r, 4)
  BY <1>2, JoinedSized
<1> HIDE DEF s
<1>4. \A i \in 1..4 : s[i] = p[i] /\ s[4 + i] = q[i] /\ s[8 + i] = r[i]
  BY <1>1, <1>3 DEF Behind
<1>5. Len(s) = 12 /\ DOMAIN s = 1..12
  BY <1>3 DEF Sized
<1>6. p \o q \o r = s
  BY DEF t, s
<1>7. FoursInARow(s, p, q, r)
  BY <1>4, <1>5 DEF FoursInARow
<1> QED
  BY <1>6, <1>7

LEMMA EightOf ==
    ASSUME NEW a, NEW b, NEW c, NEW d, NEW e, NEW f, NEW g, NEW h
    PROVE  LET s == <<a, b>> \o <<c, d>> \o <<e, f>> \o <<g, h>> IN
           /\ Len(s) = 8 /\ DOMAIN s = 1..8
           /\ s[1] = a /\ s[2] = b /\ s[3] = c /\ s[4] = d
           /\ s[5] = e /\ s[6] = f /\ s[7] = g /\ s[8] = h
<1> DEFINE S == {a, b, c, d, e, f, g, h}
           p == <<a, b>>
           q == <<c, d>>
           r == <<e, f>>
           t == <<g, h>>
           s == p \o q \o r \o t
<1>1. Sized(p, S, 2) /\ Sized(q, S, 2) /\ Sized(r, S, 2) /\ Sized(t, S, 2)
  BY DEF Sized
<1>2. /\ p[1] = a /\ p[2] = b /\ q[1] = c /\ q[2] = d
      /\ r[1] = e /\ r[2] = f /\ t[1] = g /\ t[2] = h
  OBVIOUS
<1> HIDE DEF S, p, q, r, t
<1>3. PairsInARow(s, p, q, r, t)
  BY <1>1, FourPairs
<1> HIDE DEF s
<1>4. /\ Len(s) = 8 /\ DOMAIN s = 1..8
      /\ s[1] = a /\ s[2] = b /\ s[3] = c /\ s[4] = d
      /\ s[5] = e /\ s[6] = f /\ s[7] = g /\ s[8] = h
  BY <1>2, <1>3 DEF PairsInARow
<1> QED
  BY <1>4 DEF s, p, q, r, t

LEMMA FiveOf ==
    ASSUME NEW a, NEW b, NEW c, NEW d, NEW e
    PROVE  LET s == <<a>> \o <<b, c>> \o <<d, e>> IN
           /\ Len(s) = 5 /\ DOMAIN s = 1..5
           /\ s[1] = a /\ s[2] = b /\ s[3] = c /\ s[4] = d /\ s[5] = e
<1> DEFINE S == {a, b, c, d, e}
           p == <<a>>
           q == <<b, c>>
           r == <<d, e>>
           t == p \o q
           s == t \o r
<1>1. Sized(p, S, 1) /\ Sized(q, S, 2) /\ Sized(r, S, 2)
  BY DEF Sized
<1>2. p[1] = a /\ q[1] = b /\ q[2] = c /\ r[1] = d /\ r[2] = e
  OBVIOUS
<1> HIDE DEF S, p, q, r
<1>3. Sized(t, S, 1 + 2) /\ Behind(t, p, 1, q, 2)
  BY <1>1, JoinedSized
<1> HIDE DEF t
<1>4. Sized(t, S, 3) /\ t[1] = a /\ t[2] = b /\ t[3] = c
  BY <1>2, <1>3 DEF Behind
<1>5. Sized(s, S, 3 + 2) /\ Behind(s, t, 3, r, 2)
  BY <1>1, <1>4, JoinedSized
<1> HIDE DEF s
<1>6. s[1] = a /\ s[2] = b /\ s[3] = c /\ s[4] = d /\ s[5] = e
  BY <1>2, <1>4, <1>5 DEF Behind
<1>7. Len(s) = 5 /\ DOMAIN s = 1..5
  BY <1>5 DEF Sized
<1> QED
  BY <1>6, <1>7 DEF s, t, p, q, r

\* The statements of run_silver, run_gold, detect_anomalies and load_bronze.
LEMMA SilverIs ==
    LET s == Statements["silver"] IN
    /\ Len(s) = 8 /\ DOMAIN s = 1..8
    /\ s[1] = Statement("truncate", "premium_staging")
    /\ s[2] = Statement("insert", "premium_staging")
    /\ s[3] = Statement("truncate", "claim_state")
    /\ s[4] = Statement("insert", "claim_state")
    /\ s[5] = Statement("truncate", "loss_staging")
    /\ s[6] = Statement("insert", "loss_staging")
    /\ s[7] = Statement("truncate", "cancellation_staging")
    /\ s[8] = Statement("insert", "cancellation_staging")
<1>1. Statements["silver"] = RunSilver
  BY DEF Statements
<1> QED
  BY <1>1, EightOf DEF RunSilver, Refill

LEMMA GoldIs ==
    LET s == Statements["gold"] IN
    /\ Len(s) = 8 /\ DOMAIN s = 1..8
    /\ s[1] = Statement("truncate", "premium_records")
    /\ s[2] = Statement("insert", "premium_records")
    /\ s[3] = Statement("truncate", "loss_records")
    /\ s[4] = Statement("insert", "loss_records")
    /\ s[5] = Statement("truncate", "cancellation_records")
    /\ s[6] = Statement("insert", "cancellation_records")
    /\ s[7] = Statement("delete", "monthly_aggregates")
    /\ s[8] = Statement("insert", "monthly_aggregates")
<1>1. Statements["gold"] = RunGold
  BY DEF Statements
<1> QED
  BY <1>1, EightOf DEF RunGold, Refill

LEMMA AnomaliesIs ==
    LET s == Statements["anomalies"] IN
    /\ Len(s) = 5 /\ DOMAIN s = 1..5
    /\ s[1] = Statement("truncate", "flags")
    /\ s[2] = Statement("select", "hail_cluster")
    /\ s[3] = Statement("flag", "hail_cluster")
    /\ s[4] = Statement("select", "freeze_in_summer")
    /\ s[5] = Statement("flag", "freeze_in_summer")
<1>1. Statements["anomalies"] = DetectAnomalies
  BY DEF Statements
<1> QED
  BY <1>1, FiveOf DEF DetectAnomalies, Detect

LEMMA LoadIs ==
    LET s == Statements["load"] IN
    /\ Len(s) = 12 /\ DOMAIN s = 1..12
    /\ \A i \in 1..4 : /\ s[i] = Statement("truncate", TABLES[i])
                       /\ s[4 + i] = Statement("put", TABLES[i])
                       /\ s[8 + i] = Statement("copy", TABLES[i])
<1> DEFINE S == {Statement(o, TABLES[i]) : o \in {"truncate", "put", "copy"}, i \in 1..4}
<1>1. \A o \in {"truncate", "put", "copy"} :
         Sized(ForEachTable(o), S, 4) /\ \A i \in 1..4 : ForEachTable(o)[i] = Statement(o, TABLES[i])
  <2>1. DOMAIN TABLES = 1..4
    BY DEF TABLES
  <2> SUFFICES ASSUME NEW o \in {"truncate", "put", "copy"}
               PROVE /\ Sized(ForEachTable(o), S, 4)
                     /\ \A i \in 1..4 : ForEachTable(o)[i] = Statement(o, TABLES[i])
    OBVIOUS
  <2>2. ForEachTable(o) = <<Statement(o, TABLES[1]), Statement(o, TABLES[2]),
                            Statement(o, TABLES[3]), Statement(o, TABLES[4])>>
    BY DEF ForEachTable, TABLES
  <2>3. \A i \in 1..4 : Statement(o, TABLES[i]) \in S
    OBVIOUS
  <2> HIDE DEF S
  <2>4. Sized(ForEachTable(o), S, 4)
    BY <2>2, <2>3 DEF Sized
  <2>5. \A i \in 1..4 : ForEachTable(o)[i] = Statement(o, TABLES[i])
    BY <2>1 DEF ForEachTable
  <2> QED
    BY <2>4, <2>5
<1> HIDE DEF S
<1>2. Statements["load"] = LoadBronze
  BY DEF Statements
<1>3. /\ Sized(ForEachTable("truncate"), S, 4) /\ Sized(ForEachTable("put"), S, 4)
      /\ Sized(ForEachTable("copy"), S, 4)
  BY <1>1
<1>4. FoursInARow(LoadBronze, ForEachTable("truncate"), ForEachTable("put"), ForEachTable("copy"))
  BY <1>3, ThreeFours DEF LoadBronze
<1> QED
  BY <1>1, <1>2, <1>4 DEF FoursInARow

LEMMA UploadIs ==
    LET s == Statements["upload"] IN
    /\ Len(s) = 3 /\ DOMAIN s = 1..3
    /\ s[1] = Statement("truncate", "policy")
    /\ s[2] = Statement("copy_upload", "policy")
    /\ s[3] = Statement("verify", "policy")
BY DEF Statements, LoadUpload

\* The scripts that a job can start.
ScriptNames == {"load", "upload", "silver", "gold", "anomalies"}

LEMMA ScriptNamesIs == DOMAIN Statements = ScriptNames
BY DEF Statements, ScriptNames

\* Where a run that sends a statement is.
LEMMA AtIs ==
    ASSUME NEW r, script[r] \in ScriptNames \union {"none"}, NEW o, At(r, o)
    PROVE  \/ script[r] = "load" /\ \/ pc[r] \in 1..4 /\ o = "truncate" /\ Table(r) = TABLES[pc[r]]
                                    \/ pc[r] \in 5..8 /\ o = "put" /\ Table(r) = TABLES[pc[r] - 4]
                                    \/ pc[r] \in 9..12 /\ o = "copy" /\ Table(r) = TABLES[pc[r] - 8]
           \/ script[r] = "upload" /\ Table(r) = "policy"
              /\ \/ pc[r] = 1 /\ o = "truncate"
                 \/ pc[r] = 2 /\ o = "copy_upload"
                 \/ pc[r] = 3 /\ o = "verify"
           \/ script[r] = "silver"
              /\ \/ pc[r] = 1 /\ o = "truncate" /\ Table(r) = "premium_staging"
                 \/ pc[r] = 2 /\ o = "insert" /\ Table(r) = "premium_staging"
                 \/ pc[r] = 3 /\ o = "truncate" /\ Table(r) = "claim_state"
                 \/ pc[r] = 4 /\ o = "insert" /\ Table(r) = "claim_state"
                 \/ pc[r] = 5 /\ o = "truncate" /\ Table(r) = "loss_staging"
                 \/ pc[r] = 6 /\ o = "insert" /\ Table(r) = "loss_staging"
                 \/ pc[r] = 7 /\ o = "truncate" /\ Table(r) = "cancellation_staging"
                 \/ pc[r] = 8 /\ o = "insert" /\ Table(r) = "cancellation_staging"
           \/ script[r] = "gold"
              /\ \/ pc[r] = 1 /\ o = "truncate" /\ Table(r) = "premium_records"
                 \/ pc[r] = 2 /\ o = "insert" /\ Table(r) = "premium_records"
                 \/ pc[r] = 3 /\ o = "truncate" /\ Table(r) = "loss_records"
                 \/ pc[r] = 4 /\ o = "insert" /\ Table(r) = "loss_records"
                 \/ pc[r] = 5 /\ o = "truncate" /\ Table(r) = "cancellation_records"
                 \/ pc[r] = 6 /\ o = "insert" /\ Table(r) = "cancellation_records"
                 \/ pc[r] = 7 /\ o = "delete" /\ Table(r) = "monthly_aggregates"
                 \/ pc[r] = 8 /\ o = "insert" /\ Table(r) = "monthly_aggregates"
           \/ script[r] = "anomalies"
              /\ \/ pc[r] = 1 /\ o = "truncate" /\ Table(r) = "flags"
                 \/ pc[r] = 2 /\ o = "select" /\ Table(r) = "hail_cluster"
                 \/ pc[r] = 3 /\ o = "flag" /\ Table(r) = "hail_cluster"
                 \/ pc[r] = 4 /\ o = "select" /\ Table(r) = "freeze_in_summer"
                 \/ pc[r] = 5 /\ o = "flag" /\ Table(r) = "freeze_in_summer"
<1>1. /\ script[r] \in ScriptNames /\ pc[r] \in DOMAIN Statements[script[r]]
      /\ o = Statements[script[r]][pc[r]].op /\ Table(r) = Statements[script[r]][pc[r]].table
  BY DEF At, Table
<1>2. \A a, t : Statement(a, t).op = a /\ Statement(a, t).table = t
  BY DEF Statement
<1>3. CASE script[r] = "load"
  <2>1. pc[r] \in 1..12
    BY <1>1, <1>3, LoadIs
  <2>2. CASE pc[r] \in 1..4
    BY <1>1, <1>2, <1>3, <2>2, LoadIs
  <2>3. CASE pc[r] \in 5..8
    <3>1. pc[r] - 4 \in 1..4 /\ 4 + (pc[r] - 4) = pc[r]
      BY <2>3
    <3> QED
      BY <1>1, <1>2, <1>3, <2>3, <3>1, LoadIs
  <2>4. CASE pc[r] \in 9..12
    <3>1. pc[r] - 8 \in 1..4 /\ 8 + (pc[r] - 8) = pc[r]
      BY <2>4
    <3> QED
      BY <1>1, <1>2, <1>3, <2>4, <3>1, LoadIs
  <2> QED
    BY <2>1, <2>2, <2>3, <2>4
<1>4. CASE script[r] = "upload"
  BY <1>1, <1>2, <1>4, UploadIs
<1>5. CASE script[r] = "silver"
  BY <1>1, <1>2, <1>5, SilverIs
<1>6. CASE script[r] = "gold"
  BY <1>1, <1>2, <1>6, GoldIs
<1>7. CASE script[r] = "anomalies"
  BY <1>1, <1>2, <1>7, AnomaliesIs
<1> QED
  BY <1>1, <1>3, <1>4, <1>5, <1>6, <1>7 DEF ScriptNames

-----------------------------------------------------------------------------
(* Types.                                                                  *)

\* The scripts of r's job in which it has been alone are the current one and,
\* without a gap, those before it.
Chain(r) ==
    /\ script[r] = "none" => alone[r] = {} /\ pc[r] = 1
    /\ script[r] # "none" /\ alone[r] # {} => script[r] \in alone[r]
    /\ script[r] = "load" => job[r] = "full" /\ alone[r] \subseteq {"load"}
    /\ script[r] = "upload" => job[r] = "upload" /\ alone[r] \subseteq {"upload"}
    /\ script[r] = "silver" =>
         /\ job[r] \in {"full", "upload", "silver"}
         /\ alone[r] \subseteq {"load", "upload", "silver"}
    /\ script[r] = "gold" =>
         /\ job[r] \in {"full", "upload", "gold"}
         /\ alone[r] \subseteq {"load", "upload", "silver", "gold"}
    /\ script[r] = "anomalies" => job[r] \in {"full", "upload", "anomalies"}
    /\ script[r] \in {"gold", "anomalies"} /\ alone[r] \intersect {"load", "upload"} # {} =>
         "silver" \in alone[r]

\* The rows of each table, of each month where the table has months.
LayersType ==
    /\ DOMAIN bronze = BronzeTables
    /\ \A t \in BronzeTables : bronze[t] \in [BronzeRows[t] -> Nat]
    /\ fresh \in [BronzeTables -> BOOLEAN]
    /\ DOMAIN silver = SilverTables
    /\ \A t \in SilverTables : silver[t] \in [Months -> [SilverRows[t] -> Nat]]
    /\ DOMAIN gold = GoldTables
    /\ \A t \in GoldTables : gold[t] \in [Months -> [GoldRows[t] -> Nat]]
    /\ recipients \in [Months -> [Combinations -> Nat]]
    /\ totals \in [Months -> Seq(AggregateRows)]
    /\ flags \in [FlagRows -> Nat]

\* Where the runs are and in which scripts they have been alone.
ControlType ==
    /\ job \in [Runs -> Jobs]
    /\ month \in [Runs -> Months]
    /\ script \in [Runs -> DOMAIN Statements \union {"none"}]
    /\ pc \in [Runs -> Nat \ {0}]
    /\ alone \in [Runs -> SUBSET DOMAIN Statements]
    /\ turn \in Runs
    /\ starts \in 0..MaxStarts /\ mishaps \in 0..MaxMishaps
    /\ \A r \in Runs : Chain(r)

\* What detect_anomalies has selected and not yet inserted.
FoundType == found \in [Runs -> [FlagRows -> Nat]]

TypeInv == LayersType /\ ControlType /\ FoundType

LEMMA TypeInvImplies == TypeInv => TypeOK
BY DEF TypeInv, LayersType, ControlType, FoundType, TypeOK

LEMMA TablesAre ==
    /\ BronzeTables = {"terms", "policy", "job", "claim"}
    /\ BronzeRows["terms"] = Policies /\ BronzeRows["policy"] = Policies
    /\ BronzeRows["job"] = Notices /\ BronzeRows["claim"] = Claims
    /\ SilverTables = {"premium_staging", "claim_state", "loss_staging", "cancellation_staging"}
    /\ SilverRows["premium_staging"] = Policies /\ SilverRows["claim_state"] = Claims
    /\ SilverRows["loss_staging"] = Claims /\ SilverRows["cancellation_staging"] = Notices
    /\ GoldTables = {"premium_records", "loss_records", "cancellation_records"}
    /\ GoldRows["premium_records"] = Policies /\ GoldRows["loss_records"] = Claims
    /\ GoldRows["cancellation_records"] = Combinations
BY DEF BronzeTables, BronzeRows, SilverTables, SilverRows, GoldTables, GoldRows

LEMMA LoadTables == \A i \in 1..4 : TABLES[i] \in BronzeTables
BY TablesAre DEF TABLES

LEMMA CombinationsFinite == IsFiniteSet(Combinations)
<1>1. IsFiniteSet(Notices)
  BY PipelineAssumption
<1> DEFINE f == [n \in Notices |-> Combination[n]]
<1>2. f \in Surjection(Notices, Combinations)
  BY DEF Surjection, Combinations
<1> HIDE DEF f
<1> QED
  BY <1>1, <1>2, FS_Surjection

LEMMA InitType == Init => TypeInv
<1> SUFFICES ASSUME Init PROVE TypeInv
  OBVIOUS
<1> USE PipelineAssumption, JobAssumption, TablesAre
<1>1. LayersType
  <2>1. \A S : None(S) \in [S -> Nat]
    BY DEF None
  <2>2. \A t \in BronzeTables : bronze[t] \in [BronzeRows[t] -> Nat]
    BY <2>1 DEF Init
  <2>3. \A t \in SilverTables : silver[t] \in [Months -> [SilverRows[t] -> Nat]]
    BY <2>1 DEF Init
  <2>4. \A t \in GoldTables : gold[t] \in [Months -> [GoldRows[t] -> Nat]]
    BY <2>1 DEF Init
  <2>5. recipients \in [Months -> [Combinations -> Nat]] /\ flags \in [FlagRows -> Nat]
    BY <2>1 DEF Init
  <2>6. totals \in [Months -> Seq(AggregateRows)]
    BY DEF Init
  <2> QED
    BY <2>2, <2>3, <2>4, <2>5, <2>6 DEF Init, LayersType
<1>2. ControlType
  <2>1. \A r \in Runs : Chain(r)
    BY DEF Init, Chain
  <2>2. job \in [Runs -> Jobs]
    BY DEF Init
  <2> QED
    BY <2>1, <2>2 DEF Init, ControlType
<1>3. FoundType
  BY DEF Init, FoundType, None
<1> QED
  BY <1>1, <1>2, <1>3 DEF TypeInv

\* A statement of r moves r alone on.
LEMMA DidType ==
    ASSUME TypeInv, NEW r \in Runs, NEW next \in Nat \ {0}, script[r] # "none", Did(r, next)
    PROVE  ControlType'
<1> USE PipelineAssumption DEF TypeInv, ControlType
<1>1. Overtakes(r) \in {0, 1}
  BY DEF Overtakes
<1>2. mishaps' \in 0..MaxMishaps
  BY <1>1 DEF Did
<1>3. /\ job' = job /\ month' = month /\ script' = script /\ starts' = starts /\ turn' = r
      /\ pc' = [pc EXCEPT ![r] = next]
      /\ alone' = [q \in Runs |-> IF q = r THEN alone[r] ELSE {}]
  BY DEF Did
<1>4. pc' \in [Runs -> Nat \ {0}] /\ alone' \in [Runs -> SUBSET DOMAIN Statements]
  BY <1>3
<1>5. ASSUME NEW q \in Runs PROVE Chain(q)'
  <2>1. Chain(q)
    OBVIOUS
  <2>2. CASE q = r
    BY <1>3, <2>1, <2>2 DEF Chain
  <2>3. CASE q # r
    BY <1>3, <2>1, <2>3 DEF Chain
  <2> QED
    BY <2>2, <2>3
<1> QED
  BY <1>2, <1>3, <1>4, <1>5

LEMMA JobNames == \A j \in Jobs : j \in {"full", "upload", "silver", "gold", "anomalies"}
BY JobAssumption DEF Scripts

LEMMA StartType ==
    ASSUME TypeInv, NEW r \in Runs, NEW j \in Jobs, NEW m \in Months, Start(r, j, m)
    PROVE  ControlType'
<1> USE PipelineAssumption DEF TypeInv, ControlType
<1>1. starts' \in 0..MaxStarts /\ mishaps' \in 0..MaxMishaps /\ turn' \in Runs
  BY DEF Start
<1>2. /\ script[r] = "none"
      /\ job' = [job EXCEPT ![r] = j] /\ month' = [month EXCEPT ![r] = m] /\ pc' = pc
      /\ script' = [script EXCEPT ![r] = Scripts[j][1]]
      /\ alone' = [alone EXCEPT ![r] = {Scripts[j][1]}]
  BY DEF Start
<1>3. /\ Scripts[j][1] = IF j = "full" THEN "load" ELSE j
      /\ j # "full" => j \in {"upload", "silver", "gold", "anomalies"}
      /\ Scripts[j][1] \in ScriptNames
  <2>1. j \in {"full", "upload", "silver", "gold", "anomalies"}
    BY JobNames
  <2>2. /\ Scripts["full"][1] = "load" /\ Scripts["upload"][1] = "upload"
        /\ Scripts["silver"][1] = "silver" /\ Scripts["gold"][1] = "gold"
        /\ Scripts["anomalies"][1] = "anomalies"
    BY DEF Scripts
  <2> QED
    BY <2>1, <2>2 DEF ScriptNames
<1>4. /\ job' \in [Runs -> Jobs] /\ month' \in [Runs -> Months] /\ pc' \in [Runs -> Nat \ {0}]
      /\ script' \in [Runs -> DOMAIN Statements \union {"none"}]
      /\ alone' \in [Runs -> SUBSET DOMAIN Statements]
  BY <1>2, <1>3, ScriptNamesIs
<1>5. ASSUME NEW q \in Runs PROVE Chain(q)'
  <2>1. Chain(q)
    OBVIOUS
  <2>2. CASE q = r
    BY <1>2, <1>3, <2>1, <2>2 DEF Chain, ScriptNames
  <2>3. CASE q # r
    BY <1>2, <2>1, <2>3 DEF Chain
  <2> QED
    BY <2>2, <2>3
<1> QED
  BY <1>1, <1>4, <1>5

LEMMA StopType ==
    ASSUME TypeInv, NEW r \in Runs, Stop(r), turn' = turn, starts' = starts,
           mishaps' \in 0..MaxMishaps
    PROVE  ControlType' /\ FoundType'
<1> USE DEF TypeInv, ControlType
<1>1. /\ job' = job /\ month' = month /\ script' = [script EXCEPT ![r] = "none"]
      /\ pc' = [pc EXCEPT ![r] = 1] /\ alone' = [alone EXCEPT ![r] = {}]
      /\ found' = [found EXCEPT ![r] = None(FlagRows)]
  BY DEF Stop
<1>2. /\ script' \in [Runs -> DOMAIN Statements \union {"none"}]
      /\ pc' \in [Runs -> Nat \ {0}] /\ alone' \in [Runs -> SUBSET DOMAIN Statements]
  BY <1>1
<1>3. FoundType'
  BY <1>1 DEF FoundType, None
<1>4. ASSUME NEW q \in Runs PROVE Chain(q)'
  <2>1. Chain(q)
    OBVIOUS
  <2>2. CASE q = r
    BY <1>1, <2>1, <2>2 DEF Chain
  <2>3. CASE q # r
    BY <1>1, <2>1, <2>3 DEF Chain
  <2> QED
    BY <2>2, <2>3
<1> QED
  BY <1>1, <1>2, <1>3, <1>4

\* s is the script of r's job behind the current one.
Follows(r, s) ==
    \/ script[r] \in {"load", "upload"} /\ s = "silver" /\ job[r] \in {"full", "upload"}
    \/ script[r] = "silver" /\ s = "gold" /\ job[r] \in {"full", "upload"}
    \/ script[r] = "gold" /\ s = "anomalies" /\ job[r] \in {"full", "upload"}

\* r goes on to the script s.
Goes(r, s) ==
    /\ script' = [script EXCEPT ![r] = s]
    /\ pc' = [pc EXCEPT ![r] = 1]
    /\ alone' = [alone EXCEPT ![r] = @ \union {s}]
    /\ UNCHANGED <<job, month, found>>

LEMMA NextScriptIs ==
    ASSUME ControlType, NEW r \in Runs, NextScript(r)
    PROVE  Stop(r) \/ \E s : Follows(r, s) /\ Goes(r, s)
<1> DEFINE S == Scripts[job[r]]
           i == CHOOSE k \in DOMAIN S : S[k] = script[r]
<1>1. /\ script[r] # "none"
      /\ IF i = Len(S) THEN Stop(r) ELSE Goes(r, S[i + 1])
  BY DEF NextScript, Goes
<1>2. Chain(r) /\ script[r] \in ScriptNames /\ job[r] \in Jobs
  BY <1>1, ScriptNamesIs DEF ControlType
<1>3. ASSUME NEW a \in {"load", "upload"}, job[r] = (IF a = "load" THEN "full" ELSE "upload")
      PROVE  Len(S) = 4 /\ DOMAIN S = 1..4
             /\ S[1] = a /\ S[2] = "silver" /\ S[3] = "gold" /\ S[4] = "anomalies"
  BY <1>3 DEF Scripts
<1>4. ASSUME NEW n \in DOMAIN S, S[n] = script[r], \A k \in DOMAIN S : S[k] = S[n] => k = n
      PROVE  i = n
  BY <1>4
<1>5. CASE script[r] = "load"
  <2>1. job[r] = "full"
    BY <1>2, <1>5 DEF Chain
  <2>2. Len(S) = 4 /\ DOMAIN S = 1..4
        /\ S[1] = "load" /\ S[2] = "silver" /\ S[3] = "gold" /\ S[4] = "anomalies"
    BY <1>3, <2>1
  <2> HIDE DEF S
  <2>3. i = 1
    BY <1>4, <1>5, <2>2
  <2> QED
    BY <1>1, <1>5, <2>1, <2>2, <2>3 DEF Follows
<1>6. CASE script[r] = "upload"
  <2>1. job[r] = "upload"
    BY <1>2, <1>6 DEF Chain
  <2>2. Len(S) = 4 /\ DOMAIN S = 1..4
        /\ S[1] = "upload" /\ S[2] = "silver" /\ S[3] = "gold" /\ S[4] = "anomalies"
    BY <1>3, <2>1
  <2> HIDE DEF S
  <2>3. i = 1
    BY <1>4, <1>6, <2>2
  <2> QED
    BY <1>1, <1>6, <2>1, <2>2, <2>3 DEF Follows
<1>7. ASSUME job[r] \in {"full", "upload"}, script[r] \in {"silver", "gold", "anomalies"}
      PROVE  Stop(r) \/ \E s : Follows(r, s) /\ Goes(r, s)
  <2>1. PICK a \in {"load", "upload"} : job[r] = (IF a = "load" THEN "full" ELSE "upload")
    BY <1>7
  <2>2. Len(S) = 4 /\ DOMAIN S = 1..4
        /\ S[1] = a /\ S[2] = "silver" /\ S[3] = "gold" /\ S[4] = "anomalies"
    BY <1>3, <2>1
  <2> HIDE DEF S
  <2>3. CASE script[r] = "silver"
    <3>1. i = 2
      BY <1>4, <2>2, <2>3
    <3> QED
      BY <1>1, <1>7, <2>2, <2>3, <3>1 DEF Follows
  <2>4. CASE script[r] = "gold"
    <3>1. i = 3
      BY <1>4, <2>2, <2>4
    <3> QED
      BY <1>1, <1>7, <2>2, <2>4, <3>1 DEF Follows
  <2>5. CASE script[r] = "anomalies"
    <3>1. i = 4
      BY <1>4, <2>2, <2>5
    <3> QED
      BY <1>1, <2>2, <3>1
  <2> QED
    BY <1>7, <2>3, <2>4, <2>5
<1>8. ASSUME job[r] = script[r], script[r] \in {"silver", "gold", "anomalies"}
      PROVE  Stop(r)
  <2>1. Len(S) = 1 /\ DOMAIN S = 1..1 /\ S[1] = script[r]
    BY <1>8 DEF Scripts
  <2> HIDE DEF S
  <2>2. i = 1
    BY <1>4, <2>1
  <2> QED
    BY <1>1, <2>1, <2>2
<1> QED
  BY <1>2, <1>5, <1>6, <1>7, <1>8 DEF Chain, ScriptNames

LEMMA NextScriptType ==
    ASSUME TypeInv, NEW r \in Runs, NextScript(r)
    PROVE  ControlType' /\ FoundType'
<1>1. UNCHANGED <<layers, turn, starts, mishaps>>
  BY DEF NextScript
<1>2. CASE Stop(r)
  BY <1>1, <1>2, StopType DEF TypeInv, ControlType
<1>3. ASSUME NEW s, Follows(r, s), Goes(r, s)
      PROVE  ControlType' /\ FoundType'
  <2> USE DEF TypeInv, ControlType
  <2>1. /\ script' = [script EXCEPT ![r] = s] /\ pc' = [pc EXCEPT ![r] = 1]
        /\ alone' = [alone EXCEPT ![r] = @ \union {s}] /\ job' = job /\ month' = month
        /\ found' = found
    BY <1>3 DEF Goes
  <2>2. s \in DOMAIN Statements
    BY <1>3, ScriptNamesIs DEF Follows, ScriptNames
  <2>3. /\ script' \in [Runs -> DOMAIN Statements \union {"none"}]
        /\ pc' \in [Runs -> Nat \ {0}] /\ alone' \in [Runs -> SUBSET DOMAIN Statements]
    BY <2>1, <2>2
  <2>4. ASSUME NEW q \in Runs PROVE Chain(q)'
    <3>1. Chain(q)
      OBVIOUS
    <3>2. CASE q = r
      BY <1>3, <2>1, <3>1, <3>2 DEF Chain, Follows
    <3>3. CASE q # r
      BY <2>1, <3>1, <3>3 DEF Chain
    <3> QED
      BY <3>2, <3>3
  <2> QED
    BY <1>1, <2>1, <2>3, <2>4 DEF FoundType
<1> QED
  BY <1>2, <1>3, NextScriptIs DEF TypeInv

-----------------------------------------------------------------------------
(* What a statement writes.                                                *)

LEMMA NoneType == \A S : None(S) \in [S -> Nat]
BY DEF None

LEMMA OnceType == \A S : Once(S) \in [S -> Nat]
BY DEF Once

LEMMA PlusType == \A S : \A B, C \in [S -> Nat] : Plus(B, C) \in [S -> Nat]
BY DEF Plus

LEMMA TruncateType == ASSUME TypeInv, NEW r \in Runs, Truncate(r) PROVE LayersType'
<1> DEFINE t == Table(r)
<1> USE TablesAre, NoneType DEF TypeInv, LayersType
<1>1. /\ IF t \in BronzeTables
         THEN /\ bronze' = [bronze EXCEPT ![t] = None(BronzeRows[t])]
              /\ fresh' = [fresh EXCEPT ![t] = TRUE]
         ELSE UNCHANGED <<bronze, fresh>>
      /\ silver' = [s \in SilverTables |->
                      IF s = t THEN [m \in Months |-> None(SilverRows[s])] ELSE silver[s]]
      /\ gold' = [g \in GoldTables |->
                    IF g = t THEN [m \in Months |-> None(GoldRows[g])] ELSE gold[g]]
      /\ recipients' = IF t = "cancellation_records"
                       THEN [m \in Months |-> None(Combinations)] ELSE recipients
      /\ flags' = IF t = "flags" THEN None(FlagRows) ELSE flags
      /\ totals' = totals
  BY DEF Truncate
<1> HIDE DEF t
<1>2. DOMAIN bronze' = BronzeTables /\ fresh' \in [BronzeTables -> BOOLEAN]
  BY <1>1
<1>3. \A b \in BronzeTables : bronze'[b] \in [BronzeRows[b] -> Nat]
  <2> TAKE b \in BronzeTables
  <2>1. bronze'[b] = None(BronzeRows[b]) \/ bronze'[b] = bronze[b]
    BY <1>1
  <2> QED
    BY <2>1
<1>4. DOMAIN silver' = SilverTables /\ DOMAIN gold' = GoldTables
  BY <1>1
<1>5. \A s \in SilverTables : silver'[s] \in [Months -> [SilverRows[s] -> Nat]]
  <2> TAKE s \in SilverTables
  <2>1. silver'[s] = [m \in Months |-> None(SilverRows[s])] \/ silver'[s] = silver[s]
    BY <1>1
  <2> QED
    BY <2>1
<1>6. \A g \in GoldTables : gold'[g] \in [Months -> [GoldRows[g] -> Nat]]
  <2> TAKE g \in GoldTables
  <2>1. gold'[g] = [m \in Months |-> None(GoldRows[g])] \/ gold'[g] = gold[g]
    BY <1>1
  <2> QED
    BY <2>1
<1>7. recipients' \in [Months -> [Combinations -> Nat]] /\ flags' \in [FlagRows -> Nat]
  BY <1>1
<1>8. totals' \in [Months -> Seq(AggregateRows)]
  BY <1>1
<1> QED
  BY <1>2, <1>3, <1>4, <1>5, <1>6, <1>7, <1>8

\* What the load statements write is a new Bronze.
LEMMA BronzeType ==
    ASSUME TypeInv, DOMAIN bronze' = BronzeTables,
           \A t \in BronzeTables : bronze'[t] \in [BronzeRows[t] -> Nat],
           fresh' \in [BronzeTables -> BOOLEAN],
           UNCHANGED <<silver, gold, recipients, totals, flags>>
    PROVE  LayersType'
BY DEF TypeInv, LayersType

LEMMA CopyIs ==
    ASSUME ControlType, NEW r \in Runs, Copy(r)
    PROVE  script[r] = "load" /\ pc[r] \in 9..12 /\ Table(r) = TABLES[pc[r] - 8]
<1>1. script[r] \in ScriptNames \union {"none"} /\ At(r, "copy")
  BY ScriptNamesIs DEF Copy, ControlType
<1> QED
  BY <1>1, AtIs

LEMMA CopyType == ASSUME TypeInv, NEW r \in Runs, Copy(r) PROVE LayersType'
<1> DEFINE t == Table(r)
<1> USE DEF TypeInv, LayersType
<1>1. t \in BronzeTables
  <2>1. script[r] = "load" /\ pc[r] \in 9..12 /\ t = TABLES[pc[r] - 8]
    BY CopyIs
  <2>2. pc[r] - 8 \in 1..4
    BY <2>1
  <2> QED
    BY <2>1, <2>2, LoadTables
<1>2. /\ bronze' = IF fresh[t]
                   THEN [bronze EXCEPT ![t] = Plus(@, Once(BronzeRows[t]))] ELSE bronze
      /\ fresh' = [fresh EXCEPT ![t] = FALSE]
      /\ UNCHANGED <<silver, gold, recipients, totals, flags>>
  BY DEF Copy
<1> HIDE DEF t
<1>3. Plus(bronze[t], Once(BronzeRows[t])) \in [BronzeRows[t] -> Nat]
  BY <1>1, PlusType, OnceType
<1>4. \A b \in BronzeTables : bronze'[b] \in [BronzeRows[b] -> Nat]
  BY <1>1, <1>2, <1>3
<1>5. DOMAIN bronze' = BronzeTables /\ fresh' \in [BronzeTables -> BOOLEAN]
  BY <1>2
<1> QED
  BY <1>2, <1>4, <1>5

LEMMA CopyUploadType == ASSUME TypeInv, NEW r \in Runs, CopyUpload(r) PROVE LayersType'
<1> USE DEF TypeInv, LayersType
<1> DEFINE P == [p \in Policies |-> IF p \in Uploaded THEN bronze["policy"][p] + 1
                                    ELSE bronze["policy"][p]]
<1>1. /\ bronze' = [bronze EXCEPT !["policy"] = P]
      /\ UNCHANGED <<fresh, silver, gold, recipients, totals, flags>>
  BY DEF CopyUpload
<1>2. P \in [BronzeRows["policy"] -> Nat]
  BY TablesAre
<1> HIDE DEF P
<1>3. \A b \in BronzeTables : bronze'[b] \in [BronzeRows[b] -> Nat]
  BY <1>1, <1>2
<1>4. DOMAIN bronze' = BronzeTables
  BY <1>1
<1> QED
  BY <1>1, <1>3, <1>4

LEMMA PutType == ASSUME TypeInv, NEW r \in Runs, Put(r) PROVE LayersType'
<1> USE DEF TypeInv, LayersType
<1>1. fresh' = [fresh EXCEPT ![Table(r)] = TRUE]
      /\ UNCHANGED <<bronze, silver, gold, recipients, totals, flags>>
  BY DEF Put
<1>2. fresh' \in [BronzeTables -> BOOLEAN]
  BY <1>1
<1> QED
  BY <1>1, <1>2

\* The rows that run_silver inserts.
LEMMA SilverRowsType ==
    ASSUME TypeInv
    PROVE  /\ SilverPremium \in [Policies -> Nat] /\ SilverClaimState \in [Claims -> Nat]
           /\ SilverLoss \in [Claims -> Nat] /\ SilverCancellation \in [Notices -> Nat]
<1> USE PipelineAssumption, TablesAre DEF TypeInv, LayersType
<1>1. /\ bronze["terms"] \in [Policies -> Nat] /\ bronze["policy"] \in [Policies -> Nat]
      /\ bronze["claim"] \in [Claims -> Nat] /\ bronze["job"] \in [Notices -> Nat]
  OBVIOUS
<1>2. \A a, b \in Nat : a * b \in Nat
  OBVIOUS
<1>3. SilverPremium \in [Policies -> Nat]
  BY <1>1, <1>2 DEF SilverPremium
<1>4. SilverCancellation \in [Notices -> Nat]
  <2> SUFFICES ASSUME NEW n \in Notices
               PROVE  bronze["job"][n] * bronze["policy"][PolicyOf[n]]
                      * bronze["terms"][PolicyOf[n]] \in Nat
    BY DEF SilverCancellation
  <2>1. PolicyOf[n] \in Policies
    OBVIOUS
  <2> QED
    BY <1>1, <1>2, <2>1
<1>5. SilverLoss \in [Claims -> Nat]
  <2> SUFFICES ASSUME NEW c \in Claims
               PROVE  bronze["claim"][c]
                      * SumOver([m \in Months |-> silver["claim_state"][m][c]], Months)
                      * bronze["terms"][PolicyOf[c]] \in Nat
    BY DEF SilverLoss
  <2> DEFINE f == [m \in Months |-> silver["claim_state"][m][c]]
  <2>1. \A m \in Months : f[m] \in Nat
    OBVIOUS
  <2> HIDE DEF f
  <2>2. SumOver(f, Months) \in Nat
    BY <2>1, SumNat
  <2>3. PolicyOf[c] \in Policies
    OBVIOUS
  <2> QED
    BY <1>1, <1>2, <2>2, <2>3 DEF f
<1> QED
  BY <1>1, <1>3, <1>4, <1>5 DEF SilverClaimState

LEMMA InsertSilverIs ==
    ASSUME TypeInv, NEW r \in Runs, InsertSilver(r)
    PROVE  \E rows : /\ IntoSilver(Table(r), month[r], rows)
                     /\ Table(r) \in SilverTables
                     /\ rows \in [SilverRows[Table(r)] -> Nat]
                     /\ Table(r) = "premium_staging" => rows = SilverPremium
                     /\ Table(r) = "claim_state" => rows = SilverClaimState
                     /\ Table(r) = "loss_staging" => rows = SilverLoss
                     /\ Table(r) = "cancellation_staging" => rows = SilverCancellation
BY SilverRowsType, TablesAre DEF InsertSilver

LEMMA IntoSilverIs ==
    ASSUME TypeInv, NEW t \in SilverTables, NEW m \in Months, NEW rows,
           IntoSilver(t, m, rows)
    PROVE  /\ DOMAIN silver' = SilverTables
           /\ \A s \in SilverTables : DOMAIN silver'[s] = Months
           /\ silver'[t][m] = Plus(silver[t][m], rows)
           /\ \A s \in SilverTables, k \in Months : s # t \/ k # m => silver'[s][k] = silver[s][k]
           /\ \A s \in SilverTables : s # t => silver'[s] = silver[s]
BY DEF IntoSilver, TypeInv, LayersType

LEMMA InsertSilverType == ASSUME TypeInv, NEW r \in Runs, InsertSilver(r) PROVE LayersType'
<1> DEFINE t == Table(r)
           m == month[r]
<1>1. PICK rows : IntoSilver(t, m, rows) /\ t \in SilverTables /\ rows \in [SilverRows[t] -> Nat]
  BY InsertSilverIs
<1>2. m \in Months
  BY DEF TypeInv, ControlType
<1> HIDE DEF t, m
<1> USE DEF TypeInv, LayersType
<1>3. silver' = [silver EXCEPT ![t][m] = Plus(silver[t][m], rows)]
      /\ UNCHANGED <<bronze, fresh, gold, recipients, totals, flags>>
  BY <1>1 DEF IntoSilver
<1>4. Plus(silver[t][m], rows) \in [SilverRows[t] -> Nat]
  <2>1. silver[t][m] \in [SilverRows[t] -> Nat]
    BY <1>1, <1>2
  <2> QED
    BY <1>1, <2>1, PlusType
<1>5. silver'[t] \in [Months -> [SilverRows[t] -> Nat]]
  BY <1>1, <1>2, <1>3, <1>4
<1>6. \A s \in SilverTables : s # t => silver'[s] = silver[s]
  BY <1>1, <1>3
<1>7. DOMAIN silver' = SilverTables
  BY <1>3
<1> QED
  BY <1>1, <1>3, <1>5, <1>6, <1>7

LEMMA InsertGoldIs ==
    ASSUME ControlType, NEW r \in Runs, InsertGold(r)
    PROVE  script[r] = "gold" /\ \/ pc[r] = 2 /\ Table(r) = "premium_records"
                                 \/ pc[r] = 4 /\ Table(r) = "loss_records"
                                 \/ pc[r] = 6 /\ Table(r) = "cancellation_records"
<1>1. script[r] \in ScriptNames \union {"none"} /\ At(r, "insert")
  BY ScriptNamesIs DEF InsertGold, ControlType
<1>2. Table(r) \in {"premium_records", "loss_records", "cancellation_records"}
  BY DEF InsertGold
<1> QED
  BY <1>1, <1>2, AtIs

\* The rows that run_gold inserts.
LEMMA GoldRowsType ==
    ASSUME TypeInv, NEW m \in Months
    PROVE  /\ GoldPremium(m) \in [Policies -> Nat] /\ GoldLoss(m) \in [Claims -> Nat]
           /\ JoinedNotices(m) \in [Notices -> Nat]
           /\ GoldRecipients(m) \in [Combinations -> Nat]
           /\ GoldCancellation(m) \in [Combinations -> Nat]
<1> USE PipelineAssumption, TablesAre DEF TypeInv, LayersType
<1>1. GoldPremium(m) \in [Policies -> Nat] /\ GoldLoss(m) \in [Claims -> Nat]
  BY DEF GoldPremium, GoldLoss
<1>2. JoinedNotices(m) \in [Notices -> Nat]
  <2>1. silver["cancellation_staging"][m] \in [Notices -> Nat] /\ bronze["job"] \in [Notices -> Nat]
    OBVIOUS
  <2>2. \A a, b \in Nat : a * b \in Nat
    OBVIOUS
  <2> QED
    BY <2>1, <2>2 DEF JoinedNotices
<1>3. GoldRecipients(m) \in [Combinations -> Nat]
  <2> SUFFICES ASSUME NEW g \in Combinations
               PROVE  SumOver(JoinedNotices(m), {n \in Notices : Combination[n] = g}) \in Nat
    BY DEF GoldRecipients
  <2> DEFINE G == {n \in Notices : Combination[n] = g}
  <2>1. G \subseteq Notices /\ IsFiniteSet(Notices)
    OBVIOUS
  <2> HIDE DEF G
  <2>2. IsFiniteSet(G) /\ \A n \in G : JoinedNotices(m)[n] \in Nat
    BY <1>2, <2>1, FS_Subset
  <2>3. SumOver(JoinedNotices(m), G) \in Nat
    BY <2>2, SumNat
  <2> QED
    BY <2>3 DEF G
<1>4. GoldCancellation(m) \in [Combinations -> Nat]
  BY DEF GoldCancellation
<1> QED
  BY <1>1, <1>2, <1>3, <1>4

LEMMA IntoGoldType ==
    ASSUME TypeInv, NEW t \in GoldTables, NEW m \in Months, NEW rows \in [GoldRows[t] -> Nat],
           IntoGold(t, m, rows)
    PROVE  /\ DOMAIN gold' = GoldTables
           /\ \A g \in GoldTables : gold'[g] \in [Months -> [GoldRows[g] -> Nat]]
           /\ gold'[t][m] = Plus(gold[t][m], rows)
           /\ \A g \in GoldTables : g # t => gold'[g] = gold[g]
<1> USE DEF TypeInv, LayersType
<1>1. gold' = [gold EXCEPT ![t][m] = Plus(gold[t][m], rows)]
  BY DEF IntoGold
<1>2. Plus(gold[t][m], rows) \in [GoldRows[t] -> Nat]
  <2>1. gold[t][m] \in [GoldRows[t] -> Nat]
    OBVIOUS
  <2> QED
    BY <2>1, PlusType
<1>3. gold'[t] \in [Months -> [GoldRows[t] -> Nat]] /\ gold'[t][m] = Plus(gold[t][m], rows)
  BY <1>1, <1>2
<1>4. \A g \in GoldTables : g # t => gold'[g] = gold[g]
  BY <1>1
<1>5. DOMAIN gold' = GoldTables
  BY <1>1
<1> QED
  BY <1>3, <1>4, <1>5

LEMMA InsertGoldType == ASSUME TypeInv, NEW r \in Runs, InsertGold(r) PROVE LayersType'
<1> DEFINE m == month[r]
           t == Table(r)
<1>1. m \in Months
  BY DEF TypeInv, ControlType
<1>2. \/ t = "premium_records" /\ IntoGold(t, m, GoldPremium(m)) /\ UNCHANGED recipients
      \/ t = "loss_records" /\ IntoGold(t, m, GoldLoss(m)) /\ UNCHANGED recipients
      \/ /\ t = "cancellation_records" /\ IntoGold(t, m, GoldCancellation(m))
         /\ recipients' = [recipients EXCEPT ![m] = Plus(@, GoldRecipients(m))]
  BY DEF InsertGold
<1>3. PICK rows \in [GoldRows[t] -> Nat] : t \in GoldTables /\ IntoGold(t, m, rows)
  BY <1>1, <1>2, GoldRowsType, TablesAre
<1>4. UNCHANGED <<bronze, fresh, silver, totals, flags>>
  BY <1>3 DEF IntoGold
<1>5. /\ DOMAIN gold' = GoldTables
      /\ \A g \in GoldTables : gold'[g] \in [Months -> [GoldRows[g] -> Nat]]
  BY <1>1, <1>3, IntoGoldType
<1>6. recipients' \in [Months -> [Combinations -> Nat]]
  <2>1. recipients[m] \in [Combinations -> Nat] /\ GoldRecipients(m) \in [Combinations -> Nat]
    BY <1>1, GoldRowsType DEF TypeInv, LayersType
  <2>2. Plus(recipients[m], GoldRecipients(m)) \in [Combinations -> Nat]
    BY <2>1, PlusType
  <2>3. recipients' = recipients
        \/ recipients' = [recipients EXCEPT ![m] = Plus(recipients[m], GoldRecipients(m))]
    BY <1>2
  <2> QED
    BY <2>2, <2>3 DEF TypeInv, LayersType
<1> QED
  BY <1>4, <1>5, <1>6 DEF TypeInv, LayersType

LEMMA TotalsOf == ASSUME NEW S, IsFiniteSet(S), NEW B \in [S -> Nat]
                  PROVE  Total(B) = SumOver(B, S) /\ Total(B) \in Nat
BY SumNat DEF Total

LEMMA AggregatesType == ASSUME TypeInv, NEW m \in Months PROVE GoldAggregates(m) \in AggregateRows
<1> USE PipelineAssumption, TablesAre, CombinationsFinite DEF TypeInv, LayersType
<1>1. /\ gold["premium_records"][m] \in [Policies -> Nat]
      /\ gold["loss_records"][m] \in [Claims -> Nat]
      /\ gold["cancellation_records"][m] \in [Combinations -> Nat]
      /\ recipients[m] \in [Combinations -> Nat]
  OBVIOUS
<1>2. /\ Total(gold["premium_records"][m]) \in Nat /\ Total(gold["loss_records"][m]) \in Nat
      /\ Total(gold["cancellation_records"][m]) \in Nat /\ Total(recipients[m]) \in Nat
  BY <1>1, TotalsOf
<1> QED
  BY <1>2 DEF GoldAggregates, AggregateRows

LEMMA TotalsType ==
    ASSUME TypeInv, NEW r \in Runs, DeleteTotals(r) \/ InsertTotals(r)
    PROVE  LayersType'
<1> DEFINE m == month[r]
<1>1. UNCHANGED <<bronze, fresh, silver, gold, recipients, flags>>
  BY DEF DeleteTotals, InsertTotals
<1>2. \/ totals' = [totals EXCEPT ![m] = <<>>]
      \/ totals' = [totals EXCEPT ![m] = Append(totals[m], GoldAggregates(m))]
  BY DEF DeleteTotals, InsertTotals
<1>3. m \in Months
  BY DEF TypeInv, ControlType
<1>4. GoldAggregates(m) \in AggregateRows
  BY <1>3, AggregatesType
<1>5. totals[m] \in Seq(AggregateRows)
  BY <1>3 DEF TypeInv, LayersType
<1> HIDE DEF m
<1>6. <<>> \in Seq(AggregateRows) /\ Append(totals[m], GoldAggregates(m)) \in Seq(AggregateRows)
  BY <1>4, <1>5
<1>7. totals' \in [Months -> Seq(AggregateRows)]
  BY <1>2, <1>6 DEF TypeInv, LayersType
<1> QED
  BY <1>1, <1>7 DEF TypeInv, LayersType

LEMMA FoundsType ==
    ASSUME TypeInv
    PROVE  HailCluster \in [FlagRows -> Nat] /\ FreezeInSummer \in [FlagRows -> Nat]
<1>1. bronze["claim"] \in [Claims -> Nat] /\ Freeze \subseteq Claims
  BY PipelineAssumption, TablesAre DEF TypeInv, LayersType
<1> QED
  BY <1>1 DEF HailCluster, FreezeInSummer

LEMMA FlagType ==
    ASSUME TypeInv, NEW r \in Runs, Flag(r)
    PROVE  LayersType' /\ FoundType'
<1>1. PICK x \in FlagRows : /\ found[r][x] > 0
                            /\ flags' = [flags EXCEPT ![x] = flags[x] + 1]
                            /\ found' = [found EXCEPT ![r][x] = found[r][x] - 1]
  BY DEF Flag
<1>2. UNCHANGED <<bronze, fresh, silver, gold, recipients, totals>>
  BY DEF Flag
<1>3. flags' \in [FlagRows -> Nat]
  BY <1>1 DEF TypeInv, LayersType
<1>4. FoundType'
  <2>1. found[r][x] - 1 \in Nat
    BY <1>1 DEF TypeInv, FoundType
  <2> QED
    BY <1>1, <2>1 DEF TypeInv, FoundType
<1> QED
  BY <1>2, <1>3, <1>4 DEF TypeInv, LayersType

LEMMA SelectType ==
    ASSUME TypeInv, NEW r \in Runs, Select(r)
    PROVE  FoundType'
<1>1. \/ found' = [found EXCEPT ![r] = HailCluster]
      \/ found' = [found EXCEPT ![r] = FreezeInSummer]
  BY DEF Select
<1> QED
  BY <1>1, FoundsType DEF TypeInv, FoundType

LEMMA AtRuns ==
    ASSUME NEW r, NEW o, At(r, o)
    PROVE  script[r] # "none"
BY DEF At

LEMMA AdvanceType ==
    ASSUME TypeInv, NEW r \in Runs, script[r] # "none", Advance(r)
    PROVE  ControlType' /\ FoundType'
<1>1. pc[r] + 1 \in Nat \ {0} /\ Did(r, pc[r] + 1) /\ found' = found
  BY DEF Advance, TypeInv, ControlType
<1> QED
  BY <1>1, DidType DEF TypeInv, FoundType

LEMMA KeepLayers == ASSUME TypeInv, UNCHANGED layers PROVE LayersType'
BY DEF TypeInv, LayersType, layers

LEMMA ExecuteType == ASSUME TypeInv, NEW r \in Runs, Execute(r) PROVE TypeInv'
<1>1. CASE Truncate(r)
  BY <1>1, TruncateType, AdvanceType, AtRuns DEF Truncate, TypeInv
<1>2. CASE Put(r)
  BY <1>2, PutType, AdvanceType, AtRuns DEF Put, TypeInv
<1>3. CASE Copy(r)
  BY <1>3, CopyType, AdvanceType, AtRuns DEF Copy, TypeInv
<1>4. CASE CopyUpload(r)
  BY <1>4, CopyUploadType, AdvanceType, AtRuns DEF CopyUpload, TypeInv
<1>5. CASE Verify(r)
  <2>1. LayersType'
    BY <1>5, KeepLayers DEF Verify
  <2>2. script[r] # "none"
    BY <1>5, AtRuns DEF Verify
  <2>3. ControlType' /\ FoundType'
    <3>1. CASE Advance(r)
      BY <2>2, <3>1, AdvanceType
    <3>2. CASE Stop(r) /\ UNCHANGED <<turn, starts, mishaps>>
      BY <3>2, StopType DEF TypeInv, ControlType
    <3> QED
      BY <1>5, <3>1, <3>2 DEF Verify
  <2> QED
    BY <2>1, <2>3 DEF TypeInv
<1>6. CASE InsertSilver(r)
  BY <1>6, InsertSilverType, AdvanceType, AtRuns DEF InsertSilver, TypeInv
<1>7. CASE InsertGold(r)
  BY <1>7, InsertGoldType, AdvanceType, AtRuns DEF InsertGold, TypeInv
<1>8. CASE DeleteTotals(r)
  BY <1>8, TotalsType, AdvanceType, AtRuns DEF DeleteTotals, TypeInv
<1>9. CASE InsertTotals(r)
  BY <1>9, TotalsType, AdvanceType, AtRuns DEF InsertTotals, TypeInv
<1>10. CASE Select(r)
  <2>1. LayersType' /\ FoundType'
    BY <1>10, SelectType, KeepLayers DEF Select
  <2>2. script[r] # "none" /\ Did(r, pc[r] + 1) /\ pc[r] + 1 \in Nat \ {0}
    BY <1>10, AtRuns DEF Select, TypeInv, ControlType
  <2> QED
    BY <2>1, <2>2, DidType DEF TypeInv
<1>11. CASE Flag(r)
  <2>1. LayersType' /\ FoundType'
    BY <1>11, FlagType
  <2>2. script[r] # "none" /\ Did(r, pc[r]) /\ pc[r] \in Nat \ {0}
    BY <1>11, AtRuns DEF Flag, TypeInv, ControlType
  <2> QED
    BY <2>1, <2>2, DidType DEF TypeInv
<1>12. CASE FlagsDone(r)
  BY <1>12, KeepLayers, AdvanceType, AtRuns DEF FlagsDone, TypeInv
<1> QED
  BY <1>1, <1>2, <1>3, <1>4, <1>5, <1>6, <1>7, <1>8, <1>9, <1>10, <1>11, <1>12 DEF Execute

LEMMA TypeStep == TypeInv /\ [Next]_vars => TypeInv'
<1> SUFFICES ASSUME TypeInv, [Next]_vars PROVE TypeInv'
  OBVIOUS
<1>1. ASSUME NEW r \in Runs, NEW j \in Jobs, NEW m \in Months, Start(r, j, m)
      PROVE  TypeInv'
  <2>1. UNCHANGED layers /\ found' = found
    BY <1>1 DEF Start
  <2> QED
    BY <1>1, <2>1, StartType, KeepLayers DEF TypeInv, FoundType
<1>2. ASSUME NEW r \in Runs, Execute(r) PROVE TypeInv'
  BY <1>2, ExecuteType
<1>3. ASSUME NEW r \in Runs, NextScript(r) PROVE TypeInv'
  BY <1>3, NextScriptType, KeepLayers DEF TypeInv, NextScript
<1>4. ASSUME NEW r \in Runs, Die(r) PROVE TypeInv'
  <2>1. Stop(r) /\ turn' = turn /\ starts' = starts /\ mishaps' \in 0..MaxMishaps
    BY <1>4, PipelineAssumption DEF Die, TypeInv, ControlType
  <2> QED
    BY <1>4, <2>1, StopType, KeepLayers DEF Die, TypeInv
<1>5. CASE UNCHANGED vars
  BY <1>5 DEF vars, TypeInv, LayersType, ControlType, FoundType, Chain
<1> QED
  BY <1>1, <1>2, <1>3, <1>4, <1>5 DEF Next

\* Whatever the runs do in each other's midst, with any number of overlaps and
\* failures, every table of the three layers holds a natural number of each of
\* its rows, and a run is at a statement of a script of its job.
THEOREM TypeCorrect == Spec => []TypeOK
<1>1. Spec => []TypeInv
  BY InitType, TypeStep, PTL DEF Spec
<1> QED
  BY <1>1, TypeInvImplies, PTL

-----------------------------------------------------------------------------
(* How far a run has got.  Each invariant speaks of a run that has been    *)
(* alone since the start of one script, and says what that script has left *)
(* in the tables by the statement the run is at.                           *)

\* the scripts behind the loads of Bronze
Later == {"silver", "gold", "anomalies"}

\* load_bronze: a table is empty and its file fresh from its TRUNCATE to its COPY
LoadInv(r) ==
    "load" \in alone[r] =>
      /\ script[r] = "load" => \A i \in 1..4 :
           /\ i < pc[r] /\ pc[r] <= 8 + i =>
                bronze[TABLES[i]] = None(BronzeRows[TABLES[i]]) /\ fresh[TABLES[i]]
           /\ 8 + i < pc[r] => bronze[TABLES[i]] = Once(BronzeRows[TABLES[i]])
      /\ script[r] \in Later => \A t \in BronzeTables : bronze[t] = Once(BronzeRows[t])

\* REG_POLICY as an upload leaves it: its policies and no other
UploadedRows == [p \in Policies |-> IF p \in Uploaded THEN 1 ELSE 0]

\* load_upload_to_bronze
UploadInv(r) ==
    "upload" \in alone[r] =>
      /\ script[r] = "upload" /\ pc[r] = 2 => bronze["policy"] = None(Policies)
      /\ (script[r] = "upload" /\ pc[r] > 2) \/ script[r] \in Later =>
           bronze["policy"] = UploadedRows

\* The statement that fills a table, and what it leaves there.
SilverPlace == [premium_staging |-> 2, claim_state |-> 4,
                loss_staging |-> 6, cancellation_staging |-> 8]

\* the claim states a loss is joined with are those of the run's month
LossOfMonth ==
    [c \in Claims |-> bronze["claim"][c] * bronze["claim"][c] * bronze["terms"][PolicyOf[c]]]

\* what run_silver leaves in each table for its month, read off Bronze
StagedRows == [premium_staging |-> SilverPremium, claim_state |-> SilverClaimState,
               loss_staging |-> LossOfMonth, cancellation_staging |-> SilverCancellation]

\* the statement that fills t is behind r
Staged(r, t) == script[r] \in {"gold", "anomalies"}
                \/ (script[r] = "silver" /\ pc[r] > SilverPlace[t])

\* run_silver: no month but the run's has any rows
SilverInv(r) ==
    "silver" \in alone[r] => \A t \in SilverTables, m \in Months :
      /\ script[r] = "silver" /\ pc[r] = SilverPlace[t] => silver[t][m] = None(SilverRows[t])
      /\ Staged(r, t) =>
           silver[t][m] = IF m = month[r] THEN StagedRows[t] ELSE None(SilverRows[t])

\* The same for Gold, whose rows are read off Silver.
GoldPlace == [premium_records |-> 2, loss_records |-> 4, cancellation_records |-> 6]

RecordRows(m) == [premium_records |-> GoldPremium(m), loss_records |-> GoldLoss(m),
                  cancellation_records |-> GoldCancellation(m)]

\* run_gold
GoldInv(r) ==
    "gold" \in alone[r] /\ script[r] = "gold" =>
      /\ \A t \in GoldTables :
           /\ pc[r] = GoldPlace[t] => gold[t][month[r]] = None(GoldRows[t])
           /\ pc[r] > GoldPlace[t] => gold[t][month[r]] = RecordRows(month[r])[t]
      /\ pc[r] = 6 => recipients[month[r]] = None(Combinations)
      /\ pc[r] > 6 => recipients[month[r]] = GoldRecipients(month[r])
      /\ pc[r] = 8 => totals[month[r]] = <<>>
      /\ pc[r] > 8 => totals[month[r]] = <<GoldAggregates(month[r])>>

\* detect_anomalies: what is flagged and what is found and not yet flagged
AnomalyInv(r) ==
    "anomalies" \in alone[r] /\ script[r] = "anomalies" => \A x \in FlagRows :
      /\ pc[r] = 2 => flags[x] = 0
      /\ pc[r] = 3 => flags[x] + found[r][x] = HailCluster[x]
      /\ pc[r] = 4 => flags[x] = HailCluster[x]
      /\ pc[r] = 5 => flags[x] + found[r][x] = HailCluster[x] + FreezeInSummer[x]
      /\ pc[r] = 6 => flags[x] = HailCluster[x] + FreezeInSummer[x]

\* The inductive invariant beside TypeInv.
ProgressInv ==
    \A r \in Runs : LoadInv(r) /\ UploadInv(r) /\ SilverInv(r) /\ GoldInv(r) /\ AnomalyInv(r)

-----------------------------------------------------------------------------
(* What a step leaves alone.                                               *)

\* a step of the run q
Step(q) ==
    \/ \E j \in Jobs, m \in Months : Start(q, j, m)
    \/ Execute(q) \/ NextScript(q) \/ Die(q)

\* nothing that the invariants of r speak of has changed
Still(r) ==
    /\ UNCHANGED layers
    /\ script'[r] = script[r] /\ pc'[r] = pc[r] /\ month'[r] = month[r]
    /\ found'[r] = found[r] /\ alone'[r] = alone[r]

LEMMA StopOthers ==
    ASSUME TypeInv, NEW r \in Runs, NEW q \in Runs, q # r, Stop(q), UNCHANGED layers
    PROVE  Still(r)
BY DEF Stop, Still, TypeInv, ControlType, FoundType

\* A step of another run ends the solitude of r or does not concern it.
LEMMA OthersStep ==
    ASSUME TypeInv, NEW r \in Runs, NEW q \in Runs, q # r, Step(q)
    PROVE  alone'[r] = {} \/ Still(r)
<1>1. ASSUME NEW next, Did(q, next) PROVE alone'[r] = {}
  BY <1>1 DEF Did
<1>2. ASSUME NEW j, NEW m, Start(q, j, m) PROVE Still(r)
  BY <1>2 DEF Start, Still, TypeInv, ControlType
<1>3. ASSUME NextScript(q) PROVE Still(r)
  <2>1. UNCHANGED layers
    BY <1>3 DEF NextScript
  <2>2. CASE Stop(q)
    BY <2>1, <2>2, StopOthers
  <2>3. ASSUME NEW s, Goes(q, s) PROVE Still(r)
    BY <2>1, <2>3 DEF Goes, Still, TypeInv, ControlType
  <2> QED
    BY <1>3, <2>2, <2>3, NextScriptIs DEF TypeInv
<1>4. ASSUME Die(q) PROVE Still(r)
  BY <1>4, StopOthers DEF Die
<1>5. ASSUME Execute(q), ~Verify(q) PROVE alone'[r] = {}
  BY <1>1, <1>5 DEF Execute, Truncate, Put, Copy, CopyUpload, InsertSilver, InsertGold,
                    DeleteTotals, InsertTotals, Select, Flag, FlagsDone, Advance
<1>6. ASSUME Verify(q) PROVE alone'[r] = {} \/ Still(r)
  BY <1>1, <1>6, StopOthers DEF Verify, Advance
<1> QED
  BY <1>2, <1>3, <1>4, <1>5, <1>6 DEF Step

LEMMA VarsStill == ASSUME NEW r, UNCHANGED vars PROVE Still(r)
BY DEF vars, Still, layers

\* What r itself does to its own place.
Moves(r) ==
    /\ script[r] # "none" /\ script'[r] = script[r] /\ month'[r] = month[r]
    /\ alone'[r] = alone[r]

LEMMA OwnStep ==
    ASSUME TypeInv, NEW r \in Runs, Step(r)
    PROVE  \/ alone'[r] = {}
           \/ /\ script[r] = "none" /\ pc'[r] = 1 /\ UNCHANGED layers
              /\ script'[r] \in ScriptNames /\ alone'[r] = {script'[r]}
           \/ /\ script[r] # "none" /\ pc[r] = Len(Statements[script[r]]) + 1
              /\ Follows(r, script'[r]) /\ pc'[r] = 1 /\ alone'[r] = alone[r] \union {script'[r]}
              /\ month'[r] = month[r] /\ UNCHANGED layers
           \/ Execute(r) /\ Moves(r)
<1>1. ASSUME NEW j \in Jobs, NEW m \in Months, Start(r, j, m)
      PROVE  /\ script[r] = "none" /\ pc'[r] = 1 /\ UNCHANGED layers
             /\ script'[r] \in ScriptNames /\ alone'[r] = {script'[r]}
  <2>1. Scripts[j][1] \in ScriptNames
    BY JobNames DEF Scripts, ScriptNames
  <2>2. pc[r] = 1
    BY <1>1 DEF Start, TypeInv, ControlType, Chain
  <2> QED
    BY <1>1, <2>1, <2>2 DEF Start, TypeInv, ControlType
<1>2. ASSUME Stop(r) PROVE alone'[r] = {}
  BY <1>2 DEF Stop, TypeInv, ControlType
<1>3. ASSUME NextScript(r), ~Stop(r)
      PROVE  /\ script[r] # "none" /\ pc[r] = Len(Statements[script[r]]) + 1
             /\ Follows(r, script'[r]) /\ pc'[r] = 1 /\ alone'[r] = alone[r] \union {script'[r]}
             /\ month'[r] = month[r] /\ UNCHANGED layers
  <2>1. PICK s : Follows(r, s) /\ Goes(r, s)
    BY <1>3, NextScriptIs DEF TypeInv
  <2>2. /\ script'[r] = s /\ pc'[r] = 1 /\ alone'[r] = alone[r] \union {s}
        /\ month'[r] = month[r]
    BY <2>1 DEF Goes, TypeInv, ControlType
  <2> QED
    BY <1>3, <2>1, <2>2 DEF NextScript, Over
<1>4. ASSUME Execute(r), ~Stop(r) PROVE Moves(r)
  <2>1. script[r] # "none"
    BY <1>4, AtRuns DEF Execute, Truncate, Put, Copy, CopyUpload, Verify, InsertSilver, InsertGold,
                        DeleteTotals, InsertTotals, Select, Flag, FlagsDone
  <2>2. \E next : Did(r, next)
    BY <1>4 DEF Execute, Truncate, Put, Copy, CopyUpload, Verify, InsertSilver, InsertGold,
                DeleteTotals, InsertTotals, Select, Flag, FlagsDone, Advance
  <2> QED
    BY <2>1, <2>2 DEF Did, Moves
<1> QED
  BY <1>1, <1>2, <1>3, <1>4 DEF Step, Die

LEMMA RunsScript == ASSUME TypeInv, NEW r \in Runs PROVE script[r] \in ScriptNames \union {"none"}
BY ScriptNamesIs DEF TypeInv, ControlType

LEMMA TruncateIs ==
    ASSUME TypeInv, NEW r \in Runs, Truncate(r)
    PROVE  /\ pc'[r] = pc[r] + 1
           /\ \/ script[r] = "load" /\ pc[r] \in 1..4 /\ Table(r) = TABLES[pc[r]]
              \/ script[r] = "upload" /\ pc[r] = 1 /\ Table(r) = "policy"
              \/ script[r] = "silver" /\ Table(r) \in SilverTables
                 /\ pc[r] = SilverPlace[Table(r)] - 1
              \/ script[r] = "gold" /\ Table(r) \in GoldTables /\ pc[r] = GoldPlace[Table(r)] - 1
              \/ script[r] = "anomalies" /\ pc[r] = 1 /\ Table(r) = "flags"
<1>1. At(r, "truncate") /\ pc'[r] = pc[r] + 1
  BY DEF Truncate, Advance, Did, TypeInv, ControlType
<1>2. script[r] \in ScriptNames \union {"none"}
  BY RunsScript
<1>3. \/ script[r] = "load" /\ pc[r] \in 1..4 /\ Table(r) = TABLES[pc[r]]
      \/ script[r] = "upload" /\ pc[r] = 1 /\ Table(r) = "policy"
      \/ script[r] = "silver"
         /\ \/ pc[r] = 1 /\ Table(r) = "premium_staging"
            \/ pc[r] = 3 /\ Table(r) = "claim_state"
            \/ pc[r] = 5 /\ Table(r) = "loss_staging"
            \/ pc[r] = 7 /\ Table(r) = "cancellation_staging"
      \/ script[r] = "gold"
         /\ \/ pc[r] = 1 /\ Table(r) = "premium_records"
            \/ pc[r] = 3 /\ Table(r) = "loss_records"
            \/ pc[r] = 5 /\ Table(r) = "cancellation_records"
      \/ script[r] = "anomalies" /\ pc[r] = 1 /\ Table(r) = "flags"
  BY <1>1, <1>2, AtIs
<1> QED
  BY <1>1, <1>3, TablesAre DEF SilverPlace, GoldPlace

LEMMA TruncateWrites ==
    ASSUME TypeInv, NEW r \in Runs, Truncate(r)
    PROVE  /\ Table(r) \notin BronzeTables => bronze' = bronze /\ fresh' = fresh
           /\ Table(r) \in BronzeTables =>
                /\ bronze'[Table(r)] = None(BronzeRows[Table(r)]) /\ fresh'[Table(r)] = TRUE
                /\ \A b \in BronzeTables :
                     b # Table(r) => bronze'[b] = bronze[b] /\ fresh'[b] = fresh[b]
           /\ \A s \in SilverTables :
                silver'[s] = IF s = Table(r) THEN [m \in Months |-> None(SilverRows[s])]
                             ELSE silver[s]
           /\ \A g \in GoldTables :
                gold'[g] = IF g = Table(r) THEN [m \in Months |-> None(GoldRows[g])] ELSE gold[g]
           /\ recipients' = IF Table(r) = "cancellation_records"
                            THEN [m \in Months |-> None(Combinations)] ELSE recipients
           /\ flags' = IF Table(r) = "flags" THEN None(FlagRows) ELSE flags
           /\ totals' = totals
<1> DEFINE t == Table(r)
<1>1. /\ IF t \in BronzeTables
         THEN /\ bronze' = [bronze EXCEPT ![t] = None(BronzeRows[t])]
              /\ fresh' = [fresh EXCEPT ![t] = TRUE]
         ELSE UNCHANGED <<bronze, fresh>>
      /\ silver' = [s \in SilverTables |->
                      IF s = t THEN [m \in Months |-> None(SilverRows[s])] ELSE silver[s]]
      /\ gold' = [g \in GoldTables |->
                    IF g = t THEN [m \in Months |-> None(GoldRows[g])] ELSE gold[g]]
      /\ recipients' = IF t = "cancellation_records"
                       THEN [m \in Months |-> None(Combinations)] ELSE recipients
      /\ flags' = IF t = "flags" THEN None(FlagRows) ELSE flags
      /\ totals' = totals
  BY DEF Truncate
<1> HIDE DEF t
<1>2. t \in BronzeTables =>
        /\ bronze'[t] = None(BronzeRows[t]) /\ fresh'[t] = TRUE
        /\ \A b \in BronzeTables : b # t => bronze'[b] = bronze[b] /\ fresh'[b] = fresh[b]
  BY <1>1 DEF TypeInv, LayersType
<1>3. t \notin BronzeTables => bronze' = bronze /\ fresh' = fresh
  BY <1>1
<1> QED
  BY <1>1, <1>2, <1>3 DEF t

LEMMA PutIs ==
    ASSUME TypeInv, NEW r \in Runs, Put(r)
    PROVE  /\ pc'[r] = pc[r] + 1 /\ script[r] = "load"
           /\ pc[r] \in 5..8 /\ Table(r) = TABLES[pc[r] - 4]
<1>1. At(r, "put") /\ pc'[r] = pc[r] + 1
  BY DEF Put, Advance, Did, TypeInv, ControlType
<1>2. script[r] \in ScriptNames \union {"none"}
  BY RunsScript
<1> QED
  BY <1>1, <1>2, AtIs

LEMMA CopyUploadIs ==
    ASSUME TypeInv, NEW r \in Runs, CopyUpload(r)
    PROVE  pc'[r] = pc[r] + 1 /\ script[r] = "upload" /\ pc[r] = 2
<1>1. At(r, "copy_upload") /\ pc'[r] = pc[r] + 1
  BY DEF CopyUpload, Advance, Did, TypeInv, ControlType
<1>2. script[r] \in ScriptNames \union {"none"}
  BY RunsScript
<1> QED
  BY <1>1, <1>2, AtIs

LEMMA VerifyIs ==
    ASSUME TypeInv, NEW r \in Runs, Verify(r)
    PROVE  script[r] = "upload" /\ pc[r] = 3 /\ UNCHANGED layers
           /\ (pc'[r] = pc[r] + 1 \/ alone'[r] = {})
<1>1. At(r, "verify") /\ UNCHANGED layers /\ (pc'[r] = pc[r] + 1 \/ alone'[r] = {})
  BY DEF Verify, Advance, Did, Stop, TypeInv, ControlType
<1>2. script[r] \in ScriptNames \union {"none"}
  BY RunsScript
<1> QED
  BY <1>1, <1>2, AtIs

LEMMA InsertSilverAt ==
    ASSUME TypeInv, NEW r \in Runs, InsertSilver(r)
    PROVE  pc'[r] = pc[r] + 1 /\ script[r] = "silver" /\ Table(r) \in SilverTables
           /\ pc[r] = SilverPlace[Table(r)]
<1>1. At(r, "insert") /\ pc'[r] = pc[r] + 1
  BY DEF InsertSilver, Advance, Did, TypeInv, ControlType
<1>2. script[r] \in ScriptNames \union {"none"}
  BY RunsScript
<1>3. Table(r) \in SilverTables
  BY InsertSilverIs
<1>4. script[r] = "silver"
      /\ \/ pc[r] = 2 /\ Table(r) = "premium_staging"
         \/ pc[r] = 4 /\ Table(r) = "claim_state"
         \/ pc[r] = 6 /\ Table(r) = "loss_staging"
         \/ pc[r] = 8 /\ Table(r) = "cancellation_staging"
  BY <1>1, <1>2, <1>3, AtIs, TablesAre
<1> QED
  BY <1>1, <1>3, <1>4 DEF SilverPlace

LEMMA InsertGoldAt ==
    ASSUME TypeInv, NEW r \in Runs, InsertGold(r)
    PROVE  pc'[r] = pc[r] + 1 /\ script[r] = "gold" /\ Table(r) \in GoldTables
           /\ pc[r] = GoldPlace[Table(r)]
<1>1. pc'[r] = pc[r] + 1
  BY DEF InsertGold, Advance, Did, TypeInv, ControlType
<1> QED
  BY <1>1, InsertGoldIs, TablesAre DEF GoldPlace, TypeInv

LEMMA DeleteTotalsIs ==
    ASSUME TypeInv, NEW r \in Runs, DeleteTotals(r)
    PROVE  pc'[r] = pc[r] + 1 /\ script[r] = "gold" /\ pc[r] = 7
<1>1. At(r, "delete") /\ pc'[r] = pc[r] + 1
  BY DEF DeleteTotals, Advance, Did, TypeInv, ControlType
<1>2. script[r] \in ScriptNames \union {"none"}
  BY RunsScript
<1> QED
  BY <1>1, <1>2, AtIs

LEMMA InsertTotalsIs ==
    ASSUME TypeInv, NEW r \in Runs, InsertTotals(r)
    PROVE  pc'[r] = pc[r] + 1 /\ script[r] = "gold" /\ pc[r] = 8
<1>1. At(r, "insert") /\ Table(r) = "monthly_aggregates" /\ pc'[r] = pc[r] + 1
  BY DEF InsertTotals, Advance, Did, TypeInv, ControlType
<1>2. script[r] \in ScriptNames \union {"none"}
  BY RunsScript
<1> QED
  BY <1>1, <1>2, AtIs

LEMMA SelectIs ==
    ASSUME TypeInv, NEW r \in Runs, Select(r)
    PROVE  pc'[r] = pc[r] + 1 /\ script[r] = "anomalies"
           /\ \/ pc[r] = 2 /\ found'[r] = HailCluster
              \/ pc[r] = 4 /\ found'[r] = FreezeInSummer
<1>1. At(r, "select") /\ pc'[r] = pc[r] + 1
      /\ found'[r] = IF Table(r) = "hail_cluster" THEN HailCluster ELSE FreezeInSummer
  BY DEF Select, Did, TypeInv, ControlType, FoundType
<1>2. script[r] \in ScriptNames \union {"none"}
  BY RunsScript
<1>3. script[r] = "anomalies" /\ \/ pc[r] = 2 /\ Table(r) = "hail_cluster"
                                 \/ pc[r] = 4 /\ Table(r) = "freeze_in_summer"
  BY <1>1, <1>2, AtIs
<1> QED
  BY <1>1, <1>3

LEMMA FlagIs ==
    ASSUME TypeInv, NEW r \in Runs, Flag(r)
    PROVE  pc'[r] = pc[r] /\ script[r] = "anomalies" /\ pc[r] \in {3, 5}
<1>1. At(r, "flag") /\ pc'[r] = pc[r]
  BY DEF Flag, Did, TypeInv, ControlType
<1>2. script[r] \in ScriptNames \union {"none"}
  BY RunsScript
<1> QED
  BY <1>1, <1>2, AtIs

LEMMA FlagsDoneIs ==
    ASSUME TypeInv, NEW r \in Runs, FlagsDone(r)
    PROVE  pc'[r] = pc[r] + 1 /\ script[r] = "anomalies" /\ pc[r] \in {3, 5}
<1>1. At(r, "flag") /\ pc'[r] = pc[r] + 1
  BY DEF FlagsDone, Advance, Did, TypeInv, ControlType
<1>2. script[r] \in ScriptNames \union {"none"}
  BY RunsScript
<1> QED
  BY <1>1, <1>2, AtIs

\* A statement writes the layer of its script.
LEMMA Writes ==
    ASSUME TypeInv, NEW r \in Runs, Execute(r)
    PROVE  /\ script[r] \in Later => bronze' = bronze /\ fresh' = fresh
           /\ script[r] # "silver" => \A s \in SilverTables : silver'[s] = silver[s]
<1> USE TablesAre, LoadTables DEF Later
<1>1. CASE Truncate(r)
  <2>1. script[r] \in Later => Table(r) \notin BronzeTables
    BY <1>1, TruncateIs
  <2>2. script[r] # "silver" => Table(r) \notin SilverTables
    BY <1>1, TruncateIs
  <2> QED
    BY <1>1, <2>1, <2>2, TruncateWrites
<1>2. CASE Put(r)
  BY <1>2, PutIs DEF Put
<1>3. CASE Copy(r)
  BY <1>3, CopyIs DEF Copy, TypeInv
<1>4. CASE CopyUpload(r)
  BY <1>4, CopyUploadIs DEF CopyUpload
<1>5. CASE Verify(r)
  BY <1>5, VerifyIs DEF layers
<1>6. CASE InsertSilver(r)
  BY <1>6, InsertSilverAt, InsertSilverIs DEF IntoSilver
<1>7. CASE InsertGold(r)
  BY <1>7 DEF InsertGold, IntoGold
<1>8. CASE DeleteTotals(r) \/ InsertTotals(r)
  BY <1>8 DEF DeleteTotals, InsertTotals
<1>9. CASE Select(r) \/ FlagsDone(r)
  BY <1>9 DEF Select, FlagsDone, layers
<1>10. CASE Flag(r)
  BY <1>10 DEF Flag
<1> QED
  BY <1>1, <1>2, <1>3, <1>4, <1>5, <1>6, <1>7, <1>8, <1>9, <1>10 DEF Execute

-----------------------------------------------------------------------------
(* The load of Bronze.                                                     *)

LEMMA LoadStill == ASSUME NEW r, LoadInv(r), Still(r) PROVE LoadInv(r)'
BY DEF LoadInv, Still, layers

LEMMA TablesDiffer ==
    \A i, k \in 1..4 : i # k => TABLES[i] # TABLES[k]
BY DEF TABLES

LEMMA EveryTable == \A t \in BronzeTables : \E i \in 1..4 : t = TABLES[i]
<1>1. TABLES[1] = "policy" /\ TABLES[2] = "terms" /\ TABLES[3] = "job" /\ TABLES[4] = "claim"
  BY DEF TABLES
<1> QED
  BY <1>1, TablesAre

\* a table between its TRUNCATE and its COPY, and after that
LoadTable(r, i) ==
    /\ i < pc[r] /\ pc[r] <= 8 + i =>
         bronze[TABLES[i]] = None(BronzeRows[TABLES[i]]) /\ fresh[TABLES[i]]
    /\ 8 + i < pc[r] => bronze[TABLES[i]] = Once(BronzeRows[TABLES[i]])

LEMMA LoadExecute ==
    ASSUME TypeInv, NEW r \in Runs, LoadInv(r), Execute(r), Moves(r)
    PROVE  LoadInv(r)' \/ alone'[r] = {}
<1> SUFFICES ASSUME "load" \in alone[r], alone'[r] # {}
             PROVE  LoadInv(r)'
  BY DEF Moves, LoadInv
<1>1. script[r] = "load" \/ script[r] \in Later
  BY ScriptNamesIs DEF Moves, Later, ScriptNames, TypeInv, ControlType, Chain
<1>2. CASE script[r] \in Later
  BY <1>2, Writes DEF Moves, LoadInv, Later
<1>3. CASE script[r] = "load"
  <2>1. SUFFICES ASSUME NEW i \in 1..4 PROVE LoadTable(r, i)'
    BY <1>3, <2>1 DEF Moves, LoadInv, Later, LoadTable
  <2>2. LoadTable(r, i) /\ pc[r] \in Nat
    BY <1>3 DEF LoadInv, LoadTable, TypeInv, ControlType
  <2>3. TABLES[i] \in BronzeTables
    BY LoadTables
  <2>4. CASE Truncate(r)
    <3>1. pc[r] \in 1..4 /\ Table(r) = TABLES[pc[r]] /\ pc'[r] = pc[r] + 1
      BY <1>3, <2>4, TruncateIs
    <3>2. CASE i = pc[r]
      <4>0. TABLES[i] = Table(r) /\ Table(r) \in BronzeTables
        BY <2>3, <3>1, <3>2
      <4>1. bronze'[TABLES[i]] = None(BronzeRows[TABLES[i]]) /\ fresh'[TABLES[i]] = TRUE
        BY <2>4, <4>0, TruncateWrites, ZenonT(60)
      <4> QED
        BY <3>1, <3>2, <4>1 DEF LoadTable
    <3>3. CASE i # pc[r]
      <4>0. TABLES[i] # Table(r) /\ Table(r) \in BronzeTables
        BY <3>1, <3>3, TablesDiffer, LoadTables
      <4>1. bronze'[TABLES[i]] = bronze[TABLES[i]] /\ fresh'[TABLES[i]] = fresh[TABLES[i]]
        BY <2>3, <2>4, <4>0, TruncateWrites
      <4> QED
        BY <2>2, <3>1, <3>3, <4>1 DEF LoadTable
    <3> QED
      BY <3>2, <3>3
  <2>5. CASE Put(r)
    <3>1. pc[r] \in 5..8 /\ pc'[r] = pc[r] + 1
      BY <2>5, PutIs
    <3>2. bronze' = bronze /\ fresh' = [fresh EXCEPT ![Table(r)] = TRUE]
      BY <2>5 DEF Put
    <3>3. fresh[TABLES[i]] => fresh'[TABLES[i]]
      BY <2>3, <3>2 DEF TypeInv, LayersType
    <3> QED
      BY <2>2, <3>1, <3>2, <3>3 DEF LoadTable
  <2>6. CASE Copy(r)
    <3>1. pc[r] \in 9..12 /\ Table(r) = TABLES[pc[r] - 8] /\ pc'[r] = pc[r] + 1
      BY <2>6, CopyIs DEF Copy, Advance, Did, TypeInv, ControlType
    <3>2. /\ bronze' = IF fresh[Table(r)]
                       THEN [bronze EXCEPT ![Table(r)] =
                               Plus(bronze[Table(r)], Once(BronzeRows[Table(r)]))]
                       ELSE bronze
          /\ fresh' = [fresh EXCEPT ![Table(r)] = FALSE]
      BY <2>6 DEF Copy
    <3>3. CASE i = pc[r] - 8
      <4>1. bronze[TABLES[i]] = None(BronzeRows[TABLES[i]]) /\ fresh[TABLES[i]]
        BY <2>2, <3>1, <3>3 DEF LoadTable
      <4>2. bronze'[TABLES[i]] = Plus(None(BronzeRows[TABLES[i]]), Once(BronzeRows[TABLES[i]]))
        BY <2>3, <3>1, <3>2, <3>3, <4>1 DEF TypeInv, LayersType
      <4>3. \A S : Plus(None(S), Once(S)) = Once(S)
        BY DEF Plus, None, Once
      <4> QED
        BY <3>1, <3>3, <4>2, <4>3 DEF LoadTable
    <3>4. CASE i # pc[r] - 8
      <4>1. pc[r] - 8 \in 1..4
        BY <3>1
      <4>2. TABLES[i] # Table(r)
        BY <3>1, <3>4, <4>1, TablesDiffer
      <4>3. bronze'[TABLES[i]] = bronze[TABLES[i]] /\ fresh'[TABLES[i]] = fresh[TABLES[i]]
        BY <2>3, <3>2, <4>2 DEF TypeInv, LayersType
      <4> QED
        BY <2>2, <3>1, <3>4, <4>3 DEF LoadTable
    <3> QED
      BY <3>3, <3>4
  <2> QED
    BY <1>3, <2>4, <2>5, <2>6, CopyUploadIs, VerifyIs, InsertSilverAt, InsertGoldAt, DeleteTotalsIs,
       InsertTotalsIs, SelectIs, FlagIs, FlagsDoneIs DEF Execute
<1> QED
  BY <1>1, <1>2, <1>3

LEMMA LoadStep ==
    ASSUME TypeInv, NEW r \in Runs, LoadInv(r), Step(r)
    PROVE  LoadInv(r)'
<1>1. CASE alone'[r] = {}
  BY <1>1 DEF LoadInv
<1>2. CASE /\ script[r] = "none" /\ pc'[r] = 1 /\ UNCHANGED layers
           /\ script'[r] \in ScriptNames /\ alone'[r] = {script'[r]}
  BY <1>2 DEF LoadInv, Later, ScriptNames
<1>3. CASE /\ script[r] # "none" /\ pc[r] = Len(Statements[script[r]]) + 1
           /\ Follows(r, script'[r]) /\ pc'[r] = 1 /\ alone'[r] = alone[r] \union {script'[r]}
           /\ month'[r] = month[r] /\ UNCHANGED layers
  <2>1. script'[r] \in Later
    BY <1>3 DEF Follows, Later
  <2>2. SUFFICES ASSUME "load" \in alone[r]
                 PROVE  \A t \in BronzeTables : bronze[t] = Once(BronzeRows[t])
    BY <1>3, <2>1, <2>2 DEF LoadInv, layers, Later
  <2>3. CASE script[r] = "load"
    <3>1. pc[r] = 13
      BY <1>3, <2>3, LoadIs
    <3>2. \A i \in 1..4 : bronze[TABLES[i]] = Once(BronzeRows[TABLES[i]])
      BY <2>2, <2>3, <3>1 DEF LoadInv
    <3> QED
      BY <3>2, EveryTable
  <2>4. CASE script[r] # "load"
    <3>1. script[r] \in Later
      BY <1>3, <2>2, <2>4 DEF Follows, Later, TypeInv, ControlType, Chain
    <3> QED
      BY <2>2, <3>1 DEF LoadInv
  <2> QED
    BY <2>3, <2>4
<1>4. CASE Execute(r) /\ Moves(r)
  BY <1>1, <1>4, LoadExecute
<1> QED
  BY <1>1, <1>2, <1>3, <1>4, OwnStep

-----------------------------------------------------------------------------
(* The load of an upload.                                                  *)

LEMMA UploadStill == ASSUME NEW r, UploadInv(r), Still(r) PROVE UploadInv(r)'
BY DEF UploadInv, UploadedRows, Still, layers

LEMMA UploadExecute ==
    ASSUME TypeInv, NEW r \in Runs, UploadInv(r), Execute(r), Moves(r)
    PROVE  UploadInv(r)' \/ alone'[r] = {}
<1> SUFFICES ASSUME "upload" \in alone[r], alone'[r] # {}
             PROVE  UploadInv(r)'
  BY DEF Moves, UploadInv
<1>1. script[r] = "upload" \/ script[r] \in Later
  BY ScriptNamesIs DEF Moves, Later, ScriptNames, TypeInv, ControlType, Chain
<1>2. CASE script[r] \in Later
  BY <1>2, Writes DEF Moves, UploadInv, UploadedRows, Later
<1>3. CASE script[r] = "upload"
  <2>1. UploadedRows' = UploadedRows
    BY DEF UploadedRows
  <2>2. CASE Truncate(r)
    <3>1. pc[r] = 1 /\ pc'[r] = 2 /\ Table(r) = "policy"
      BY <1>3, <2>2, TruncateIs
    <3>2. bronze'["policy"] = None(Policies)
      <4>1. Table(r) \in BronzeTables
        BY <3>1, TablesAre
      <4>2. bronze'[Table(r)] = None(BronzeRows[Table(r)])
        BY <2>2, <4>1, TruncateWrites
      <4> QED
        BY <3>1, <4>2, TablesAre
    <3>3. script'[r] = "upload" /\ "upload" \notin Later
      BY <1>3 DEF Moves, Later
    <3> QED
      BY <3>1, <3>2, <3>3 DEF UploadInv
  <2>3. CASE CopyUpload(r)
    <3>1. pc[r] = 2 /\ pc'[r] = 3
      BY <2>3, CopyUploadIs
    <3>2. bronze["policy"] = None(Policies)
      BY <1>3, <3>1 DEF UploadInv
    <3>3. bronze'["policy"] = [p \in Policies |-> IF p \in Uploaded THEN bronze["policy"][p] + 1
                                                  ELSE bronze["policy"][p]]
      BY <2>3, TablesAre DEF CopyUpload, TypeInv, LayersType
    <3>4. bronze'["policy"] = UploadedRows
      BY <3>2, <3>3 DEF None, UploadedRows
    <3>5. script'[r] = "upload" /\ "upload" \notin Later
      BY <1>3 DEF Moves, Later
    <3> QED
      BY <2>1, <3>1, <3>4, <3>5 DEF UploadInv
  <2>4. CASE Verify(r)
    <3>1. pc[r] = 3 /\ pc'[r] = 4 /\ bronze' = bronze
      BY <2>4, VerifyIs DEF layers
    <3> QED
      BY <1>3, <2>1, <3>1 DEF UploadInv
  <2> QED
    BY <1>3, <2>2, <2>3, <2>4, PutIs, CopyIs, InsertSilverAt, InsertGoldAt, DeleteTotalsIs,
       InsertTotalsIs, SelectIs, FlagIs, FlagsDoneIs DEF Execute, TypeInv
<1> QED
  BY <1>1, <1>2, <1>3

LEMMA UploadStep ==
    ASSUME TypeInv, NEW r \in Runs, UploadInv(r), Step(r)
    PROVE  UploadInv(r)'
<1>1. CASE alone'[r] = {}
  BY <1>1 DEF UploadInv
<1>2. CASE /\ script[r] = "none" /\ pc'[r] = 1 /\ UNCHANGED layers
           /\ script'[r] \in ScriptNames /\ alone'[r] = {script'[r]}
  BY <1>2 DEF UploadInv, Later, ScriptNames
<1>3. CASE /\ script[r] # "none" /\ pc[r] = Len(Statements[script[r]]) + 1
           /\ Follows(r, script'[r]) /\ pc'[r] = 1 /\ alone'[r] = alone[r] \union {script'[r]}
           /\ month'[r] = month[r] /\ UNCHANGED layers
  <2>1. script'[r] \in Later
    BY <1>3 DEF Follows, Later
  <2>2. SUFFICES ASSUME "upload" \in alone[r] PROVE bronze["policy"] = UploadedRows
    BY <1>3, <2>1, <2>2 DEF UploadInv, UploadedRows, layers, Later
  <2>3. CASE script[r] = "upload"
    <3>1. pc[r] = 4
      BY <1>3, <2>3, UploadIs
    <3> QED
      BY <2>2, <2>3, <3>1 DEF UploadInv
  <2>4. CASE script[r] # "upload"
    <3>1. script[r] \in Later
      BY <1>3, <2>2, <2>4 DEF Follows, Later, TypeInv, ControlType, Chain
    <3> QED
      BY <2>2, <3>1 DEF UploadInv
  <2> QED
    BY <2>3, <2>4
<1>4. CASE Execute(r) /\ Moves(r)
  BY <1>1, <1>4, UploadExecute
<1> QED
  BY <1>1, <1>2, <1>3, <1>4, OwnStep

-----------------------------------------------------------------------------
(* Silver.                                                                 *)

\* the part of SilverInv about one table and month
SilverTable(r, t, m) ==
    /\ script[r] = "silver" /\ pc[r] = SilverPlace[t] => silver[t][m] = None(SilverRows[t])
    /\ Staged(r, t) => silver[t][m] = IF m = month[r] THEN StagedRows[t] ELSE None(SilverRows[t])

LEMMA StagedRowsKept ==
    ASSUME bronze' = bronze
    PROVE  \A t : StagedRows'[t] = StagedRows[t]
BY DEF StagedRows, SilverPremium, SilverClaimState, LossOfMonth, SilverCancellation

LEMMA SilverStill == ASSUME NEW r, SilverInv(r), Still(r) PROVE SilverInv(r)'
<1>1. bronze' = bronze /\ silver' = silver /\ script'[r] = script[r] /\ pc'[r] = pc[r]
      /\ month'[r] = month[r] /\ alone'[r] = alone[r]
  BY DEF Still, layers
<1>2. \A t : StagedRows'[t] = StagedRows[t]
  BY <1>1, StagedRowsKept
<1>3. SUFFICES ASSUME "silver" \in alone'[r], NEW t \in SilverTables, NEW m \in Months
               PROVE  SilverTable(r, t, m)'
  BY <1>3 DEF SilverInv, SilverTable
<1>4. SilverTable(r, t, m)
  BY <1>1, <1>3 DEF SilverInv, SilverTable
<1> QED
  BY <1>1, <1>2, <1>4 DEF SilverTable, Staged

LEMMA SilverPlaces ==
    /\ \A t \in SilverTables : \E k \in 1..4 : SilverPlace[t] = 2 * k
    /\ \A s, t \in SilverTables : s # t => SilverPlace[s] # SilverPlace[t]
BY TablesAre DEF SilverPlace

LEMMA StagedRowsAre ==
    /\ StagedRows["premium_staging"] = SilverPremium
    /\ StagedRows["claim_state"] = SilverClaimState
    /\ StagedRows["loss_staging"] = LossOfMonth
    /\ StagedRows["cancellation_staging"] = SilverCancellation
BY DEF StagedRows

\* The join with TSPR_CLAIM_STATE over all months finds those of the run's month.
LEMMA LossJoinsMonth ==
    ASSUME TypeInv, NEW r \in Runs,
           \A m \in Months : silver["claim_state"][m] =
             IF m = month[r] THEN SilverClaimState ELSE None(Claims)
    PROVE  SilverLoss = LossOfMonth
<1> SUFFICES ASSUME NEW c \in Claims
             PROVE  SumOver([m \in Months |-> silver["claim_state"][m][c]], Months)
                      = bronze["claim"][c]
  BY DEF SilverLoss, LossOfMonth
<1> DEFINE f == [m \in Months |-> silver["claim_state"][m][c]]
<1>1. month[r] \in Months /\ IsFiniteSet(Months) /\ bronze["claim"][c] \in Nat
  BY PipelineAssumption, TablesAre DEF TypeInv, ControlType, LayersType
<1>2. f[month[r]] = bronze["claim"][c] /\ \A m \in Months : m # month[r] => f[m] = 0
  BY <1>1 DEF SilverClaimState, None
<1> HIDE DEF f
<1>3. SumOver(f, Months) = f[month[r]]
  BY <1>1, <1>2, SumOfOne
<1> QED
  BY <1>2, <1>3 DEF f

LEMMA PlusNone == \A S : \A B \in [S -> Nat] : Plus(None(S), B) = B
BY DEF Plus, None

LEMMA SilverExecute ==
    ASSUME TypeInv, NEW r \in Runs, SilverInv(r), Execute(r), Moves(r)
    PROVE  SilverInv(r)'
<1>1. script'[r] = script[r] /\ month'[r] = month[r] /\ alone'[r] = alone[r]
  BY DEF Moves
<1>2. SUFFICES ASSUME "silver" \in alone[r], NEW t \in SilverTables, NEW m \in Months
               PROVE  SilverTable(r, t, m)'
  BY <1>1, <1>2 DEF SilverInv, SilverTable
<1>3. SilverTable(r, t, m) /\ pc[r] \in Nat /\ month[r] \in Months
  BY <1>2 DEF SilverInv, SilverTable, TypeInv, ControlType
<1>4. script[r] \in Later
  BY <1>2, ScriptNamesIs DEF Moves, Later, ScriptNames, TypeInv, ControlType, Chain
<1>5. bronze' = bronze /\ \A s : StagedRows'[s] = StagedRows[s]
  BY <1>4, Writes, StagedRowsKept
<1>6. CASE script[r] # "silver"
  <2>1. silver'[t] = silver[t]
    BY <1>2, <1>6, Writes
  <2> QED
    BY <1>1, <1>3, <1>5, <1>6, <2>1 DEF SilverTable, Staged
<1>7. CASE script[r] = "silver"
  <2>1. CASE Truncate(r)
    <3>1. Table(r) \in SilverTables /\ pc[r] = SilverPlace[Table(r)] - 1 /\ pc'[r] = pc[r] + 1
      BY <1>7, <2>1, TruncateIs
    <3>2. silver'[t] = IF t = Table(r) THEN [k \in Months |-> None(SilverRows[t])] ELSE silver[t]
      BY <1>2, <2>1, TruncateWrites
    <3>3. CASE t = Table(r)
      <4>1. pc'[r] = SilverPlace[t]
        BY <3>1, <3>3, SilverPlaces
      <4> QED
        BY <1>1, <1>2, <1>7, <3>2, <3>3, <4>1, SilverPlaces DEF SilverTable, Staged
    <3>4. CASE t # Table(r)
      <4>1. PICK k \in 1..4, l \in 1..4 : SilverPlace[t] = 2 * k /\ SilverPlace[Table(r)] = 2 * l
        BY <1>2, <3>1, SilverPlaces
      <4>2. k # l
        BY <1>2, <3>1, <3>4, <4>1, SilverPlaces
      <4>3. pc'[r] # SilverPlace[t] /\ (pc'[r] > SilverPlace[t] => pc[r] > SilverPlace[t])
        BY <3>1, <4>1, <4>2
      <4> QED
        BY <1>1, <1>3, <1>5, <1>7, <3>2, <3>4, <4>3 DEF SilverTable, Staged
    <3> QED
      BY <3>3, <3>4
  <2>2. CASE InsertSilver(r)
    <3>1. Table(r) \in SilverTables /\ pc[r] = SilverPlace[Table(r)] /\ pc'[r] = pc[r] + 1
      BY <2>2, InsertSilverAt
    <3>2. PICK rows : /\ IntoSilver(Table(r), month[r], rows)
                      /\ rows \in [SilverRows[Table(r)] -> Nat]
                      /\ Table(r) = "premium_staging" => rows = SilverPremium
                      /\ Table(r) = "claim_state" => rows = SilverClaimState
                      /\ Table(r) = "loss_staging" => rows = SilverLoss
                      /\ Table(r) = "cancellation_staging" => rows = SilverCancellation
      BY <2>2, InsertSilverIs
    <3>3. rows = StagedRows[Table(r)]
      <4>1. CASE Table(r) = "loss_staging"
        <5>1. pc[r] = 6
          BY <3>1, <4>1 DEF SilverPlace
        <5>2. Staged(r, "claim_state")
          BY <1>7, <5>1 DEF Staged, SilverPlace
        <5>3. \A k \in Months : silver["claim_state"][k] =
                IF k = month[r] THEN SilverClaimState ELSE None(Claims)
          BY <1>2, <5>2, TablesAre, StagedRowsAre DEF SilverInv
        <5>4. SilverLoss = LossOfMonth
          BY <5>3, LossJoinsMonth
        <5> QED
          BY <3>2, <4>1, <5>4, StagedRowsAre
      <4>2. CASE Table(r) # "loss_staging"
        BY <3>1, <3>2, <4>2, TablesAre, StagedRowsAre
      <4> QED
        BY <4>1, <4>2
    <3>4. /\ silver'[Table(r)][month[r]] = Plus(silver[Table(r)][month[r]], rows)
          /\ \A s \in SilverTables, k \in Months :
               s # Table(r) \/ k # month[r] => silver'[s][k] = silver[s][k]
      BY <1>3, <3>1, <3>2, IntoSilverIs
    <3>5. CASE t = Table(r)
      <4>1. silver[t][m] = None(SilverRows[t])
        BY <1>3, <1>7, <3>1, <3>5 DEF SilverTable
      <4>2. pc'[r] # SilverPlace[t]
        BY <1>3, <3>1, <3>5
      <4>3. silver'[t][m] = IF m = month[r] THEN rows ELSE None(SilverRows[t])
        BY <1>2, <3>2, <3>4, <3>5, <4>1, PlusNone
      <4> QED
        BY <1>1, <1>5, <1>7, <3>3, <3>5, <4>2, <4>3 DEF SilverTable
    <3>6. CASE t # Table(r)
      <4>1. PICK k \in 1..4, l \in 1..4 : SilverPlace[t] = 2 * k /\ SilverPlace[Table(r)] = 2 * l
        BY <1>2, <3>1, SilverPlaces
      <4>2. k # l
        BY <1>2, <3>1, <3>6, <4>1, SilverPlaces
      <4>3. pc'[r] # SilverPlace[t] /\ (pc'[r] > SilverPlace[t] => pc[r] > SilverPlace[t])
        BY <3>1, <4>1, <4>2
      <4>4. silver'[t][m] = silver[t][m]
        BY <1>2, <3>4, <3>6
      <4> QED
        BY <1>1, <1>3, <1>5, <1>7, <4>3, <4>4 DEF SilverTable, Staged
    <3> QED
      BY <3>5, <3>6
  <2> QED
    BY <1>7, <2>1, <2>2, PutIs, CopyIs, CopyUploadIs, VerifyIs, InsertGoldAt, DeleteTotalsIs,
       InsertTotalsIs, SelectIs, FlagIs, FlagsDoneIs DEF Execute, TypeInv
<1> QED
  BY <1>6, <1>7

LEMMA SilverStep ==
    ASSUME TypeInv, NEW r \in Runs, SilverInv(r), Step(r)
    PROVE  SilverInv(r)'
<1>1. CASE alone'[r] = {}
  BY <1>1 DEF SilverInv
<1>2. CASE /\ script[r] = "none" /\ pc'[r] = 1 /\ UNCHANGED layers
           /\ script'[r] \in ScriptNames /\ alone'[r] = {script'[r]}
  <2>1. SUFFICES ASSUME "silver" \in alone'[r], NEW t \in SilverTables, NEW m \in Months
                 PROVE  SilverTable(r, t, m)'
    BY <2>1 DEF SilverInv, SilverTable
  <2>2. script'[r] = "silver"
    BY <1>2, <2>1
  <2> QED
    BY <1>2, <2>1, <2>2, SilverPlaces DEF SilverTable, Staged
<1>3. CASE /\ script[r] # "none" /\ pc[r] = Len(Statements[script[r]]) + 1
           /\ Follows(r, script'[r]) /\ pc'[r] = 1 /\ alone'[r] = alone[r] \union {script'[r]}
           /\ month'[r] = month[r] /\ UNCHANGED layers
  <2>1. SUFFICES ASSUME "silver" \in alone'[r], NEW t \in SilverTables, NEW m \in Months
                 PROVE  SilverTable(r, t, m)'
    BY <2>1 DEF SilverInv, SilverTable
  <2>2. CASE script[r] \in {"load", "upload"}
    <3>1. script'[r] = "silver"
      BY <1>3, <2>2 DEF Follows
    <3> QED
      BY <1>3, <2>1, <3>1, SilverPlaces DEF SilverTable, Staged
  <2>3. CASE script[r] \in {"silver", "gold"}
    <3>1. script'[r] \in {"gold", "anomalies"} /\ "silver" \in alone[r]
      BY <1>3, <2>1, <2>3 DEF Follows
    <3>2. Staged(r, t)
      <4>1. CASE script[r] = "silver"
        <5>1. pc[r] = 9
          BY <1>3, <4>1, SilverIs
        <5>2. SilverPlace[t] <= 8
          BY <2>1, SilverPlaces
        <5> QED
          BY <4>1, <5>1, <5>2, SilverPlaces DEF Staged
      <4> QED
        BY <2>3, <4>1 DEF Staged
    <3>3. silver[t][m] = IF m = month[r] THEN StagedRows[t] ELSE None(SilverRows[t])
      BY <2>1, <3>1, <3>2 DEF SilverInv
    <3>4. silver' = silver /\ bronze' = bronze
      BY <1>3 DEF layers
    <3>5. StagedRows'[t] = StagedRows[t]
      BY <3>4, StagedRowsKept
    <3> QED
      BY <1>3, <3>1, <3>3, <3>4, <3>5 DEF SilverTable
  <2> QED
    BY <1>3, <2>2, <2>3 DEF Follows
<1>4. CASE Execute(r) /\ Moves(r)
  BY <1>4, SilverExecute
<1> QED
  BY <1>1, <1>2, <1>3, <1>4, OwnStep

-----------------------------------------------------------------------------
(* Gold.                                                                   *)

\* the parts of GoldInv
GoldTable(r, t) ==
    /\ pc[r] = GoldPlace[t] => gold[t][month[r]] = None(GoldRows[t])
    /\ pc[r] > GoldPlace[t] => gold[t][month[r]] = RecordRows(month[r])[t]

GoldSums(r) ==
    /\ pc[r] = 6 => recipients[month[r]] = None(Combinations)
    /\ pc[r] > 6 => recipients[month[r]] = GoldRecipients(month[r])
    /\ pc[r] = 8 => totals[month[r]] = <<>>
    /\ pc[r] > 8 => totals[month[r]] = <<GoldAggregates(month[r])>>

LEMMA GoldInvIs ==
    \A r : GoldInv(r) <=> ("gold" \in alone[r] /\ script[r] = "gold" =>
                             (\A t \in GoldTables : GoldTable(r, t)) /\ GoldSums(r))
BY DEF GoldInv, GoldTable, GoldSums

LEMMA GoldPlaces ==
    /\ GoldPlace["premium_records"] = 2 /\ GoldPlace["loss_records"] = 4
    /\ GoldPlace["cancellation_records"] = 6
    /\ \A t \in GoldTables : \E k \in 1..3 : GoldPlace[t] = 2 * k
    /\ \A s, t \in GoldTables : s # t => GoldPlace[s] # GoldPlace[t]
BY TablesAre DEF GoldPlace

LEMMA GoldStill == ASSUME NEW r, GoldInv(r), Still(r) PROVE GoldInv(r)'
BY DEF GoldInv, Still, layers, RecordRows, GoldPremium, GoldLoss, GoldCancellation, GoldRecipients,
       JoinedNotices, GoldAggregates

LEMMA RecordRowsAre ==
    \A m : /\ RecordRows(m)["premium_records"] = GoldPremium(m)
           /\ RecordRows(m)["loss_records"] = GoldLoss(m)
           /\ RecordRows(m)["cancellation_records"] = GoldCancellation(m)
BY DEF RecordRows

\* While run_gold is at work its source rows stay.
LEMMA RecordRowsKept ==
    ASSUME TypeInv, NEW r \in Runs, Execute(r), Moves(r), script[r] = "gold"
    PROVE  /\ GoldRecipients(month[r])' = GoldRecipients(month[r])
           /\ \A t : RecordRows(month[r])'[t] = RecordRows(month[r])[t]
<1>1. bronze' = bronze /\ month'[r] = month[r] /\ \A s \in SilverTables : silver'[s] = silver[s]
  BY Writes DEF Later, Moves
<1>2. /\ silver'["premium_staging"] = silver["premium_staging"]
      /\ silver'["loss_staging"] = silver["loss_staging"]
      /\ silver'["cancellation_staging"] = silver["cancellation_staging"]
  BY <1>1, TablesAre
<1>3. GoldPremium(month[r])' = GoldPremium(month[r]) /\ GoldLoss(month[r])' = GoldLoss(month[r])
  BY <1>1, <1>2 DEF GoldPremium, GoldLoss
<1>4. JoinedNotices(month[r])' = JoinedNotices(month[r])
  BY <1>1, <1>2 DEF JoinedNotices
<1>5. GoldRecipients(month[r])' = GoldRecipients(month[r])
  BY <1>4 DEF GoldRecipients
<1>6. GoldCancellation(month[r])' = GoldCancellation(month[r])
  BY <1>5 DEF GoldCancellation
<1> QED
  BY <1>3, <1>5, <1>6 DEF RecordRows

LEMMA GoldExecute ==
    ASSUME TypeInv, NEW r \in Runs, GoldInv(r), Execute(r), Moves(r)
    PROVE  GoldInv(r)'
<1> DEFINE m == month[r]
<1>1. script'[r] = script[r] /\ month'[r] = m /\ alone'[r] = alone[r]
  BY DEF Moves
<1>2. SUFFICES ASSUME "gold" \in alone[r], script[r] = "gold"
               PROVE  (\A t \in GoldTables : GoldTable(r, t)') /\ GoldSums(r)'
  BY <1>1, <1>2 DEF GoldInv, GoldTable, GoldSums
<1>3. (\A t \in GoldTables : GoldTable(r, t)) /\ GoldSums(r)
  BY <1>2, GoldInvIs
<1>4. pc[r] \in Nat /\ m \in Months
  BY DEF TypeInv, ControlType
<1>5. /\ GoldRecipients(month[r])' = GoldRecipients(m)
      /\ \A t : RecordRows(month[r])'[t] = RecordRows(m)[t]
  BY <1>2, RecordRowsKept
<1>6. CASE Truncate(r)
  <2>1. Table(r) \in GoldTables /\ pc[r] = GoldPlace[Table(r)] - 1 /\ pc'[r] = pc[r] + 1
    BY <1>2, <1>6, TruncateIs
  <2>2. /\ \A t \in GoldTables : gold'[t] =
             IF t = Table(r) THEN [k \in Months |-> None(GoldRows[t])] ELSE gold[t]
        /\ recipients' = IF Table(r) = "cancellation_records"
                         THEN [k \in Months |-> None(Combinations)] ELSE recipients
        /\ totals' = totals
    BY <1>6, TruncateWrites
  <2>3. ASSUME NEW t \in GoldTables PROVE GoldTable(r, t)'
    <3>1. CASE t = Table(r)
      <4>1. pc'[r] = GoldPlace[t] /\ ~(pc'[r] > GoldPlace[t])
        BY <2>1, <2>3, <3>1, GoldPlaces
      <4> QED
        BY <1>1, <1>4, <2>2, <2>3, <3>1, <4>1 DEF GoldTable
    <3>2. CASE t # Table(r)
      <4>1. PICK k \in 1..3, l \in 1..3 : GoldPlace[t] = 2 * k /\ GoldPlace[Table(r)] = 2 * l
        BY <2>1, <2>3, GoldPlaces
      <4>2. k # l
        BY <2>1, <2>3, <3>2, <4>1, GoldPlaces
      <4>3. pc'[r] # GoldPlace[t] /\ (pc'[r] > GoldPlace[t] => pc[r] > GoldPlace[t])
        BY <2>1, <4>1, <4>2
      <4> QED
        BY <1>1, <1>3, <1>5, <2>2, <2>3, <3>2, <4>3 DEF GoldTable
    <3> QED
      BY <3>1, <3>2
  <2>4. pc'[r] <= 6 /\ (pc'[r] = 6 => Table(r) = "cancellation_records")
    BY <2>1, GoldPlaces, TablesAre
  <2>5. GoldSums(r)'
    BY <1>1, <1>4, <2>1, <2>2, <2>4 DEF GoldSums
  <2> QED
    BY <2>3, <2>5
<1>7. CASE InsertGold(r)
  <2>1. Table(r) \in GoldTables /\ pc[r] = GoldPlace[Table(r)] /\ pc'[r] = pc[r] + 1
    BY <1>7, InsertGoldAt
  <2>2. \/ /\ Table(r) = "premium_records" /\ recipients' = recipients
           /\ IntoGold(Table(r), m, GoldPremium(m))
        \/ /\ Table(r) = "loss_records" /\ recipients' = recipients
           /\ IntoGold(Table(r), m, GoldLoss(m))
        \/ /\ Table(r) = "cancellation_records"
           /\ IntoGold(Table(r), m, GoldCancellation(m))
           /\ recipients' = [recipients EXCEPT ![m] = Plus(@, GoldRecipients(m))]
    BY <1>7 DEF InsertGold
  <2>3. /\ IntoGold(Table(r), m, RecordRows(m)[Table(r)])
        /\ RecordRows(m)[Table(r)] \in [GoldRows[Table(r)] -> Nat]
    BY <1>4, <2>2, RecordRowsAre, GoldRowsType, TablesAre
  <2>4. /\ gold'[Table(r)][m] = Plus(gold[Table(r)][m], RecordRows(m)[Table(r)])
        /\ \A t \in GoldTables : t # Table(r) => gold'[t] = gold[t]
    BY <1>4, <2>1, <2>3, IntoGoldType
  <2>5. ASSUME NEW t \in GoldTables PROVE GoldTable(r, t)'
    <3>1. CASE t = Table(r)
      <4>1. gold[t][m] = None(GoldRows[t])
        BY <1>3, <2>1, <2>5, <3>1 DEF GoldTable
      <4>2. gold'[t][m] = RecordRows(m)[t]
        BY <2>3, <2>4, <3>1, <4>1, PlusNone
      <4>3. pc'[r] # GoldPlace[t]
        BY <1>4, <2>1, <3>1
      <4> QED
        BY <1>1, <1>5, <4>2, <4>3 DEF GoldTable
    <3>2. CASE t # Table(r)
      <4>1. PICK k \in 1..3, l \in 1..3 : GoldPlace[t] = 2 * k /\ GoldPlace[Table(r)] = 2 * l
        BY <2>1, <2>5, GoldPlaces
      <4>2. k # l
        BY <2>1, <2>5, <3>2, <4>1, GoldPlaces
      <4>3. pc'[r] # GoldPlace[t] /\ (pc'[r] > GoldPlace[t] => pc[r] > GoldPlace[t])
        BY <2>1, <4>1, <4>2
      <4>4. gold'[t] = gold[t]
        BY <2>4, <2>5, <3>2
      <4> QED
        BY <1>1, <1>3, <1>5, <2>5, <4>3, <4>4 DEF GoldTable
    <3> QED
      BY <3>1, <3>2
  <2>6. GoldSums(r)'
    <3>1. CASE Table(r) = "cancellation_records"
      <4>1. pc[r] = 6 /\ pc'[r] = 7
        BY <2>1, <3>1, GoldPlaces
      <4>2. recipients[m] = None(Combinations)
        BY <1>3, <4>1 DEF GoldSums
      <4>3. recipients'[m] = Plus(None(Combinations), GoldRecipients(m))
        BY <1>4, <2>2, <3>1, <4>2 DEF TypeInv, LayersType
      <4>4. recipients'[m] = GoldRecipients(m)
        BY <1>4, <4>3, GoldRowsType, PlusNone
      <4> QED
        BY <1>1, <1>5, <4>1, <4>4 DEF GoldSums
    <3>2. CASE Table(r) # "cancellation_records"
      <4>1. pc'[r] \in {3, 5}
        BY <2>1, <3>2, GoldPlaces, TablesAre
      <4> QED
        BY <4>1 DEF GoldSums
    <3> QED
      BY <3>1, <3>2
  <2> QED
    BY <2>5, <2>6
<1>8. CASE DeleteTotals(r) \/ InsertTotals(r)
  <2>1. pc[r] \in {7, 8} /\ pc'[r] = pc[r] + 1
    BY <1>8, DeleteTotalsIs, InsertTotalsIs
  <2>2. gold' = gold /\ recipients' = recipients
    BY <1>8 DEF DeleteTotals, InsertTotals
  <2>3. \A t \in GoldTables : GoldPlace[t] < 7
    BY GoldPlaces
  <2>4. ASSUME NEW t \in GoldTables PROVE GoldTable(r, t)'
    <3>1. pc[r] > GoldPlace[t] /\ pc'[r] # GoldPlace[t]
      BY <2>1, <2>3, <2>4, GoldPlaces
    <3> QED
      BY <1>1, <1>3, <1>5, <2>2, <2>4, <3>1 DEF GoldTable
  <2>5. recipients'[m] = GoldRecipients(m)
    BY <1>3, <2>1, <2>2 DEF GoldSums
  <2>6. CASE DeleteTotals(r)
    <3>1. pc'[r] = 8
      BY <2>6, DeleteTotalsIs
    <3>2. totals'[m] = <<>>
      <4>1. totals' = [totals EXCEPT ![m] = <<>>] /\ DOMAIN totals = Months
        BY <2>6 DEF DeleteTotals, TypeInv, LayersType
      <4> QED
        BY <1>4, <4>1
    <3> QED
      BY <1>1, <1>5, <2>4, <2>5, <3>1, <3>2 DEF GoldSums
  <2>7. CASE InsertTotals(r)
    <3>1. pc[r] = 8 /\ pc'[r] = 9
      BY <2>7, InsertTotalsIs
    <3>2. totals[m] = <<>>
      BY <1>3, <3>1 DEF GoldSums
    <3>3. totals'[m] = Append(totals[m], GoldAggregates(m))
      BY <1>4, <2>7 DEF InsertTotals, TypeInv, LayersType
    <3>4. totals'[m] = <<GoldAggregates(m)>>
      <4>1. \A e : Append(<<>>, e) = <<e>>
        OBVIOUS
      <4> QED
        BY <3>2, <3>3, <4>1
    <3>5. GoldAggregates(month[r])' = GoldAggregates(m)
      BY <1>1, <2>2 DEF GoldAggregates
    <3> QED
      BY <1>1, <1>5, <2>4, <2>5, <3>1, <3>4, <3>5 DEF GoldSums
  <2> QED
    BY <1>8, <2>6, <2>7
<1> QED
  BY <1>2, <1>6, <1>7, <1>8, PutIs, CopyIs, CopyUploadIs, VerifyIs, InsertSilverAt,
     SelectIs, FlagIs, FlagsDoneIs DEF Execute, TypeInv

LEMMA GoldStep ==
    ASSUME TypeInv, NEW r \in Runs, GoldInv(r), Step(r)
    PROVE  GoldInv(r)'
<1>1. CASE alone'[r] = {}
  BY <1>1 DEF GoldInv
<1>2. CASE pc'[r] = 1
  BY <1>2, GoldPlaces DEF GoldInv
<1>3. CASE Execute(r) /\ Moves(r)
  BY <1>3, GoldExecute
<1> QED
  BY <1>1, <1>2, <1>3, OwnStep

-----------------------------------------------------------------------------
(* Anomalies.                                                              *)

LEMMA AnomalyStill == ASSUME NEW r, AnomalyInv(r), Still(r) PROVE AnomalyInv(r)'
BY DEF AnomalyInv, Still, layers, HailCluster, FreezeInSummer

\* the part of AnomalyInv about one row
FlagRow(r, x) ==
    /\ pc[r] = 2 => flags[x] = 0
    /\ pc[r] = 3 => flags[x] + found[r][x] = HailCluster[x]
    /\ pc[r] = 4 => flags[x] = HailCluster[x]
    /\ pc[r] = 5 => flags[x] + found[r][x] = HailCluster[x] + FreezeInSummer[x]
    /\ pc[r] = 6 => flags[x] = HailCluster[x] + FreezeInSummer[x]

LEMMA AnomalyExecute ==
    ASSUME TypeInv, NEW r \in Runs, AnomalyInv(r), Execute(r), Moves(r)
    PROVE  AnomalyInv(r)'
<1>1. script'[r] = script[r] /\ alone'[r] = alone[r]
  BY DEF Moves
<1>2. SUFFICES ASSUME "anomalies" \in alone[r], script[r] = "anomalies", NEW x \in FlagRows
               PROVE  FlagRow(r, x)'
  BY <1>1, <1>2 DEF AnomalyInv, FlagRow
<1>3. FlagRow(r, x)
  BY <1>2 DEF AnomalyInv, FlagRow
<1>4. bronze' = bronze
  BY <1>2, Writes DEF Later
<1>5. HailCluster' = HailCluster /\ FreezeInSummer' = FreezeInSummer
  BY <1>4 DEF HailCluster, FreezeInSummer
<1>6. /\ flags[x] \in Nat /\ found[r][x] \in Nat
      /\ HailCluster[x] \in Nat /\ FreezeInSummer[x] \in Nat
  BY FoundsType DEF TypeInv, LayersType, FoundType
<1>7. CASE Truncate(r)
  <2>1. pc'[r] = 2 /\ Table(r) = "flags"
    BY <1>2, <1>7, TruncateIs
  <2>2. flags' = None(FlagRows)
    BY <1>7, <2>1, TruncateWrites
  <2> QED
    BY <2>1, <2>2 DEF FlagRow, None
<1>8. CASE Select(r)
  <2>1. flags' = flags
    BY <1>8 DEF Select, layers
  <2>2. \/ pc[r] = 2 /\ pc'[r] = 3 /\ found'[r] = HailCluster
        \/ pc[r] = 4 /\ pc'[r] = 5 /\ found'[r] = FreezeInSummer
    BY <1>8, SelectIs
  <2>3. CASE pc[r] = 2
    BY <1>3, <1>5, <1>6, <2>1, <2>2, <2>3 DEF FlagRow
  <2>4. CASE pc[r] = 4
    BY <1>3, <1>5, <1>6, <2>1, <2>2, <2>4 DEF FlagRow
  <2> QED
    BY <2>2, <2>3, <2>4
<1>9. CASE Flag(r)
  <2>1. pc'[r] = pc[r] /\ pc[r] \in {3, 5}
    BY <1>9, FlagIs
  <2>2. PICK y \in FlagRows : /\ found[r][y] > 0
                              /\ flags' = [flags EXCEPT ![y] = flags[y] + 1]
                              /\ found' = [found EXCEPT ![r][y] = found[r][y] - 1]
    BY <1>9 DEF Flag
  <2>3. flags'[x] + found'[r][x] = flags[x] + found[r][x]
    <3>1. DOMAIN flags = FlagRows /\ DOMAIN found = Runs /\ DOMAIN found[r] = FlagRows
      BY DEF TypeInv, LayersType, FoundType
    <3>2. CASE x = y
      <4>1. flags'[x] = flags[x] + 1 /\ found'[r][x] = found[r][x] - 1
        BY <2>2, <3>1, <3>2
      <4> QED
        BY <1>6, <4>1
    <3>3. CASE x # y
      BY <2>2, <3>1, <3>3
    <3> QED
      BY <3>2, <3>3
  <2> QED
    BY <1>3, <1>5, <2>1, <2>3 DEF FlagRow
<1>10. CASE FlagsDone(r)
  <2>1. pc'[r] = pc[r] + 1 /\ pc[r] \in {3, 5}
    BY <1>10, FlagsDoneIs
  <2>2. flags' = flags /\ found[r][x] = 0
    BY <1>10 DEF FlagsDone, layers, None
  <2> QED
    BY <1>3, <1>5, <1>6, <2>1, <2>2 DEF FlagRow
<1> QED
  BY <1>2, <1>7, <1>8, <1>9, <1>10, PutIs, CopyIs, CopyUploadIs, VerifyIs, InsertSilverAt,
     InsertGoldAt, DeleteTotalsIs, InsertTotalsIs DEF Execute, TypeInv

LEMMA AnomalyStep ==
    ASSUME TypeInv, NEW r \in Runs, AnomalyInv(r), Step(r)
    PROVE  AnomalyInv(r)'
<1>1. CASE alone'[r] = {}
  BY <1>1 DEF AnomalyInv
<1>2. CASE pc'[r] = 1
  BY <1>2 DEF AnomalyInv
<1>3. CASE Execute(r) /\ Moves(r)
  BY <1>3, AnomalyExecute
<1> QED
  BY <1>1, <1>2, <1>3, OwnStep

-----------------------------------------------------------------------------
(* The invariant.                                                          *)

LEMMA InitProgress == Init => ProgressInv
BY DEF Init, ProgressInv, LoadInv, UploadInv, SilverInv, GoldInv, AnomalyInv

LEMMA ProgressStep == TypeInv /\ ProgressInv /\ [Next]_vars => ProgressInv'
<1> SUFFICES ASSUME TypeInv, ProgressInv, [Next]_vars, NEW r \in Runs
             PROVE  LoadInv(r)' /\ UploadInv(r)' /\ SilverInv(r)' /\ GoldInv(r)' /\ AnomalyInv(r)'
  BY DEF ProgressInv
<1>1. LoadInv(r) /\ UploadInv(r) /\ SilverInv(r) /\ GoldInv(r) /\ AnomalyInv(r)
  BY DEF ProgressInv
<1>2. CASE Still(r)
  BY <1>1, <1>2, LoadStill, UploadStill, SilverStill, GoldStill, AnomalyStill
<1>3. CASE alone'[r] = {}
  BY <1>3 DEF LoadInv, UploadInv, SilverInv, GoldInv, AnomalyInv
<1>4. CASE Step(r)
  BY <1>1, <1>4, LoadStep, UploadStep, SilverStep, GoldStep, AnomalyStep
<1>5. UNCHANGED vars \/ \E q \in Runs : Step(q)
  BY DEF Next, Step
<1> QED
  BY <1>2, <1>3, <1>4, <1>5, OthersStep, VarsStill

LEMMA Progress == Spec => [](TypeInv /\ ProgressInv)
BY InitType, TypeStep, InitProgress, ProgressStep, PTL DEF Spec

-----------------------------------------------------------------------------
(* What the end of a script shows.                                         *)

LEMMA BitProducts ==
    \A a, b, c \in {0, 1} :
       /\ a * b = (IF a = 1 /\ b = 1 THEN 1 ELSE 0)
       /\ a * b * c = (IF a = 1 /\ b = 1 /\ c = 1 THEN 1 ELSE 0)
OBVIOUS

LEMMA BronzeBits ==
    ASSUME TypeInv, NoDoubles
    PROVE  /\ \A p \in Policies : bronze["policy"][p] \in {0, 1} /\ bronze["terms"][p] \in {0, 1}
           /\ \A n \in Notices : bronze["job"][n] \in {0, 1}
           /\ \A c \in Claims : bronze["claim"][c] \in {0, 1}
<1>1. \A t \in BronzeTables : \A x \in BronzeRows[t] : bronze[t][x] \in Nat /\ bronze[t][x] <= 1
  BY DEF TypeInv, LayersType, NoDoubles
<1>2. \A t \in BronzeTables : \A x \in BronzeRows[t] : bronze[t][x] \in {0, 1}
  BY <1>1
<1> QED
  BY <1>2, TablesAre

LEMMA SilverAtEnd ==
    ASSUME TypeInv, ProgressInv
    PROVE  SilverFollowsBronze
<1> SUFFICES ASSUME NEW r \in Runs, Over(r, "silver"), "silver" \in alone[r], NoDoubles,
                    NEW m \in Months
             PROVE  LET here(S) == IF m = month[r] THEN S ELSE {}
                        insured == {p \in Policies : BronzeHas("terms", p)}
                        known == {p \in insured : BronzeHas("policy", p)}
                        claimed == {c \in Claims : BronzeHas("claim", c)}
                    IN /\ Exactly(silver["premium_staging"][m], here(known))
                       /\ Exactly(silver["claim_state"][m], here(claimed))
                       /\ Exactly(silver["loss_staging"][m],
                                  here({c \in claimed : PolicyOf[c] \in insured}))
                       /\ Exactly(silver["cancellation_staging"][m],
                                  here({n \in Notices : BronzeHas("job", n)
                                                        /\ PolicyOf[n] \in known}))
  BY DEF SilverFollowsBronze
<1> DEFINE here(S) == IF m = month[r] THEN S ELSE {}
           insured == {p \in Policies : BronzeHas("terms", p)}
           known == {p \in insured : BronzeHas("policy", p)}
           claimed == {c \in Claims : BronzeHas("claim", c)}
<1>1. script[r] = "silver" /\ pc[r] = 9
  BY SilverIs DEF Over
<1>2. \A t \in SilverTables : Staged(r, t)
  BY <1>1, TablesAre DEF Staged, SilverPlace
<1>3. \A t \in SilverTables :
        silver[t][m] = IF m = month[r] THEN StagedRows[t] ELSE None(SilverRows[t])
  BY <1>2 DEF ProgressInv, SilverInv
<1>4. /\ silver["premium_staging"][m] = IF m = month[r] THEN SilverPremium ELSE None(Policies)
      /\ silver["claim_state"][m] = IF m = month[r] THEN SilverClaimState ELSE None(Claims)
      /\ silver["loss_staging"][m] = IF m = month[r] THEN LossOfMonth ELSE None(Claims)
      /\ silver["cancellation_staging"][m] =
           IF m = month[r] THEN SilverCancellation ELSE None(Notices)
  BY <1>3, TablesAre, StagedRowsAre
<1>5. /\ \A p \in Policies : bronze["policy"][p] \in {0, 1} /\ bronze["terms"][p] \in {0, 1}
      /\ \A n \in Notices : bronze["job"][n] \in {0, 1} /\ PolicyOf[n] \in Policies
      /\ \A c \in Claims : bronze["claim"][c] \in {0, 1} /\ PolicyOf[c] \in Policies
  BY BronzeBits, PipelineAssumption
<1>6. DOMAIN SilverClaimState = Claims
  BY SilverRowsType
<1>7. CASE m # month[r]
  BY <1>4, <1>7 DEF None, Exactly
<1>8. CASE m = month[r]
  <2>1. Exactly(silver["premium_staging"][m], known)
    <3>1. \A p \in Policies : SilverPremium[p] = IF p \in known THEN 1 ELSE 0
      BY <1>5, BitProducts DEF SilverPremium, BronzeHas
    <3> QED
      BY <1>4, <1>8, <3>1 DEF SilverPremium, Exactly
  <2>2. Exactly(silver["claim_state"][m], claimed)
    <3>1. \A c \in Claims : SilverClaimState[c] = IF c \in claimed THEN 1 ELSE 0
      BY <1>5 DEF SilverClaimState, BronzeHas
    <3> QED
      BY <1>4, <1>6, <1>8, <3>1 DEF Exactly
  <2>3. Exactly(silver["loss_staging"][m], {c \in claimed : PolicyOf[c] \in insured})
    <3>1. \A c \in Claims :
            LossOfMonth[c] = IF c \in claimed /\ PolicyOf[c] \in insured THEN 1 ELSE 0
      BY <1>5, BitProducts DEF LossOfMonth, BronzeHas
    <3> QED
      BY <1>4, <1>8, <3>1 DEF LossOfMonth, Exactly
  <2>4. Exactly(silver["cancellation_staging"][m],
                {n \in Notices : BronzeHas("job", n) /\ PolicyOf[n] \in known})
    <3>1. \A n \in Notices :
            SilverCancellation[n] =
              IF BronzeHas("job", n) /\ PolicyOf[n] \in known THEN 1 ELSE 0
      BY <1>5, BitProducts DEF SilverCancellation, BronzeHas
    <3> QED
      BY <1>4, <1>8, <3>1 DEF SilverCancellation, Exactly
  <2> QED
    BY <1>8, <2>1, <2>2, <2>3, <2>4
<1> QED
  BY <1>7, <1>8

\* Gold at the end of run_gold.
LEMMA GoldAtEnd ==
    ASSUME TypeInv, ProgressInv, NEW r \in Runs, Over(r, "gold"), "gold" \in alone[r]
    PROVE  LET m == month[r] IN
           /\ m \in Months /\ script[r] = "gold"
           /\ gold["premium_records"][m] = silver["premium_staging"][m]
           /\ gold["loss_records"][m] = silver["loss_staging"][m]
           /\ gold["cancellation_records"][m] = GoldCancellation(m)
           /\ recipients[m] = GoldRecipients(m)
           /\ totals[m] = <<GoldAggregates(m)>>
<1>1. script[r] = "gold" /\ pc[r] = 9
  BY GoldIs DEF Over
<1>2. \A t \in GoldTables : gold[t][month[r]] = RecordRows(month[r])[t]
  <2>1. \A t \in GoldTables : pc[r] > GoldPlace[t]
    BY <1>1, GoldPlaces
  <2> QED
    BY <1>1, <2>1 DEF ProgressInv, GoldInv
<1>3. recipients[month[r]] = GoldRecipients(month[r]) /\ totals[month[r]] = <<GoldAggregates(month[r])>>
  BY <1>1 DEF ProgressInv, GoldInv
<1> QED
  BY <1>1, <1>2, <1>3, TablesAre, RecordRowsAre DEF GoldPremium, GoldLoss, TypeInv, ControlType

LEMMA CountRecords ==
    ASSUME TypeInv, NEW m \in Months
    PROVE  Total(GoldCancellation(m))
             = Cardinality({g \in Combinations : GoldCancellation(m)[g] > 0})
<1>1. GoldCancellation(m) \in [Combinations -> Nat] /\ IsFiniteSet(Combinations)
  BY GoldRowsType, CombinationsFinite
<1> DEFINE A == {g \in Combinations : GoldCancellation(m)[g] > 0}
<1>2. \A g \in Combinations : GoldCancellation(m)[g] = IF g \in A THEN 1 ELSE 0
  BY DEF GoldCancellation
<1>3. {g \in Combinations : g \in A} = A
  OBVIOUS
<1> HIDE DEF A
<1>4. SumOver(GoldCancellation(m), Combinations) = Cardinality({g \in Combinations : g \in A})
  BY <1>1, <1>2, SumCounts
<1> QED
  BY <1>1, <1>3, <1>4, TotalsOf DEF A

LEMMA SumRecipients ==
    ASSUME TypeInv, NEW m \in Months
    PROVE  Total(GoldRecipients(m)) = Total(JoinedNotices(m))
<1>1. /\ JoinedNotices(m) \in [Notices -> Nat] /\ GoldRecipients(m) \in [Combinations -> Nat]
      /\ IsFiniteSet(Notices) /\ IsFiniteSet(Combinations)
  BY GoldRowsType, CombinationsFinite, PipelineAssumption
<1>2. \A n \in Notices : JoinedNotices(m)[n] \in Nat /\ Combination[n] \in Combinations
  BY <1>1 DEF Combinations
<1>3. SumOver(GoldRecipients(m), Combinations) = SumOver(JoinedNotices(m), Notices)
  BY <1>1, <1>2, SumOfGroups DEF GoldRecipients
<1> QED
  BY <1>1, <1>3, TotalsOf

LEMMA TotalsAtEnd ==
    ASSUME TypeInv, ProgressInv
    PROVE  TotalsMatchRecords
<1> SUFFICES ASSUME NEW r \in Runs, Over(r, "gold"), "gold" \in alone[r]
             PROVE  LET m == month[r] IN
                    /\ Len(totals[m]) = 1
                    /\ totals[m][1].premium = Total(silver["premium_staging"][m])
                    /\ totals[m][1].loss = Total(silver["loss_staging"][m])
                    /\ totals[m][1].notices =
                         Cardinality({g \in Combinations : gold["cancellation_records"][m][g] > 0})
                    /\ totals[m][1].recipients = Total(JoinedNotices(m))
  BY DEF TotalsMatchRecords
<1> DEFINE m == month[r]
<1>1. /\ m \in Months
      /\ gold["premium_records"][m] = silver["premium_staging"][m]
      /\ gold["loss_records"][m] = silver["loss_staging"][m]
      /\ gold["cancellation_records"][m] = GoldCancellation(m)
      /\ recipients[m] = GoldRecipients(m)
      /\ totals[m] = <<GoldAggregates(m)>>
  BY GoldAtEnd
<1> HIDE DEF m
<1>2. Len(totals[m]) = 1 /\ totals[m][1] = GoldAggregates(m)
  BY <1>1
<1>3. /\ GoldAggregates(m).premium = Total(silver["premium_staging"][m])
      /\ GoldAggregates(m).loss = Total(silver["loss_staging"][m])
      /\ GoldAggregates(m).notices = Total(GoldCancellation(m))
      /\ GoldAggregates(m).recipients = Total(GoldRecipients(m))
  BY <1>1 DEF GoldAggregates
<1> QED
  BY <1>1, <1>2, <1>3, CountRecords, SumRecipients DEF m

\* A total of ones is the size of the table.
LEMMA TotalOfOnce ==
    ASSUME NEW S, IsFiniteSet(S), NEW B, DOMAIN B = S, \A x \in S : B[x] = 1
    PROVE  Total(B) = Cardinality(S)
<1>1. SumOver(B, S) = Cardinality({x \in S : x \in S})
  BY SumCounts
<1>2. {x \in S : x \in S} = S
  OBVIOUS
<1> QED
  BY <1>1, <1>2 DEF Total

\* What a run alone since before Silver has staged for its month, by run_gold's end.
LEMMA StagedAtGold ==
    ASSUME TypeInv, ProgressInv, NEW r \in Runs, script[r] = "gold",
           "load" \in alone[r] \/ "upload" \in alone[r]
    PROVE  /\ "gold" \in alone[r]
           /\ silver["premium_staging"][month[r]] = SilverPremium
           /\ silver["loss_staging"][month[r]] = LossOfMonth
           /\ silver["cancellation_staging"][month[r]] = SilverCancellation
<1>1. "gold" \in alone[r] /\ "silver" \in alone[r] /\ month[r] \in Months
  BY DEF TypeInv, ControlType, Chain
<1>2. \A t \in SilverTables : silver[t][month[r]] = StagedRows[t]
  BY <1>1 DEF ProgressInv, SilverInv, Staged
<1> QED
  BY <1>1, <1>2, TablesAre, StagedRowsAre

LEMMA RebuiltAtEnd ==
    ASSUME TypeInv, ProgressInv
    PROVE  RunRebuilds
<1> SUFFICES ASSUME NEW r \in Runs, Over(r, "gold"), "load" \in alone[r]
             PROVE  LET m == month[r] IN
                    /\ Exactly(gold["premium_records"][m], Policies)
                    /\ Exactly(gold["loss_records"][m], Claims)
                    /\ Exactly(gold["cancellation_records"][m], Combinations)
                    /\ \A g \in Combinations :
                         recipients[m][g] = Cardinality({n \in Notices : Combination[n] = g})
                    /\ totals[m] = <<[premium    |-> Cardinality(Policies),
                                      loss       |-> Cardinality(Claims),
                                      notices    |-> Cardinality(Combinations),
                                      recipients |-> Cardinality(Notices)]>>
  BY DEF RunRebuilds
<1> DEFINE m == month[r]
<1> USE PipelineAssumption
<1>1. script[r] = "gold"
  BY DEF Over
<1>2. /\ "gold" \in alone[r]
      /\ silver["premium_staging"][m] = SilverPremium
      /\ silver["loss_staging"][m] = LossOfMonth
      /\ silver["cancellation_staging"][m] = SilverCancellation
  BY <1>1, StagedAtGold
<1>3. /\ m \in Months
      /\ gold["premium_records"][m] = silver["premium_staging"][m]
      /\ gold["loss_records"][m] = silver["loss_staging"][m]
      /\ gold["cancellation_records"][m] = GoldCancellation(m)
      /\ recipients[m] = GoldRecipients(m)
      /\ totals[m] = <<GoldAggregates(m)>>
  BY <1>2, GoldAtEnd
<1>4. /\ bronze["policy"] = Once(Policies) /\ bronze["terms"] = Once(Policies)
      /\ bronze["claim"] = Once(Claims) /\ bronze["job"] = Once(Notices)
  BY <1>1, TablesAre DEF ProgressInv, LoadInv, Later
<1>5. /\ \A p \in Policies : bronze["policy"][p] = 1 /\ bronze["terms"][p] = 1
      /\ \A c \in Claims : bronze["claim"][c] = 1 /\ PolicyOf[c] \in Policies
      /\ \A n \in Notices : bronze["job"][n] = 1 /\ PolicyOf[n] \in Policies
  BY <1>4 DEF Once
<1> HIDE DEF m
<1>6. \A p \in Policies : SilverPremium[p] = 1
  BY <1>5 DEF SilverPremium
<1>7. \A c \in Claims : LossOfMonth[c] = 1
  BY <1>5 DEF LossOfMonth
<1>8. \A n \in Notices : SilverCancellation[n] = 1
  BY <1>5 DEF SilverCancellation
<1>9. \A n \in Notices : JoinedNotices(m)[n] = 1
  BY <1>2, <1>5, <1>8 DEF JoinedNotices
<1>10. \A g \in Combinations :
         GoldRecipients(m)[g] = Cardinality({n \in Notices : Combination[n] = g})
         /\ GoldRecipients(m)[g] > 0
  <2> TAKE g \in Combinations
  <2> DEFINE G == {n \in Notices : Combination[n] = g}
  <2>1. G # {} /\ G \subseteq Notices
    BY DEF Combinations
  <2>2. GoldRecipients(m)[g] = SumOver(JoinedNotices(m), G)
    BY DEF GoldRecipients
  <2> HIDE DEF G
  <2>3. IsFiniteSet(G)
    BY <2>1, FS_Subset
  <2>4. SumOver(JoinedNotices(m), G) = Cardinality({n \in G : n \in G})
    BY <1>9, <2>1, <2>3, SumCounts
  <2>5. {n \in G : n \in G} = G
    OBVIOUS
  <2>6. Cardinality(G) \in Nat /\ Cardinality(G) # 0
    BY <2>1, <2>3, FS_CardinalityType, FS_EmptySet
  <2> QED
    BY <2>2, <2>4, <2>5, <2>6 DEF G
<1>11. \A g \in Combinations : GoldCancellation(m)[g] = 1
  BY <1>10 DEF GoldCancellation
<1>12. /\ Exactly(gold["premium_records"][m], Policies)
       /\ Exactly(gold["loss_records"][m], Claims)
       /\ Exactly(gold["cancellation_records"][m], Combinations)
  BY <1>2, <1>3, <1>6, <1>7, <1>11 DEF Exactly, SilverPremium, LossOfMonth, GoldCancellation
<1>13. totals[m] = <<[premium    |-> Cardinality(Policies),
                      loss       |-> Cardinality(Claims),
                      notices    |-> Cardinality(Combinations),
                      recipients |-> Cardinality(Notices)]>>
  <2>1. Total(SilverPremium) = Cardinality(Policies)
    BY <1>6, TotalOfOnce DEF SilverPremium
  <2>2. Total(LossOfMonth) = Cardinality(Claims)
    BY <1>7, TotalOfOnce DEF LossOfMonth
  <2>3. Total(GoldCancellation(m)) = Cardinality(Combinations)
    BY <1>11, CombinationsFinite, TotalOfOnce DEF GoldCancellation
  <2>4. Total(JoinedNotices(m)) = Cardinality(Notices)
    BY <1>9, TotalOfOnce DEF JoinedNotices
  <2>5. Total(GoldRecipients(m)) = Cardinality(Notices)
    BY <1>3, <2>4, SumRecipients
  <2> QED
    BY <1>2, <1>3, <2>1, <2>2, <2>3, <2>5 DEF GoldAggregates
<1> QED
  BY <1>3, <1>10, <1>12, <1>13 DEF m

LEMMA UploadAtEnd ==
    ASSUME TypeInv, ProgressInv
    PROVE  UploadReplaces
<1> SUFFICES ASSUME NEW r \in Runs, Over(r, "gold"), "upload" \in alone[r], NoDoubles
             PROVE  Exactly(gold["premium_records"][month[r]],
                            {p \in Uploaded : BronzeHas("terms", p)})
  BY DEF UploadReplaces
<1>1. script[r] = "gold"
  BY DEF Over
<1>2. "gold" \in alone[r] /\ silver["premium_staging"][month[r]] = SilverPremium
  BY <1>1, StagedAtGold
<1>3. gold["premium_records"][month[r]] = SilverPremium
  BY <1>2, GoldAtEnd
<1>4. bronze["policy"] = UploadedRows
  BY <1>1 DEF ProgressInv, UploadInv, Later
<1>5. \A p \in Policies :
        SilverPremium[p] = IF p \in Uploaded /\ BronzeHas("terms", p) THEN 1 ELSE 0
  BY <1>4, BronzeBits, BitProducts DEF SilverPremium, UploadedRows, BronzeHas
<1> QED
  BY <1>3, <1>5, PipelineAssumption DEF Exactly, SilverPremium

LEMMA FlagsAtEnd ==
    ASSUME TypeInv, ProgressInv
    PROVE  FlagsFollowBronze
<1> DEFINE claimed == {c \in Hail : BronzeHas("claim", c)}
           F == {c \in Freeze : BronzeHas("claim", c)} \union
                {x \in {"hail_cluster"} : Cardinality(claimed) > MaxCluster}
<1> SUFFICES ASSUME NEW r \in Runs, Over(r, "anomalies"), "anomalies" \in alone[r], NoDoubles
             PROVE  Exactly(flags, F)
  BY DEF FlagsFollowBronze
<1>1. script[r] = "anomalies" /\ pc[r] = 6
  BY AnomaliesIs DEF Over
<1>2. \A x \in FlagRows : flags[x] = HailCluster[x] + FreezeInSummer[x]
  BY <1>1 DEF ProgressInv, AnomalyInv
<1>3. SumOver(bronze["claim"], Hail) = Cardinality(claimed)
  <2> DEFINE A == {c \in Claims : BronzeHas("claim", c)}
  <2>1. \A c \in Hail : bronze["claim"][c] = IF c \in A THEN 1 ELSE 0
    BY BronzeBits, PipelineAssumption DEF BronzeHas
  <2>2. IsFiniteSet(Hail)
    BY PipelineAssumption, FS_Subset
  <2>3. claimed = {c \in Hail : c \in A}
    BY PipelineAssumption
  <2> HIDE DEF A
  <2> QED
    BY <2>1, <2>2, <2>3, SumCounts
<1>4. \A x \in FlagRows : HailCluster[x] =
        IF x = "hail_cluster" /\ Cardinality(claimed) > MaxCluster THEN 1 ELSE 0
  BY <1>3 DEF HailCluster
<1>5. \A x \in FlagRows : FreezeInSummer[x] =
        IF x \in Freeze /\ BronzeHas("claim", x) THEN 1 ELSE 0
  BY BronzeBits, PipelineAssumption DEF FreezeInSummer, BronzeHas
<1>6. DOMAIN flags = FlagRows /\ "hail_cluster" \notin Freeze
  BY PipelineAssumption DEF TypeInv, LayersType
<1> HIDE DEF claimed
<1>7. \A x \in FlagRows : flags[x] = IF x \in F THEN 1 ELSE 0
  <2> TAKE x \in FlagRows
  <2>1. CASE x = "hail_cluster"
    BY <1>2, <1>4, <1>5, <1>6, <2>1
  <2>2. CASE x # "hail_cluster"
    BY <1>2, <1>4, <1>5, <2>2 DEF FlagRows
  <2> QED
    BY <2>1, <2>2
<1> QED
  BY <1>6, <1>7 DEF Exactly

\* A run that has been alone since run_silver started has, when run_silver is
\* over, one Silver row for each Bronze row that its joins can reach, in the
\* run's month, and nothing in any other: provided Bronze has no doubles.
THEOREM SilverCorrect == Spec => []SilverFollowsBronze
BY Progress, SilverAtEnd, PTL

\* A run that has been alone since run_gold started ends it with one
\* MONTHLY_AGGREGATES row for its month, whose four sums are those of the
\* record tables they summarize.
THEOREM TotalsCorrect == Spec => []TotalsMatchRecords
BY Progress, TotalsAtEnd, PTL

\* A full run that has been alone since load_bronze started ends run_gold with
\* exactly the records of the landing files, once each, whatever the layers
\* held before.
THEOREM RunsRebuild == Spec => []RunRebuilds
BY Progress, RebuiltAtEnd, PTL

\* An upload run that has been alone since it started ends run_gold with the
\* premium records of the uploaded policies and of no other.
THEOREM UploadsReplace == Spec => []UploadReplaces
BY Progress, UploadAtEnd, PTL

\* A run that has been alone since detect_anomalies started leaves one flag for
\* each anomaly of the claims in Bronze and no other.
THEOREM FlagsCorrect == Spec => []FlagsFollowBronze
BY Progress, FlagsAtEnd, PTL
=============================================================================
