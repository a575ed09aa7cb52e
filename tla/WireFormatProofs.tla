-------------------------- MODULE WireFormatProofs --------------------------
(***************************************************************************)
(* Theorems about WireFormat, for records of any length, any documents and *)
(* extractions and any number of imports: the type, and each property the  *)
(* run wire_format checks.                                                 *)
(*                                                                         *)
(* IInv is the inductive invariant.  Most of the module is about what the  *)
(* lists and the folds of the model contain: parse_pdf's fields, the       *)
(* pieces of a field, the proposals, the graph after a merge, the records  *)
(* the generator makes.                                                    *)
(***************************************************************************)
EXTENDS WireFormat, FiniteSetTheorems, SequenceTheorems, WellFoundedInduction, TLAPS

-----------------------------------------------------------------------------
(* Least and greatest numbers, smallest sets.                              *)

\* A nonempty set of numbers has a least member.
LEMMA LeastOf ==
    ASSUME NEW S, S \subseteq Nat, S # {}
    PROVE  \E i \in S : \A j \in S : i <= j
<1>1. PICK i \in S : \A j \in S : <<j, i>> \notin OpToRel(<, Nat)
  BY NatLessThanWellFounded, WFMin
<1>2. \A j \in S : ~(j < i)
  BY <1>1 DEF OpToRel
<1> QED
  BY <1>2

\* A nonempty set of numbers up to n has a greatest member.
LEMMA GreatestOf ==
    ASSUME NEW n \in Nat, NEW S, S \subseteq 0..n, S # {}
    PROVE  \E i \in S : \A j \in S : j <= i
<1> DEFINE T == {k \in Nat : \A j \in S : j <= k}
<1>1. T \subseteq Nat /\ n \in T
  OBVIOUS
<1> HIDE DEF T
<1>2. PICK k \in T : \A j \in T : k <= j
  BY <1>1, LeastOf
<1>3. k \in Nat /\ \A j \in S : j <= k
  BY <1>1 DEF T
<1>4. k \in S
  <2> SUFFICES ASSUME k \notin S PROVE FALSE
    OBVIOUS
  <2>1. PICK y \in S : TRUE
    OBVIOUS
  <2>2. y \in Nat /\ y <= k /\ y # k
    BY <1>3, <2>1
  <2>3. k - 1 \in Nat /\ \A j \in S : j \in Nat /\ j <= k /\ j # k
    BY <1>3, <2>2
  <2>4. \A j \in S : j <= k - 1
    BY <1>3, <2>3
  <2>5. k - 1 \in T
    BY <2>3, <2>4 DEF T
  <2> QED
    BY <1>2, <1>3, <2>5
<1> QED
  BY <1>3, <1>4

\* Some member of a family of subsets of a finite set has no other below it.
LEMMA SmallestSet ==
    ASSUME NEW S, IsFiniteSet(S), NEW T, T \subseteq SUBSET S, T # {}
    PROVE  \E s \in T : \A t \in T : ~(t \subseteq s /\ t # s)
<1>1. IsWellFoundedOn(StrictSubsetOrdering(S), SUBSET S)
  BY FS_FiniteSubsetsOfFinite, FS_StrictSubsetOrderingWellFounded
<1>2. PICK s \in T : \A t \in T : <<t, s>> \notin StrictSubsetOrdering(S)
  BY <1>1, WFMin
<1>3. \A t \in T : t \subseteq s /\ t # s => <<t, s>> \in StrictSubsetOrdering(S)
  BY DEF StrictSubsetOrdering
<1>4. \A t \in T : ~(t \subseteq s /\ t # s)
  BY <1>2, <1>3
<1> QED
  BY <1>4

\* A member that bounds the set is its Max.
LEMMA MaxIs ==
    ASSUME NEW S, S \subseteq Int, NEW i \in S, \A j \in S : j <= i
    PROVE  Max(S) = i
<1>1. \A j \in S : i >= j
  OBVIOUS
<1>2. \E x \in S : \A y \in S : x >= y
  BY <1>1
<1> DEFINE m == CHOOSE x \in S : \A y \in S : x >= y
<1>3. m \in S /\ \A y \in S : m >= y
  BY <1>2
<1>4. Max(S) = m
  BY DEF Max
<1> HIDE DEF m
<1>5. m \in Int /\ i \in Int /\ m >= i /\ i >= m
  BY <1>1, <1>3
<1> QED
  BY <1>4, <1>5

\* A member below all others is the set's Min.
LEMMA MinIs ==
    ASSUME NEW S, S \subseteq Int, NEW i \in S, \A j \in S : i <= j
    PROVE  Min(S) = i
<1>2. \E x \in S : \A y \in S : x =< y
  OBVIOUS
<1> DEFINE m == CHOOSE x \in S : \A y \in S : x =< y
<1>3. m \in S /\ \A y \in S : m =< y
  BY <1>2
<1>4. Min(S) = m
  BY DEF Min
<1> HIDE DEF m
<1>5. m \in Int /\ i \in Int /\ m <= i /\ i <= m
  BY <1>3
<1> QED
  BY <1>4, <1>5

\* The places of a list are finitely many.
LEMMA PlaceSets == \A n \in Nat : IsFiniteSet(1..n)
  BY FS_Interval

\* Max of a nonempty set of places is in it and bounds it.
LEMMA MaxIn ==
    ASSUME NEW n \in Nat, NEW S, S \subseteq 1..n, S # {}
    PROVE  Max(S) \in S /\ \A j \in S : j <= Max(S)
<1>1. S \subseteq 0..n
  OBVIOUS
<1>2. PICK i \in S : \A j \in S : j <= i
  BY <1>1, GreatestOf
<1>3. Max(S) = i
  <2>1. S \subseteq Int
    OBVIOUS
  <2> QED
    BY <1>2, <2>1, MaxIs
<1> QED
  BY <1>2, <1>3

\* Min of a nonempty set of numbers is in it and below the others.
LEMMA MinIn ==
    ASSUME NEW S, S \subseteq Nat, S # {}
    PROVE  Min(S) \in S /\ \A j \in S : Min(S) <= j
<1>2. PICK i \in S : \A j \in S : i <= j
  BY LeastOf
<1>3. Min(S) = i
  <2>1. S \subseteq Int
    OBVIOUS
  <2> QED
    BY <1>2, <2>1, MinIs
<1> QED
  BY <1>2, <1>3

-----------------------------------------------------------------------------
(* Folds.  The provers cannot put an operator in the place of a parameter, *)
(* so the operators this module folds are named here, by a string o, and  *)
(* what holds of all folds is shown for Step.                              *)

\* what a fold of kind o makes of its value a and the member i
Step(o, q, i, a) ==
    IF o = "merge" THEN Merge(a, q[i])
    ELSE IF o = "value" THEN 10 * a + q[i]
    ELSE IF o = "columns" THEN FilledAt(q, i, a)
    ELSE IF o = "fields" THEN Filled(i, a)
    ELSE Append(a, i)

\* h gives the fold over each subset of S, w the member that is folded last
Table(h, o, b, q, w, S) ==
    h = [s \in SUBSET S |-> IF s = {} THEN b ELSE Step(o, q, w[s], h[s \ {w[s]}])]

\* w chooses a member of each subset of the finite S
Choice(w, S) == IsFiniteSet(S) /\ \A s \in SUBSET S : s # {} => w[s] \in s

\* A choice for a set is one for its subsets.
LEMMA ChoiceWithin == \A w, S, T : Choice(w, S) /\ T \subseteq S => Choice(w, T)
  BY FS_Subset DEF Choice

\* Two tables of the same fold agree where both are defined.
LEMMA TablesAgree ==
    ASSUME NEW o, NEW b, NEW q, NEW w, NEW U, Choice(w, U), NEW V, NEW g, NEW k,
           Table(g, o, b, q, w, U), Table(k, o, b, q, w, V)
    PROVE  \A s : s \subseteq U /\ s \subseteq V => g[s] = k[s]
<1> DEFINE T == {s \in SUBSET U : s \subseteq V /\ g[s] # k[s]}
<1> SUFFICES ASSUME T # {} PROVE FALSE
  OBVIOUS
<1>f. IsFiniteSet(U)
  BY DEF Choice
<1>0. T \subseteq SUBSET U
  OBVIOUS
<1> HIDE DEF T
<1>1. PICK s \in T : \A t \in T : ~(t \subseteq s /\ t # s)
  BY <1>0, <1>f, SmallestSet
<1> USE DEF T
<1>2. /\ g[s] = IF s = {} THEN b ELSE Step(o, q, w[s], g[s \ {w[s]}])
      /\ k[s] = IF s = {} THEN b ELSE Step(o, q, w[s], k[s \ {w[s]}])
  BY DEF Table
<1>3. s # {} => w[s] \in s
  BY DEF Choice
<1>4. s # {} => g[s \ {w[s]}] = k[s \ {w[s]}]
  BY <1>1, <1>3
<1> QED
  BY <1>2, <1>4

\* The recursion of a fold has a solution.
LEMMA TableExists ==
    ASSUME NEW o, NEW b, NEW q, NEW w, NEW S, Choice(w, S)
    PROVE  \E h : Table(h, o, b, q, w, S)
<1> DEFINE Of(t) == CHOOSE h : Table(h, o, b, q, w, t)
           Solved(t) == Table(Of(t), o, b, q, w, t)
           T == {s \in SUBSET S : ~Solved(s)}
<1> SUFFICES ASSUME T # {} PROVE FALSE
  OBVIOUS
<1>f. IsFiniteSet(S)
  BY DEF Choice
<1>0. T \subseteq SUBSET S
  OBVIOUS
<1> HIDE DEF T
<1>1. PICK s \in T : \A t \in T : ~(t \subseteq s /\ t # s)
  BY <1>0, <1>f, SmallestSet
<1> HIDE DEF Solved
<1>2. \A t \in SUBSET S : t \subseteq s /\ t # s => Solved(t)
  BY <1>1 DEF T
<1>m. \A t \in SUBSET S : t # {} => w[t] \in t
  BY DEF Choice
<1> DEFINE Less(t) == t \ {w[t]}
           V(t) == Of(t)[t]
           g == [t \in SUBSET s |-> IF t = {} THEN b ELSE Step(o, q, w[t], V(Less(t)))]
<1>s. s \subseteq S
  BY <1>0
<1> HIDE DEF Of
<1>3. ASSUME NEW t \in SUBSET s, t # {}
      PROVE  g[Less(t)] = V(Less(t))
  <2>1. Less(t) \subseteq s /\ Less(t) # s /\ Less(t) \in SUBSET S
    BY <1>3, <1>m, <1>s
  <2>2. Solved(Less(t))
    BY <1>2, <2>1
  <2>3. V(Less(t)) = IF Less(t) = {} THEN b
                     ELSE Step(o, q, w[Less(t)], Of(Less(t))[Less(Less(t))])
    BY <2>2 DEF Table, Solved
  <2>4. ASSUME Less(t) # {}
        PROVE  Of(Less(t))[Less(Less(t))] = V(Less(Less(t)))
    <3>1. Less(Less(t)) \subseteq s /\ Less(Less(t)) # s /\ Less(Less(t)) \in SUBSET S
      BY <2>1, <2>4, <1>m
    <3>2. Solved(Less(Less(t)))
      BY <1>2, <3>1
    <3>3. Choice(w, Less(t))
      BY <2>1, ChoiceWithin
    <3> HIDE DEF Less
    <3>4. Less(Less(t)) \subseteq Less(t)
      BY DEF Less
    <3> DEFINE A == Less(t)
               B == Less(Less(t))
               h == Of(A)
               k == Of(B)
    <3>5. Table(h, o, b, q, w, A) /\ Table(k, o, b, q, w, B) /\ Choice(w, A) /\ B \subseteq A
      BY <2>2, <3>2, <3>3, <3>4 DEF Solved
    <3>6. h[B] = k[B]
      <4> HIDE DEF A, B, h, k
      <4>1. \A s_1 : s_1 \subseteq A /\ s_1 \subseteq B => h[s_1] = k[s_1]
        BY <3>5, TablesAgree
      <4> QED
        BY <3>5, <4>1
    <3> QED
      BY <3>6
  <2> HIDE DEF Less, V
  <2>5. g[Less(t)] = IF Less(t) = {} THEN b ELSE Step(o, q, w[Less(t)], V(Less(Less(t))))
    BY <2>1
  <2> HIDE DEF g
  <2>6. V(Less(t)) = IF Less(t) = {} THEN b ELSE Step(o, q, w[Less(t)], V(Less(Less(t))))
    BY <2>3, <2>4 DEF V
  <2> QED
    BY <2>5, <2>6
<1>4. Table(g, o, b, q, w, s)
  <2>1. g = [t \in SUBSET s |-> IF t = {} THEN b ELSE Step(o, q, w[t], g[Less(t)])]
    <3> HIDE DEF V
    <3> QED
      BY <1>3
  <2> QED
    BY <2>1 DEF Table
<1> HIDE DEF g
<1>5. Solved(s)
  BY <1>4 DEF Solved, Of
<1> QED
  BY <1>1, <1>5 DEF T

\* the values of a table at the places up to each one
ValuesUpTo(h, n) == [i \in 0..n |-> h[1..i]]

\* The fold over a list of n members goes from one to the next.
Chain(c, o, b, q, n) == c[0] = b /\ \A i \in 1..n : c[i] = Step(o, q, i, c[i - 1])

\* A fold over 1..n goes through a chain of values.
LEMMA ChainOf ==
    ASSUME NEW o, NEW b, NEW q, NEW n \in Nat, NEW w, NEW h, Table(h, o, b, q, w, 1..n),
           \A s \in SUBSET (1..n) : s # {} => w[s] = Max(s)
    PROVE  Chain(ValuesUpTo(h, n), o, b, q, n)
<1> DEFINE c == [i \in 0..n |-> h[1..i]]
<1>1. c[0] = b
  <2>1. 1..0 = {} /\ {} \in SUBSET (1..n)
    OBVIOUS
  <2>2. h[{}] = b
    BY <2>1 DEF Table
  <2> QED
    BY <2>1, <2>2
<1>2. ASSUME NEW i \in 1..n
      PROVE  c[i] = Step(o, q, i, c[i - 1])
  <2>1. 1..i \in SUBSET (1..n) /\ 1..i # {} /\ i \in 1..i /\ \A j \in 1..i : j <= i
    OBVIOUS
  <2>7. 1..i \subseteq Int
    OBVIOUS
  <2>8. Max(1..i) = i
    BY <2>1, <2>7, MaxIs
  <2>2. w[1..i] = i
    BY <2>1, <2>8
  <2>3. (1..i) \ {i} = 1..(i - 1)
    OBVIOUS
  <2>4. h[1..i] = Step(o, q, w[1..i], h[(1..i) \ {w[1..i]}])
    BY <2>1 DEF Table
  <2>5. h[1..i] = Step(o, q, i, h[1..(i - 1)])
    BY <2>2, <2>3, <2>4
  <2>6. i \in 0..n /\ i - 1 \in 0..n
    OBVIOUS
  <2> QED
    BY <2>5, <2>6
<1> HIDE DEF c
<1>3. Chain(c, o, b, q, n)
  BY <1>1, <1>2 DEF Chain
<1> QED
  BY <1>3 DEF c, ValuesUpTo

\* Max chooses a place of each set of places.
LEMMA MaxChoice ==
    ASSUME NEW n \in Nat
    PROVE  /\ Choice([s \in SUBSET (1..n) |-> Max(s)], 1..n)
           /\ \A s \in SUBSET (1..n) : [t \in SUBSET (1..n) |-> Max(t)][s] = Max(s)
  BY PlaceSets, MaxIn DEF Choice

\* Merging one list of nodes.
MergeTable(h, b, q) ==
    h = [s \in SUBSET DOMAIN q |-> IF s = {} THEN b ELSE Merge(h[s \ {Max(s)}], q[Max(s)])]

\* FoldLeft of Merge is the value of a table.
LEMMA MergeFoldIs ==
    \A b, q : FoldLeft(Merge, b, q) = (CHOOSE h : MergeTable(h, b, q))[DOMAIN q]
  BY DEF FoldLeft, MapThenFoldSet, MergeTable

\* materialize() of a list goes through a chain of graphs, one merge each.
LEMMA MergeSteps ==
    ASSUME NEW b, NEW S, NEW q \in Seq(S)
    PROVE  \E c : /\ c[0] = b /\ \A i \in 1..Len(q) : c[i] = Merge(c[i - 1], q[i])
                  /\ c[Len(q)] = FoldLeft(Merge, b, q)
<1> DEFINE n == Len(q)
           w == [s \in SUBSET (1..n) |-> Max(s)]
<1>1. n \in Nat /\ DOMAIN q = 1..n
  OBVIOUS
<1> HIDE DEF n
<1>2. Choice(w, 1..n) /\ \A s \in SUBSET (1..n) : w[s] = Max(s)
  BY <1>1, MaxChoice
<1> HIDE DEF w
<1>3. \A h : Table(h, "merge", b, q, w, 1..n) <=> MergeTable(h, b, q)
  <2> TAKE h
  <2> DEFINE F(s) == IF s = {} THEN b ELSE Step("merge", q, w[s], h[s \ {w[s]}])
             G(s) == IF s = {} THEN b ELSE Merge(h[s \ {Max(s)}], q[Max(s)])
  <2>1. \A s \in SUBSET (1..n) : F(s) = G(s)
    BY <1>2 DEF Step
  <2>2. Table(h, "merge", b, q, w, 1..n) <=> h = [s \in SUBSET (1..n) |-> F(s)]
    BY DEF Table
  <2>3. MergeTable(h, b, q) <=> h = [s \in SUBSET (1..n) |-> G(s)]
    BY <1>1 DEF MergeTable
  <2> HIDE DEF F, G
  <2> QED
    BY <2>1, <2>2, <2>3
<1>4. \E h : MergeTable(h, b, q)
  BY <1>2, <1>3, TableExists
<1> DEFINE h == CHOOSE h : MergeTable(h, b, q)
<1>5. MergeTable(h, b, q)
  BY <1>4
<1>6. FoldLeft(Merge, b, q) = h[1..n]
  BY <1>1, MergeFoldIs
<1> HIDE DEF h
<1>7. Table(h, "merge", b, q, w, 1..n)
  BY <1>3, <1>5
<1> DEFINE c == ValuesUpTo(h, n)
<1>8. Chain(c, "merge", b, q, n)
  BY <1>1, <1>2, <1>7, ChainOf
<1>9. c[n] = h[1..n]
  BY <1>1 DEF ValuesUpTo
<1> HIDE DEF c
<1>10. c[0] = b /\ \A i \in 1..n : c[i] = Merge(c[i - 1], q[i])
  BY <1>8 DEF Chain, Step
<1> QED
  BY <1>6, <1>9, <1>10 DEF n

\* ValueOf reads one character after the other.
ValueTable(h, s) ==
    h = [t \in SUBSET DOMAIN s |-> IF t = {} THEN 0 ELSE 10 * h[t \ {Max(t)}] + s[Max(t)]]

\* ValueOf is the value of a table.
LEMMA ValueIs == \A s : ValueOf(s) = (CHOOSE h : ValueTable(h, s))[DOMAIN s]
  BY DEF ValueOf, FoldLeft, MapThenFoldSet, ValueTable

\* int() of a text goes through a chain of numbers, one digit each.
LEMMA ValueSteps ==
    ASSUME NEW S, NEW q \in Seq(S)
    PROVE  \E c : /\ c[0] = 0 /\ \A i \in 1..Len(q) : c[i] = 10 * c[i - 1] + q[i]
                  /\ c[Len(q)] = ValueOf(q)
<1> DEFINE n == Len(q)
           w == [s \in SUBSET (1..n) |-> Max(s)]
<1>1. n \in Nat /\ DOMAIN q = 1..n
  OBVIOUS
<1> HIDE DEF n
<1>2. Choice(w, 1..n) /\ \A s \in SUBSET (1..n) : w[s] = Max(s)
  BY <1>1, MaxChoice
<1> HIDE DEF w
<1>3. \A h : Table(h, "value", 0, q, w, 1..n) <=> ValueTable(h, q)
  <2> TAKE h
  <2> DEFINE F(s) == IF s = {} THEN 0 ELSE Step("value", q, w[s], h[s \ {w[s]}])
             G(s) == IF s = {} THEN 0 ELSE 10 * h[s \ {Max(s)}] + q[Max(s)]
  <2>1. \A s \in SUBSET (1..n) : F(s) = G(s)
    BY <1>2 DEF Step
  <2>2. Table(h, "value", 0, q, w, 1..n) <=> h = [s \in SUBSET (1..n) |-> F(s)]
    BY DEF Table
  <2>3. ValueTable(h, q) <=> h = [s \in SUBSET (1..n) |-> G(s)]
    BY <1>1 DEF ValueTable
  <2> HIDE DEF F, G
  <2> QED
    BY <2>1, <2>2, <2>3
<1>4. \E h : ValueTable(h, q)
  BY <1>2, <1>3, TableExists
<1> DEFINE h == CHOOSE h : ValueTable(h, q)
<1>5. ValueTable(h, q)
  BY <1>4
<1>6. ValueOf(q) = h[1..n]
  BY <1>1, ValueIs
<1> HIDE DEF h
<1>7. Table(h, "value", 0, q, w, 1..n)
  BY <1>3, <1>5
<1> DEFINE c == ValuesUpTo(h, n)
<1>8. Chain(c, "value", 0, q, n)
  BY <1>1, <1>2, <1>7, ChainOf
<1>9. c[n] = h[1..n]
  BY <1>1 DEF ValuesUpTo
<1> HIDE DEF c
<1>10. c[0] = 0 /\ \A i \in 1..n : c[i] = 10 * c[i - 1] + q[i]
  BY <1>8 DEF Chain, Step
<1> QED
  BY <1>6, <1>9, <1>10 DEF n

\* fill_record fills the fields column by column.
Columned == [c \in 1..RecordLength |-> c]
\* the table of Records
ColumnTable(h, S, b) ==
    h = [t \in SUBSET DOMAIN Columned |->
           IF t = {} THEN b ELSE FilledAt(S, Columned[Max(t)], h[t \ {Max(t)}])]

\* the records before any field is filled
Blanks == {[c \in 1..RecordLength |-> BLANK]}

\* Records is the value of a table.
LEMMA RecordsIs == \A S : Records(S) = (CHOOSE h : ColumnTable(h, S, Blanks))[DOMAIN Columned]
  BY DEF Records, FoldLeft, MapThenFoldSet, ColumnTable, Columned, Blanks

\* fill_record goes through a chain of sets of records, one column each.
LEMMA RecordSteps ==
    ASSUME NEW S
    PROVE  \E c : /\ c[0] = Blanks /\ \A i \in 1..RecordLength : c[i] = FilledAt(S, i, c[i - 1])
                  /\ c[RecordLength] = Records(S)
<1> DEFINE n == RecordLength
           w == [s \in SUBSET (1..n) |-> Max(s)]
<1>1. n \in Nat /\ DOMAIN Columned = 1..n /\ \A i \in 1..n : Columned[i] = i
  BY WireAssumption DEF Columned
<1> HIDE DEF n
<1>2. Choice(w, 1..n) /\ \A s \in SUBSET (1..n) : w[s] = Max(s)
  BY <1>1, MaxChoice
<1> HIDE DEF w
<1>3. \A h : Table(h, "columns", Blanks, S, w, 1..n) <=> ColumnTable(h, S, Blanks)
  <2> TAKE h
  <2> DEFINE F(s) == IF s = {} THEN Blanks ELSE Step("columns", S, w[s], h[s \ {w[s]}])
             G(s) == IF s = {} THEN Blanks ELSE FilledAt(S, Columned[Max(s)], h[s \ {Max(s)}])
  <2>1. \A s \in SUBSET (1..n) : F(s) = G(s)
    <3>1. \A s \in SUBSET (1..n) : s # {} => Columned[Max(s)] = Max(s)
      BY <1>1, <1>2 DEF Choice
    <3> QED
      BY <3>1, <1>2 DEF Step
  <2>2. Table(h, "columns", Blanks, S, w, 1..n) <=> h = [s \in SUBSET (1..n) |-> F(s)]
    BY DEF Table
  <2>3. ColumnTable(h, S, Blanks) <=> h = [s \in SUBSET (1..n) |-> G(s)]
    BY <1>1 DEF ColumnTable
  <2> HIDE DEF F, G
  <2> QED
    BY <2>1, <2>2, <2>3
<1>4. \E h : ColumnTable(h, S, Blanks)
  BY <1>2, <1>3, TableExists
<1> DEFINE h == CHOOSE h : ColumnTable(h, S, Blanks)
<1>5. ColumnTable(h, S, Blanks)
  BY <1>4
<1>6. Records(S) = h[1..n]
  BY <1>1, RecordsIs
<1> HIDE DEF h
<1>7. Table(h, "columns", Blanks, S, w, 1..n)
  BY <1>3, <1>5
<1> DEFINE c == ValuesUpTo(h, n)
<1>8. Chain(c, "columns", Blanks, S, n)
  <2>1. n \in Nat
    BY <1>1
  <2> QED
    BY <2>1, <1>2, <1>7, ChainOf
<1>9. c[n] = h[1..n]
  BY <1>1 DEF ValuesUpTo
<1> HIDE DEF c
<1>10. c[0] = Blanks /\ \A i \in 1..n : c[i] = FilledAt(S, i, c[i - 1])
  BY <1>8 DEF Chain, Step
<1> QED
  BY <1>6, <1>9, <1>10 DEF n

\* The fields of one column are filled one over the other.
FieldTable(h, F, b) ==
    h = [t \in SUBSET F |-> IF t = {} THEN b
                            ELSE LET f == CHOOSE f \in t : TRUE IN Filled(f, h[t \ {f}])]

\* FilledAt is the value of a table.
LEMMA FilledIs ==
    \A S, c, R : FilledAt(S, c, R) = LET F == {f \in S : f.from = c}
                                     IN (CHOOSE h : FieldTable(h, F, R))[F]
  BY DEF FilledAt, FoldSet, MapThenFoldSet, FieldTable

\* the fields of S that begin in column c
FieldsAt(S, c) == {f \in S : f.from = c}

\* h has, for each set of fields, the records of R with those fields filled
Filling(h, F, R) ==
    /\ h[{}] = R
    /\ \A t : t \subseteq F /\ t # {} => \E f \in t : h[t] = Filled(f, h[t \ {f}])

\* The fields of one column are filled one after the other.
LEMMA FieldSteps ==
    ASSUME NEW S, NEW c, NEW R, IsFiniteSet(S)
    PROVE  \E h : Filling(h, FieldsAt(S, c), R) /\ h[FieldsAt(S, c)] = FilledAt(S, c, R)
<1> DEFINE F == {f \in S : f.from = c}
           w == [s \in SUBSET F |-> CHOOSE f \in s : TRUE]
<1>0. F \subseteq S /\ IsFiniteSet(F)
  BY FS_Subset
<1>1. FilledAt(S, c, R) = (CHOOSE h : FieldTable(h, F, R))[F]
  BY FilledIs
<1> HIDE DEF F
<1>2. Choice(w, F) /\ \A s \in SUBSET F : w[s] = CHOOSE f \in s : TRUE
  BY <1>0 DEF Choice
<1>c. \A s \in SUBSET F : s # {} => w[s] \in s
  BY <1>2
<1> HIDE DEF w
<1>3. \A h : Table(h, "fields", R, S, w, F) <=> FieldTable(h, F, R)
  <2> TAKE h
  <2> DEFINE A(s) == IF s = {} THEN R ELSE Step("fields", S, w[s], h[s \ {w[s]}])
             G(s) == IF s = {} THEN R
                     ELSE LET f == CHOOSE f \in s : TRUE IN Filled(f, h[s \ {f}])
  <2>1. \A s \in SUBSET F : A(s) = G(s)
    BY <1>2 DEF Step
  <2>2. Table(h, "fields", R, S, w, F) <=> h = [s \in SUBSET F |-> A(s)]
    BY DEF Table
  <2>3. FieldTable(h, F, R) <=> h = [s \in SUBSET F |-> G(s)]
    BY DEF FieldTable
  <2> HIDE DEF A, G
  <2> QED
    BY <2>1, <2>2, <2>3
<1>4. \E h : FieldTable(h, F, R)
  BY <1>2, <1>3, TableExists
<1> DEFINE h == CHOOSE h : FieldTable(h, F, R)
<1>5. FieldTable(h, F, R) /\ FilledAt(S, c, R) = h[F]
  BY <1>1, <1>4
<1> HIDE DEF h
<1>7. Table(h, "fields", R, S, w, F)
  BY <1>3, <1>5
<1>8. h[{}] = R
  BY <1>7 DEF Table
<1>9. \A t \in SUBSET F : t # {} => \E f \in t : h[t] = Filled(f, h[t \ {f}])
  <2> SUFFICES ASSUME NEW t \in SUBSET F, t # {}
               PROVE  \E f \in t : h[t] = Filled(f, h[t \ {f}])
    OBVIOUS
  <2>1. h[t] = Step("fields", S, w[t], h[t \ {w[t]}])
    BY <1>7 DEF Table
  <2>2. h[t] = Filled(w[t], h[t \ {w[t]}])
    BY <2>1 DEF Step
  <2> QED
    BY <2>2, <1>c
<1> QED
  <2>1. \A t : t \subseteq F /\ t # {} => \E f \in t : h[t] = Filled(f, h[t \ {f}])
    BY <1>9
  <2>2. Filling(h, F, R)
    BY <1>8, <2>1 DEF Filling
  <2>3. F = FieldsAt(S, c)
    BY DEF F, FieldsAt
  <2> QED
    BY <1>5, <2>2, <2>3

\* The concatenation of lists over S is one.
LEMMA CatType == \A S : \A p, q \in Seq(S) : p \o q \in Seq(S)
  OBVIOUS

\* A concatenation has the members of both lists.
LEMMA CatHas ==
    ASSUME NEW S, NEW a \in Seq(S), NEW b \in Seq(S)
    PROVE  /\ a \o b \in Seq(S) /\ Len(a \o b) = Len(a) + Len(b)
           /\ \A y \in 1..Len(a) : y \in 1..Len(a \o b) /\ (a \o b)[y] = a[y]
           /\ \A y \in 1..Len(b) : Len(a) + y \in 1..Len(a \o b) /\ (a \o b)[Len(a) + y] = b[y]
<1>1. Len(a) \in Nat /\ Len(b) \in Nat
  OBVIOUS
<1>2. /\ a \o b \in Seq(S) /\ Len(a \o b) = Len(a) + Len(b)
      /\ \A i \in 1..(Len(a) + Len(b)) :
           (a \o b)[i] = IF i <= Len(a) THEN a[i] ELSE b[i - Len(a)]
  BY ConcatProperties
<1>3. \A y \in 1..Len(a) : y \in 1..(Len(a) + Len(b)) /\ y <= Len(a)
  BY <1>1
<1>4. \A y \in 1..Len(b) : /\ Len(a) + y \in 1..(Len(a) + Len(b))
                           /\ ~(Len(a) + y <= Len(a)) /\ (Len(a) + y) - Len(a) = y
  BY <1>1
<1> QED
  BY <1>2, <1>3, <1>4

\* FlattenSeq joins one sequence after the other.
Flat(g, q, n) == g = [i \in 1..n |-> IF i = 1 THEN q[i] ELSE g[i - 1] \o q[i]]
\* the partial concatenations FlattenSeq chooses
FlatTable(q, n) == CHOOSE g : Flat(g, q, n)

\* FlattenSeq is the last of the partial concatenations.
LEMMA FlattenIs == \A q : Len(q) # 0 => FlattenSeq(q) = FlatTable(q, Len(q))[Len(q)]
BY DEF FlattenSeq, FlatTable, Flat

\* The partial concatenations exist.
LEMMA FlatExists ==
    ASSUME NEW q, NEW n \in Nat
    PROVE  Flat(FlatTable(q, n), q, n)
<1> DEFINE T == {m \in Nat : ~\E g : Flat(g, q, m)}
<1>1. CASE T = {}
  <2>1. \E g : Flat(g, q, n)
    BY <1>1
  <2> QED
    BY <2>1 DEF FlatTable
<1>2. CASE T # {}
  <2>1. PICK m \in T : \A j \in T : m <= j
    <3> HIDE DEF T
    <3>1. T \subseteq Nat
      BY DEF T
    <3> QED
      BY <1>2, <3>1, LeastOf
  <2>2. CASE m = 0
    <3>1. Flat([i \in 1..0 |-> 0], q, 0)
      BY DEF Flat
    <3> QED
      BY <2>2, <3>1
  <2>3. CASE m # 0
    <3>1. m - 1 \in Nat /\ m - 1 \notin T
      BY <2>1, <2>3
    <3>2. PICK g : Flat(g, q, m - 1)
      BY <3>1
    <3> DEFINE h == [i \in 1..m |-> IF i = m THEN (IF m = 1 THEN q[1] ELSE g[m - 1] \o q[m])
                                    ELSE g[i]]
    <3>3. \A i \in 1..m : h[i] = IF i = 1 THEN q[i] ELSE h[i - 1] \o q[i]
      <4> SUFFICES ASSUME NEW i \in 1..m
                   PROVE  h[i] = IF i = 1 THEN q[i] ELSE h[i - 1] \o q[i]
        OBVIOUS
      <4>1. CASE i = m
        <5>1. m # 1 => h[m - 1] = g[m - 1]
          BY <3>1
        <5> QED
          BY <4>1, <5>1
      <4>2. CASE i # m
        <5>1. i \in 1..(m - 1)
          BY <4>2, <3>1
        <5>2. g[i] = IF i = 1 THEN q[i] ELSE g[i - 1] \o q[i]
          BY <3>2, <5>1 DEF Flat
        <5>3. h[i] = g[i] /\ (i # 1 => h[i - 1] = g[i - 1])
          BY <4>2, <5>1, <3>1
        <5> QED
          BY <5>2, <5>3
      <4> QED
        BY <4>1, <4>2
    <3>4. h = [i \in 1..m |-> h[i]]
      OBVIOUS
    <3> HIDE DEF h
    <3>5. Flat(h, q, m)
      BY <3>3, <3>4 DEF Flat
    <3> QED
      BY <3>5
  <2> QED
    BY <2>2, <2>3
<1> QED
  BY <1>1, <1>2

\* Each partial concatenation is the one before it and the next list.
LEMMA FlattenSteps ==
    ASSUME NEW q, NEW n \in Nat \ {0}, Len(q) = n
    PROVE  /\ FlattenSeq(q) = FlatTable(q, n)[n]
           /\ FlatTable(q, n)[1] = q[1]
           /\ \A i \in 2..n : FlatTable(q, n)[i] = FlatTable(q, n)[i - 1] \o q[i]
<1>1. FlattenSeq(q) = FlatTable(q, n)[n]
  BY FlattenIs
<1> DEFINE g == FlatTable(q, n)
<1>2. Flat(g, q, n)
  BY FlatExists
<1> HIDE DEF g
<1>3. \A i \in 1..n : g[i] = IF i = 1 THEN q[i] ELSE g[i - 1] \o q[i]
  BY <1>2 DEF Flat
<1>4. 1 \in 1..n /\ \A i \in 2..n : i \in 1..n /\ i # 1
  OBVIOUS
<1>5. g[1] = q[1] /\ \A i \in 2..n : g[i] = g[i - 1] \o q[i]
  BY <1>3, <1>4
<1> QED
  BY <1>1, <1>5 DEF g

\* The concatenation of lists over S is a list over S.
LEMMA FlattenType ==
    ASSUME NEW S, NEW q, Len(q) \in Nat, \A i \in 1..Len(q) : q[i] \in Seq(S),
           Len(q) = 0 => q \in Seq(S)
    PROVE  FlattenSeq(q) \in Seq(S)
<1>1. CASE Len(q) = 0
  BY <1>1 DEF FlattenSeq
<1>2. CASE Len(q) # 0
  <2> DEFINE n == Len(q)
             g == FlatTable(q, n)
             T == {i \in 1..n : g[i] \notin Seq(S)}
  <2>1. /\ FlattenSeq(q) = g[n] /\ g[1] = q[1]
        /\ \A i \in 2..n : g[i] = g[i - 1] \o q[i]
    <3>1. n \in Nat \ {0}
      BY <1>2
    <3> QED
      BY <3>1, FlattenSteps
  <2>2. T = {}
    <3> SUFFICES ASSUME T # {} PROVE FALSE
      OBVIOUS
    <3>1. T \subseteq Nat
      OBVIOUS
    <3>2. PICK i \in T : \A j \in T : i <= j
      <4> HIDE DEF T
      <4> QED
        BY <3>1, LeastOf
    <3> HIDE DEF g
    <3>3. CASE i = 1
      BY <2>1, <3>2, <3>3
    <3>4. CASE i # 1
      <4>1. i - 1 \in 1..n /\ i - 1 \notin T
        BY <3>2, <3>4
      <4>2. g[i - 1] \in Seq(S) /\ q[i] \in Seq(S)
        BY <4>1, <3>2
      <4>3. i \in 2..n
        BY <3>2, <3>4
      <4>4. g[i] = g[i - 1] \o q[i]
        BY <2>1, <4>3
      <4> QED
        BY <3>2, <4>2, <4>4, CatType
    <3> QED
      BY <3>3, <3>4
  <2> QED
    BY <1>2, <2>1, <2>2
<1> QED
  BY <1>1, <1>2

\* Every member of every sequence is in the joined one.
LEMMA FlattenHas ==
    ASSUME NEW S, NEW q, Len(q) \in Nat, \A i \in 1..Len(q) : q[i] \in Seq(S),
           NEW k \in 1..Len(q), NEW x \in 1..Len(q[k])
    PROVE  \E y \in 1..Len(FlattenSeq(q)) : FlattenSeq(q)[y] = q[k][x]
<1> DEFINE n == Len(q)
           g == FlatTable(q, n)
           Has(i) == g[i] \in Seq(S) /\ \E y \in 1..Len(g[i]) : g[i][y] = q[k][x]
           T == {i \in k..n : ~Has(i)}
           U == {i \in 1..n : g[i] \notin Seq(S)}
<1>1. n \in Nat \ {0} /\ k \in 1..n
  OBVIOUS
<1>2. FlattenSeq(q) = g[n] /\ g[1] = q[1] /\ \A i \in 2..n : g[i] = g[i - 1] \o q[i]
  BY <1>1, FlattenSteps
<1> HIDE DEF g
<1>q. \A i \in 1..n : q[i] \in Seq(S)
  OBVIOUS
<1> HIDE DEF n
<1>3. U = {}
  <2> SUFFICES ASSUME U # {} PROVE FALSE
    OBVIOUS
  <2>1. U \subseteq Nat
    OBVIOUS
  <2>2. PICK i \in U : \A j \in U : i <= j
    <3> HIDE DEF U
    <3> QED
      BY <2>1, LeastOf
  <2>3. CASE i = 1
    BY <1>2, <1>q, <2>2, <2>3
  <2>4. CASE i # 1
    <3>1. i - 1 \in 1..n /\ i - 1 \notin U
      BY <2>2, <2>4, <1>1
    <3>2. g[i - 1] \in Seq(S) /\ q[i] \in Seq(S)
      BY <3>1, <2>2, <1>q
    <3>3. i \in 2..n
      BY <2>2, <2>4, <1>1
    <3>4. g[i] = g[i - 1] \o q[i]
      BY <3>3, <1>2
    <3>5. g[i] \in Seq(S)
      BY <3>2, <3>4, CatType
    <3> QED
      BY <2>2, <3>5
  <2> QED
    BY <2>3, <2>4
<1>4. \A i \in 1..n : g[i] \in Seq(S)
  BY <1>3
<1>5. ASSUME NEW i \in 2..n
      PROVE  /\ \A y \in 1..Len(g[i - 1]) : y \in 1..Len(g[i]) /\ g[i][y] = g[i - 1][y]
             /\ \A y \in 1..Len(q[i]) : /\ Len(g[i - 1]) + y \in 1..Len(g[i])
                                       /\ g[i][Len(g[i - 1]) + y] = q[i][y]
  <2>1. i \in 1..n /\ i - 1 \in 1..n
    BY <1>1
  <2>2. g[i - 1] \in Seq(S) /\ q[i] \in Seq(S) /\ g[i] = g[i - 1] \o q[i]
    BY <2>1, <1>2, <1>4, <1>q
  <2> DEFINE a == g[i - 1]
             b == q[i]
             d == g[i]
  <2>3. a \in Seq(S) /\ b \in Seq(S) /\ d = a \o b
    BY <2>2
  <2> HIDE DEF a, b, d
  <2>4. /\ \A y \in 1..Len(a) : y \in 1..Len(d) /\ d[y] = a[y]
        /\ \A y \in 1..Len(b) : Len(a) + y \in 1..Len(d) /\ d[Len(a) + y] = b[y]
    BY ONLY <2>3, CatHas
  <2> QED
    BY <2>4 DEF a, b, d
<1>6. Has(k)
  <2>1. CASE k = 1
    BY <2>1, <1>2, <1>4, <1>1
  <2>2. CASE k # 1
    <3>1. k \in 2..n
      BY <1>1, <2>2
    <3>2. Len(g[k - 1]) + x \in 1..Len(g[k]) /\ g[k][Len(g[k - 1]) + x] = q[k][x]
      BY <3>1, <1>5
    <3> QED
      BY <3>2, <1>4, <1>1
  <2> QED
    BY <2>1, <2>2
<1>7. T = {}
  <2> SUFFICES ASSUME T # {} PROVE FALSE
    OBVIOUS
  <2>1. T \subseteq Nat
    BY <1>1
  <2>2. PICK i \in T : \A j \in T : i <= j
    <3> HIDE DEF T
    <3> QED
      BY <2>1, LeastOf
  <2>3. i \in k..n /\ ~Has(i)
    BY <2>2
  <2>4. i # k
    BY <2>3, <1>6
  <2>5. i \in 2..n /\ i - 1 \in k..n
    BY <2>3, <2>4, <1>1
  <2>6. Has(i - 1)
    BY <2>2, <2>5
  <2>7. PICK y \in 1..Len(g[i - 1]) : g[i - 1][y] = q[k][x]
    BY <2>6
  <2>8. g[i] \in Seq(S) /\ y \in 1..Len(g[i]) /\ g[i][y] = g[i - 1][y]
    BY <2>5, <2>3, <1>1, <1>4, <1>5
  <2> QED
    BY <2>3, <2>7, <2>8
<1>8. Has(n)
  BY <1>1, <1>7
<1> QED
  BY <1>8, <1>2

\* SetToSeq of a finite set is a list over it.
LEMMA SetToSeqType ==
    ASSUME NEW S, IsFiniteSet(S)
    PROVE  /\ Cardinality(S) \in Nat
           /\ SetToSeq(S) \in [1..Cardinality(S) -> S]
           /\ SetToSeq(S) \in Seq(S) /\ Len(SetToSeq(S)) = Cardinality(S)
<1>1. Cardinality(S) \in Nat
  BY FS_CardinalityType
<1>2. \E f \in [1..Cardinality(S) -> S] : IsInjective(f)
  BY FS_CardinalityType DEF ExistsBijection, Bijection, Injection
<1>3. SetToSeq(S) \in [1..Cardinality(S) -> S]
  BY <1>2 DEF SetToSeq
<1> QED
  BY <1>1, <1>3

\* SetToSeq of a finite set has all its members.
LEMMA SetToSeqHas ==
    ASSUME NEW S, IsFiniteSet(S), NEW x \in S
    PROVE  \E i \in 1..Len(SetToSeq(S)) : SetToSeq(S)[i] = x
<1> DEFINE n == Cardinality(S)
           s == SetToSeq(S)
<1>1. n \in Nat
  BY FS_CardinalityType
<1>2. \E f \in [1..n -> S] : IsInjective(f)
  BY FS_CardinalityType DEF ExistsBijection, Bijection, Injection
<1>3. s \in [1..n -> S] /\ IsInjective(s) /\ Len(s) = n
  BY <1>1, <1>2 DEF SetToSeq
<1> HIDE DEF s
<1>4. \A i, j \in 1..n : s[i] = s[j] => i = j
  BY <1>3 DEF IsInjective
<1> DEFINE R == {s[i] : i \in 1..n}
<1>5. R \subseteq S /\ IsFiniteSet(R)
  BY <1>3, FS_Subset
<1>6. s \in Bijection(1..n, R)
  BY <1>3, <1>4 DEF Bijection, Injection, Surjection, IsInjective
<1>7. Cardinality(R) = n
  <2>1. ExistsBijection(1..n, R)
    BY <1>6 DEF ExistsBijection
  <2>2. IsFiniteSet(1..n) /\ Cardinality(1..n) = n
    BY <1>1, FS_Interval
  <2> QED
    BY <2>1, <2>2, FS_Bijection
<1> HIDE DEF R
<1>8. R = S
  BY <1>5, <1>7, FS_Subset
<1>9. \E i \in 1..n : s[i] = x
  BY <1>8 DEF R
<1> QED
  BY <1>3, <1>9 DEF s

-----------------------------------------------------------------------------
(* Sorting and filtering.                                                  *)

\* i comes last of S
After(i, S, key) == \A j \in S : key[j] < key[i] \/ (key[j] = key[i] /\ j <= i)

\* The number with the greatest key exists.
LEMMA LatestIn ==
    ASSUME NEW U, U \subseteq Nat, NEW key, \A i \in U : key[i] \in Int,
           NEW S, S \subseteq U, S # {}, IsFiniteSet(S)
    PROVE  Latest(S, key) \in S /\ After(Latest(S, key), S, key)
<1> DEFINE T == {s \in SUBSET S : s # {} /\ ~\E i \in s : After(i, s, key)}
<1>1. T = {}
  <2> SUFFICES ASSUME T # {} PROVE FALSE
    OBVIOUS
  <2>0. T \subseteq SUBSET S
    OBVIOUS
  <2>f. IsFiniteSet(S)
    OBVIOUS
  <2>n. T # {}
    OBVIOUS
  <2>1. PICK s \in T : \A t \in T : ~(t \subseteq s /\ t # s)
    <3> HIDE DEF T
    <3> QED
      BY ONLY <2>0, <2>f, <2>n, SmallestSet
  <2>2. PICK x \in s : TRUE
    BY <2>1
  <2>3. x \in Nat /\ key[x] \in Int
    BY <2>1, <2>2
  <2> DEFINE t == s \ {x}
  <2>4. CASE t = {}
    BY <2>1, <2>2, <2>3, <2>4 DEF After
  <2>5. CASE t # {}
    <3>1. t \notin T
      BY <2>1, <2>2
    <3>2. PICK y \in t : After(y, t, key)
      BY <3>1, <2>1, <2>5
    <3>3. y \in Nat /\ key[y] \in Int
      BY <2>1, <3>2
    <3>4. CASE key[x] < key[y] \/ (key[x] = key[y] /\ x <= y)
      BY <3>2, <3>4, <2>1 DEF After
    <3>5. CASE key[y] < key[x] \/ (key[x] = key[y] /\ y <= x)
      <4>1. \A j \in t : key[j] \in Int /\ j \in Nat
        BY <2>1
      <4>2. After(x, s, key)
        BY <3>2, <3>5, <2>3, <3>3, <4>1 DEF After
      <4> QED
        BY <2>1, <2>2, <4>2
    <3> QED
      BY <3>3, <3>4, <3>5, <2>3
  <2> QED
    BY <2>4, <2>5
<1>2. \E i \in S : After(i, S, key)
  BY <1>1
<1> QED
  BY <1>2 DEF Latest, After

\* the table of InOrder
OrderTable(h, key, S) ==
    h = [s \in SUBSET S |-> IF s = {} THEN <<>>
                            ELSE Append(h[s \ {Latest(s, key)}], Latest(s, key))]

\* InOrder is the value of a table.
LEMMA OrderIs == \A S, key : InOrder(S, key) = (CHOOSE h : OrderTable(h, key, S))[S]
  BY DEF InOrder, MapThenFoldSet, OrderTable

\* S can be put in the order of its keys
Keyed(S, key) == S \subseteq Nat /\ IsFiniteSet(S) /\ \A i \in S : key[i] \in Int

\* o has the members of S and no others
Lists(o, S) == o \in Seq(S) /\ \A i \in S : \E k \in 1..Len(o) : o[k] = i

\* Sorting keeps the numbers.
LEMMA InOrderLists ==
    ASSUME NEW S, NEW key, Keyed(S, key)
    PROVE  Lists(InOrder(S, key), S)
<1>k. S \subseteq Nat /\ IsFiniteSet(S) /\ \A i \in S : key[i] \in Int
  BY DEF Keyed
<1> DEFINE w == [s \in SUBSET S |-> Latest(s, key)]
<1>1. \A s \in SUBSET S : s # {} => Latest(s, key) \in s
  BY <1>k, LatestIn, FS_Subset
<1>2. Choice(w, S) /\ \A s \in SUBSET S : w[s] = Latest(s, key)
  BY <1>k, <1>1 DEF Choice
<1> HIDE DEF w
<1>3. \A h : Table(h, "order", <<>>, <<>>, w, S) <=> OrderTable(h, key, S)
  <2> TAKE h
  <2> DEFINE A(s) == IF s = {} THEN <<>> ELSE Step("order", <<>>, w[s], h[s \ {w[s]}])
             G(s) == IF s = {} THEN <<>> ELSE Append(h[s \ {Latest(s, key)}], Latest(s, key))
  <2>1. \A s \in SUBSET S : A(s) = G(s)
    BY <1>2 DEF Step
  <2>2. Table(h, "order", <<>>, <<>>, w, S) <=> h = [s \in SUBSET S |-> A(s)]
    BY DEF Table
  <2>3. OrderTable(h, key, S) <=> h = [s \in SUBSET S |-> G(s)]
    BY DEF OrderTable
  <2> HIDE DEF A, G
  <2> QED
    BY <2>1, <2>2, <2>3
<1>4. \E h : OrderTable(h, key, S)
  BY <1>2, <1>3, TableExists
<1> DEFINE h == CHOOSE h : OrderTable(h, key, S)
<1>5. OrderTable(h, key, S) /\ InOrder(S, key) = h[S]
  BY <1>4, OrderIs
<1> HIDE DEF h
<1>6. \A s \in SUBSET S : h[s] = IF s = {} THEN <<>>
                                 ELSE Append(h[s \ {Latest(s, key)}], Latest(s, key))
  BY <1>5 DEF OrderTable
<1> DEFINE Good(s) == h[s] \in Seq(S) /\ \A i \in s : \E k \in 1..Len(h[s]) : h[s][k] = i
           T == {s \in SUBSET S : ~Good(s)}
<1>7. T = {}
  <2> SUFFICES ASSUME T # {} PROVE FALSE
    OBVIOUS
  <2>0. T \subseteq SUBSET S
    OBVIOUS
  <2>f. IsFiniteSet(S)
    BY <1>k
  <2>n. T # {}
    OBVIOUS
  <2>1. PICK s \in T : \A t \in T : ~(t \subseteq s /\ t # s)
    <3> HIDE DEF T, Good
    <3> QED
      BY ONLY <2>0, <2>f, <2>n, SmallestSet
  <2>2. s \in SUBSET S /\ ~Good(s)
    BY <2>1
  <2>3. CASE s = {}
    <3>1. h[s] = <<>>
      BY <2>2, <2>3, <1>6
    <3> QED
      BY <2>2, <2>3, <3>1
  <2>4. CASE s # {}
    <3> DEFINE x == Latest(s, key)
               t == s \ {x}
    <3>1. x \in s /\ h[s] = Append(h[t], x)
      BY <2>2, <2>4, <1>1, <1>6
    <3>2. t \in SUBSET S /\ t \subseteq s /\ t # s /\ s = t \union {x} /\ x \in S
      BY <3>1, <2>2
    <3> HIDE DEF t, x
    <3>3. Good(t)
      BY <3>2, <2>1
    <3>4. /\ h[s] \in Seq(S) /\ Len(h[s]) = Len(h[t]) + 1 /\ h[s][Len(h[t]) + 1] = x
          /\ \A k \in 1..Len(h[t]) : h[s][k] = h[t][k]
      BY <3>1, <3>2, <3>3, AppendProperties
    <3>5. Len(h[t]) \in Nat
      BY <3>3
    <3>6. \A i \in s : \E k \in 1..Len(h[s]) : h[s][k] = i
      <4> SUFFICES ASSUME NEW i \in s
                   PROVE  \E k \in 1..Len(h[s]) : h[s][k] = i
        OBVIOUS
      <4>1. CASE i = x
        BY <4>1, <3>4, <3>5
      <4>2. CASE i # x
        <5>1. PICK k \in 1..Len(h[t]) : h[t][k] = i
          BY <4>2, <3>2, <3>3
        <5>2. k \in 1..Len(h[s]) /\ h[s][k] = i
          BY <5>1, <3>4, <3>5
        <5> QED
          BY <5>2
      <4> QED
        BY <4>1, <4>2
    <3> QED
      BY <3>4, <3>6, <2>2
  <2> QED
    BY <2>3, <2>4
<1>8. Good(S)
  BY <1>7
<1> QED
  BY <1>5, <1>8 DEF Lists

\* Ascending lists the places it is given.
LEMMA AscendingLists == \A S : S \subseteq Nat /\ IsFiniteSet(S) => Lists(Ascending(S), S)
<1> SUFFICES ASSUME NEW S, S \subseteq Nat, IsFiniteSet(S) PROVE Lists(Ascending(S), S)
  OBVIOUS
<1> DEFINE key == [i \in S |-> i]
<1>1. Keyed(S, key)
  BY DEF Keyed
<1>2. Ascending(S) = InOrder(S, key)
  BY DEF Ascending
<1> HIDE DEF key
<1> QED
  BY <1>1, <1>2, InOrderLists

\* Subsequence lists what stands at the places it is given.
LEMMA SubsequenceLists ==
    ASSUME NEW T, NEW s \in Seq(T), NEW S, S \subseteq DOMAIN s
    PROVE  Lists(Subsequence(s, S), {s[i] : i \in S})
<1> DEFINE o == Ascending(S)
           p == [k \in 1..Len(o) |-> s[o[k]]]
<1>1. S \subseteq 1..Len(s) /\ Len(s) \in Nat
  OBVIOUS
<1>2. S \subseteq Nat /\ IsFiniteSet(S)
  BY <1>1, PlaceSets, FS_Subset
<1>3. o \in Seq(S) /\ \A i \in S : \E k \in 1..Len(o) : o[k] = i
  BY <1>2, AscendingLists DEF Lists
<1>4. Subsequence(s, S) = [k \in DOMAIN o |-> s[o[k]]]
  BY DEF Subsequence
<1> HIDE DEF o
<1>5. DOMAIN o = 1..Len(o) /\ Len(o) \in Nat /\ \A k \in 1..Len(o) : o[k] \in S
  BY <1>3
<1>6. Subsequence(s, S) = p
  BY <1>4, <1>5
<1>7. p \in Seq({s[i] : i \in S}) /\ Len(p) = Len(o)
  BY <1>5
<1>8. ASSUME NEW i \in S
      PROVE  \E k \in 1..Len(p) : p[k] = s[i]
  BY <1>3, <1>7
<1>9. \A x \in {s[i] : i \in S} : \E k \in 1..Len(p) : p[k] = x
  BY <1>8
<1> HIDE DEF p
<1> QED
  BY <1>6, <1>7, <1>9 DEF Lists

\* The concatenation of lists of S and of T lists their union.
LEMMA CatLists ==
    ASSUME NEW a, NEW b, NEW A, NEW B, Lists(a, A), Lists(b, B)
    PROVE  Lists(a \o b, A \union B)
<1>1. a \in Seq(A \union B) /\ b \in Seq(A \union B)
  <2>1. A \subseteq A \union B /\ B \subseteq A \union B /\ a \in Seq(A) /\ b \in Seq(B)
    BY DEF Lists
  <2> QED
    BY <2>1, SeqMonotonic
<1> DEFINE d == a \o b
<1>2. /\ d \in Seq(A \union B)
      /\ \A y \in 1..Len(a) : y \in 1..Len(d) /\ d[y] = a[y]
      /\ \A y \in 1..Len(b) : Len(a) + y \in 1..Len(d) /\ d[Len(a) + y] = b[y]
  BY ONLY <1>1, CatHas
<1> HIDE DEF d
<1>3. ASSUME NEW x \in A \union B
      PROVE  \E k \in 1..Len(d) : d[k] = x
  <2>1. CASE x \in A
    <3>1. PICK k \in 1..Len(a) : a[k] = x
      BY <2>1 DEF Lists
    <3> QED
      BY <3>1, <1>2
  <2>2. CASE x \in B
    <3>1. PICK k \in 1..Len(b) : b[k] = x
      BY <2>2 DEF Lists
    <3> QED
      BY <3>1, <1>2
  <2> QED
    BY <2>1, <2>2
<1>4. Lists(d, A \union B)
  BY <1>2, <1>3 DEF Lists
<1> QED
  BY <1>4 DEF d

\* SetToSeq lists a finite set.
LEMMA SetToSeqLists == \A S : IsFiniteSet(S) => Lists(SetToSeq(S), S)
  BY SetToSeqType, SetToSeqHas DEF Lists

\* The concatenation of lists lists the union of what they list.
LEMMA FlattenLists ==
    ASSUME NEW q, NEW V, Len(q) \in Nat \ {0}, \A i \in 1..Len(q) : Lists(q[i], V[i])
    PROVE  Lists(FlattenSeq(q), UNION {V[i] : i \in 1..Len(q)})
<1> DEFINE n == Len(q)
           S == UNION {V[i] : i \in 1..n}
           d == FlattenSeq(q)
<1>1. \A i \in 1..n : q[i] \in Seq(S)
  <2> SUFFICES ASSUME NEW i \in 1..n PROVE q[i] \in Seq(S)
    OBVIOUS
  <2>1. V[i] \subseteq S /\ q[i] \in Seq(V[i])
    BY DEF Lists
  <2> HIDE DEF S, n
  <2> QED
    BY <2>1, SeqMonotonic
<1>2. d \in Seq(S)
  <2>1. Len(q) \in Nat /\ (Len(q) = 0 => q \in Seq(S))
    OBVIOUS
  <2> HIDE DEF S
  <2> QED
    BY <2>1, <1>1, FlattenType
<1>3. \A i \in 1..n : \A x \in 1..Len(q[i]) : \E y \in 1..Len(d) : d[y] = q[i][x]
  <2>1. Len(q) \in Nat
    OBVIOUS
  <2> HIDE DEF S
  <2> QED
    BY <2>1, <1>1, FlattenHas
<1>4. ASSUME NEW x \in S
      PROVE  \E y \in 1..Len(d) : d[y] = x
  <2>1. PICK i \in 1..n : x \in V[i]
    BY <1>4
  <2>2. PICK k \in 1..Len(q[i]) : q[i][k] = x
    BY <2>1 DEF Lists
  <2> HIDE DEF d
  <2> QED
    BY <2>2, <1>3
<1> HIDE DEF d, S
<1>5. Lists(d, S)
  BY <1>2, <1>4 DEF Lists
<1> QED
  BY <1>5 DEF d, S

\* The members of a list, by the numbers of another.
LEMMA MappedLists ==
    ASSUME NEW o, NEW S, Lists(o, S), NEW F
    PROVE  Lists([k \in DOMAIN o |-> F[o[k]]], {F[i] : i \in S})
<1> DEFINE p == [k \in 1..Len(o) |-> F[o[k]]]
<1>1. DOMAIN o = 1..Len(o) /\ Len(o) \in Nat /\ \A k \in 1..Len(o) : o[k] \in S
  BY DEF Lists
<1>2. p \in Seq({F[i] : i \in S}) /\ Len(p) = Len(o)
  BY <1>1
<1>3. ASSUME NEW x \in {F[i] : i \in S}
      PROVE  \E k \in 1..Len(p) : p[k] = x
  <2>1. PICK i \in S : x = F[i]
    BY <1>3
  <2>2. PICK k \in 1..Len(o) : o[k] = i
    BY DEF Lists
  <2> QED
    BY <2>1, <2>2, <1>2
<1> HIDE DEF p
<1>4. Lists(p, {F[i] : i \in S})
  BY <1>2, <1>3 DEF Lists
<1> QED
  BY <1>1, <1>4 DEF p

\* What a list has is the set it lists.
LEMMA ListsRange == \A o, S : Lists(o, S) => Range(o) = S
  BY DEF Lists, Range

-----------------------------------------------------------------------------
(* What parse_pdf returns.                                                 *)

\* a field that occupies columns
Fits(f) == f.from # 0 /\ f.length > 0

\* the members of Split(f)
PiecesOf(f) ==
    IF f.length < 2 \/ Cardinality(Markers(f)) < 2 THEN {f}
    ELSE {[f EXCEPT !.pairs = <<>>]} \union {SubField(f, i) : i \in Markers(f)}

\* Markers are places of the list of pairs.
LEMMA MarkersIn ==
    ASSUME NEW f \in ParsedFields
    PROVE  /\ Markers(f) \subseteq 1..Len(f.pairs) /\ Len(f.pairs) \in Nat
           /\ DOMAIN f.pairs = 1..Len(f.pairs)
           /\ Markers(f) \subseteq Nat /\ IsFiniteSet(Markers(f))
<1>1. f.pairs \in Seq(Pairs)
  BY DEF ParsedFields
<1>2. Len(f.pairs) \in Nat /\ DOMAIN f.pairs = 1..Len(f.pairs)
  BY <1>1
<1>3. Markers(f) \subseteq 1..Len(f.pairs)
  BY <1>2 DEF Markers
<1>4. IsFiniteSet(Markers(f))
  BY <1>2, <1>3, PlaceSets, FS_Subset
<1> QED
  BY <1>2, <1>3, <1>4

\* Split lists the pieces of the field.
LEMMA SplitLists == \A f \in ParsedFields : Lists(Split(f), PiecesOf(f))
<1> SUFFICES ASSUME NEW f \in ParsedFields PROVE Lists(Split(f), PiecesOf(f))
  OBVIOUS
<1>1. CASE f.length < 2 \/ Cardinality(Markers(f)) < 2
  <2>1. Split(f) = <<f>> /\ PiecesOf(f) = {f}
    BY <1>1 DEF Split, PiecesOf
  <2>2. Lists(<<f>>, {f})
    BY DEF Lists
  <2> QED
    BY <2>1, <2>2
<1>2. CASE ~(f.length < 2 \/ Cardinality(Markers(f)) < 2)
  <2> DEFINE g == [f EXCEPT !.pairs = <<>>]
             o == Ascending(Markers(f))
             F == [i \in Markers(f) |-> SubField(f, i)]
  <2>1. Lists(o, Markers(f))
    BY MarkersIn, AscendingLists
  <2>2. Lists([k \in DOMAIN o |-> F[o[k]]], {F[i] : i \in Markers(f)})
    <3> HIDE DEF o, F
    <3> QED
      BY <2>1, MappedLists
  <2>3. {F[i] : i \in Markers(f)} = {SubField(f, i) : i \in Markers(f)}
    OBVIOUS
  <2>4. \A k \in DOMAIN o : o[k] \in Markers(f)
    <3> HIDE DEF o
    <3> QED
      BY <2>1 DEF Lists
  <2>5. [k \in DOMAIN o |-> F[o[k]]] = [k \in DOMAIN o |-> SubField(f, o[k])]
    BY <2>4
  <2>6. Lists(<<g>>, {g})
    <3> HIDE DEF g
    <3> QED
      BY DEF Lists
  <2>7. Split(f) = <<g>> \o [k \in DOMAIN o |-> SubField(f, o[k])]
    BY <1>2 DEF Split
  <2>8. PiecesOf(f) = {g} \union {SubField(f, i) : i \in Markers(f)}
    BY <1>2 DEF PiecesOf
  <2> HIDE DEF g, o, F
  <2>9. Lists(<<g>> \o [k \in DOMAIN o |-> SubField(f, o[k])],
              {g} \union {SubField(f, i) : i \in Markers(f)})
    BY <2>2, <2>3, <2>5, <2>6, CatLists
  <2> QED
    BY <2>7, <2>8, <2>9
<1> QED
  BY <1>1, <1>2

\* a field with a name that occupies columns
Fields == {f \in ParsedFields : f.name \in Texts \union {"code", "SKIP"} /\ Fits(f)}

\* The components of a field.
LEMMA FieldType ==
    ASSUME NEW f \in ParsedFields
    PROVE  /\ f.name \in Texts \union {"none", "code", "SKIP"} /\ f.tag \in Tags \union {"SKIP"}
           /\ f.sub \in Texts \union {"none"} /\ f.from \in Nat /\ f.length \in Int
           /\ f.pairs \in Seq(Pairs) /\ Len(f.pairs) \in Nat
           /\ \A i \in 1..Len(f.pairs) :
                /\ f.pairs[i].code \in Codes /\ f.pairs[i].code.lo \in Nat /\ f.pairs[i].code.hi \in Nat
                /\ f.pairs[i].desc \in Seq(Texts \union {"code"})
<1>1. /\ f.name \in Texts \union {"none", "code", "SKIP"} /\ f.tag \in Tags \union {"SKIP"}
      /\ f.sub \in Texts \union {"none"} /\ f.from \in Nat /\ f.length \in Int
      /\ f.pairs \in Seq(Pairs)
  BY DEF ParsedFields
<1>2. Len(f.pairs) \in Nat /\ \A i \in 1..Len(f.pairs) : f.pairs[i] \in Pairs
  <2> DEFINE q == f.pairs
  <2>1. q \in Seq(Pairs)
    BY <1>1
  <2> HIDE DEF q
  <2>2. Len(q) \in Nat /\ \A i \in 1..Len(q) : q[i] \in Pairs
    BY <2>1
  <2> QED
    BY <2>2 DEF q
<1>3. \A p \in Pairs : /\ p.code \in Codes /\ p.code.lo \in Nat /\ p.code.hi \in Nat
                       /\ p.desc \in Seq(Texts \union {"code"})
  BY DEF Pairs, Codes
<1> QED
  BY <1>1, <1>2, <1>3

\* A record of such components is a field.
LEMMA FieldIn ==
    \A n \in Texts \union {"none", "code", "SKIP"}, t \in Tags \union {"SKIP"}, s \in Texts \union {"none"},
       a \in Nat, l \in Int, q \in Seq(Pairs) :
      LET f == [name |-> n, tag |-> t, sub |-> s, from |-> a, length |-> l, pairs |-> q]
      IN /\ f \in ParsedFields
         /\ <<f.name, f.tag, f.sub>> = <<n, t, s>>
         /\ <<f.from, f.length, f.pairs>> = <<a, l, q>>
  BY DEF ParsedFields

\* A field is the record of its components.
LEMMA FieldIs ==
    \A f \in ParsedFields : f = [name |-> f.name, tag |-> f.tag, sub |-> f.sub, from |-> f.from,
                               length |-> f.length, pairs |-> f.pairs]
  BY DEF ParsedFields

\* A marker is a code of one column of the field, with a name.
LEMMA MarkerType ==
    ASSUME NEW f \in ParsedFields, NEW i \in Markers(f)
    PROVE  /\ i \in 1..Len(f.pairs)
           /\ f.pairs[i].code.lo \in Columns(f) /\ f.pairs[i].desc[1] \in Capitals
  BY MarkersIn DEF Markers

\* The list of a sub-field ends with the last pair, or before the next marker.
LEMMA LastPairIn ==
    ASSUME NEW f \in ParsedFields, NEW i \in Markers(f)
    PROVE  /\ LastPair(f, i) \in i..Len(f.pairs)
           /\ \A j \in Markers(f) : i < j => LastPair(f, i) < j
           /\ \/ LastPair(f, i) = Len(f.pairs)
              \/ \E j \in Markers(f) : i < j /\ LastPair(f, i) = j - 1
<1> DEFINE later == {j \in Markers(f) : j > i}
           n == Len(f.pairs)
<1>1. Markers(f) \subseteq 1..n /\ n \in Nat /\ i \in 1..n
  BY MarkersIn
<1>2. later \subseteq 1..n /\ later \subseteq Nat /\ \A j \in later : i < j
  BY <1>1
<1>3. LastPair(f, i) = IF later = {} THEN n ELSE Min(later) - 1
  BY DEF LastPair
<1>5. \A j \in Markers(f) : i < j => j \in later
  BY <1>1
<1>6. \A j \in later : j \in Markers(f)
  OBVIOUS
<1> HIDE DEF later
<1>4. later # {} => Min(later) \in later /\ \A j \in later : Min(later) <= j
  BY <1>2, MinIn
<1> HIDE DEF n
<1>7. CASE later = {}
  BY <1>1, <1>3, <1>5, <1>7 DEF n
<1>8. CASE later # {}
  <2>1. Min(later) \in 1..n /\ i < Min(later) /\ Min(later) \in Markers(f)
    BY <1>2, <1>4, <1>6, <1>8
  <2>2. LastPair(f, i) = Min(later) - 1 /\ \A j \in later : Min(later) <= j /\ j \in 1..n
    BY <1>2, <1>3, <1>4, <1>8
  <2>3. LastPair(f, i) \in i..n
    BY <2>1, <2>2, <1>1
  <2>4. \A j \in Markers(f) : i < j => LastPair(f, i) < j
    BY <2>1, <2>2, <1>5, <1>1
  <2> QED
    BY <2>1, <2>2, <2>3, <2>4 DEF n
<1> QED
  BY <1>7, <1>8

\* A sub-field is a field of one column of its parent.
LEMMA SubFieldIs ==
    ASSUME NEW f \in ParsedFields, NEW i \in Markers(f)
    PROVE  LET g == SubField(f, i) IN
           /\ g.name = f.pairs[i].desc[1] /\ g.sub = g.name /\ g.tag = f.tag
           /\ g.from = f.pairs[i].code.lo /\ g.length = 1
           /\ g.pairs = SubSeq(f.pairs, i + 1, LastPair(f, i))
           /\ g.pairs \in Seq(Pairs) /\ Len(g.pairs) = LastPair(f, i) - i
           /\ \A k \in 1..(LastPair(f, i) - i) : g.pairs[k] = f.pairs[i + k]
           /\ g \in ParsedFields
<1> DEFINE g == SubField(f, i)
           l == LastPair(f, i)
           q == SubSeq(f.pairs, i + 1, l)
<1>1. i \in 1..Len(f.pairs) /\ l \in i..Len(f.pairs) /\ Len(f.pairs) \in Nat
  BY LastPairIn, MarkersIn
<1>2. f.pairs \in Seq(Pairs) /\ f.pairs[i].desc[1] \in Texts /\ f.pairs[i].code.lo \in Nat
  <2>1. f.pairs[i].desc[1] \in Texts
    BY MarkerType, WireAssumption
  <2> QED
    BY <1>1, <2>1, FieldType
<1> HIDE DEF l
<1>3. \A k \in (i + 1)..l : f.pairs[k] \in Pairs
  BY <1>1, <1>2
<1>4. /\ q \in Seq(Pairs) /\ Len(q) = IF i + 1 <= l THEN l - (i + 1) + 1 ELSE 0
      /\ \A k \in 1..(l - (i + 1) + 1) : q[k] = f.pairs[(i + 1) + k - 1]
  <2>1. i + 1 \in Int /\ l \in Int
    BY <1>1
  <2> QED
    BY ONLY <2>1, <1>3, SubSeqProperties
<1>5. Len(q) = l - i /\ \A k \in 1..(l - i) : q[k] = f.pairs[i + k]
  <2>1. Len(q) = l - i /\ l - (i + 1) + 1 = l - i
    BY <1>1, <1>4
  <2>2. \A k \in 1..(l - i) : (i + 1) + k - 1 = i + k
    BY <1>1
  <2> QED
    BY <1>4, <2>1, <2>2
<1>6. f = [name |-> f.name, tag |-> f.tag, sub |-> f.sub, from |-> f.from,
           length |-> f.length, pairs |-> f.pairs]
  BY FieldIs
<1>7. g = [f EXCEPT !.name = f.pairs[i].desc[1], !.sub = f.pairs[i].desc[1],
                    !.from = f.pairs[i].code.lo, !.length = 1, !.pairs = q]
  BY DEF SubField, l
<1> HIDE DEF q, g
<1>8. g = [name |-> f.pairs[i].desc[1], tag |-> f.tag, sub |-> f.pairs[i].desc[1],
           from |-> f.pairs[i].code.lo, length |-> 1, pairs |-> q]
  BY <1>6, <1>7
<1>9. g \in ParsedFields
  <2> DEFINE n == f.pairs[i].desc[1]
             a == f.pairs[i].code.lo
  <2>1. /\ n \in Texts \union {"none", "code", "SKIP"} /\ f.tag \in Tags \union {"SKIP"} /\ n \in Texts \union {"none"}
        /\ a \in Nat /\ 1 \in Int /\ q \in Seq(Pairs)
    BY <1>2, <1>4, FieldType
  <2> HIDE DEF n, a
  <2>2. [name |-> n, tag |-> f.tag, sub |-> n, from |-> a, length |-> 1, pairs |-> q] \in ParsedFields
    BY <2>1, FieldIn
  <2> QED
    BY <1>8, <2>2 DEF n, a
<1>10. /\ g.name = f.pairs[i].desc[1] /\ g.sub = g.name /\ g.tag = f.tag
       /\ g.from = f.pairs[i].code.lo /\ g.length = 1 /\ g.pairs = q
  BY <1>8
<1>11. SubField(f, i) = g /\ LastPair(f, i) = l /\ SubSeq(f.pairs, i + 1, LastPair(f, i)) = q
  BY DEF g, q, l
<1> QED
  BY <1>4, <1>5, <1>9, <1>10, <1>11

\* The pieces of a field are fields.
LEMMA PiecesFit ==
    ASSUME NEW f \in Fields
    PROVE  /\ PiecesOf(f) \subseteq Fields
           /\ \A p \in PiecesOf(f) : Columns(p) \subseteq Columns(f)
           /\ \E p \in PiecesOf(f) : Columns(p) = Columns(f)
<1>1. f \in ParsedFields /\ f.from \in Nat /\ f.length \in Int /\ Fits(f)
  BY FieldType DEF Fields
<1>2. CASE f.length < 2 \/ Cardinality(Markers(f)) < 2
  <2>1. PiecesOf(f) = {f}
    BY <1>2 DEF PiecesOf
  <2> QED
    BY <2>1
<1>3. CASE ~(f.length < 2 \/ Cardinality(Markers(f)) < 2)
  <2> DEFINE g == [f EXCEPT !.pairs = <<>>]
  <2>1. PiecesOf(f) = {g} \union {SubField(f, i) : i \in Markers(f)}
    BY <1>3 DEF PiecesOf
  <2>2. g \in Fields /\ Columns(g) = Columns(f)
    <3>1. g = [name |-> f.name, tag |-> f.tag, sub |-> f.sub, from |-> f.from,
               length |-> f.length, pairs |-> <<>>]
      BY <1>1, FieldIs
    <3>2. /\ f.name \in Texts \union {"none", "code", "SKIP"} /\ f.tag \in Tags \union {"SKIP"}
          /\ f.sub \in Texts \union {"none"} /\ <<>> \in Seq(Pairs)
      BY <1>1, FieldType
    <3> HIDE DEF g
    <3>3. g.name = f.name /\ g.from = f.from /\ g.length = f.length
      BY <3>1
    <3>4. g \in ParsedFields
      BY <3>1, <3>2, <1>1 DEF ParsedFields
    <3> QED
      BY <3>3, <3>4 DEF Fields, Fits, Columns
  <2>3. ASSUME NEW i \in Markers(f)
        PROVE  SubField(f, i) \in Fields /\ Columns(SubField(f, i)) \subseteq Columns(f)
    <3> DEFINE p == SubField(f, i)
    <3>1. /\ p \in ParsedFields /\ p.name = f.pairs[i].desc[1]
          /\ p.from = f.pairs[i].code.lo /\ p.length = 1
      BY <1>1, SubFieldIs
    <3>2. p.from \in Columns(f) /\ p.name \in Texts
      BY <1>1, <3>1, MarkerType, WireAssumption
    <3> HIDE DEF p
    <3>3. p.from \in Nat /\ p.from # 0
      BY <1>1, <3>2 DEF Columns, Fits
    <3>4. p \in Fields
      BY <3>1, <3>2, <3>3 DEF Fields, Fits
    <3>5. Columns(p) = {p.from}
      BY <3>1, <3>3 DEF Columns
    <3> QED
      BY <3>2, <3>4, <3>5 DEF p
  <2> QED
    BY <2>1, <2>2, <2>3
<1> QED
  BY <1>2, <1>3

\* the fields of the document, split
AllPieces(s) == UNION {PiecesOf(f) : f \in {g \in Range(s) : g.name # "none"}}

\* The image of a finite set is finite.
LEMMA ImageFinite ==
    ASSUME NEW S, IsFiniteSet(S), NEW F
    PROVE  IsFiniteSet({F[x] : x \in S})
<1> DEFINE T == {F[x] : x \in S}
           f == [x \in S |-> F[x]]
<1>1. f \in Surjection(S, T)
  BY DEF Surjection
<1> HIDE DEF f, T
<1>2. IsFiniteSet(T)
  BY <1>1, FS_Surjection
<1> QED
  BY <1>2 DEF T

\* Gaps are finitely many.
LEMMA GapsFinite == \A S : IsFiniteSet(Gaps(S))
<1> SUFFICES ASSUME NEW S PROVE IsFiniteSet(Gaps(S))
  OBVIOUS
<1> DEFINE X == (1..RecordLength) \X (1..RecordLength)
           P(r) == /\ r[1] <= r[2]
                   /\ (r[1]..r[2]) \intersect UNION {Columns(f) : f \in S} = {}
                   /\ r[1] = 1 \/ r[1] - 1 \in UNION {Columns(f) : f \in S}
                   /\ r[2] = RecordLength \/ r[2] + 1 \in UNION {Columns(f) : f \in S}
           Y == {r \in X : P(r)}
<1>1. IsFiniteSet(X)
  <2>1. IsFiniteSet(1..RecordLength)
    BY WireAssumption, PlaceSets
  <2> QED
    BY <2>1, FS_Product
<1>2. IsFiniteSet(Y)
  <2>1. Y \subseteq X
    OBVIOUS
  <2> QED
    BY <1>1, <2>1, FS_Subset
<1>3. Gaps(S) = {Skip(r[1], r[2]) : r \in Y}
  BY DEF Gaps
<1> HIDE DEF Y
<1> DEFINE F == [r \in Y |-> Skip(r[1], r[2])]
<1>4. {Skip(r[1], r[2]) : r \in Y} = {F[r] : r \in Y}
  OBVIOUS
<1> HIDE DEF F
<1>5. IsFiniteSet({F[r] : r \in Y})
  BY <1>2, ImageFinite
<1> QED
  BY <1>3, <1>4, <1>5

\* the columns Gaps calls occupied
Occupied(S) == UNION {Columns(f) : f \in S}

\* a run of columns that S leaves free, as wide as it can be
Run(S, a, b) ==
    /\ a \in 1..RecordLength /\ b \in 1..RecordLength /\ a <= b
    /\ (a..b) \intersect Occupied(S) = {}
    /\ a = 1 \/ a - 1 \in Occupied(S)
    /\ b = RecordLength \/ b + 1 \in Occupied(S)

\* A gap is the SKIP of a run of free columns.
LEMMA GapsAre == \A S : \A g : g \in Gaps(S) <=> \E a, b : Run(S, a, b) /\ g = Skip(a, b)
<1> SUFFICES ASSUME NEW S, NEW g
             PROVE  g \in Gaps(S) <=> \E a, b : Run(S, a, b) /\ g = Skip(a, b)
  OBVIOUS
<1>1. ASSUME g \in Gaps(S)
      PROVE  \E a, b : Run(S, a, b) /\ g = Skip(a, b)
  <2>1. PICK r \in (1..RecordLength) \X (1..RecordLength) :
           /\ g = Skip(r[1], r[2])
           /\ r[1] <= r[2] /\ (r[1]..r[2]) \intersect Occupied(S) = {}
           /\ r[1] = 1 \/ r[1] - 1 \in Occupied(S)
           /\ r[2] = RecordLength \/ r[2] + 1 \in Occupied(S)
    BY <1>1 DEF Gaps, Occupied
  <2>2. r[1] \in 1..RecordLength /\ r[2] \in 1..RecordLength
    OBVIOUS
  <2>3. Run(S, r[1], r[2])
    BY <2>1, <2>2 DEF Run
  <2> QED
    BY <2>1, <2>3
<1>2. ASSUME NEW a, NEW b, Run(S, a, b), g = Skip(a, b)
      PROVE  g \in Gaps(S)
  <2> DEFINE r == <<a, b>>
  <2>1. r \in (1..RecordLength) \X (1..RecordLength) /\ r[1] = a /\ r[2] = b
    BY <1>2 DEF Run
  <2>2. /\ r[1] <= r[2] /\ (r[1]..r[2]) \intersect Occupied(S) = {}
        /\ r[1] = 1 \/ r[1] - 1 \in Occupied(S)
        /\ r[2] = RecordLength \/ r[2] + 1 \in Occupied(S)
    BY <1>2, <2>1 DEF Run
  <2>3. g = Skip(r[1], r[2])
    BY <1>2, <2>1
  <2> HIDE DEF r
  <2> QED
    BY <2>1, <2>2, <2>3 DEF Gaps, Occupied
<1> QED
  BY <1>1, <1>2

\* Gaps are fields.
LEMMA GapsFit ==
    ASSUME NEW S, NEW g \in Gaps(S)
    PROVE  g \in Fields /\ Columns(g) # {} /\ Columns(g) \intersect Occupied(S) = {}
<1>1. PICK a, b : Run(S, a, b) /\ g = Skip(a, b)
  BY GapsAre
<1>2. a \in Nat /\ b \in Nat /\ a # 0 /\ a <= b /\ (a..b) \intersect Occupied(S) = {}
  BY <1>1, WireAssumption DEF Run
<1>3. g = [name |-> "SKIP", tag |-> "SKIP", sub |-> "none", from |-> a,
           length |-> b - a + 1, pairs |-> <<>>]
  BY <1>1 DEF Skip
<1>4. g.name = "SKIP" /\ g.from = a /\ g.length = b - a + 1
  BY <1>3
<1>5. g \in ParsedFields
  <2>1. b - a + 1 \in Int /\ <<>> \in Seq(Pairs)
    BY <1>2
  <2>2. /\ "SKIP" \in Texts \union {"none", "code", "SKIP"} /\ "SKIP" \in Tags \union {"SKIP"}
        /\ "none" \in Texts \union {"none"} /\ a \in Nat
    BY <1>2
  <2> QED
    BY <2>1, <2>2, <1>3 DEF ParsedFields
<1>6. Columns(g) = a..b
  BY <1>2, <1>4 DEF Columns
<1>7. g \in Fields
  BY <1>2, <1>4, <1>5 DEF Fields, Fits
<1> QED
  BY <1>2, <1>6, <1>7

\* A column is in a field or in a gap.
LEMMA GapsCover ==
    ASSUME NEW S, NEW c \in 1..RecordLength, c \notin Occupied(S)
    PROVE  \E g \in Gaps(S) : c \in Columns(g)
<1> DEFINE O == Occupied(S)
           A == {x \in 1..c : (x..c) \intersect O = {}}
           B == {y \in c..RecordLength : (c..y) \intersect O = {}}
<1>0. RecordLength \in Nat /\ c \in Nat /\ c # 0 /\ c <= RecordLength
  BY WireAssumption
<1>1. c \notin O
  OBVIOUS
<1> HIDE DEF O
<1>2. c \in A /\ c \in B /\ A \subseteq Nat /\ B \subseteq 0..RecordLength
  BY <1>0, <1>1
<1> HIDE DEF A, B
<1>3. PICK a \in A : \A x \in A : a <= x
  BY <1>2, LeastOf
<1>4. PICK b \in B : \A y \in B : y <= b
  BY <1>0, <1>2, GreatestOf
<1> USE DEF A, B
<1>5. a \in 1..c /\ b \in c..RecordLength /\ (a..c) \intersect O = {} /\ (c..b) \intersect O = {}
  OBVIOUS
<1>6. (a..b) \intersect O = {}
  BY <1>0, <1>5
<1>7. a = 1 \/ a - 1 \in O
  <2> SUFFICES ASSUME a # 1, a - 1 \notin O PROVE FALSE
    OBVIOUS
  <2>1. a - 1 \in 1..c /\ ~(a <= a - 1)
    BY <1>0, <1>5
  <2>2. ((a - 1)..c) \intersect O = {}
    BY <1>0, <1>5
  <2>3. a - 1 \in A
    BY <2>1, <2>2
  <2> QED
    BY <1>3, <2>1, <2>3
<1>8. b = RecordLength \/ b + 1 \in O
  <2> SUFFICES ASSUME b # RecordLength, b + 1 \notin O PROVE FALSE
    OBVIOUS
  <2>1. b + 1 \in c..RecordLength /\ ~(b + 1 <= b)
    BY <1>0, <1>5
  <2>2. (c..(b + 1)) \intersect O = {}
    BY <1>0, <1>5
  <2>3. b + 1 \in B
    BY <2>1, <2>2
  <2> QED
    BY <1>4, <2>1, <2>3
<1> HIDE DEF A, B
<1>9. Run(S, a, b)
  BY <1>0, <1>5, <1>6, <1>7, <1>8 DEF Run, O
<1>10. Skip(a, b) \in Gaps(S)
  BY <1>9, GapsAre
<1>11. c \in Columns(Skip(a, b))
  <2>1. Skip(a, b).from = a /\ Skip(a, b).length = b - a + 1
    BY DEF Skip
  <2>2. Columns(Skip(a, b)) = a..(a + (b - a + 1) - 1)
    BY <2>1 DEF Columns
  <2> QED
    BY <2>2, <1>0, <1>5
<1> QED
  BY <1>10, <1>11

\* the fields a parse may have: they occupy columns
Fitting(s) == s \in Seq(ParsedFields) /\ \A i \in DOMAIN s : Fits(s[i])

\* parse_pdf returns the pieces of the named fields, and the gaps between them.
LEMMA ParsedLists ==
    ASSUME NEW s, Fitting(s)
    PROVE  \/ Parsed(s) = <<>> /\ AllPieces(s) = {}
           \/ Lists(Parsed(s), AllPieces(s) \union Gaps(AllPieces(s)))
<1> DEFINE P == {i \in DOMAIN s : s[i].name # "none"}
           named == Subsequence(s, P)
           N == {s[i] : i \in P}
           q == [i \in DOMAIN named |-> Split(named[i])]
           split == FlattenSeq(q)
           key == [i \in DOMAIN split |-> split[i].from]
           order == InOrder(DOMAIN split, key)
           body == [k \in DOMAIN order |-> split[order[k]]]
           A == AllPieces(s)
<1>1. Lists(named, N)
  <2>1. s \in Seq(ParsedFields) /\ P \subseteq DOMAIN s
    BY DEF Fitting
  <2> HIDE DEF P
  <2> QED
    BY <2>1, SubsequenceLists
<1>2. N = {g \in Range(s) : g.name # "none"} /\ N \subseteq ParsedFields
  <2>1. N \subseteq ParsedFields
    BY DEF Fitting
  <2>2. N = {g \in Range(s) : g.name # "none"}
    BY DEF Range
  <2> QED
    BY <2>1, <2>2
<1>3. Parsed(s) = IF named = <<>> THEN <<>> ELSE body \o SetToSeq(Gaps(Range(split)))
  BY DEF Parsed
<1>a. A = UNION {PiecesOf(f) : f \in N}
  BY <1>2 DEF AllPieces
<1> HIDE DEF named, P, N, A
<1>4. CASE named = <<>>
  <2>1. N = {}
    BY <1>1, <1>4 DEF Lists
  <2> QED
    BY <2>1, <1>3, <1>4, <1>a DEF A
<1>5. CASE named # <<>>
  <2>1. /\ Len(named) \in Nat \ {0} /\ DOMAIN named = 1..Len(named)
        /\ \A i \in 1..Len(named) : named[i] \in N
        /\ \A f \in N : \E i \in 1..Len(named) : named[i] = f
    BY <1>1, <1>5 DEF Lists
  <2>2. DOMAIN q = 1..Len(named)
    BY <2>1
  <2>3. Len(q) = Len(named)
    <3>1. q = [i \in 1..Len(named) |-> Split(named[i])]
      BY <2>1
    <3> QED
      BY <2>1, <3>1
  <2> DEFINE V == [i \in 1..Len(named) |-> PiecesOf(named[i])]
  <2>4. \A i \in 1..Len(q) : Lists(q[i], V[i])
    BY <2>1, <2>3, <1>2, SplitLists
  <2>5. UNION {V[i] : i \in 1..Len(q)} = A
    BY <2>1, <2>3, <1>a
  <2> HIDE DEF q, V
  <2>6. Lists(split, A)
    BY <2>1, <2>3, <2>4, <2>5, FlattenLists
  <2> HIDE DEF split
  <2>7. /\ DOMAIN split = 1..Len(split) /\ Len(split) \in Nat
        /\ \A i \in 1..Len(split) : split[i] \in A
        /\ Range(split) = A
    BY <2>6, ListsRange DEF Lists
  <2>8. A \subseteq ParsedFields
    <3>1. \A f \in N : PiecesOf(f) \subseteq ParsedFields
      <4> SUFFICES ASSUME NEW f \in N PROVE PiecesOf(f) \subseteq ParsedFields
        OBVIOUS
      <4>1. f \in Fields
        <5>1. f \in ParsedFields /\ f.name # "none" /\ Fits(f)
          BY <1>2 DEF N, P, Fitting
        <5>2. f.name \in Texts \union {"none", "code", "SKIP"}
          BY <5>1, FieldType
        <5> QED
          BY <5>1, <5>2 DEF Fields
      <4> QED
        BY <4>1, PiecesFit DEF Fields
    <3> QED
      BY <3>1, <1>a
  <2>9. Keyed(DOMAIN split, key)
    <3>1. \A i \in 1..Len(split) : split[i].from \in Int
      BY <2>7, <2>8, FieldType
    <3>2. IsFiniteSet(1..Len(split))
      BY <2>7, PlaceSets
    <3> QED
      BY <2>7, <3>1, <3>2 DEF Keyed
  <2> HIDE DEF key
  <2>10. Lists(order, DOMAIN split)
    BY <2>9, InOrderLists
  <2> HIDE DEF order
  <2>11. Lists(body, {split[i] : i \in DOMAIN split})
    BY <2>10, MappedLists
  <2>12. {split[i] : i \in DOMAIN split} = A
    BY <2>7 DEF Range
  <2> HIDE DEF body
  <2>13. Lists(SetToSeq(Gaps(A)), Gaps(A))
    BY GapsFinite, SetToSeqLists
  <2>14. Lists(body \o SetToSeq(Gaps(A)), A \union Gaps(A))
    BY <2>11, <2>12, <2>13, CatLists
  <2> QED
    BY <1>3, <1>5, <2>7, <2>14 DEF A
<1> QED
  BY <1>4, <1>5

\* the field that keeps its list, of those in one place
Best(p, i) == i \in DOMAIN p /\ \A k \in DOMAIN p : ~Supersedes(p, k, i)

\* Of the fields in one place there is one that no other supersedes.
LEMMA BestExists ==
    ASSUME NEW p \in Seq(Fields), NEW j \in DOMAIN p
    PROVE  \E i \in DOMAIN p : SamePlace(p[j], p[i]) /\ Best(p, i)
<1> DEFINE M == {k \in DOMAIN p : SamePlace(p[j], p[k])}
           key == [k \in DOMAIN p |-> Len(p[k].pairs)]
           g == Latest(M, key)
           L == {k \in M : key[k] = key[g]}
<1>1. /\ DOMAIN p = 1..Len(p) /\ Len(p) \in Nat
      /\ \A k \in DOMAIN p : p[k] \in ParsedFields
  BY DEF Fields
<1>2. \A k \in DOMAIN p : key[k] \in Nat /\ key[k] = Len(p[k].pairs)
  BY <1>1, FieldType
<1>3. j \in M /\ M \subseteq DOMAIN p
  BY DEF SamePlace
<1>4. DOMAIN p \subseteq Nat /\ IsFiniteSet(M)
  BY <1>1, <1>3, PlaceSets, FS_Subset
<1>m. \A k \in DOMAIN p : k \in M <=> SamePlace(p[j], p[k])
  OBVIOUS
<1> HIDE DEF M, key
<1>5. g \in M /\ After(g, M, key)
  <2>1. \A i \in DOMAIN p : key[i] \in Int
    BY <1>2
  <2>2. M # {}
    BY <1>3
  <2> QED
    BY ONLY <2>1, <2>2, <1>3, <1>4, LatestIn
<1> HIDE DEF g
<1>6. g \in L /\ L \subseteq Nat
  BY <1>3, <1>4, <1>5
<1>7. PICK i \in L : \A k \in L : i <= k
  <2> HIDE DEF L
  <2> QED
    BY <1>6, LeastOf
<1>8. i \in M /\ i \in DOMAIN p /\ key[i] = key[g]
  BY <1>3
<1>9. ASSUME NEW k \in DOMAIN p, Supersedes(p, k, i)
      PROVE  FALSE
  <2>1. SamePlace(p[i], p[k])
    BY <1>9 DEF Supersedes
  <2>2. k \in M
    BY <1>8, <1>m, <2>1 DEF SamePlace
  <2>3. key[k] <= key[g]
    BY <1>2, <1>3, <1>5, <2>2 DEF After
  <2>4. key[k] = key[i] /\ k < i
    BY <1>2, <1>8, <1>9, <2>3 DEF Supersedes
  <2>5. k \in L
    BY <1>8, <2>2, <2>4
  <2>6. k \in Nat /\ i \in Nat
    BY <1>1, <1>8
  <2> QED
    BY <1>7, <2>4, <2>5, <2>6
<1> QED
  BY <1>8, <1>9, <1>m DEF Best

\* the place of the jth field has a proposal
PlaceProposed(s, p, j) ==
    \E k \in 1..Len(Proposals(s)), i \in DOMAIN p :
      SamePlace(p[j], p[i]) /\ Best(p, i) /\ Proposals(s)[k] = Proposal(p[i])

\* The proposals are those of the best fields, and each place has one.
LEMMA ProposalsAre ==
    ASSUME NEW s, NEW p, p = Parsed(s), p \in Seq(Fields)
    PROVE  /\ Proposals(s) \in Seq({Proposal(p[i]) : i \in DOMAIN p})
           /\ \A j \in DOMAIN p : PlaceProposed(s, p, j)
<1> DEFINE F0 == {i \in DOMAIN p : \A j \in 1..(i - 1) : ~SamePlace(p[i], p[j])}
           first == Ascending(F0)
           best == [i \in DOMAIN p |->
                     CHOOSE j \in DOMAIN p : SamePlace(p[i], p[j]) /\ \A k \in DOMAIN p : ~Supersedes(p, k, j)]
           r == [k \in 1..Len(first) |-> Proposal(p[best[first[k]]])]
<1>1. DOMAIN p = 1..Len(p) /\ Len(p) \in Nat
  OBVIOUS
<1>2. Proposals(s) = [k \in DOMAIN first |-> Proposal(p[best[first[k]]])]
  BY DEF Proposals
<1>3. F0 \subseteq 1..Len(p) /\ F0 \subseteq Nat
  BY <1>1
<1>4. IsFiniteSet(F0)
  BY <1>1, <1>3, PlaceSets, FS_Subset
<1>5. \A j \in DOMAIN p : \E i \in F0 : SamePlace(p[j], p[i])
  <2> SUFFICES ASSUME NEW j \in DOMAIN p PROVE \E i \in F0 : SamePlace(p[j], p[i])
    OBVIOUS
  <2> DEFINE M == {i \in DOMAIN p : SamePlace(p[j], p[i])}
  <2>1. j \in M /\ M \subseteq Nat
    BY <1>1 DEF SamePlace
  <2>m. \A i \in M : i \in DOMAIN p /\ SamePlace(p[j], p[i])
    OBVIOUS
  <2>n. \A i \in DOMAIN p : SamePlace(p[j], p[i]) => i \in M
    OBVIOUS
  <2> HIDE DEF M
  <2>2. PICK i \in M : \A k \in M : i <= k
    BY <2>1, LeastOf
  <2>3. ASSUME NEW k \in 1..(i - 1), SamePlace(p[i], p[k])
        PROVE  FALSE
    <3>1. k \in DOMAIN p /\ ~(i <= k)
      BY <1>1, <2>m
    <3>2. SamePlace(p[j], p[k])
      BY <2>3, <2>m DEF SamePlace
    <3> QED
      BY <2>2, <2>n, <3>1, <3>2
  <2> QED
    BY <2>2, <2>3, <2>m
<1> HIDE DEF F0
<1>6. Lists(first, F0)
  BY <1>3, <1>4, AscendingLists
<1> HIDE DEF first
<1>7. /\ DOMAIN first = 1..Len(first) /\ Len(first) \in Nat
      /\ \A k \in 1..Len(first) : first[k] \in DOMAIN p
      /\ \A i \in F0 : \E k \in 1..Len(first) : first[k] = i
  <2>1. first \in Seq(F0) /\ \A i \in F0 : \E k \in 1..Len(first) : first[k] = i
    BY <1>6 DEF Lists
  <2>2. \A i \in F0 : i \in DOMAIN p
    BY <1>1, <1>3
  <2>3. /\ DOMAIN first = 1..Len(first) /\ Len(first) \in Nat
        /\ \A k \in 1..Len(first) : first[k] \in F0
    BY <2>1
  <2> QED
    BY <2>1, <2>2, <2>3
<1>8. \A i \in DOMAIN p : SamePlace(p[i], p[best[i]]) /\ Best(p, best[i])
  <2> SUFFICES ASSUME NEW i \in DOMAIN p
               PROVE  SamePlace(p[i], p[best[i]]) /\ Best(p, best[i])
    OBVIOUS
  <2>1. \E j \in DOMAIN p : SamePlace(p[i], p[j]) /\ \A k \in DOMAIN p : ~Supersedes(p, k, j)
    BY BestExists DEF Best
  <2> QED
    BY <2>1 DEF Best
<1> HIDE DEF best
<1>9. Proposals(s) = r
  BY <1>2, <1>7
<1>10. \A k \in 1..Len(first) : best[first[k]] \in DOMAIN p
  BY <1>7, <1>8 DEF Best
<1>11. r \in Seq({Proposal(p[i]) : i \in DOMAIN p}) /\ Len(r) = Len(first)
  BY <1>7, <1>10
<1>12. ASSUME NEW j \in DOMAIN p
       PROVE  \E k \in 1..Len(r), i \in DOMAIN p :
                SamePlace(p[j], p[i]) /\ Best(p, i) /\ r[k] = Proposal(p[i])
  <2>1. PICK i \in F0 : SamePlace(p[j], p[i])
    BY <1>5
  <2>2. PICK k \in 1..Len(first) : first[k] = i
    BY <1>7
  <2>3. /\ i \in DOMAIN p /\ best[i] \in DOMAIN p /\ Best(p, best[i])
        /\ SamePlace(p[i], p[best[i]]) /\ r[k] = Proposal(p[best[i]])
    BY <1>7, <1>8, <1>10, <2>2
  <2>4. SamePlace(p[j], p[best[i]])
    BY <2>1, <2>3 DEF SamePlace
  <2> QED
    BY <1>11, <2>3, <2>4
<1> HIDE DEF r
<1> QED
  BY <1>9, <1>11, <1>12 DEF PlaceProposed

\* A proposal of a field is a node with a position.
LEMMA ProposalIs ==
    ASSUME NEW f \in Fields
    PROVE  /\ Proposal(f) \in Nodes
           /\ <<Proposal(f).name, Proposal(f).tag, Proposal(f).sub>> = <<f.name, f.tag, f.sub>>
           /\ Proposal(f).from = f.from /\ Proposal(f).length = f.length
           /\ Proposal(f).codes = CodesOf(f)
           /\ Proposal(f).length # 0 /\ Proposal(f).from # 0
<1>1. /\ f \in ParsedFields /\ f.name \in Texts \union {"code", "SKIP"} /\ f.from # 0 /\ f.length > 0
  BY DEF Fields, Fits
<1>2. /\ f.tag \in Tags \union {"SKIP", "none"} /\ f.sub \in Texts \union {"none"}
      /\ f.from \in Nat /\ f.length \in Nat
  BY <1>1, FieldType
<1>3. CodesOf(f) \subseteq Codes
  <2>1. DOMAIN f.pairs = 1..Len(f.pairs)
    BY <1>1, MarkersIn
  <2> QED
    BY <1>1, <2>1, FieldType DEF CodesOf
<1> DEFINE place == IF f.tag = "SKIP" THEN <<f.from, f.length>> ELSE <<>>
           C == CodesOf(f)
           L == IF f.pairs = <<>> THEN {} ELSE {f.from}
           q == f.tag # "SKIP"
<1>4. place \in Seq(Nat) /\ q \in BOOLEAN
  BY <1>2
<1>5. Proposal(f) =
        [name |-> f.name, tag |-> f.tag, sub |-> f.sub, place |-> place, from |-> f.from,
         length |-> f.length, lists |-> L, codes |-> C, digits |-> 0, required |-> q,
         effective |-> TRUE, edges |-> {"CONTAINED_IN"}]
  BY DEF Proposal
<1>6. C \in SUBSET Codes /\ L \in SUBSET Nat
  BY <1>2, <1>3
<1> HIDE DEF place, C, q, L
<1>7. Proposal(f) \in Nodes
  BY <1>1, <1>2, <1>4, <1>5, <1>6 DEF Nodes
<1>8. /\ Proposal(f).name = f.name /\ Proposal(f).tag = f.tag /\ Proposal(f).sub = f.sub
      /\ Proposal(f).from = f.from /\ Proposal(f).length = f.length /\ Proposal(f).codes = C
  BY <1>5
<1> QED
  BY <1>1, <1>7, <1>8 DEF C

-----------------------------------------------------------------------------
(* The graph only grows.                                                   *)

\* a node of the graph: a length that is not null has a position
NodeOK(g) == g \in Nodes /\ (g.length # 0 => g.from # 0)

\* the type of layout, with positions
Graph(S) == IsFiniteSet(S) /\ \A g \in S : NodeOK(g)

\* h is what has become of the node g
Keeps(g, h) ==
    /\ SameName(g, h) /\ SamePlace(g, h)
    /\ g.codes \subseteq h.codes /\ g.edges \subseteq h.edges /\ g.effective = h.effective

\* no node of S is lost in T, and none loses a code
Grows(S, T) == \A g \in S : \E h \in T : Keeps(g, h)

\* the graph has a field of that name, with the codes of f
Holds(S, f) == \E h \in S : SameName(f, h) /\ f.codes \subseteq h.codes

\* A graph grows to itself.
LEMMA KeepsItself == \A S : Grows(S, S)
  BY DEF Grows, Keeps, SameName, SamePlace

\* Growing is transitive.
LEMMA GrowsOn ==
    ASSUME NEW S, NEW T, NEW U, Grows(S, T), Grows(T, U)
    PROVE  Grows(S, U)
<1> SUFFICES ASSUME NEW g \in S PROVE \E h \in U : Keeps(g, h)
  BY DEF Grows
<1>1. PICK h \in T : Keeps(g, h)
  BY DEF Grows
<1>2. PICK i \in U : Keeps(h, i)
  BY DEF Grows
<1>3. /\ SameName(g, i) /\ SamePlace(g, i)
      /\ g.codes \subseteq i.codes /\ g.edges \subseteq i.edges /\ g.effective = i.effective
  BY <1>1, <1>2 DEF Keeps, SameName, SamePlace
<1> QED
  BY <1>3 DEF Keeps

\* A graph that grows still holds what it held.
LEMMA StillHolds ==
    ASSUME NEW S, NEW T, NEW f, Grows(S, T), Holds(S, f)
    PROVE  Holds(T, f)
<1>1. PICK h \in S : SameName(f, h) /\ f.codes \subseteq h.codes
  BY DEF Holds
<1>2. PICK i \in T : Keeps(h, i)
  BY DEF Grows
<1>3. SameName(f, i) /\ f.codes \subseteq i.codes
  BY <1>1, <1>2 DEF Keeps, SameName
<1> QED
  BY <1>3 DEF Holds

\* a node with the lists, codes and edges of f as well
Joined(g, f) == [g EXCEPT !.lists = @ \union f.lists, !.codes = @ \union f.codes,
                          !.edges = @ \union f.edges]

\* A node is the record of its components.
LEMMA NodeIs ==
    \A g \in Nodes :
      g = [name |-> g.name, tag |-> g.tag, sub |-> g.sub, place |-> g.place, from |-> g.from,
           length |-> g.length, lists |-> g.lists, codes |-> g.codes, digits |-> g.digits,
           required |-> g.required, effective |-> g.effective, edges |-> g.edges]
  BY DEF Nodes

\* The components of a node.
LEMMA NodeType ==
    \A g \in Nodes :
      /\ g.name \in Texts \union {"code", "SKIP"} /\ g.tag \in Tags \union {"SKIP", "none"}
      /\ g.sub \in Texts \union {"none"} /\ g.place \in Seq(Nat) /\ g.from \in Nat
      /\ g.length \in Nat /\ g.lists \subseteq Nat /\ g.codes \subseteq Codes /\ g.digits \in Nat
      /\ g.required \in BOOLEAN /\ g.effective \in BOOLEAN /\ g.edges \subseteq {"CONTAINED_IN", "REQUIRES"}
  BY DEF Nodes

\* A joined node is a node, keeps the one and has the codes of the other.
LEMMA JoinedIs ==
    ASSUME NEW g, NEW f, NodeOK(g), NodeOK(f)
    PROVE  NodeOK(Joined(g, f)) /\ Keeps(g, Joined(g, f)) /\ f.codes \subseteq Joined(g, f).codes
<1> DEFINE C == g.codes \union f.codes
           E == g.edges \union f.edges
           L == g.lists \union f.lists
           h == Joined(g, f)
<1>1. g \in Nodes /\ f \in Nodes /\ (g.length # 0 => g.from # 0)
  BY DEF NodeOK
<1>2. L \subseteq Nat /\ C \subseteq Codes /\ E \subseteq {"CONTAINED_IN", "REQUIRES"}
  BY <1>1, NodeType
<1>3. g = [name |-> g.name, tag |-> g.tag, sub |-> g.sub, place |-> g.place, from |-> g.from,
           length |-> g.length, lists |-> g.lists, codes |-> g.codes, digits |-> g.digits,
           required |-> g.required, effective |-> g.effective, edges |-> g.edges]
  BY <1>1, NodeIs
<1>4. h = [g EXCEPT !.lists = L, !.codes = C, !.edges = E]
  BY <1>3 DEF Joined
<1>s. g.codes \subseteq C /\ f.codes \subseteq C /\ g.edges \subseteq E
  OBVIOUS
<1> HIDE DEF h, C, E, L
<1>5. h = [name |-> g.name, tag |-> g.tag, sub |-> g.sub, place |-> g.place, from |-> g.from,
           length |-> g.length, lists |-> L, codes |-> C, digits |-> g.digits,
           required |-> g.required, effective |-> g.effective, edges |-> E]
  BY <1>3, <1>4
<1>6. L \in SUBSET Nat /\ C \in SUBSET Codes /\ E \in SUBSET {"CONTAINED_IN", "REQUIRES"}
  BY <1>2
<1>7. h \in Nodes
  <2>1. /\ g.name \in Texts \union {"code", "SKIP"} /\ g.tag \in Tags \union {"SKIP", "none"}
        /\ g.sub \in Texts \union {"none"} /\ g.place \in Seq(Nat) /\ g.from \in Nat
        /\ g.length \in Nat /\ g.digits \in Nat
        /\ g.required \in BOOLEAN /\ g.effective \in BOOLEAN
    BY <1>1, NodeType
  <2> QED
    BY <2>1, <1>5, <1>6 DEF Nodes
<1>8. /\ h.name = g.name /\ h.tag = g.tag /\ h.sub = g.sub /\ h.place = g.place
      /\ h.from = g.from /\ h.length = g.length /\ h.codes = C
      /\ h.edges = E /\ h.effective = g.effective
  BY <1>5
<1>9. NodeOK(h)
  BY <1>1, <1>7, <1>8 DEF NodeOK
<1>10. Keeps(g, h)
  BY <1>8, <1>s DEF Keeps, SameName, SamePlace
<1> QED
  BY <1>8, <1>9, <1>10, <1>s DEF h

\* A merge leaves a graph that has grown and holds the new field.
LEMMA MergeGives ==
    ASSUME NEW S, NEW f, Graph(S), NodeOK(f)
    PROVE  Graph(Merge(S, f)) /\ Grows(S, Merge(S, f)) /\ Holds(Merge(S, f), f)
<1>1. CASE \E g \in S : SameName(f, g)
  <2> DEFINE F == [g \in S |-> IF SameName(f, g) THEN Joined(g, f) ELSE g]
             T == {F[g] : g \in S}
  <2>1. Merge(S, f) = {IF SameName(f, g) THEN Joined(g, f) ELSE g : g \in S}
    BY <1>1 DEF Merge, Joined
  <2>2. Merge(S, f) = T
    BY <2>1
  <2>3. \A g \in S : F[g] = IF SameName(f, g) THEN Joined(g, f) ELSE g
    OBVIOUS
  <2> HIDE DEF F
  <2>4. IsFiniteSet(T)
    BY ImageFinite DEF Graph
  <2>5. \A g \in S : NodeOK(F[g]) /\ Keeps(g, F[g])
    <3> SUFFICES ASSUME NEW g \in S PROVE NodeOK(F[g]) /\ Keeps(g, F[g])
      OBVIOUS
    <3>1. NodeOK(g)
      BY DEF Graph
    <3>2. CASE SameName(f, g)
      BY <2>3, <3>1, <3>2, JoinedIs
    <3>3. CASE ~SameName(f, g)
      BY <2>3, <3>1, <3>3 DEF Keeps, SameName, SamePlace
    <3> QED
      BY <3>2, <3>3
  <2>6. Graph(T) /\ Grows(S, T)
    BY <2>4, <2>5 DEF Graph, Grows
  <2>7. Holds(T, f)
    <3>1. PICK g \in S : SameName(f, g)
      BY <1>1
    <3>2. NodeOK(g) /\ F[g] = Joined(g, f) /\ F[g] \in T
      BY <2>3, <3>1 DEF Graph
    <3>3. Keeps(g, F[g]) /\ f.codes \subseteq F[g].codes
      BY <3>2, JoinedIs
    <3>4. SameName(f, F[g])
      BY <3>1, <3>3 DEF Keeps, SameName
    <3> HIDE DEF T
    <3> QED
      BY <3>2, <3>3, <3>4 DEF Holds
  <2> QED
    BY <2>2, <2>6, <2>7
<1>2. CASE ~\E g \in S : SameName(f, g)
  <2>1. Merge(S, f) = S \union {f}
    BY <1>2 DEF Merge
  <2>2. IsFiniteSet(S \union {f})
    BY FS_AddElement DEF Graph
  <2>3. Graph(S \union {f})
    BY <2>2 DEF Graph
  <2>4. Grows(S, S \union {f})
    BY DEF Grows, Keeps, SameName, SamePlace
  <2>5. Holds(S \union {f}, f)
    BY DEF Holds, SameName
  <2> QED
    BY <2>1, <2>3, <2>4, <2>5
<1> QED
  BY <1>1, <1>2

\* materialize() keeps what there is and adds what is proposed.
LEMMA MergeAll ==
    ASSUME NEW S, NEW q \in Seq(Nodes), Graph(S), \A i \in 1..Len(q) : NodeOK(q[i])
    PROVE  LET T == FoldLeft(Merge, S, q)
           IN Graph(T) /\ Grows(S, T) /\ \A i \in 1..Len(q) : Holds(T, q[i])
<1>1. PICK c : /\ c[0] = S /\ \A i \in 1..Len(q) : c[i] = Merge(c[i - 1], q[i])
               /\ c[Len(q)] = FoldLeft(Merge, S, q)
  BY MergeSteps
<1> DEFINE n == Len(q)
           Good(i) == Graph(c[i]) /\ Grows(S, c[i]) /\ \A j \in 1..i : Holds(c[i], q[j])
           T == {i \in 0..n : ~Good(i)}
<1>2. n \in Nat
  OBVIOUS
<1> HIDE DEF n
<1>3. T = {}
  <2> SUFFICES ASSUME T # {} PROVE FALSE
    OBVIOUS
  <2>1. T \subseteq Nat
    BY <1>2
  <2>2. PICK i \in T : \A j \in T : i <= j
    <3> HIDE DEF T
    <3> QED
      BY <2>1, LeastOf
  <2>3. i \in 0..n /\ ~Good(i)
    BY <2>2
  <2>4. CASE i = 0
    <3>1. Graph(c[0]) /\ Grows(S, c[0]) /\ 1..0 = {}
      BY <1>1, KeepsItself
    <3> QED
      BY <2>3, <2>4, <3>1
  <2>5. CASE i # 0
    <3>1. i \in 1..n /\ i - 1 \in 0..n
      BY <1>2, <2>3, <2>5
    <3>2. Good(i - 1)
      BY <2>2, <3>1, <1>2
    <3>3. c[i] = Merge(c[i - 1], q[i]) /\ NodeOK(q[i])
      BY <1>1, <3>1 DEF n
    <3>4. Graph(c[i]) /\ Grows(c[i - 1], c[i]) /\ Holds(c[i], q[i])
      BY <3>2, <3>3, MergeGives
    <3>5. Grows(S, c[i])
      BY <3>2, <3>4, GrowsOn
    <3>6. \A j \in 1..i : Holds(c[i], q[j])
      <4> SUFFICES ASSUME NEW j \in 1..i PROVE Holds(c[i], q[j])
        OBVIOUS
      <4>1. CASE j = i
        BY <3>4, <4>1
      <4>2. CASE j # i
        <5>1. j \in 1..(i - 1)
          BY <4>2, <3>1
        <5> QED
          BY <5>1, <3>2, <3>4, StillHolds
      <4> QED
        BY <4>1, <4>2
    <3> QED
      BY <2>3, <3>4, <3>5, <3>6
  <2> QED
    BY <2>4, <2>5
<1>4. Good(n)
  BY <1>2, <1>3
<1> QED
  BY <1>1, <1>4 DEF n

-----------------------------------------------------------------------------
(* The inductive invariant.                                                *)

\* while nothing is read, the graph has what the last document proposes
Represented ==
    Idle => \A i \in 1..Len(Proposals(fields)) : Holds(layout, Proposals(fields)[i])

\* what every reachable state satisfies
IInv ==
    /\ TypeOK
    /\ document \in Documents \union Reissues \union {<<>>}
    /\ Fitting(fields)
    /\ naming => fields # <<>>
    /\ Graph(layout)
    /\ ~Idle => imports < MaxImports
    /\ Represented

\* The pieces of what was read, and their gaps, are fields.
LEMMA PiecesOfAll ==
    ASSUME NEW s, Fitting(s)
    PROVE  AllPieces(s) \subseteq Fields /\ AllPieces(s) \union Gaps(AllPieces(s)) \subseteq Fields
<1>1. ASSUME NEW f \in Range(s), f.name # "none"
      PROVE  PiecesOf(f) \subseteq Fields
  <2>1. PICK i \in DOMAIN s : f = s[i]
    BY DEF Range
  <2>2. f \in ParsedFields /\ Fits(f)
    BY <2>1 DEF Fitting
  <2>3. f.name \in Texts \union {"code", "SKIP"}
    BY <2>2, <1>1, FieldType
  <2>4. f \in Fields
    BY <2>2, <2>3 DEF Fields
  <2> QED
    BY <2>4, PiecesFit
<1>2. AllPieces(s) \subseteq Fields
  BY <1>1 DEF AllPieces
<1> QED
  BY <1>2, GapsFit

\* parse_pdf returns fields.
LEMMA ParsedType ==
    ASSUME NEW s, Fitting(s)
    PROVE  Parsed(s) \in Seq(Fields)
<1>1. CASE Parsed(s) = <<>>
  BY <1>1
<1>2. CASE Lists(Parsed(s), AllPieces(s) \union Gaps(AllPieces(s)))
  <2> DEFINE A == AllPieces(s) \union Gaps(AllPieces(s))
             p == Parsed(s)
  <2>1. p \in Seq(A) /\ A \subseteq Fields
    BY <1>2, PiecesOfAll DEF Lists
  <2> HIDE DEF A, p
  <2>2. p \in Seq(Fields)
    BY <2>1, SeqMonotonic
  <2> QED
    BY <2>2 DEF p
<1> QED
  BY <1>1, <1>2, ParsedLists

\* build_extraction proposes nodes with positions.
LEMMA ProposalsOK ==
    ASSUME NEW s, Fitting(s)
    PROVE  /\ Proposals(s) \in Seq(Nodes)
           /\ \A i \in 1..Len(Proposals(s)) : NodeOK(Proposals(s)[i])
<1> DEFINE p == Parsed(s)
           S == {Proposal(p[i]) : i \in DOMAIN p}
           r == Proposals(s)
<1>1. p \in Seq(Fields)
  BY ParsedType
<1> HIDE DEF p
<1>2. \A i \in DOMAIN p : NodeOK(Proposal(p[i])) /\ Proposal(p[i]) \in Nodes
  <2>1. \A i \in DOMAIN p : p[i] \in Fields
    BY <1>1
  <2> QED
    BY <2>1, ProposalIs DEF NodeOK
<1>3. r \in Seq(S)
  BY <1>1, ProposalsAre DEF p
<1>4. S \subseteq Nodes /\ \A g \in S : NodeOK(g)
  BY <1>2
<1> HIDE DEF r, S
<1>5. r \in Seq(Nodes)
  BY <1>3, <1>4, SeqMonotonic
<1>6. \A i \in 1..Len(r) : r[i] \in S
  BY <1>3
<1> QED
  BY <1>4, <1>5, <1>6 DEF r

\* position_resolver gives a position whenever it gives a length.
LEMMA ResolveOK ==
    ASSUME NEW p, NodeOK(p), NEW rows \in Seq(Rows)
    PROVE  NodeOK(Resolve(p, rows))
<1> DEFINE found == {i \in DOMAIN rows : p.name \in rows[i].names /\ Usable(rows[i])}
           row == rows[Min(found)]
           l == LengthIn(row)
<1>1. Resolve(p, rows) = IF p.from # 0 \/ found = {} THEN p
                         ELSE [p EXCEPT !.from = row.lo, !.length = l]
  BY DEF Resolve
<1>2. found \subseteq 1..Len(rows) /\ found \subseteq Nat
  OBVIOUS
<1> HIDE DEF found
<1>3. CASE p.from # 0 \/ found = {}
  BY <1>1, <1>3
<1>4. CASE ~(p.from # 0 \/ found = {})
  <2>1. Min(found) \in 1..Len(rows)
    BY <1>2, <1>4, MinIn
  <2>2. row \in Rows
    BY <2>1
  <2> HIDE DEF row
  <2>3. row.lo \in Nat \ {0} /\ row.hi \in Nat
    BY <2>2 DEF Rows
  <2>4. l \in Nat
    BY <2>3 DEF LengthIn, Bare, Forwards
  <2> HIDE DEF l
  <2> DEFINE a == row.lo
             g == [p EXCEPT !.from = a, !.length = l]
  <2>a. a \in Nat /\ a # 0
    BY <2>3
  <2> HIDE DEF a
  <2>5. p \in Nodes
    BY DEF NodeOK
  <2>6. p = [name |-> p.name, tag |-> p.tag, sub |-> p.sub, place |-> p.place, from |-> p.from,
             length |-> p.length, lists |-> p.lists, codes |-> p.codes, digits |-> p.digits,
             required |-> p.required, effective |-> p.effective, edges |-> p.edges]
    BY <2>5, NodeIs
  <2>g. g = [p EXCEPT !.from = a, !.length = l]
    OBVIOUS
  <2> HIDE DEF g
  <2>7. g = [name |-> p.name, tag |-> p.tag, sub |-> p.sub, place |-> p.place, from |-> a,
             length |-> l, lists |-> p.lists, codes |-> p.codes, digits |-> p.digits,
             required |-> p.required, effective |-> p.effective, edges |-> p.edges]
    BY <2>6, <2>g
  <2>8. /\ p.name \in Texts \union {"code", "SKIP"} /\ p.tag \in Tags \union {"SKIP", "none"}
        /\ p.sub \in Texts \union {"none"} /\ p.place \in Seq(Nat) /\ p.lists \in SUBSET Nat
        /\ p.codes \in SUBSET Codes /\ p.digits \in Nat
        /\ p.required \in BOOLEAN /\ p.effective \in BOOLEAN
        /\ p.edges \in SUBSET {"CONTAINED_IN", "REQUIRES"}
    BY <2>5, NodeType
  <2>9. g \in Nodes
    BY <2>4, <2>a, <2>7, <2>8 DEF Nodes
  <2>10. g.from = a
    BY <2>7
  <2>11. NodeOK(g)
    BY <2>9, <2>10, <2>a DEF NodeOK
  <2> QED
    BY <1>1, <1>4, <2>11 DEF g, a
<1> QED
  BY <1>3, <1>4

\* The components of the line that is read.
LEMMA LineType ==
    ASSUME document \in Documents \union Reissues \union {<<>>}, at \in 0..(Len(document) + 1), Reading
    PROVE  /\ at \in 1..Len(document) /\ Len(document) \in Nat
           /\ Line.kind \in {"page", "header", "token", "text"}
           /\ Line.from \in Nat /\ Line.to \in Nat
           /\ Line.kind \in {"header", "token"} => Line.from # 0 /\ Line.from <= Line.to
           /\ Line.kind = "header" => Line.tag \in Tags
           /\ Line.kind = "text" => Line.tag \in Texts
<1>1. document \in Seq(Lines) /\ Len(document) \in Nat
  <2>1. \A d \in Documents \union Reissues : d \in Seq(Lines)
    BY WireAssumption
  <2>2. <<>> \in Seq(Lines)
    OBVIOUS
  <2>3. document \in Seq(Lines)
    BY <2>1, <2>2
  <2> QED
    BY <2>3
<1>2. at \in 1..Len(document)
  BY <1>1 DEF Reading, Idle
<1>3. document # <<>>
  BY <1>1, <1>2
<1>4. document \in Documents \union Reissues
  BY <1>3
<1>5. Line \in Lines
  BY <1>1, <1>2 DEF Line
<1>6. /\ Line.kind \in {"page", "header", "token", "text"} /\ Line.from \in Nat /\ Line.to \in Nat
  BY <1>5 DEF Lines
<1>7. at \in DOMAIN document
  BY <1>1, <1>2
<1>8. /\ Line.kind \in {"header", "token"} => Line.from \in 1..Line.to
      /\ Line.kind = "header" => Line.tag \in Tags
      /\ Line.kind = "text" => Line.tag \in Texts
  BY <1>4, <1>7, WireAssumption DEF Line
<1> QED
  BY <1>1, <1>2, <1>6, <1>8

\* A line leaves a list of pairs.
LEMMA WithLineType ==
    ASSUME document \in Documents \union Reissues \union {<<>>}, at \in 0..(Len(document) + 1),
           Reading, BodyLine, NEW q \in Seq(Pairs)
    PROVE  WithLine(q) \in Seq(Pairs)
<1>1. What \in Texts \union {"code"}
  BY LineType DEF What
<1>2. Line.from \in Nat /\ Line.to \in Nat
  BY LineType
<1> DEFINE w == What
           new == [code |-> [lo |-> Line.from, hi |-> Line.to], desc |-> <<>>]
           n == Len(q)
<1>3. new \in Pairs
  BY <1>2 DEF Pairs, Codes
<1>4. CASE Line.kind = "token" /\ (q = <<>> \/ q[n].desc # <<>>)
  <2>1. WithLine(q) = Append(q, new)
    BY <1>4 DEF WithLine
  <2> HIDE DEF new
  <2> QED
    BY <1>3, <2>1, AppendProperties
<1>5. CASE ~(Line.kind = "token" /\ (q = <<>> \/ q[n].desc # <<>>)) /\ q = <<>>
  BY <1>5 DEF WithLine
<1>6. CASE ~(Line.kind = "token" /\ (q = <<>> \/ q[n].desc # <<>>)) /\ q # <<>>
  <2> DEFINE d == Append(q[n].desc, w)
             e == [q[n] EXCEPT !.desc = d]
  <2>1. n \in 1..n /\ n \in Nat /\ q[n] \in Pairs
    BY <1>6
  <2>2. WithLine(q) = [q EXCEPT ![n].desc = Append(@, w)]
    BY <1>6 DEF WithLine
  <2>3. WithLine(q) = [q EXCEPT ![n] = e]
    BY <2>1, <2>2
  <2> HIDE DEF w
  <2>4. d \in Seq(Texts \union {"code"})
    BY <2>1, <1>1 DEF Pairs, w
  <2> HIDE DEF d
  <2>5. e \in Pairs
    BY <2>1, <2>4 DEF Pairs
  <2> HIDE DEF e, n, new
  <2>6. [q EXCEPT ![n] = e] \in Seq(Pairs)
    BY <2>1, <2>5, ExceptSeq DEF n
  <2> QED
    BY <2>3, <2>6
<1> QED
  BY <1>4, <1>5, <1>6

\* IInv holds initially.
LEMMA InitHolds == Init => IInv
<1> SUFFICES ASSUME Init PROVE IInv
  OBVIOUS
<1>1. /\ document = <<>> /\ at = 0 /\ fields = <<>> /\ naming = FALSE /\ in_body = FALSE
      /\ layout = {} /\ imports = 0
  BY DEF Init
<1>2. TypeOK
  <2>1. <<>> \in Seq(Lines) /\ Len(<<>>) = 0 /\ <<>> \in Seq(ParsedFields)
    OBVIOUS
  <2>2. 0 \in 0..MaxImports
    BY WireAssumption
  <2>3. document \in Seq(Lines) /\ Len(document) = 0 /\ fields \in Seq(ParsedFields)
    BY <1>1, <2>1
  <2>4. at \in 0..(Len(document) + 1)
    BY <1>1, <2>3
  <2> QED
    BY <1>1, <2>2, <2>3, <2>4 DEF TypeOK
<1>3. Fitting(fields)
  BY <1>1 DEF Fitting
<1>4. Graph(layout)
  BY <1>1, FS_EmptySet DEF Graph
<1>5. Parsed(fields) = <<>>
  <2>1. AllPieces(fields) = {}
    BY <1>1 DEF AllPieces, Range
  <2> DEFINE named == Subsequence(fields, {i \in DOMAIN fields : fields[i].name # "none"})
             S == {i \in DOMAIN fields : fields[i].name # "none"}
  <2>2. S = {} /\ S \subseteq DOMAIN fields /\ fields \in Seq(ParsedFields)
    BY <1>1, <1>2 DEF TypeOK
  <2>3. Lists(Subsequence(fields, S), {fields[i] : i \in S})
    <3> HIDE DEF S
    <3> QED
      BY <2>2, SubsequenceLists
  <2>4. {fields[i] : i \in S} = {}
    BY <2>2
  <2>5. named \in Seq({})
    BY <2>3, <2>4 DEF Lists
  <2> HIDE DEF named
  <2>6. named = <<>>
    BY <2>5
  <2> QED
    BY <2>6 DEF Parsed, named
<1>6. Represented
  <2>1. Fitting(fields) /\ Parsed(fields) \in Seq(Fields)
    BY <1>3, <1>5
  <2> DEFINE p == Parsed(fields)
             r == Proposals(fields)
  <2>2. r \in Seq({Proposal(p[i]) : i \in DOMAIN p})
    BY <2>1, ProposalsAre
  <2>3. {Proposal(p[i]) : i \in DOMAIN p} = {}
    BY <1>5
  <2> HIDE DEF r, p
  <2>4. r \in Seq({})
    BY <2>2, <2>3
  <2>5. \A i \in 1..Len(r) : FALSE
    BY <2>4
  <2> QED
    BY <2>5 DEF Represented, r
<1> QED
  BY <1>1, <1>2, <1>3, <1>4, <1>6 DEF IInv, Idle

\* A new document keeps IInv.
LEMMA BeginKeeps ==
    ASSUME IInv, NEW d \in Documents \union Reissues, Begin(d)
    PROVE  IInv'
<1>1. /\ document' = d /\ at' = 1 /\ fields' = <<>> /\ naming' = FALSE /\ in_body' = FALSE
      /\ layout' = layout /\ imports' = imports
  BY DEF Begin
<1>2. d \in Seq(Lines) /\ Len(d) \in Nat
  <2>1. d \in Seq(Lines)
    BY WireAssumption
  <2> QED
    BY <2>1
<1>3. TypeOK'
  <2>1. <<>> \in Seq(ParsedFields) /\ 1 \in 0..(Len(d) + 1)
    BY <1>2
  <2>2. layout \subseteq Nodes /\ imports \in 0..MaxImports
    BY DEF IInv, TypeOK
  <2> QED
    BY <1>1, <1>2, <2>1, <2>2 DEF TypeOK
<1>4. Fitting(fields)'
  BY <1>1 DEF Fitting
<1>5. Graph(layout)'
  BY <1>1 DEF IInv, Graph
<1>6. Represented'
  BY <1>1 DEF Represented, Idle
<1>7. imports < MaxImports
  BY DEF Begin
<1> QED
  BY <1>1, <1>3, <1>4, <1>5, <1>6, <1>7 DEF IInv

\* a line that changes the list of fields at most
LEMMA LineKeeps ==
    ASSUME IInv, Reading, NextLine, fields' \in Seq(ParsedFields), naming' \in BOOLEAN,
           in_body' \in BOOLEAN, Fitting(fields'), naming' => fields' # <<>>
    PROVE  IInv'
<1>1. at' = at + 1 /\ document' = document /\ layout' = layout /\ imports' = imports
  BY DEF NextLine
<1>2. TypeOK /\ document \in Documents \union Reissues \union {<<>>} /\ Graph(layout)
  BY DEF IInv
<1>3. at \in 1..Len(document) /\ Len(document) \in Nat
  BY <1>2, LineType DEF TypeOK
<1>4. TypeOK'
  <2>1. at + 1 \in 0..(Len(document) + 1)
    BY <1>3
  <2> QED
    BY <1>1, <1>2, <2>1 DEF TypeOK
<1>5. Represented'
  BY <1>1, <1>3 DEF Represented, Idle
<1>6. Graph(layout)'
  BY <1>1, <1>2 DEF Graph
<1>7. Fitting(fields)'
  OBVIOUS
<1>8. imports < MaxImports
  BY DEF IInv, Reading
<1> QED
  BY <1>1, <1>2, <1>4, <1>5, <1>6, <1>7, <1>8 DEF IInv

\* A fitting field may be added.
LEMMA FieldAdded ==
    ASSUME NEW s, Fitting(s), NEW f \in ParsedFields, Fits(f)
    PROVE  Fitting(Append(s, f)) /\ Append(s, f) \in Seq(ParsedFields) /\ Append(s, f) # <<>>
<1> DEFINE t == Append(s, f)
<1>1. s \in Seq(ParsedFields)
  BY DEF Fitting
<1>2. /\ t \in Seq(ParsedFields) /\ t # <<>> /\ Len(t) = Len(s) + 1 /\ t[Len(s) + 1] = f
      /\ \A i \in 1..Len(s) : t[i] = s[i]
  BY <1>1, AppendProperties
<1> HIDE DEF t
<1>3. \A i \in DOMAIN t : Fits(t[i])
  <2> SUFFICES ASSUME NEW i \in DOMAIN t PROVE Fits(t[i])
    OBVIOUS
  <2>1. i \in 1..(Len(s) + 1) /\ Len(s) \in Nat
    BY <1>1, <1>2
  <2>2. CASE i = Len(s) + 1
    BY <1>2, <2>2
  <2>3. CASE i # Len(s) + 1
    <3>1. i \in DOMAIN s /\ t[i] = s[i]
      BY <1>1, <1>2, <2>1, <2>3
    <3> QED
      BY <3>1 DEF Fitting
  <2> QED
    BY <2>2, <2>3
<1>4. Fitting(t)
  BY <1>2, <1>3 DEF Fitting
<1> QED
  BY <1>2, <1>4 DEF t

\* A field may be changed to a fitting one.
LEMMA FieldChanged ==
    ASSUME NEW s, Fitting(s), NEW n \in DOMAIN s, NEW f \in ParsedFields, Fits(f)
    PROVE  Fitting([s EXCEPT ![n] = f]) /\ [s EXCEPT ![n] = f] \in Seq(ParsedFields)
<1> DEFINE t == [s EXCEPT ![n] = f]
<1>1. s \in Seq(ParsedFields)
  BY DEF Fitting
<1>2. t \in Seq(ParsedFields)
  BY <1>1
<1>3. \A i \in DOMAIN t : i \in DOMAIN s /\ t[i] = IF i = n THEN f ELSE s[i]
  OBVIOUS
<1> HIDE DEF t
<1>4. \A i \in DOMAIN t : Fits(t[i])
  BY <1>3 DEF Fitting
<1>5. Fitting(t)
  BY <1>2, <1>4 DEF Fitting
<1> QED
  BY <1>2, <1>5 DEF t

\* A header keeps IInv.
LEMMA ReadHeaderKeeps == IInv /\ ReadHeader => IInv'
<1> SUFFICES ASSUME IInv, ReadHeader PROVE IInv'
  OBVIOUS
<1> DEFINE a == Line.from
           l == Line.to - Line.from + 1
           f == [name |-> "none", tag |-> Line.tag, sub |-> "none", from |-> a,
                 length |-> l, pairs |-> <<>>]
<1>1. /\ Reading /\ Line.kind = "header" /\ NextLine
      /\ fields' = Append(fields, f) /\ naming' = TRUE /\ in_body' = TRUE
  BY DEF ReadHeader
<1>2. Fitting(fields) /\ TypeOK /\ document \in Documents \union Reissues \union {<<>>}
  BY DEF IInv
<1>3. a \in Nat /\ a # 0 /\ l \in Int /\ l > 0 /\ Line.tag \in Tags
  <2>1. /\ Line.from \in Nat /\ Line.to \in Nat /\ Line.from # 0 /\ Line.from <= Line.to
        /\ Line.tag \in Tags
    BY <1>1, <1>2, LineType DEF TypeOK
  <2> QED
    BY <2>1
<1>4. f \in ParsedFields /\ f.from = a /\ f.length = l
  <2>1. <<>> \in Seq(Pairs)
    OBVIOUS
  <2> HIDE DEF a, l
  <2> QED
    BY <1>3, <2>1 DEF ParsedFields
<1> HIDE DEF f, a, l
<1>5. Fits(f)
  BY <1>3, <1>4 DEF Fits
<1>6. Fitting(fields') /\ fields' \in Seq(ParsedFields) /\ fields' # <<>>
  BY <1>1, <1>2, <1>4, <1>5, FieldAdded
<1> QED
  BY <1>1, <1>6, LineKeeps

\* A SKIP of columns is a field.
LEMMA SkipFits ==
    ASSUME NEW a \in Nat \ {0}, NEW b \in Nat, a <= b
    PROVE  Skip(a, b) \in Fields
<1> DEFINE l == b - a + 1
<1>1. l \in Int /\ l > 0 /\ <<>> \in Seq(Pairs)
  OBVIOUS
<1>2. Skip(a, b) = [name |-> "SKIP", tag |-> "SKIP", sub |-> "none", from |-> a,
                    length |-> l, pairs |-> <<>>]
  BY DEF Skip
<1> HIDE DEF l
<1>3. Skip(a, b) \in ParsedFields
  BY <1>1, <1>2 DEF ParsedFields
<1> QED
  BY <1>1, <1>2, <1>3 DEF Fields, Fits

\* A SKIP header keeps IInv.
LEMMA ReadSkipKeeps == IInv /\ ReadSkip => IInv'
<1> SUFFICES ASSUME IInv, ReadSkip PROVE IInv'
  OBVIOUS
<1> DEFINE f == Skip(Line.from, Line.to)
<1>1. /\ Reading /\ SkipHeader /\ NextLine
      /\ fields' = Append(fields, f) /\ naming' = FALSE /\ in_body' = TRUE
  BY DEF ReadSkip
<1>2. Fitting(fields) /\ TypeOK /\ document \in Documents \union Reissues \union {<<>>}
  BY DEF IInv
<1>3. Line.from \in Nat \ {0} /\ Line.to \in Nat /\ Line.from <= Line.to
  BY <1>1, <1>2, LineType DEF TypeOK, SkipHeader
<1>4. f \in ParsedFields /\ Fits(f)
  BY <1>3, SkipFits DEF Fields
<1> HIDE DEF f
<1>5. Fitting(fields') /\ fields' \in Seq(ParsedFields) /\ fields' # <<>>
  BY <1>1, <1>2, <1>4, FieldAdded
<1> QED
  BY <1>1, <1>5, LineKeeps

\* the current field
LEMMA CurrentField ==
    ASSUME Fitting(fields), fields # <<>>
    PROVE  /\ Len(fields) \in DOMAIN fields /\ Len(fields) \in Nat \ {0}
           /\ fields[Len(fields)] \in ParsedFields /\ Fits(fields[Len(fields)])
<1>1. fields \in Seq(ParsedFields)
  BY DEF Fitting
<1>2. Len(fields) \in DOMAIN fields /\ Len(fields) \in Nat \ {0}
  BY <1>1
<1> QED
  BY <1>1, <1>2 DEF Fitting

\* A name keeps IInv.
LEMMA ReadNameKeeps == IInv /\ ReadName => IInv'
<1> SUFFICES ASSUME IInv, ReadName PROVE IInv'
  OBVIOUS
<1> DEFINE n == Len(fields)
           f == fields[n]
           w == What
           g == [f EXCEPT !.name = w]
<1>1. /\ Reading /\ BodyLine /\ naming /\ NextLine
      /\ fields' = [fields EXCEPT ![n].name = w] /\ naming' = FALSE /\ in_body' = in_body
  BY DEF ReadName
<1>2. /\ Fitting(fields) /\ TypeOK /\ document \in Documents \union Reissues \union {<<>>}
      /\ fields # <<>> /\ in_body \in BOOLEAN
  BY <1>1 DEF IInv, TypeOK
<1>3. w \in Texts \union {"code"}
  BY <1>1, <1>2, LineType DEF TypeOK, BodyLine, What
<1>4. n \in DOMAIN fields /\ n \in Nat \ {0} /\ f \in ParsedFields /\ Fits(f)
  BY <1>2, CurrentField
<1> HIDE DEF w
<1>5. fields' = [fields EXCEPT ![n] = g]
  BY <1>1, <1>4
<1>f. f = [name |-> f.name, tag |-> f.tag, sub |-> f.sub, from |-> f.from,
           length |-> f.length, pairs |-> f.pairs]
  BY <1>4, FieldIs
<1> HIDE DEF f, n
<1>6. g = [name |-> w, tag |-> f.tag, sub |-> f.sub, from |-> f.from,
           length |-> f.length, pairs |-> f.pairs]
  <2>1. g = [f EXCEPT !.name = w]
    OBVIOUS
  <2> HIDE DEF g
  <2> QED
    BY <1>f, <2>1
<1> HIDE DEF g
<1>7. g \in ParsedFields
  <2>1. /\ w \in Texts \union {"none", "code", "SKIP"} /\ f.tag \in Tags \union {"SKIP"}
        /\ f.sub \in Texts \union {"none"} /\ f.from \in Nat /\ f.length \in Int /\ f.pairs \in Seq(Pairs)
    BY <1>3, <1>4, FieldType
  <2> QED
    BY <1>6, <2>1 DEF ParsedFields
<1>8. Fits(g)
  BY <1>4, <1>6 DEF Fits
<1>9. Fitting(fields') /\ fields' \in Seq(ParsedFields)
  BY <1>2, <1>4, <1>5, <1>7, <1>8, FieldChanged
<1> QED
  BY <1>1, <1>2, <1>9, LineKeeps

\* A line of a list keeps IInv.
LEMMA ReadBodyKeeps == IInv /\ ReadBody => IInv'
<1> SUFFICES ASSUME IInv, ReadBody PROVE IInv'
  OBVIOUS
<1> DEFINE n == Len(fields)
           f == fields[n]
           q == WithLine(f.pairs)
           g == [f EXCEPT !.pairs = q]
<1>1. /\ Reading /\ BodyLine /\ ~naming /\ fields # <<>> /\ NextLine
      /\ fields' = [fields EXCEPT ![n].pairs = WithLine(@)]
      /\ naming' = naming /\ in_body' = in_body
  BY DEF ReadBody
<1>2. /\ Fitting(fields) /\ TypeOK /\ document \in Documents \union Reissues \union {<<>>}
      /\ in_body \in BOOLEAN /\ naming \in BOOLEAN
  BY DEF IInv, TypeOK
<1>4. n \in DOMAIN fields /\ n \in Nat \ {0} /\ f \in ParsedFields /\ Fits(f)
  BY <1>1, <1>2, CurrentField
<1>3. q \in Seq(Pairs)
  <2>1. f.pairs \in Seq(Pairs) /\ at \in 0..(Len(document) + 1)
    BY <1>2, <1>4, FieldType DEF TypeOK
  <2> QED
    BY <1>1, <1>2, <2>1, WithLineType
<1>5. fields' = [fields EXCEPT ![n] = g]
  BY <1>1, <1>4
<1>f. f = [name |-> f.name, tag |-> f.tag, sub |-> f.sub, from |-> f.from,
           length |-> f.length, pairs |-> f.pairs]
  BY <1>4, FieldIs
<1> HIDE DEF f, n, q
<1>6. g = [name |-> f.name, tag |-> f.tag, sub |-> f.sub, from |-> f.from,
           length |-> f.length, pairs |-> q]
  <2>1. g = [f EXCEPT !.pairs = q]
    OBVIOUS
  <2> HIDE DEF g
  <2> QED
    BY <1>f, <2>1
<1> HIDE DEF g
<1>7. g \in ParsedFields
  <2>1. /\ f.name \in Texts \union {"none", "code", "SKIP"} /\ f.tag \in Tags \union {"SKIP"}
        /\ f.sub \in Texts \union {"none"} /\ f.from \in Nat /\ f.length \in Int
    BY <1>4, FieldType
  <2> QED
    BY <1>3, <1>6, <2>1 DEF ParsedFields
<1>8. Fits(g)
  BY <1>4, <1>6 DEF Fits
<1>9. Fitting(fields') /\ fields' \in Seq(ParsedFields)
  BY <1>2, <1>4, <1>5, <1>7, <1>8, FieldChanged
<1>10. naming' => fields' # <<>>
  BY <1>1
<1> QED
  BY <1>1, <1>2, <1>9, <1>10, LineKeeps

\* A line that is passed over keeps IInv.
LEMMA QuietLineKeeps ==
    ASSUME IInv, Reading, NextLine, fields' = fields, naming' = naming, in_body' \in BOOLEAN
    PROVE  IInv'
<1>1. /\ Fitting(fields) /\ fields \in Seq(ParsedFields) /\ naming \in BOOLEAN
      /\ naming => fields # <<>>
  BY DEF IInv, TypeOK
<1>2. /\ Fitting(fields') /\ fields' \in Seq(ParsedFields) /\ naming' \in BOOLEAN
      /\ naming' => fields' # <<>>
  BY <1>1
<1> QED
  BY <1>2, LineKeeps

\* The end of a document keeps IInv.
LEMMA FinishKeeps == IInv /\ Finish => IInv'
<1> SUFFICES ASSUME IInv, Finish PROVE IInv'
  OBVIOUS
<1> DEFINE q == Proposals(fields)
<1>1. /\ layout' = FoldLeft(Merge, layout, q) /\ at' = 0 /\ imports' = imports + 1
      /\ document' = document /\ fields' = fields /\ naming' = naming /\ in_body' = in_body
      /\ ~Idle
  BY DEF Finish
<1>2. /\ Fitting(fields) /\ TypeOK /\ Graph(layout) /\ imports < MaxImports
      /\ document \in Documents \union Reissues \union {<<>>} /\ (naming => fields # <<>>)
  BY <1>1 DEF IInv
<1>3. q \in Seq(Nodes) /\ \A i \in 1..Len(q) : NodeOK(q[i])
  BY <1>2, ProposalsOK
<1> HIDE DEF q
<1>4. Graph(layout') /\ \A i \in 1..Len(q) : Holds(layout', q[i])
  BY <1>1, <1>2, <1>3, MergeAll
<1>5. TypeOK'
  <2>1. imports + 1 \in 0..MaxImports
    BY <1>2, WireAssumption DEF TypeOK
  <2>2. layout' \subseteq Nodes
    BY <1>4 DEF Graph, NodeOK
  <2>3. 0 \in 0..(Len(document) + 1)
    BY <1>2 DEF TypeOK
  <2> QED
    BY <1>1, <1>2, <2>1, <2>2, <2>3 DEF TypeOK
<1>6. Proposals(fields') = q
  BY <1>1 DEF q
<1>7. Represented'
  BY <1>4, <1>6 DEF Represented
<1>8. Fitting(fields)' /\ Graph(layout)' /\ Idle'
  BY <1>1, <1>2, <1>4 DEF Idle
<1> QED
  BY <1>1, <1>2, <1>5, <1>7, <1>8 DEF IInv

\* A replayed extraction proposes nodes with positions.
LEMMA ReplayedOK ==
    ASSUME NEW x \in Extractions
    PROVE  LET q == [i \in DOMAIN x.proposals |-> Resolve(x.proposals[i], x.rows)]
           IN q \in Seq(Nodes) /\ \A i \in 1..Len(q) : NodeOK(q[i])
<1> DEFINE q == [i \in DOMAIN x.proposals |-> Resolve(x.proposals[i], x.rows)]
<1> SUFFICES q \in Seq(Nodes) /\ \A i \in 1..Len(q) : NodeOK(q[i])
  OBVIOUS
<1> DEFINE p == x.proposals
<1>1. /\ p \in Seq(Nodes) /\ x.rows \in Seq(Rows)
      /\ \A i \in DOMAIN p : p[i].length # 0 => p[i].from # 0
  BY WireAssumption
<1> HIDE DEF p
<1>2. DOMAIN p = 1..Len(p) /\ Len(p) \in Nat /\ \A i \in 1..Len(p) : NodeOK(p[i])
  BY <1>1 DEF NodeOK
<1>3. \A i \in 1..Len(p) : NodeOK(Resolve(p[i], x.rows))
  BY <1>1, <1>2, ResolveOK
<1>4. q = [i \in 1..Len(p) |-> Resolve(p[i], x.rows)]
  BY <1>2 DEF p
<1>5. \A i \in 1..Len(p) : Resolve(p[i], x.rows) \in Nodes
  BY <1>3 DEF NodeOK
<1>6. q \in [1..Len(p) -> Nodes] /\ \A i \in 1..Len(p) : NodeOK(q[i])
  BY <1>3, <1>4, <1>5
<1> HIDE DEF q
<1> QED
  BY <1>2, <1>6

\* what an import adds leaves what is there
LEMMA ReplayKeeps ==
    ASSUME IInv, NEW x \in Extractions, Replay(x)
    PROVE  IInv'
<1> DEFINE q == [i \in DOMAIN x.proposals |-> Resolve(x.proposals[i], x.rows)]
<1>1. /\ layout' = FoldLeft(Merge, layout, q) /\ at' = at /\ imports' = imports + 1
      /\ document' = document /\ fields' = fields /\ naming' = naming /\ in_body' = in_body
      /\ Idle /\ imports < MaxImports
  BY DEF Replay
<1>2. /\ Fitting(fields) /\ TypeOK /\ Graph(layout) /\ Represented
      /\ document \in Documents \union Reissues \union {<<>>} /\ (naming => fields # <<>>)
  BY DEF IInv
<1>3. q \in Seq(Nodes) /\ \A i \in 1..Len(q) : NodeOK(q[i])
  BY ReplayedOK
<1> HIDE DEF q
<1>4. Graph(layout') /\ Grows(layout, layout')
  BY <1>1, <1>2, <1>3, MergeAll
<1>5. TypeOK'
  <2>1. imports + 1 \in 0..MaxImports
    BY <1>1, <1>2, WireAssumption DEF TypeOK
  <2>2. layout' \subseteq Nodes
    BY <1>4 DEF Graph, NodeOK
  <2> QED
    BY <1>1, <1>2, <2>1, <2>2 DEF TypeOK
<1>7. Represented'
  <2> DEFINE r == Proposals(fields)
  <2>1. \A i \in 1..Len(r) : Holds(layout, r[i])
    BY <1>1, <1>2 DEF Represented
  <2>2. \A i \in 1..Len(r) : Holds(layout', r[i])
    BY <2>1, <1>4, StillHolds
  <2>3. Proposals(fields') = r
    BY <1>1
  <2> HIDE DEF r
  <2> QED
    BY <2>2, <2>3 DEF Represented
<1>8. Fitting(fields)' /\ Graph(layout)' /\ Idle'
  BY <1>1, <1>2, <1>4 DEF Idle
<1> QED
  BY <1>1, <1>2, <1>5, <1>7, <1>8 DEF IInv

\* Every step keeps IInv.
LEMMA NextKeeps == IInv /\ [Next]_vars => IInv'
<1> SUFFICES ASSUME IInv, [Next]_vars PROVE IInv'
  OBVIOUS
<1>1. CASE \E d \in IF imports = 0 THEN Documents ELSE Reissues : Begin(d)
  BY <1>1, BeginKeeps
<1>2. CASE \E x \in Extractions : Replay(x)
  BY <1>2, ReplayKeeps
<1>3. CASE NewPage
  BY <1>3, QuietLineKeeps DEF NewPage
<1>4. CASE Ignore
  <2>1. in_body \in BOOLEAN
    BY DEF IInv, TypeOK
  <2> QED
    BY <1>4, <2>1, QuietLineKeeps DEF Ignore
<1>5. CASE ReadHeader
  BY <1>5, ReadHeaderKeeps
<1>6. CASE ReadSkip
  BY <1>6, ReadSkipKeeps
<1>7. CASE ReadName
  BY <1>7, ReadNameKeeps
<1>8. CASE ReadBody
  BY <1>8, ReadBodyKeeps
<1>9. CASE Finish
  BY <1>9, FinishKeeps
<1>10. CASE UNCHANGED vars
  <2>1. /\ document' = document /\ at' = at /\ fields' = fields /\ naming' = naming
        /\ in_body' = in_body /\ layout' = layout /\ imports' = imports
    BY <1>10 DEF vars
  <2>2. TypeOK' /\ Fitting(fields') /\ Graph(layout') /\ Represented' /\ Idle' = Idle
    BY <2>1 DEF IInv, TypeOK, Represented, Idle
  <2> QED
    BY <2>1, <2>2 DEF IInv
<1> QED
  BY <1>1, <1>2, <1>3, <1>4, <1>5, <1>6, <1>7, <1>8, <1>9, <1>10 DEF Next

\* the inductive invariant of the module
THEOREM InvariantHolds == Spec => []IInv
<1> QED
  BY InitHolds, NextKeeps, PTL DEF Spec

\* Every reachable state has the type.
THEOREM TypeCorrect == Spec => []TypeOK
<1>1. IInv => TypeOK
  BY DEF IInv
<1> QED
  BY <1>1, InvariantHolds, PTL

\* what every parse has been made into
LEMMA EachPieceProposed ==
    ASSUME NEW s, Fitting(s), NEW p \in AllPieces(s) \union Gaps(AllPieces(s)), Parsed(s) # <<>>
    PROVE  \E k \in 1..Len(Proposals(s)), b \in AllPieces(s) \union Gaps(AllPieces(s)) :
             /\ SamePlace(p, b) /\ Len(p.pairs) <= Len(b.pairs)
             /\ Proposals(s)[k] = Proposal(b)
<1> DEFINE A == AllPieces(s) \union Gaps(AllPieces(s))
           q == Parsed(s)
<1>1. Lists(q, A) /\ A \subseteq Fields
  BY ParsedLists, PiecesOfAll
<1>2. q \in Seq(Fields) /\ p \in A
  BY ParsedType
<1> HIDE DEF A
<1>q. q = Parsed(s)
  OBVIOUS
<1> HIDE DEF q
<1>3. PICK j \in 1..Len(q) : q[j] = p
  BY ONLY <1>1, <1>2 DEF Lists
<1>4. j \in DOMAIN q /\ \A i \in DOMAIN q : q[i] \in A
  <2>1. q \in Seq(A)
    BY <1>1 DEF Lists
  <2>2. j \in DOMAIN q
    BY ONLY <2>1
  <2>3. \A i \in DOMAIN q : q[i] \in A
    BY ONLY <2>1
  <2> QED
    BY <2>2, <2>3
<1>5. PICK k \in 1..Len(Proposals(s)), i \in DOMAIN q :
        SamePlace(q[j], q[i]) /\ Best(q, i) /\ Proposals(s)[k] = Proposal(q[i])
  <2>1. PlaceProposed(s, q, j)
    BY <1>2, <1>4, <1>q, ProposalsAre
  <2> QED
    BY ONLY <2>1 DEF PlaceProposed
<1>6. ~Supersedes(q, j, i)
  BY <1>4, <1>5 DEF Best
<1>7. SamePlace(q[i], q[j])
  BY <1>5 DEF SamePlace
<1>8. Len(q[j].pairs) \in Nat /\ Len(q[i].pairs) \in Nat
  <2>1. q[i] \in ParsedFields /\ q[j] \in ParsedFields
    BY <1>1, <1>4, <1>5 DEF Fields
  <2> QED
    BY <2>1, FieldType
<1>9. Len(q[j].pairs) <= Len(q[i].pairs)
  BY <1>6, <1>7, <1>8 DEF Supersedes
<1> QED
  BY <1>3, <1>4, <1>5, <1>9 DEF A

\* The columns of a record are those of a proposal.
LEMMA ColumnsProposed ==
    ASSUME NEW s, Fitting(s), Proposals(s) # <<>>, NEW c \in 1..RecordLength
    PROVE  \E k \in 1..Len(Proposals(s)) : c \in Columns(Proposals(s)[k])
<1> DEFINE A == AllPieces(s)
<1>1. Parsed(s) # <<>>
  <2> SUFFICES ASSUME Parsed(s) = <<>> PROVE FALSE
    OBVIOUS
  <2> DEFINE p == Parsed(s)
             r == Proposals(s)
  <2>1. p \in Seq(Fields) /\ p = Parsed(s) /\ p = <<>>
    OBVIOUS
  <2>2. r \in Seq({Proposal(p[i]) : i \in DOMAIN p})
    BY <2>1, ProposalsAre
  <2>3. {Proposal(p[i]) : i \in DOMAIN p} = {}
    BY <2>1
  <2> HIDE DEF r, p
  <2>4. r \in Seq({})
    BY <2>2, <2>3
  <2>5. r = <<>>
    BY <2>4
  <2> QED
    BY <2>5 DEF r
<1>2. PICK g \in A \union Gaps(A) : c \in Columns(g)
  <2>1. CASE c \in Occupied(A)
    BY <2>1 DEF Occupied
  <2>2. CASE c \notin Occupied(A)
    BY <2>2, GapsCover
  <2> QED
    BY <2>1, <2>2
<1>3. PICK k \in 1..Len(Proposals(s)), b \in A \union Gaps(A) :
        SamePlace(g, b) /\ Proposals(s)[k] = Proposal(b)
  BY <1>1, EachPieceProposed
<1>4. b \in Fields
  BY PiecesOfAll
<1>5. Proposal(b).from = b.from /\ Proposal(b).length = b.length
  BY <1>4, ProposalIs
<1>6. c \in Columns(Proposal(b))
  BY <1>2, <1>3, <1>5 DEF Columns, SamePlace
<1> QED
  BY <1>3, <1>6

\* IInv implies ColumnsAccounted.
LEMMA AccountedIfRepresented == IInv => ColumnsAccounted
<1> SUFFICES ASSUME IInv, Idle, Proposals(fields) # <<>>, NEW c \in 1..RecordLength
             PROVE  \/ \E g \in layout : c \in Columns(g)
                    \/ \E f \in Range(Proposals(fields)) :
                         c \in Columns(f) /\ \E g \in layout : SameName(f, g) /\ ~SamePlace(f, g)
  BY DEF ColumnsAccounted
<1>1. Fitting(fields) /\ Represented
  BY DEF IInv
<1>2. PICK k \in 1..Len(Proposals(fields)) : c \in Columns(Proposals(fields)[k])
  BY <1>1, ColumnsProposed
<1> DEFINE f == Proposals(fields)[k]
<1>3. f \in Range(Proposals(fields))
  <2>1. DOMAIN Proposals(fields) = 1..Len(Proposals(fields))
    BY <1>1, ProposalsOK
  <2> QED
    BY <2>1 DEF Range
<1>4. PICK g \in layout : SameName(f, g)
  BY <1>1 DEF Represented, Holds
<1> HIDE DEF f
<1>5. CASE SamePlace(f, g)
  <2>1. c \in Columns(g)
    BY <1>2, <1>5 DEF Columns, SamePlace, f
  <2> QED
    BY <2>1
<1>6. CASE ~SamePlace(f, g)
  BY <1>2, <1>3, <1>4, <1>6 DEF f
<1> QED
  BY <1>5, <1>6

\* Every column of the record is in the graph, or its field lost its name to another.
THEOREM ColumnsAreAccounted == Spec => []ColumnsAccounted
<1> QED
  BY AccountedIfRepresented, InvariantHolds, PTL

-----------------------------------------------------------------------------
(* No list is lost.                                                        *)

\* Pieces are the pieces of the named fields.
LEMMA PiecesAre ==
    ASSUME Fitting(fields)
    PROVE  /\ Pieces = AllPieces(fields)
           /\ \A f \in Named : /\ f \in Fields /\ Range(Split(f)) = PiecesOf(f)
                               /\ PiecesOf(f) \subseteq Pieces
<1>1. \A f \in Named : f \in ParsedFields /\ f \in Fields
  <2> SUFFICES ASSUME NEW f \in Named PROVE f \in ParsedFields /\ f \in Fields
    OBVIOUS
  <2>1. PICK i \in DOMAIN fields : f = fields[i] /\ f.name # "none"
    BY DEF Named, Range
  <2>2. f \in ParsedFields /\ Fits(f)
    BY <2>1 DEF Fitting
  <2>3. f.name \in Texts \union {"code", "SKIP"}
    BY <2>1, <2>2, FieldType
  <2> QED
    BY <2>2, <2>3 DEF Fields
<1>2. \A f \in Named : Range(Split(f)) = PiecesOf(f)
  BY <1>1, SplitLists, ListsRange
<1>3. Pieces = UNION {PiecesOf(f) : f \in Named}
  BY <1>2 DEF Pieces
<1>4. Pieces = AllPieces(fields)
  BY <1>3 DEF AllPieces, Named
<1> QED
  BY <1>1, <1>2, <1>3, <1>4

\* A piece is in the graph with its codes, unless another list of its columns is.
LEMMA PieceKept ==
    ASSUME IInv, Idle, NEW p \in Pieces
    PROVE  Outdone(p) \/ InGraph(p)
<1> DEFINE A == AllPieces(fields)
<1>1. Fitting(fields) /\ Represented
  BY DEF IInv
<1>2. Pieces = A /\ p \in A /\ A \subseteq Fields
  BY <1>1, PiecesAre, PiecesOfAll
<1>3. Parsed(fields) # <<>>
  <2> SUFFICES ASSUME Parsed(fields) = <<>> PROVE FALSE
    OBVIOUS
  <2>1. ~Lists(Parsed(fields), A \union Gaps(A))
    BY <1>2 DEF Lists
  <2> QED
    BY <1>1, <1>2, <2>1, ParsedLists
<1>4. PICK k \in 1..Len(Proposals(fields)), b \in A \union Gaps(A) :
        /\ SamePlace(p, b) /\ Len(p.pairs) <= Len(b.pairs)
        /\ Proposals(fields)[k] = Proposal(b)
  BY <1>1, <1>2, <1>3, EachPieceProposed
<1>5. b \in A
  <2> SUFFICES ASSUME b \in Gaps(A) PROVE FALSE
    OBVIOUS
  <2>1. Columns(b) # {} /\ Columns(b) \intersect Occupied(A) = {}
    BY GapsFit
  <2>2. Columns(p) = Columns(b)
    BY <1>4 DEF Columns, SamePlace
  <2>3. Columns(p) \subseteq Occupied(A)
    BY <1>2 DEF Occupied
  <2> QED
    BY <2>1, <2>2, <2>3
<1> HIDE DEF A
<1>6. CASE b # p
  <2>1. Len(b.pairs) >= Len(p.pairs)
    <3>1. Len(b.pairs) \in Nat /\ Len(p.pairs) \in Nat
      BY <1>2, <1>5, FieldType DEF Fields
    <3> QED
      BY <1>4, <3>1
  <2> QED
    BY <1>2, <1>4, <1>5, <1>6, <2>1 DEF Outdone
<1>7. CASE b = p
  <2>1. Holds(layout, Proposal(p))
    BY <1>1, <1>4, <1>7 DEF Represented
  <2>2. PICK g \in layout : SameName(Proposal(p), g) /\ Proposal(p).codes \subseteq g.codes
    BY <2>1 DEF Holds
  <2>3. /\ Proposal(p).name = p.name /\ Proposal(p).tag = p.tag /\ Proposal(p).sub = p.sub
        /\ Proposal(p).codes = CodesOf(p)
    BY <1>2, ProposalIs
  <2>4. g.name = p.name /\ g.tag = p.tag /\ g.sub = p.sub /\ CodesOf(p) \subseteq g.codes
    BY <2>2, <2>3 DEF SameName
  <2> QED
    BY <2>4 DEF InGraph
<1> QED
  BY <1>6, <1>7

\* A code behind a column name is in the list of that sub-field.
LEMMA CodePiece ==
    ASSUME NEW f \in Fields, NEW k \in 1..Len(f.pairs), ~Unlisted(f, k)
    PROVE  \E p \in PiecesOf(f) : f.pairs[k].code \in CodesOf(p) /\ Columns(p) \subseteq Columns(f)
<1>1. f \in ParsedFields /\ DOMAIN f.pairs = 1..Len(f.pairs) /\ Len(f.pairs) \in Nat
  BY MarkersIn DEF Fields
<1>2. CASE f.length < 2 \/ Cardinality(Markers(f)) < 2
  <2>1. PiecesOf(f) = {f}
    BY <1>2 DEF PiecesOf
  <2>2. f.pairs[k].code \in CodesOf(f)
    BY <1>1 DEF CodesOf
  <2> QED
    BY <2>1, <2>2
<1>3. CASE ~(f.length < 2 \/ Cardinality(Markers(f)) < 2)
  <2>1. PiecesOf(f) = {[f EXCEPT !.pairs = <<>>]} \union {SubField(f, i) : i \in Markers(f)}
    BY <1>3 DEF PiecesOf
  <2>2. Len(Split(f)) > 1
    <3> DEFINE o == Ascending(Markers(f))
               t == [i \in 1..Len(o) |-> SubField(f, o[i])]
    <3>1. Split(f) = <<[f EXCEPT !.pairs = <<>>]>> \o [i \in DOMAIN o |-> SubField(f, o[i])]
      BY <1>3 DEF Split
    <3>2. Lists(o, Markers(f))
      BY <1>1, MarkersIn, AscendingLists
    <3>3. Markers(f) # {}
      <4> SUFFICES ASSUME Markers(f) = {} PROVE FALSE
        OBVIOUS
      <4>1. Cardinality(Markers(f)) = 0
        BY FS_EmptySet
      <4>2. ~(Cardinality(Markers(f)) < 2)
        BY <1>3
      <4> QED
        BY <4>1, <4>2
    <3> HIDE DEF o
    <3>4. Len(o) \in Nat \ {0} /\ DOMAIN o = 1..Len(o)
      BY <3>2, <3>3 DEF Lists
    <3>5. Split(f) = <<[f EXCEPT !.pairs = <<>>]>> \o t
      BY <3>1, <3>4
    <3>6. Len(t) = Len(o) /\ t \in Seq({SubField(f, o[i]) : i \in 1..Len(o)})
      BY <3>4
    <3> HIDE DEF t
    <3>7. Len(<<[f EXCEPT !.pairs = <<>>]>> \o t) = 1 + Len(t)
      BY <3>6
    <3> QED
      BY <3>4, <3>5, <3>6, <3>7
  <2>3. PICK m \in Markers(f) : ~(k <= m) /\ k \notin Markers(f)
    BY <2>2 DEF Unlisted
  <2> DEFINE M == {i \in Markers(f) : i < k}
  <2>4. M \subseteq 0..Len(f.pairs) /\ m \in M
    <3>1. Markers(f) \subseteq 1..Len(f.pairs)
      BY <1>1, MarkersIn
    <3> QED
      BY <1>1, <2>3, <3>1
  <2>m. \A i \in Markers(f) : i < k => i \in M
    OBVIOUS
  <2>n. \A i \in M : i \in Markers(f) /\ i < k
    OBVIOUS
  <2> HIDE DEF M
  <2>5. PICK i \in M : \A j \in M : j <= i
    BY <1>1, <2>4, GreatestOf
  <2>6. i \in Markers(f) /\ i < k /\ i \in 1..Len(f.pairs)
    BY <1>1, <2>n, MarkersIn
  <2> DEFINE p == SubField(f, i)
             l == LastPair(f, i)
  <2>7. l \in i..Len(f.pairs) /\ k <= l
    <3>1. /\ l \in i..Len(f.pairs)
          /\ l = Len(f.pairs) \/ \E j \in Markers(f) : i < j /\ l = j - 1
      BY <1>1, <2>6, LastPairIn
    <3>2. CASE l = Len(f.pairs)
      BY <1>1, <3>1, <3>2
    <3>3. ASSUME NEW j \in Markers(f), i < j, l = j - 1
          PROVE  k <= l
      <4>1. j \in 1..Len(f.pairs)
        BY <1>1, MarkersIn
      <4>2. ~(j < k)
        BY <2>5, <2>6, <2>m, <3>3, <4>1
      <4>3. j # k
        BY <2>3
      <4> QED
        BY <1>1, <3>3, <4>1, <4>2, <4>3
    <3> QED
      BY <3>1, <3>2, <3>3
  <2>8. /\ p.pairs \in Seq(Pairs) /\ Len(p.pairs) = l - i
        /\ \A x \in 1..(l - i) : p.pairs[x] = f.pairs[i + x]
    BY <1>1, <2>6, SubFieldIs
  <2>9. p \in PiecesOf(f)
    BY <2>1, <2>6
  <2> HIDE DEF p, l
  <2>10. k - i \in 1..(l - i) /\ i + (k - i) = k
    BY <1>1, <2>6, <2>7
  <2>11. p.pairs[k - i] = f.pairs[k]
    BY <2>8, <2>10
  <2>12. k - i \in DOMAIN p.pairs
    BY <2>8, <2>10
  <2>13. f.pairs[k].code \in CodesOf(p)
    BY <2>11, <2>12 DEF CodesOf
  <2>14. Columns(p) \subseteq Columns(f)
    BY <2>9, PiecesFit
  <2> QED
    BY <2>9, <2>13, <2>14
<1> QED
  BY <1>2, <1>3

\* IInv implies ListsComplete.
LEMMA CompleteIfRepresented == IInv => ListsComplete
<1> SUFFICES ASSUME IInv, Idle, NEW f \in Named, NEW k \in DOMAIN f.pairs, ~Unlisted(f, k)
             PROVE  \E p \in Range(Split(f)) :
                      /\ f.pairs[k].code \in CodesOf(p) /\ Columns(p) \subseteq Columns(f)
                      /\ Outdone(p) \/ InGraph(p)
  BY DEF ListsComplete
<1>1. Fitting(fields)
  BY DEF IInv
<1>2. f \in Fields /\ Range(Split(f)) = PiecesOf(f) /\ PiecesOf(f) \subseteq Pieces
  BY <1>1, PiecesAre
<1>3. k \in 1..Len(f.pairs)
  BY <1>2, MarkersIn DEF Fields
<1>4. PICK p \in PiecesOf(f) : f.pairs[k].code \in CodesOf(p) /\ Columns(p) \subseteq Columns(f)
  BY <1>2, <1>3, CodePiece
<1>5. Outdone(p) \/ InGraph(p)
  BY <1>2, PieceKept
<1> QED
  BY <1>2, <1>4, <1>5

\* No code that was read is lost on its way into the graph.
THEOREM ListsAreComplete == Spec => []ListsComplete
<1> QED
  BY CompleteIfRepresented, InvariantHolds, PTL

-----------------------------------------------------------------------------
(* Columns that are covered stay covered.                                  *)

\* A column of a field is a column of one the generator keeps: the shortest that
\* has it.
LEMMA KeptCovers ==
    ASSUME NEW S, \A f \in S : f.length \in Nat, NEW f \in S, NEW c \in Columns(f)
    PROVE  \E g \in Kept(S) : c \in Columns(g)
<1> DEFINE H == {g \in S : c \in Columns(g)}
           M == {g.length : g \in H}
<1>1. f.length \in M /\ M \subseteq Nat
  OBVIOUS
<1>2. PICK n \in M : \A m \in M : n <= m
  <2> HIDE DEF M
  <2> QED
    BY <1>1, LeastOf
<1>3. PICK g \in H : g.length = n
  BY <1>2
<1>4. \A h \in H : n <= h.length
  BY <1>2
<1>5. g \in Kept(S)
  <2> SUFFICES ASSUME Columns(g) \subseteq UNION {Columns(k) : k \in {h \in S : h.length < g.length}}
               PROVE  FALSE
    BY <1>3 DEF Kept
  <2>1. PICK k \in {h \in S : h.length < g.length} : c \in Columns(k)
    BY <1>3
  <2>2. n <= k.length /\ k.length < n /\ k.length \in Nat /\ n \in Nat
    BY <1>1, <1>2, <1>3, <1>4, <2>1
  <2> QED
    BY <2>2
<1> QED
  BY <1>3, <1>5

\* A column of a row is a column of one the report keeps.
LEMMA KeptRowsCover ==
    ASSUME NEW S, \A r \in S : r[1].length \in Nat, NEW r \in S, NEW c \in Columns(r[1])
    PROVE  \E q \in KeptRows(S) : c \in Columns(q[1])
<1> DEFINE H == {q \in S : c \in Columns(q[1])}
           M == {q[1].length : q \in H}
<1>1. r[1].length \in M /\ M \subseteq Nat
  OBVIOUS
<1>2. PICK n \in M : \A m \in M : n <= m
  <2> HIDE DEF M
  <2> QED
    BY <1>1, LeastOf
<1>3. PICK q \in H : q[1].length = n
  BY <1>2
<1>4. \A p \in H : n <= p[1].length
  BY <1>2
<1>5. q \in KeptRows(S)
  <2> SUFFICES ASSUME Columns(q[1]) \subseteq
                        UNION {Columns(k[1]) : k \in {p \in S : p[1].length < q[1].length}}
               PROVE  FALSE
    BY <1>3 DEF KeptRows
  <2>1. PICK k \in {p \in S : p[1].length < q[1].length} : c \in Columns(k[1])
    BY <1>3
  <2>2. n <= k[1].length /\ k[1].length < n /\ k[1].length \in Nat /\ n \in Nat
    BY <1>1, <1>2, <1>3, <1>4, <2>1
  <2> QED
    BY <2>2
<1> QED
  BY <1>3, <1>5

\* what GeneratorColumns and ReportColumns are, of the graph S
Generated(S) == UNION {Columns(f) : f \in {g \in S : "CONTAINED_IN" \in g.edges /\ g.length # 0}}
Reported(S) ==
    UNION {Columns(f) : f \in {g \in S : /\ "CONTAINED_IN" \in g.edges \/ ("REQUIRES" \in g.edges /\ g.effective)
                                         /\ g.length # 0}}

\* The generator fills the columns of all positioned fields CONTAINED_IN the
\* layout.
LEMMA GeneratedAre == layout \subseteq Nodes => GeneratorColumns = Generated(layout)
<1> SUFFICES ASSUME layout \subseteq Nodes PROVE GeneratorColumns = Generated(layout)
  OBVIOUS
<1> DEFINE S == {g \in layout : "CONTAINED_IN" \in g.edges /\ g.length # 0}
<1>1. \A g \in S : g.length \in Nat
  BY NodeType
<1>2. fetch_layout = Kept(S)
  BY DEF fetch_layout
<1>3. Kept(S) \subseteq S
  BY DEF Kept
<1>4. Generated(layout) = UNION {Columns(f) : f \in S}
  BY DEF Generated
<1> HIDE DEF S
<1>5. \A f \in S : \A c \in Columns(f) : \E g \in Kept(S) : c \in Columns(g)
  BY <1>1, KeptCovers
<1>6. UNION {Columns(f) : f \in S} = UNION {Columns(f) : f \in Kept(S)}
  BY <1>3, <1>5
<1> QED
  BY <1>2, <1>4, <1>6 DEF GeneratorColumns

\* The report counts the columns of all positioned fields it asks for.
LEMMA ReportedAre == layout \subseteq Nodes => ReportColumns = Reported(layout)
<1> SUFFICES ASSUME layout \subseteq Nodes PROVE ReportColumns = Reported(layout)
  OBVIOUS
<1> DEFINE C == {g \in Counted : g.length # 0}
           S == UNION {RowsOf(f) : f \in C}
<1>1. \A f \in C : f.length \in Nat
  BY NodeType DEF Counted
<1>2. \A f \in C : /\ \A r \in RowsOf(f) : r[1] = f
                   /\ \E r \in RowsOf(f) : r[1] = f
  <2> SUFFICES ASSUME NEW f \in C
               PROVE  /\ \A r \in RowsOf(f) : r[1] = f
                      /\ \E r \in RowsOf(f) : r[1] = f
    OBVIOUS
  <2> DEFINE L == IF f.lists = {} THEN {0} ELSE f.lists
  <2>1. PICK l \in L : TRUE
    OBVIOUS
  <2>2. RowsOf(f) = {f} \X L
    BY DEF RowsOf
  <2> HIDE DEF L
  <2>3. <<f, l>> \in RowsOf(f) /\ <<f, l>>[1] = f
    BY <2>2
  <2>4. ASSUME NEW r \in RowsOf(f)
        PROVE  r[1] = f
    BY <2>2
  <2> QED
    BY <2>3, <2>4
<1>3. Occupying = KeptRows(S)
  BY DEF Occupying
<1>4. KeptRows(S) \subseteq S
  BY DEF KeptRows
<1>5. Reported(layout) = UNION {Columns(f) : f \in C}
  BY DEF Reported, Counted
<1> HIDE DEF C
<1>6. \A r \in S : r[1] \in C
  BY <1>2
<1>7. \A f \in C : \E r \in S : r[1] = f
  BY <1>2
<1> HIDE DEF S
<1>8. \A r \in S : \A c \in Columns(r[1]) : \E q \in KeptRows(S) : c \in Columns(q[1])
  BY <1>1, <1>6, KeptRowsCover
<1>9. UNION {Columns(f) : f \in C} \subseteq UNION {Columns(r[1]) : r \in KeptRows(S)}
  <2> SUFFICES ASSUME NEW f \in C, NEW c \in Columns(f)
               PROVE  \E q \in KeptRows(S) : c \in Columns(q[1])
    OBVIOUS
  <2>1. PICK r \in S : r[1] = f
    BY <1>7
  <2> QED
    BY <1>8, <2>1
<1>10. UNION {Columns(r[1]) : r \in KeptRows(S)} \subseteq UNION {Columns(f) : f \in C}
  BY <1>4, <1>6
<1> QED
  BY <1>3, <1>5, <1>9, <1>10 DEF ReportColumns

\* A graph that has grown has the columns it had.
LEMMA ColumnsStay ==
    ASSUME NEW S, NEW T, Grows(S, T)
    PROVE  Generated(S) \subseteq Generated(T) /\ Reported(S) \subseteq Reported(T)
<1>1. ASSUME NEW g \in S, NEW h \in T, Keeps(g, h)
      PROVE  /\ Columns(g) = Columns(h) /\ g.length = h.length
             /\ g.edges \subseteq h.edges /\ g.effective = h.effective
  BY <1>1 DEF Keeps, SamePlace, Columns
<1>2. \A g \in S : \E h \in T : Keeps(g, h)
  BY DEF Grows
<1>3. ASSUME NEW c \in Generated(S)
      PROVE  c \in Generated(T)
  <2>1. PICK g \in S : c \in Columns(g) /\ "CONTAINED_IN" \in g.edges /\ g.length # 0
    BY DEF Generated
  <2>2. PICK h \in T : Keeps(g, h)
    BY <1>2
  <2>3. c \in Columns(h) /\ "CONTAINED_IN" \in h.edges /\ h.length # 0
    BY <1>1, <2>1, <2>2
  <2> QED
    BY <2>3 DEF Generated
<1>4. ASSUME NEW c \in Reported(S)
      PROVE  c \in Reported(T)
  <2>1. PICK g \in S : /\ c \in Columns(g) /\ g.length # 0
                       /\ "CONTAINED_IN" \in g.edges \/ ("REQUIRES" \in g.edges /\ g.effective)
    BY DEF Reported
  <2>2. PICK h \in T : Keeps(g, h)
    BY <1>2
  <2>3. /\ c \in Columns(h) /\ h.length # 0
        /\ "CONTAINED_IN" \in h.edges \/ ("REQUIRES" \in h.edges /\ h.effective)
    BY <1>1, <2>1, <2>2
  <2> QED
    BY <2>3 DEF Reported
<1> QED
  BY <1>3, <1>4

\* Every step only adds to the graph.
LEMMA GraphGrows ==
    ASSUME IInv, [Next]_vars
    PROVE  Grows(layout, layout')
<1>1. Fitting(fields) /\ Graph(layout)
  BY DEF IInv
<1>2. CASE Finish
  <2> DEFINE q == Proposals(fields)
  <2>1. layout' = FoldLeft(Merge, layout, q)
    BY <1>2 DEF Finish
  <2>2. q \in Seq(Nodes) /\ \A i \in 1..Len(q) : NodeOK(q[i])
    BY <1>1, ProposalsOK
  <2> HIDE DEF q
  <2> QED
    BY <1>1, <2>1, <2>2, MergeAll
<1>3. ASSUME NEW x \in Extractions, Replay(x)
      PROVE  Grows(layout, layout')
  <2> DEFINE q == [i \in DOMAIN x.proposals |-> Resolve(x.proposals[i], x.rows)]
  <2>1. layout' = FoldLeft(Merge, layout, q)
    BY <1>3 DEF Replay
  <2>2. q \in Seq(Nodes) /\ \A i \in 1..Len(q) : NodeOK(q[i])
    BY ReplayedOK
  <2> HIDE DEF q
  <2> QED
    BY <1>1, <2>1, <2>2, MergeAll
<1>4. CASE layout' = layout
  BY <1>4, KeepsItself
<1>5. \/ Finish
      \/ \E x \in Extractions : Replay(x)
      \/ layout' = layout
  BY DEF Next, vars, Begin, NewPage, Ignore, ReadHeader, ReadSkip, ReadName, ReadBody, NextLine
<1> QED
  BY <1>2, <1>3, <1>4, <1>5

\* Importing uncovers nothing.
THEOREM ColumnsStayCovered == Spec => ImportsUncoverNothing
<1>1. ASSUME IInv, IInv', [Next]_vars
      PROVE  GeneratorColumns \subseteq GeneratorColumns' /\ ReportColumns \subseteq ReportColumns'
  <2>1. layout \subseteq Nodes /\ layout' \subseteq Nodes
    BY <1>1 DEF IInv, TypeOK
  <2>2. Grows(layout, layout')
    BY <1>1, GraphGrows
  <2>3. GeneratorColumns = Generated(layout) /\ ReportColumns = Reported(layout)
    BY <2>1, GeneratedAre, ReportedAre
  <2>4. GeneratorColumns' = Generated(layout') /\ ReportColumns' = Reported(layout')
    <3>1. (layout \subseteq Nodes => GeneratorColumns = Generated(layout))'
      BY GeneratedAre, PTL
    <3>2. (layout \subseteq Nodes => ReportColumns = Reported(layout))'
      BY ReportedAre, PTL
    <3> QED
      BY <2>1, <3>1, <3>2
  <2> QED
    BY <2>2, <2>3, <2>4, ColumnsStay
<1> QED
  BY <1>1, InvariantHolds, PTL DEF Spec, ImportsUncoverNothing

-----------------------------------------------------------------------------
(* Sections are read as they stand.                                        *)

\* the list t goes on from the list q
Longer(q, t) ==
    \A m \in 1..Len(q) :
      /\ m \in 1..Len(t) /\ t[m].code = q[m].code
      /\ q[m].desc # <<>> => t[m].desc # <<>> /\ t[m].desc[1] = q[m].desc[1]

\* the field g goes on from the field f
GoesOn(f, g) ==
    /\ g.tag = f.tag /\ g.from = f.from /\ g.length = f.length
    /\ Len(f.pairs) # 0 => g.name = f.name
    /\ Longer(f.pairs, g.pairs)

\* the first pairs of f are those of lines i to e
Partly(f, i, e) ==
    /\ f.tag = document[i].tag /\ f.from = document[i].from
    /\ f.length = document[i].to - document[i].from + 1
    /\ e # i => f.name = document[i + 1].tag
    /\ e - i = 2 * Len(f.pairs) \/ e - i = 2 * Len(f.pairs) + 1
    /\ \A m \in 1..Len(f.pairs) : LET k == i + 2 * m IN
         /\ f.pairs[m].code = [lo |-> document[k].from, hi |-> document[k].to]
         /\ k = e => f.pairs[m].desc = <<>>
         /\ k # e => f.pairs[m].desc # <<>> /\ f.pairs[m].desc[1] = document[k + 1].tag

\* what SectionsRead says of one field
ReadAs(f, i, j) ==
    /\ <<f.name, f.tag>> = <<document[i + 1].tag, document[i].tag>>
    /\ Columns(f) = SectionColumns(i)
    /\ \A m \in 1..((j - i) \div 2) : LET k == i + 2 * m IN
         /\ m \in DOMAIN f.pairs
         /\ f.pairs[m].code = [lo |-> document[k].from, hi |-> document[k].to]
         /\ f.pairs[m].desc # <<>> /\ f.pairs[m].desc[1] = document[k + 1].tag

\* lines i to j are a section: the part that is read is the current field
ReadSoFar(i, j) ==
    /\ i < at /\ at <= j =>
         /\ fields # <<>> /\ in_body /\ (naming <=> at = i + 1)
         /\ Partly(fields[Len(fields)], i, at - 1)
    /\ Idle \/ j < at => \E n \in DOMAIN fields : ReadAs(fields[n], i, j)

\* what SectionsRead needs besides IInv
ReadInv ==
    /\ \A i, j \in 1..Len(document) : Section(i, j) => ReadSoFar(i, j)
    /\ naming => Len(fields[Len(fields)].pairs) = 0

\* A line only adds to a list.
LEMMA WithLineGoesOn ==
    ASSUME NEW q \in Seq(Pairs)
    PROVE  Longer(q, WithLine(q))
<1> DEFINE n == Len(q)
           w == What
           new == [code |-> [lo |-> Line.from, hi |-> Line.to], desc |-> <<>>]
<1>1. CASE Line.kind = "token" /\ (q = <<>> \/ q[n].desc # <<>>)
  <2>1. WithLine(q) = Append(q, new)
    BY <1>1 DEF WithLine
  <2> HIDE DEF new
  <2> DEFINE t == Append(q, new)
  <2>2. Len(t) = Len(q) + 1 /\ \A m \in 1..Len(q) : t[m] = q[m] /\ m \in 1..Len(t)
    OBVIOUS
  <2> HIDE DEF t
  <2>3. Longer(q, t)
    BY <2>2 DEF Longer
  <2> QED
    BY <2>1, <2>3 DEF t
<1>2. CASE ~(Line.kind = "token" /\ (q = <<>> \/ q[n].desc # <<>>)) /\ q = <<>>
  <2>1. WithLine(q) = q
    BY <1>2 DEF WithLine
  <2> QED
    BY <2>1 DEF Longer
<1>3. CASE ~(Line.kind = "token" /\ (q = <<>> \/ q[n].desc # <<>>)) /\ q # <<>>
  <2> DEFINE d == Append(q[n].desc, w)
             t == [q EXCEPT ![n].desc = d]
  <2>1. WithLine(q) = [q EXCEPT ![n].desc = Append(@, w)]
    BY <1>3 DEF WithLine
  <2>2. n \in 1..n /\ n \in Nat /\ q[n] \in Pairs /\ DOMAIN q = 1..n
    BY <1>3
  <2>3. WithLine(q) = t
    BY <2>1, <2>2
  <2> HIDE DEF w
  <2>4. /\ q[n].desc \in Seq(Texts \union {"code"})
        /\ q[n].desc # <<>> => d # <<>> /\ d[1] = q[n].desc[1]
    <3> DEFINE e == q[n].desc
    <3>1. e \in Seq(Texts \union {"code"})
      BY <2>2 DEF Pairs
    <3> HIDE DEF e
    <3>2. e # <<>> => Append(e, w) # <<>> /\ Append(e, w)[1] = e[1]
      BY <3>1
    <3> QED
      BY <3>1, <3>2 DEF e
  <2> HIDE DEF d
  <2>5. /\ Len(t) = n /\ \A m \in 1..n : m # n => t[m] = q[m]
        /\ t[n] = [q[n] EXCEPT !.desc = d]
    BY <2>2
  <2>6. t[n].desc = d /\ t[n].code = q[n].code
    BY <2>2, <2>5 DEF Pairs
  <2> HIDE DEF t
  <2>7. Longer(q, t)
    BY <2>2, <2>4, <2>5, <2>6 DEF Longer
  <2> QED
    BY <2>3, <2>7
<1> QED
  BY <1>1, <1>2, <1>3

\* What ReadName does to the current field.
LEMMA ReadNameIs ==
    ASSUME IInv, ReadName
    PROVE  LET n == Len(fields) IN
           /\ n \in DOMAIN fields /\ Len(fields') = n /\ DOMAIN fields' = DOMAIN fields
           /\ \A m \in DOMAIN fields : m # n => fields'[m] = fields[m]
           /\ fields'[n].name = What /\ fields'[n].tag = fields[n].tag
           /\ fields'[n].from = fields[n].from /\ fields'[n].length = fields[n].length
           /\ fields'[n].pairs = fields[n].pairs
           /\ naming /\ naming' = FALSE /\ in_body' = in_body
<1> DEFINE n == Len(fields)
           f == fields[n]
           w == What
           g == [f EXCEPT !.name = w]
<1>1. /\ naming /\ fields' = [fields EXCEPT ![n].name = w] /\ naming' = FALSE /\ in_body' = in_body
  BY DEF ReadName
<1>2. Fitting(fields) /\ fields # <<>> /\ fields \in Seq(ParsedFields)
  BY <1>1 DEF IInv, TypeOK
<1>4. n \in DOMAIN fields /\ n \in Nat \ {0} /\ f \in ParsedFields
  BY <1>2, CurrentField
<1> HIDE DEF w
<1>5. fields' = [fields EXCEPT ![n] = g]
  BY <1>1, <1>4
<1>6. /\ Len(fields') = n /\ DOMAIN fields' = DOMAIN fields
      /\ fields'[n] = g /\ \A m \in DOMAIN fields : m # n => fields'[m] = fields[m]
  BY <1>2, <1>4, <1>5
<1>7. /\ g.name = w /\ g.tag = f.tag /\ g.from = f.from /\ g.length = f.length /\ g.pairs = f.pairs
  BY <1>4 DEF ParsedFields
<1> HIDE DEF g
<1> QED
  BY <1>1, <1>4, <1>6, <1>7 DEF w

\* What ReadBody does to the current field.
LEMMA ReadBodyIs ==
    ASSUME IInv, ReadBody
    PROVE  LET n == Len(fields) IN
           /\ n \in DOMAIN fields /\ Len(fields') = n /\ DOMAIN fields' = DOMAIN fields
           /\ \A m \in DOMAIN fields : m # n => fields'[m] = fields[m]
           /\ fields'[n].name = fields[n].name /\ fields'[n].tag = fields[n].tag
           /\ fields'[n].from = fields[n].from /\ fields'[n].length = fields[n].length
           /\ fields'[n].pairs = WithLine(fields[n].pairs)
           /\ fields[n].pairs \in Seq(Pairs)
           /\ ~naming /\ naming' = naming /\ in_body' = in_body
<1> DEFINE n == Len(fields)
           f == fields[n]
           q == WithLine(f.pairs)
           g == [f EXCEPT !.pairs = q]
<1>1. /\ ~naming /\ fields # <<>> /\ fields' = [fields EXCEPT ![n].pairs = WithLine(@)]
      /\ naming' = naming /\ in_body' = in_body
  BY DEF ReadBody
<1>2. Fitting(fields) /\ fields \in Seq(ParsedFields)
  BY DEF IInv, TypeOK
<1>4. n \in DOMAIN fields /\ n \in Nat \ {0} /\ f \in ParsedFields /\ f.pairs \in Seq(Pairs)
  BY <1>1, <1>2, CurrentField, FieldType
<1>5. fields' = [fields EXCEPT ![n] = g]
  BY <1>1, <1>4
<1> HIDE DEF q
<1>6. /\ Len(fields') = n /\ DOMAIN fields' = DOMAIN fields
      /\ fields'[n] = g /\ \A m \in DOMAIN fields : m # n => fields'[m] = fields[m]
  BY <1>2, <1>4, <1>5
<1>7. /\ g.name = f.name /\ g.tag = f.tag /\ g.from = f.from /\ g.length = f.length /\ g.pairs = q
  BY <1>4 DEF ParsedFields
<1> HIDE DEF g
<1> QED
  BY <1>1, <1>4, <1>6, <1>7 DEF q

\* an action that reads a line
LineRead == NewPage \/ Ignore \/ ReadHeader \/ ReadSkip \/ ReadName \/ ReadBody

\* a field at the end of the list leaves the others
AllGoOn == \A n \in DOMAIN fields : n \in DOMAIN fields' /\ GoesOn(fields[n], fields'[n])

\* A field goes on from itself.
LEMMA GoesOnItself ==
    ASSUME NEW f
    PROVE  GoesOn(f, f)
BY DEF GoesOn, Longer

\* A line only adds to the fields.
LEMMA FieldsGoOn ==
    ASSUME IInv, ReadInv, LineRead
    PROVE  AllGoOn /\ Reading /\ NextLine
<1>1. /\ Fitting(fields) /\ fields \in Seq(ParsedFields)
      /\ document \in Documents \union Reissues \union {<<>>} /\ at \in 0..(Len(document) + 1)
  BY DEF IInv, TypeOK
<1>2. Reading /\ NextLine
  <2>1. /\ NewPage => Reading /\ NextLine
        /\ Ignore => Reading /\ NextLine
        /\ ReadHeader => Reading /\ NextLine
    BY DEF NewPage, Ignore, ReadHeader
  <2>2. /\ ReadSkip => Reading /\ NextLine
        /\ ReadName => Reading /\ NextLine
        /\ ReadBody => Reading /\ NextLine
    BY DEF ReadSkip, ReadName, ReadBody
  <2> QED
    BY <2>1, <2>2 DEF LineRead
<1> SUFFICES AllGoOn
  BY <1>2
<1>3. CASE fields' = fields
  BY <1>3, GoesOnItself DEF AllGoOn
<1>4. ASSUME NEW f, fields' = Append(fields, f) PROVE AllGoOn
  <2>1. \A n \in DOMAIN fields : n \in DOMAIN fields' /\ fields'[n] = fields[n]
    BY <1>1, <1>4, AppendProperties
  <2> QED
    BY <2>1, GoesOnItself DEF AllGoOn
<1>5. CASE ReadName
  <2> DEFINE n == Len(fields)
  <2>1. /\ n \in DOMAIN fields /\ DOMAIN fields' = DOMAIN fields
        /\ \A m \in DOMAIN fields : m # n => fields'[m] = fields[m]
        /\ fields'[n].tag = fields[n].tag
        /\ fields'[n].from = fields[n].from /\ fields'[n].length = fields[n].length
        /\ fields'[n].pairs = fields[n].pairs /\ naming
    BY <1>5, ReadNameIs
  <2>2. Len(fields[n].pairs) = 0
    BY <2>1 DEF ReadInv
  <2> HIDE DEF n
  <2>3. GoesOn(fields[n], fields'[n])
    BY <2>1, <2>2 DEF GoesOn, Longer
  <2>4. ASSUME NEW m \in DOMAIN fields PROVE m \in DOMAIN fields' /\ GoesOn(fields[m], fields'[m])
    <3>1. CASE m = n
      BY <2>1, <2>3, <3>1
    <3>2. CASE m # n
      BY ONLY <2>1, <3>2, GoesOnItself, m \in DOMAIN fields
    <3> QED
      BY <3>1, <3>2
  <2> QED
    BY <2>4 DEF AllGoOn
<1>6. CASE ReadBody
  <2> DEFINE n == Len(fields)
  <2>1. /\ n \in DOMAIN fields /\ DOMAIN fields' = DOMAIN fields
        /\ \A m \in DOMAIN fields : m # n => fields'[m] = fields[m]
        /\ fields'[n].name = fields[n].name /\ fields'[n].tag = fields[n].tag
        /\ fields'[n].from = fields[n].from /\ fields'[n].length = fields[n].length
        /\ fields'[n].pairs = WithLine(fields[n].pairs) /\ fields[n].pairs \in Seq(Pairs)
    BY <1>6, ReadBodyIs
  <2>2. Longer(fields[n].pairs, fields'[n].pairs)
    BY <2>1, WithLineGoesOn
  <2> HIDE DEF n
  <2>3. GoesOn(fields[n], fields'[n])
    BY <2>1, <2>2 DEF GoesOn
  <2>4. ASSUME NEW m \in DOMAIN fields PROVE m \in DOMAIN fields' /\ GoesOn(fields[m], fields'[m])
    <3>1. CASE m = n
      BY <2>1, <2>3, <3>1
    <3>2. CASE m # n
      BY ONLY <2>1, <3>2, GoesOnItself, m \in DOMAIN fields
    <3> QED
      BY <3>1, <3>2
  <2> QED
    BY <2>4 DEF AllGoOn
<1>7. CASE ReadHeader
  BY <1>4, <1>7 DEF ReadHeader
<1>8. CASE ReadSkip
  BY <1>4, <1>8 DEF ReadSkip
<1>9. CASE NewPage \/ Ignore
  BY <1>3, <1>9 DEF NewPage, Ignore
<1> QED
  BY <1>2, <1>5, <1>6, <1>7, <1>8, <1>9 DEF LineRead

\* Halves of numbers, even and odd.
LEMMA Halves ==
    /\ \A n \in Nat : n >= 3 => n \div 2 \in Nat \ {0}
    /\ \A n, l \in Nat : n = 2 * l + 1 => n \div 2 = l
    /\ \A n, l \in Nat : n = 2 * l => n % 2 = 0
    /\ \A n, l \in Nat : n = 2 * l + 1 => n % 2 # 0
<1>1. \A n \in Nat : n >= 3 => n \div 2 \in Nat \ {0}
  OBVIOUS
<1>2. \A n, l \in Nat : n = 2 * l + 1 => n \div 2 = l /\ n % 2 # 0
  OBVIOUS
<1>3. \A n, l \in Nat : n = 2 * l => n % 2 = 0
  OBVIOUS
<1> QED
  BY <1>1, <1>2, <1>3

\* a section that has been read stays so
LEMMA ReadStays ==
    ASSUME NEW f \in ParsedFields, NEW g \in ParsedFields, GoesOn(f, g),
           NEW i \in Nat, NEW j \in Nat, i + 3 <= j, ReadAs(f, i, j)
    PROVE  ReadAs(g, i, j)
<1> DEFINE h == (j - i) \div 2
<1>1. h \in Nat \ {0}
  BY Halves
<1>2. /\ f.pairs \in Seq(Pairs) /\ g.pairs \in Seq(Pairs) /\ Len(f.pairs) \in Nat
      /\ DOMAIN f.pairs = 1..Len(f.pairs) /\ DOMAIN g.pairs = 1..Len(g.pairs)
  BY FieldType
<1>3. /\ f.name = document[i + 1].tag /\ f.tag = document[i].tag /\ Columns(f) = SectionColumns(i)
      /\ \A m \in 1..h : LET k == i + 2 * m IN
           /\ m \in DOMAIN f.pairs
           /\ f.pairs[m].code = [lo |-> document[k].from, hi |-> document[k].to]
           /\ f.pairs[m].desc # <<>> /\ f.pairs[m].desc[1] = document[k + 1].tag
  BY DEF ReadAs
<1> HIDE DEF h
<1>4. 1 \in DOMAIN f.pairs
  <2>1. 1 \in 1..h
    BY <1>1
  <2> QED
    BY ONLY <1>3, <2>1
<1>5. g.name = f.name /\ g.tag = f.tag /\ g.from = f.from /\ g.length = f.length /\ Longer(f.pairs, g.pairs)
  BY <1>2, <1>4 DEF GoesOn
<1>6. Columns(g) = Columns(f)
  BY <1>5 DEF Columns
<1>7. ASSUME NEW m \in 1..h
      PROVE  LET k == i + 2 * m IN
             /\ m \in DOMAIN g.pairs
             /\ g.pairs[m].code = [lo |-> document[k].from, hi |-> document[k].to]
             /\ g.pairs[m].desc # <<>> /\ g.pairs[m].desc[1] = document[k + 1].tag
  <2> DEFINE k == i + 2 * m
  <2>1. /\ m \in DOMAIN f.pairs
        /\ f.pairs[m].code = [lo |-> document[k].from, hi |-> document[k].to]
        /\ f.pairs[m].desc # <<>> /\ f.pairs[m].desc[1] = document[k + 1].tag
    BY <1>3
  <2> HIDE DEF k
  <2>2. /\ m \in 1..Len(g.pairs) /\ g.pairs[m].code = f.pairs[m].code
        /\ g.pairs[m].desc # <<>> /\ g.pairs[m].desc[1] = f.pairs[m].desc[1]
    BY <1>2, <1>5, <2>1 DEF Longer
  <2> QED
    BY <1>2, <2>1, <2>2 DEF k
<1> QED
  BY <1>3, <1>5, <1>6, <1>7 DEF ReadAs, h

\* a code of a section
LEMMA TokenRead ==
    ASSUME NEW f, NEW g, NEW i \in Nat, NEW e \in Nat, Partly(f, i, e), e > i,
           f.pairs \in Seq(Pairs), g.name = f.name, g.tag = f.tag, g.from = f.from,
           g.length = f.length, g.pairs = WithLine(f.pairs),
           e - i = 2 * Len(f.pairs) + 1, at = e + 1, Line.kind = "token"
    PROVE  Partly(g, i, at)
<1> DEFINE q == f.pairs
           l == Len(q)
           new == [code |-> [lo |-> Line.from, hi |-> Line.to], desc |-> <<>>]
<1>1. l \in Nat /\ e = i + 2 * l + 1
  OBVIOUS
<1>2. /\ g.tag = document[i].tag /\ g.from = document[i].from
      /\ g.length = document[i].to - document[i].from + 1 /\ g.name = document[i + 1].tag
      /\ \A m \in 1..l : LET k == i + 2 * m IN
         /\ q[m].code = [lo |-> document[k].from, hi |-> document[k].to]
         /\ k # e => q[m].desc # <<>> /\ q[m].desc[1] = document[k + 1].tag
  BY DEF Partly
<1>3. q = <<>> \/ q[l].desc # <<>>
  <2>1. CASE l = 0
    BY <2>1
  <2>2. CASE l # 0
    <3>1. l \in 1..l /\ i + 2 * l # e
      BY SMTT(40), <1>1, <2>2
    <3> QED
      BY <1>2, <3>1
  <2> QED
    BY <2>1, <2>2
<1>4. g.pairs = Append(q, new)
  BY <1>3 DEF WithLine
<1> DEFINE t == Append(q, new)
<1>5. Len(t) = l + 1 /\ t[l + 1] = new /\ \A m \in 1..l : t[m] = q[m]
  BY AppendProperties
<1>6. new.code = [lo |-> document[at].from, hi |-> document[at].to] /\ new.desc = <<>>
  BY DEF Line
<1> HIDE DEF t, q, l, new
<1>7. at = i + 2 * (l + 1) /\ at # i
  BY <1>1
<1>8. ASSUME NEW m \in 1..(l + 1)
      PROVE  LET k == i + 2 * m IN
             /\ t[m].code = [lo |-> document[k].from, hi |-> document[k].to]
             /\ k = at => t[m].desc = <<>>
             /\ k # at => t[m].desc # <<>> /\ t[m].desc[1] = document[k + 1].tag
  <2>1. CASE m = l + 1
    <3>1. i + 2 * m = at
      BY <1>7, <2>1
    <3> QED
      BY ONLY <1>5, <1>6, <2>1, <3>1
  <2>2. CASE m # l + 1
    <3>1. m \in 1..l /\ i + 2 * m # e /\ i + 2 * m # at
      BY SMTT(40), <1>1, <1>7, <2>2
    <3> QED
      BY <1>2, <1>5, <3>1
  <2> QED
    BY <2>1, <2>2
<1>9. at - i = 2 * Len(t)
  BY <1>1, <1>5, <1>7
<1>10. g.pairs = t
  BY <1>4 DEF t, q, new
<1> QED
  BY <1>2, <1>5, <1>7, <1>8, <1>9, <1>10 DEF Partly

\* a description
LEMMA TextRead ==
    ASSUME NEW f, NEW g, NEW i \in Nat, NEW e \in Nat, Partly(f, i, e), e > i,
           f.pairs \in Seq(Pairs), g.name = f.name, g.tag = f.tag, g.from = f.from,
           g.length = f.length, g.pairs = WithLine(f.pairs),
           e - i = 2 * Len(f.pairs), at = e + 1, Line.kind = "text"
    PROVE  Partly(g, i, at)
<1> DEFINE q == f.pairs
           l == Len(q)
           w == What
<1>1. l \in Nat \ {0} /\ e = i + 2 * l
  OBVIOUS
<1>2. /\ g.tag = document[i].tag /\ g.from = document[i].from
      /\ g.length = document[i].to - document[i].from + 1 /\ g.name = document[i + 1].tag
      /\ \A m \in 1..l : LET k == i + 2 * m IN
         /\ q[m].code = [lo |-> document[k].from, hi |-> document[k].to]
         /\ k = e => q[m].desc = <<>>
         /\ k # e => q[m].desc # <<>> /\ q[m].desc[1] = document[k + 1].tag
  BY DEF Partly
<1>3. w = document[at].tag
  BY DEF What, Line
<1>4. q # <<>> /\ q[l] \in Pairs /\ l \in DOMAIN q /\ DOMAIN q = 1..l
  <2> HIDE DEF w
  <2>1. q \in Seq(Pairs) /\ l \in 1..l
    BY <1>1
  <2> QED
    BY ONLY <2>1
<1>5. q[l].desc = <<>>
  <2> HIDE DEF q, l, w
  <2>1. l \in 1..l /\ i + 2 * l = e
    BY <1>1
  <2> QED
    BY ONLY <2>1, <1>2
<1>6. g.pairs = [q EXCEPT ![l].desc = Append(@, w)]
  <2>1. ~(Line.kind = "token")
    OBVIOUS
  <2> QED
    BY <1>4, <2>1 DEF WithLine
<1> DEFINE d == Append(q[l].desc, w)
           t == [q EXCEPT ![l].desc = d]
<1>7. g.pairs = t
  BY <1>4, <1>6
<1> HIDE DEF w
<1>8. d # <<>> /\ d[1] = w
  BY <1>5
<1> HIDE DEF d
<1>9. Len(t) = l /\ (\A m \in 1..l : m # l => t[m] = q[m]) /\ t[l] = [q[l] EXCEPT !.desc = d]
  BY <1>1, <1>4
<1>10. t[l].desc = d /\ t[l].code = q[l].code
  BY <1>4, <1>9 DEF Pairs
<1> HIDE DEF t, q, l
<1>11. at = i + 2 * l + 1 /\ at # i
  BY <1>1
<1>12. ASSUME NEW m \in 1..l
      PROVE  LET k == i + 2 * m IN
             /\ t[m].code = [lo |-> document[k].from, hi |-> document[k].to]
             /\ k = at => t[m].desc = <<>>
             /\ k # at => t[m].desc # <<>> /\ t[m].desc[1] = document[k + 1].tag
  <2>0. i + 2 * m # at
    BY <1>1, <1>11
  <2>1. CASE m = l
    <3>1. document[(i + 2 * m) + 1] = document[at]
      BY <1>1, <1>11, <2>1
    <3> QED
      BY <1>1, <1>2, <1>3, <1>8, <1>10, <2>0, <2>1, <3>1
  <2>2. CASE m # l
    <3>1. i + 2 * m # e
      BY SMTT(40), <1>1, <2>2
    <3> QED
      BY <1>2, <1>9, <2>0, <2>2, <3>1
  <2> QED
    BY <2>1, <2>2
<1>13. at - i = 2 * Len(t) + 1
  BY <1>1, <1>9, <1>11
<1> QED
  BY <1>2, <1>7, <1>9, <1>11, <1>12, <1>13 DEF Partly

\* the last pair of a section is complete
LEMMA WholeSection ==
    ASSUME NEW f \in ParsedFields, NEW i \in Nat, NEW j \in Nat, i + 3 <= j, Partly(f, i, j),
           (j - i) % 2 # 0, document[i].to \in Nat
    PROVE  ReadAs(f, i, j)
<1> DEFINE q == f.pairs
           l == Len(q)
           h == (j - i) \div 2
<1>1. l \in Nat /\ DOMAIN q = 1..l
  BY FieldType
<1>2. /\ f.tag = document[i].tag /\ f.from = document[i].from /\ f.name = document[i + 1].tag
      /\ f.length = document[i].to - document[i].from + 1
      /\ j - i = 2 * l \/ j - i = 2 * l + 1
      /\ \A m \in 1..l : LET k == i + 2 * m IN
         /\ q[m].code = [lo |-> document[k].from, hi |-> document[k].to]
         /\ k # j => q[m].desc # <<>> /\ q[m].desc[1] = document[k + 1].tag
  <2>1. i # j
    OBVIOUS
  <2> HIDE DEF h
  <2> QED
    BY <2>1 DEF Partly
<1>0. f.from \in Nat /\ f.length \in Int
  BY FieldType
<1> HIDE DEF q, l
<1>3. j - i = 2 * l + 1 /\ j - i \in Nat
  BY <1>1, <1>2, Halves
<1>4. h = l
  BY <1>1, <1>3, Halves
<1>5. Columns(f) = SectionColumns(i)
  <2> DEFINE a == document[i].from
             b == document[i].to
  <2>1. f.from = a /\ f.length = b - a + 1
    BY <1>2
  <2>2. Columns(f) = a..(a + (b - a + 1) - 1)
    BY <2>1 DEF Columns
  <2>3. a \in Nat /\ b \in Nat
    BY <1>0, <2>1
  <2>4. a + (b - a + 1) - 1 = b
    BY <2>3
  <2> QED
    BY <2>2, <2>4 DEF SectionColumns
<1>6. ASSUME NEW m \in 1..h
      PROVE  LET k == i + 2 * m IN
             /\ m \in DOMAIN q
             /\ q[m].code = [lo |-> document[k].from, hi |-> document[k].to]
             /\ q[m].desc # <<>> /\ q[m].desc[1] = document[k + 1].tag
  <2>1. m \in 1..l /\ i + 2 * m # j
    BY <1>1, <1>3, <1>4
  <2> QED
    BY ONLY <1>1, <1>2, <2>1
<1> QED
  BY <1>2, <1>5, <1>6 DEF ReadAs, q, h

\* the line that is read in the midst of a section
LEMMA SectionGoesOn ==
    ASSUME NEW i, NEW j, NEW g, document' = document, at' = at + 1, at \in Nat,
           i \in Nat, j \in Nat, i <= at, at <= j,
           g = fields'[Len(fields')], fields' # <<>>, in_body', naming' <=> at = i,
           Partly(g, i, at), Len(fields') \in DOMAIN fields', at = j => ReadAs(g, i, j)
    PROVE  ReadSoFar(i, j)'
<1>1. at' - 1 = at /\ (at' <= j => at < j) /\ (j < at' => at = j) /\ ~Idle' /\ (at' = i + 1 <=> at = i)
  BY DEF Idle
<1>2. Partly(fields[Len(fields)], i, at - 1)'
  <2>1. at' - 1 = at
    BY <1>1
  <2>2. /\ g.tag = document'[i].tag /\ g.from = document'[i].from
        /\ g.length = document'[i].to - document'[i].from + 1
        /\ at # i => g.name = document'[i + 1].tag
        /\ at - i = 2 * Len(g.pairs) \/ at - i = 2 * Len(g.pairs) + 1
        /\ \A m \in 1..Len(g.pairs) : LET k == i + 2 * m IN
             /\ g.pairs[m].code = [lo |-> document'[k].from, hi |-> document'[k].to]
             /\ k = at => g.pairs[m].desc = <<>>
             /\ k # at => g.pairs[m].desc # <<>> /\ g.pairs[m].desc[1] = document'[k + 1].tag
    BY DEF Partly
  <2>3. fields'[Len(fields')] = g
    OBVIOUS
  <2> QED
    BY ONLY <2>1, <2>2, <2>3 DEF Partly
<1>3. at = j => ReadAs(fields[Len(fields)], i, j)'
  <2> SUFFICES ASSUME at = j PROVE ReadAs(fields[Len(fields)], i, j)'
    OBVIOUS
  <2>2. /\ <<g.name, g.tag>> = <<document'[i + 1].tag, document'[i].tag>>
        /\ Columns(g) = document'[i].from .. document'[i].to
        /\ \A m \in 1..((j - i) \div 2) : LET k == i + 2 * m IN
             /\ m \in DOMAIN g.pairs
             /\ g.pairs[m].code = [lo |-> document'[k].from, hi |-> document'[k].to]
             /\ g.pairs[m].desc # <<>> /\ g.pairs[m].desc[1] = document'[k + 1].tag
    BY DEF ReadAs, SectionColumns
  <2>3. fields'[Len(fields')] = g
    OBVIOUS
  <2> QED
    BY ONLY <2>2, <2>3 DEF ReadAs, Columns, SectionColumns
<1>4. ASSUME i < at', at' <= j
      PROVE  /\ fields' # <<>> /\ in_body' /\ (naming' <=> at' = i + 1)
             /\ Partly(fields[Len(fields)], i, at - 1)'
  BY <1>1, <1>2
<1>5. ASSUME Idle' \/ j < at' PROVE \E n \in DOMAIN fields' : ReadAs(fields[n], i, j)'
  BY <1>1, <1>3, <1>5
<1> QED
  BY <1>4, <1>5 DEF ReadSoFar

\* What the lines of a section are.
LEMMA SectionLines ==
    ASSUME IInv, NEW i \in 1..Len(document), NEW j \in 1..Len(document), Section(i, j)
    PROVE  /\ i \in Nat /\ j \in Nat /\ i + 3 <= j /\ Len(document) \in Nat
           /\ document[i].kind = "header" /\ document[i].to \in Nat
           /\ document[i + 1].kind = "text"
           /\ \A k \in (i + 2)..j :
                /\ document[k].kind \in {"token", "text"} /\ document[k].to < 10
                /\ ((k - i) % 2 = 0 <=> document[k].kind = "token")
           /\ document[j].kind = "text" /\ (j - i) % 2 # 0
<1>1. document \in Seq(Lines)
  BY DEF IInv, TypeOK
<1>2. Len(document) \in Nat /\ document[i] \in Lines
  BY <1>1
<1>3. document[i].to \in Nat
  BY <1>2 DEF Lines
<1>4. /\ document[i].kind = "header" /\ i + 3 <= j /\ document[i + 1].kind = "text"
      /\ \A k \in (i + 2)..j :
           /\ document[k].kind \in {"token", "text"} /\ document[k].to < 10
           /\ ((k - i) % 2 = 0 <=> document[k].kind = "token")
      /\ document[j].kind = "text"
  BY DEF Section
<1>5. i \in Nat /\ j \in Nat /\ j \in (i + 2)..j
  BY <1>2, <1>4
<1>6. (j - i) % 2 # 0
  BY <1>4, <1>5
<1> QED
  BY <1>2, <1>3, <1>4, <1>5, <1>6

\* the header of a section
LEMMA HeaderRead ==
    ASSUME IInv, ReadHeader
    PROVE  LET g == fields'[Len(fields')] IN
           /\ fields' # <<>> /\ Len(fields') \in DOMAIN fields' /\ in_body' /\ naming'
           /\ g.tag = document[at].tag /\ g.from = document[at].from
           /\ g.length = document[at].to - document[at].from + 1 /\ g.pairs = <<>>
<1> DEFINE t == Line.tag
           a == Line.from
           l == Line.to - Line.from + 1
           f == [name |-> "none", tag |-> t, sub |-> "none", from |-> a, length |-> l, pairs |-> <<>>]
<1>1. fields' = Append(fields, f) /\ naming' = TRUE /\ in_body' = TRUE
  BY DEF ReadHeader
<1>2. f.tag = t /\ f.from = a /\ f.length = l /\ f.pairs = <<>>
  OBVIOUS
<1> HIDE DEF f
<1>3. fields \in Seq(ParsedFields)
  BY DEF IInv, TypeOK
<1> DEFINE s == Append(fields, f)
<1>4. s # <<>> /\ Len(s) = Len(fields) + 1 /\ Len(s) \in DOMAIN s /\ s[Len(s)] = f
  BY <1>3
<1> HIDE DEF s
<1>5. fields'[Len(fields')] = f /\ fields' # <<>> /\ Len(fields') \in DOMAIN fields'
  BY <1>1, <1>4 DEF s
<1> QED
  BY <1>1, <1>2, <1>5 DEF Line

\* which action reads a line of a section
LEMMA SectionAction ==
    ASSUME IInv, ReadInv, LineRead, NEW i \in 1..Len(document), NEW j \in 1..Len(document),
           Section(i, j), i <= at, at <= j
    PROVE  /\ at = i => ReadHeader
           /\ at = i + 1 => ReadName /\ Line.kind = "text"
           /\ at > i + 1 => ReadBody /\ (Line.kind = IF (at - i) % 2 = 0 THEN "token" ELSE "text")
<1>1. /\ i \in Nat /\ j \in Nat /\ i + 3 <= j
      /\ document[i].kind = "header" /\ document[i + 1].kind = "text"
      /\ \A k \in (i + 2)..j :
           /\ document[k].kind \in {"token", "text"} /\ document[k].to < 10
           /\ ((k - i) % 2 = 0 <=> document[k].kind = "token")
  BY SectionLines
<1>2. at \in Nat
  BY DEF IInv, TypeOK
<1>3. i < at => fields # <<>> /\ in_body /\ (naming <=> at = i + 1)
  BY DEF ReadInv, ReadSoFar
<1>4. /\ NewPage => Line.kind = "page"
      /\ Ignore => Line.kind \in {"token", "text"} /\ (PageNumber \/ fields = <<>>)
      /\ ReadHeader => Line.kind = "header"
      /\ ReadSkip => SkipHeader
      /\ ReadName => BodyLine /\ naming
      /\ ReadBody => BodyLine /\ ~naming
  BY DEF NewPage, Ignore, ReadHeader, ReadSkip, ReadName, ReadBody
<1>5. /\ SkipHeader => Line.kind = "token" /\ Line.to >= 10
      /\ PageNumber => Line.kind = "token" /\ ~in_body
      /\ BodyLine => Line.kind \in {"token", "text"}
  BY DEF SkipHeader, PageNumber, BodyLine
<1>6. CASE at = i
  <2>1. Line.kind = "header"
    BY <1>1, <1>6 DEF Line
  <2> QED
    BY <1>1, <1>2, <1>4, <1>5, <1>6, <2>1 DEF LineRead
<1>7. CASE at = i + 1
  <2>1. Line.kind = "text"
    BY <1>1, <1>7 DEF Line
  <2>2. fields # <<>> /\ naming
    BY <1>1, <1>2, <1>3, <1>7
  <2> QED
    BY <1>1, <1>2, <1>4, <1>5, <1>7, <2>1, <2>2 DEF LineRead
<1>8. CASE at > i + 1
  <2>1. at \in (i + 2)..j
    BY <1>1, <1>2, <1>8
  <2>2. Line.kind \in {"token", "text"} /\ Line.to < 10 /\ ((at - i) % 2 = 0 <=> Line.kind = "token")
    BY <1>1, <2>1 DEF Line
  <2>3. fields # <<>> /\ in_body /\ ~naming
    BY <1>1, <1>2, <1>3, <1>8
  <2>0. Line \in Lines
    <3>1. document \in Seq(Lines) /\ at \in 1..Len(document)
      BY <1>1, <1>2, <2>1 DEF IInv, TypeOK
    <3> QED
      BY <3>1 DEF Line
  <2>5. ~(Line.to >= 10)
    <3>1. Line.to \in Nat
      BY <2>0 DEF Lines
    <3> QED
      BY <2>2, <3>1
  <2>6. ReadBody
    BY <1>4, <1>5, <2>2, <2>3, <2>5 DEF LineRead
  <2> QED
    BY <1>1, <1>2, <1>8, <2>2, <2>6
<1> QED
  BY <1>1, <1>2, <1>6, <1>7, <1>8

\* The line after an odd number of lines is even, and the reverse.
LEMMA NextHalf ==
    ASSUME NEW i \in Nat, NEW a \in Nat, NEW e \in Nat, NEW l \in Nat, a = e + 1, e > i
    PROVE  /\ e - i = 2 * l + 1 => (a - i) % 2 = 0
           /\ e - i = 2 * l => (a - i) % 2 # 0
<1>1. e - i = 2 * l + 1 => a - i = 2 * (l + 1)
  OBVIOUS
<1>2. e - i = 2 * l => a - i = 2 * l + 1
  OBVIOUS
<1>3. a - i \in Nat /\ l + 1 \in Nat
  OBVIOUS
<1> QED
  BY <1>1, <1>2, <1>3, Halves

\* a line of a section is read as what it is
LEMMA SectionKept ==
    ASSUME IInv, ReadInv, LineRead, NEW i \in 1..Len(document), NEW j \in 1..Len(document),
           Section(i, j), i <= at, at <= j
    PROVE  ReadSoFar(i, j)'
<1>1. /\ i \in Nat /\ j \in Nat /\ i + 3 <= j /\ document[i].to \in Nat
      /\ document[j].kind = "text" /\ (j - i) % 2 # 0
  BY SectionLines
<1>2. at \in Nat /\ Fitting(fields) /\ fields \in Seq(ParsedFields)
  BY DEF IInv, TypeOK
<1>3. document' = document /\ at' = at + 1
  BY FieldsGoOn DEF NextLine
<1> DEFINE n == Len(fields)
           f == fields[n]
           g == fields'[Len(fields')]
<1>4. i < at => fields # <<>> /\ in_body /\ (naming <=> at = i + 1) /\ Partly(f, i, at - 1)
  BY DEF ReadInv, ReadSoFar
<1>5. ASSUME fields' # <<>>, in_body', naming' <=> at = i, Partly(g, i, at),
             Len(fields') \in DOMAIN fields', at = j => ReadAs(g, i, j)
      PROVE  ReadSoFar(i, j)'
  BY <1>1, <1>2, <1>3, <1>5, SectionGoesOn
<1> HIDE DEF g
<1>6. CASE at = i
  <2>1. /\ fields' # <<>> /\ Len(fields') \in DOMAIN fields' /\ in_body' /\ naming'
        /\ g.tag = document[at].tag /\ g.from = document[at].from
        /\ g.length = document[at].to - document[at].from + 1 /\ g.pairs = <<>>
    BY <1>1, <1>6, SectionAction, HeaderRead DEF g
  <2>2. Partly(g, i, at)
    BY <1>1, <1>6, <2>1 DEF Partly
  <2> QED
    BY <1>1, <1>5, <1>6, <2>1, <2>2
<1>7. CASE at > i
  <2>1. Fitting(fields') /\ fields' \in Seq(ParsedFields)
    <3>1. [Next]_vars
      BY DEF LineRead, Next
    <3> QED
      BY <3>1, NextKeeps DEF IInv, TypeOK
  <2>2. fields # <<>> /\ in_body /\ (naming <=> at = i + 1) /\ Partly(f, i, at - 1)
    BY <1>1, <1>2, <1>4, <1>7
  <2>3. n \in DOMAIN fields /\ n \in Nat \ {0} /\ f \in ParsedFields
    BY <1>2, <2>2, CurrentField
  <2>4. f.pairs \in Seq(Pairs) /\ Len(f.pairs) \in Nat
    BY <2>3, FieldType
  <2>5. (at - 1) - i = 2 * Len(f.pairs) \/ (at - 1) - i = 2 * Len(f.pairs) + 1
    BY <2>2 DEF Partly
  <2>6. /\ fields' # <<>> /\ Len(fields') = n /\ Len(fields') \in DOMAIN fields' /\ in_body' /\ ~naming'
        /\ g.tag = f.tag /\ g.from = f.from /\ g.length = f.length /\ Partly(g, i, at)
    <3>1. CASE at = i + 1
      <4>1. ReadName /\ Line.kind = "text"
        BY <1>1, <1>2, <3>1, SectionAction
      <4>2. /\ Len(fields') = n /\ DOMAIN fields' = DOMAIN fields
            /\ g.name = What /\ g.tag = f.tag /\ g.from = f.from /\ g.length = f.length
            /\ g.pairs = f.pairs /\ ~naming' /\ in_body'
        BY <2>2, <4>1, ReadNameIs DEF g
      <4>3. What = document[i + 1].tag
        BY <3>1, <4>1 DEF What, Line
      <4>4. Len(f.pairs) = 0
        BY <1>1, <2>4, <2>5, <3>1
      <4>5. Partly(g, i, at)
        BY <1>1, <1>2, <2>2, <3>1, <4>2, <4>3, <4>4 DEF Partly
      <4>6. fields' # <<>>
        BY <2>1, <2>3, <4>2
      <4> QED
        BY <2>3, <4>2, <4>5, <4>6
    <3>2. CASE at > i + 1
      <4>1. ReadBody /\ (Line.kind = IF (at - i) % 2 = 0 THEN "token" ELSE "text")
        BY <1>1, <1>2, <3>2, SectionAction
      <4>2. /\ Len(fields') = n /\ DOMAIN fields' = DOMAIN fields
            /\ g.name = f.name /\ g.tag = f.tag /\ g.from = f.from /\ g.length = f.length
            /\ g.pairs = WithLine(f.pairs) /\ ~naming' /\ in_body'
        BY <2>2, <4>1, ReadBodyIs DEF g
      <4> DEFINE e == at - 1
                 l == Len(f.pairs)
      <4>3. e \in Nat /\ e > i /\ at = e + 1
        BY <1>1, <1>2, <3>2
      <4>4. CASE e - i = 2 * l + 1
        <5>1. (at - i) % 2 = 0
          BY <1>1, <1>2, <2>4, <4>3, <4>4, NextHalf
        <5>2. Line.kind = "token"
          BY <4>1, <5>1
        <5>3. Partly(g, i, at)
          BY <1>1, <2>2, <2>4, <4>2, <4>3, <4>4, <5>2, TokenRead
        <5>4. fields' # <<>>
          BY <2>1, <2>3, <4>2
        <5> QED
          BY <2>3, <4>2, <5>3, <5>4
      <4>5. CASE e - i = 2 * l
        <5>1. (at - i) % 2 # 0
          BY <1>1, <1>2, <2>4, <4>3, <4>5, NextHalf
        <5>2. Line.kind = "text"
          BY <4>1, <5>1
        <5>3. Partly(g, i, at)
          BY <1>1, <2>2, <2>4, <4>2, <4>3, <4>5, <5>2, TextRead
        <5>4. fields' # <<>>
          BY <2>1, <2>3, <4>2
        <5> QED
          BY <2>3, <4>2, <5>3, <5>4
      <4> QED
        BY <2>5, <4>4, <4>5
    <3> QED
      BY <1>1, <1>2, <1>7, <3>1, <3>2
  <2>7. g \in ParsedFields
    BY <2>1, <2>6 DEF g
  <2>8. at = j => ReadAs(g, i, j)
    BY <1>1, <2>6, <2>7, WholeSection
  <2> QED
    BY <1>1, <1>2, <1>5, <1>7, <2>6, <2>8
<1> QED
  BY <1>1, <1>2, <1>6, <1>7

\* a line leaves what was read before
LEMMA LineReads ==
    ASSUME IInv, ReadInv, LineRead
    PROVE  ReadInv'
<1>1. /\ document' = document /\ at' = at + 1 /\ AllGoOn /\ Reading
  BY FieldsGoOn DEF NextLine
<1>2. /\ fields \in Seq(ParsedFields) /\ at \in Nat
  BY DEF IInv, TypeOK
<1>3. fields' \in Seq(ParsedFields)
  <2>1. [Next]_vars
    BY DEF LineRead, Next
  <2> QED
    BY <2>1, NextKeeps DEF IInv, TypeOK
<1>4. ASSUME NEW i \in 1..Len(document), NEW j \in 1..Len(document), Section(i, j)
      PROVE  ReadSoFar(i, j)'
  <2>1. i \in Nat /\ j \in Nat /\ i + 3 <= j
    BY <1>4, SectionLines
  <2>2. CASE at < i
    <3>1. ~(i < at') /\ ~(j < at') /\ ~Idle'
      BY <1>1, <1>2, <2>1, <2>2 DEF Idle
    <3> QED
      BY <3>1 DEF ReadSoFar
  <2>3. CASE i <= at /\ at <= j
    BY <1>4, <2>3, SectionKept
  <2>4. CASE j < at
    <3>1. PICK n \in DOMAIN fields : ReadAs(fields[n], i, j)
      BY <2>4, <1>4 DEF ReadInv, ReadSoFar
    <3>2. n \in DOMAIN fields' /\ GoesOn(fields[n], fields'[n])
      BY <1>1 DEF AllGoOn
    <3> DEFINE g == fields'[n]
    <3>3. fields[n] \in ParsedFields /\ g \in ParsedFields
      BY <1>2, <1>3, <3>2
    <3>4. ReadAs(g, i, j)
      BY <2>1, <3>1, <3>2, <3>3, ReadStays
    <3>5. ReadAs(fields[n], i, j)'
      <4>1. fields'[n] = g
        OBVIOUS
      <4> HIDE DEF g
      <4> QED
        BY ONLY <1>1, <3>4, <4>1 DEF ReadAs, Columns, SectionColumns
    <3>6. ~(at' <= j)
      BY <1>1, <1>2, <2>1, <2>4
    <3> QED
      BY <3>2, <3>5, <3>6 DEF ReadSoFar
  <2> QED
    BY <1>2, <2>1, <2>2, <2>3, <2>4
<1>5. ASSUME naming' PROVE Len(fields'[Len(fields')].pairs) = 0
  <2>1. CASE ReadHeader
    BY <2>1, HeaderRead
  <2>2. CASE NewPage \/ Ignore
    <3>1. fields' = fields /\ naming
      BY <1>5, <2>2 DEF NewPage, Ignore
    <3> QED
      BY <3>1 DEF ReadInv
  <2>3. CASE ReadSkip \/ ReadName
    BY <1>5, <2>3 DEF ReadSkip, ReadName
  <2>4. CASE ReadBody
    BY <1>5, <2>4 DEF ReadBody
  <2> QED
    BY <2>1, <2>2, <2>3, <2>4 DEF LineRead
<1>6. \A i, j \in 1..Len(document') : Section(i, j)' => ReadSoFar(i, j)'
  <2>1. \A i, j : Section(i, j)' <=> Section(i, j)
    BY <1>1 DEF Section
  <2> QED
    BY <1>1, <1>4, <2>1
<1> QED
  BY <1>5, <1>6 DEF ReadInv

\* Every step keeps ReadInv.
LEMMA ReadKeeps == IInv /\ ReadInv /\ [Next]_vars => ReadInv'
<1> SUFFICES ASSUME IInv, ReadInv, [Next]_vars PROVE ReadInv'
  OBVIOUS
<1>1. ASSUME NEW d, Begin(d) PROVE ReadInv'
  <2>1. document' = d /\ at' = 1 /\ naming' = FALSE
    BY <1>1 DEF Begin
  <2>2. ASSUME NEW i \in 1..Len(document'), NEW j \in 1..Len(document') PROVE ReadSoFar(i, j)'
    <3>1. i >= 1 /\ j >= 1 /\ i \in Int /\ j \in Int
      BY <2>2
    <3> QED
      BY <2>1, <3>1 DEF ReadSoFar, Idle
  <2> QED
    BY <2>1, <2>2 DEF ReadInv
<1>2. CASE document' = document /\ fields' = fields /\ naming' = naming /\ in_body' = in_body
           /\ (at' = at \/ Finish)
  <2>1. ASSUME NEW i \in 1..Len(document), NEW j \in 1..Len(document), Section(i, j)
        PROVE  ReadSoFar(i, j)'
    <3>1. ReadSoFar(i, j)
      BY <2>1 DEF ReadInv
    <3>2. CASE at' = at
      BY <1>2, <3>1, <3>2 DEF ReadSoFar, Partly, ReadAs, Columns, SectionColumns, Idle
    <3>3. CASE Finish
      <4>1. at > Len(document) /\ at' = 0
        BY <3>3 DEF Finish
      <4>2. i \in Nat /\ j \in Nat /\ Len(document) \in Nat /\ at \in Nat
        BY SectionLines DEF IInv, TypeOK
      <4>3. j < at /\ ~(i < at')
        BY <4>1, <4>2
      <4>4. PICK n \in DOMAIN fields : ReadAs(fields[n], i, j)
        BY <3>1, <4>3 DEF ReadSoFar
      <4>5. ReadAs(fields[n], i, j)'
        BY <1>2, <4>4 DEF ReadAs, Columns, SectionColumns
      <4> QED
        BY <1>2, <4>3, <4>5 DEF ReadSoFar
    <3> QED
      BY <1>2, <3>2, <3>3
  <2>2. \A i, j : Section(i, j)' <=> Section(i, j)
    BY <1>2 DEF Section
  <2>3. naming' => Len(fields'[Len(fields')].pairs) = 0
    BY <1>2 DEF ReadInv
  <2>4. \A i, j \in 1..Len(document') : Section(i, j)' => ReadSoFar(i, j)'
    BY <1>2, <2>1, <2>2
  <2> QED
    BY <2>3, <2>4 DEF ReadInv
<1>3. CASE Finish
  <2>1. document' = document /\ fields' = fields /\ naming' = naming /\ in_body' = in_body
    BY <1>3 DEF Finish
  <2> QED
    BY <1>2, <1>3, <2>1
<1>4. ASSUME NEW x, Replay(x) PROVE ReadInv'
  <2>1. document' = document /\ fields' = fields /\ naming' = naming /\ in_body' = in_body /\ at' = at
    BY <1>4 DEF Replay
  <2> QED
    BY <1>2, <2>1
<1>5. CASE UNCHANGED vars
  BY <1>2, <1>5 DEF vars
<1>6. CASE LineRead
  BY <1>6, LineReads
<1> QED
  BY <1>1, <1>3, <1>4, <1>5, <1>6 DEF Next, LineRead

\* ReadInv implies SectionsRead.
LEMMA ReadSections == IInv /\ ReadInv => SectionsRead
<1> SUFFICES ASSUME IInv, ReadInv, NEW s \in Sections, Idle \/ s[2] < at
             PROVE  \E f \in Range(fields) :
        /\ <<f.name, f.tag>> = <<document[s[1] + 1].tag, document[s[1]].tag>>
        /\ Columns(f) = SectionColumns(s[1])
        /\ \A m \in 1..((s[2] - s[1]) \div 2) : LET k == s[1] + 2 * m IN
             /\ m \in DOMAIN f.pairs
             /\ f.pairs[m].code = [lo |-> document[k].from, hi |-> document[k].to]
             /\ f.pairs[m].desc # <<>> /\ f.pairs[m].desc[1] = document[k + 1].tag
  BY DEF SectionsRead
<1> DEFINE i == s[1]
           j == s[2]
<1>1. i \in 1..Len(document) /\ j \in 1..Len(document) /\ Section(i, j)
  BY DEF Sections
<1>2. Idle \/ j < at
  OBVIOUS
<1> HIDE DEF i, j
<1>3. PICK n \in DOMAIN fields : ReadAs(fields[n], i, j)
  BY <1>1, <1>2 DEF ReadInv, ReadSoFar
<1> DEFINE f == fields[n]
<1>4. f \in Range(fields)
  BY DEF Range
<1>5. ReadAs(f, i, j)
  BY <1>3
<1> HIDE DEF f
<1> QED
  BY <1>4, <1>5 DEF ReadAs, i, j

\* A section that _parse_pages has read, a header with a name and codes with
\* descriptions, is the beginning of the list of its field.
THEOREM SectionsAreRead == Spec => []SectionsRead
<1>1. Init => ReadInv
  <2> SUFFICES ASSUME Init PROVE ReadInv
    OBVIOUS
  <2>1. document = <<>> /\ naming = FALSE
    BY DEF Init
  <2>2. \A i \in 1..Len(document) : FALSE
    BY <2>1
  <2> QED
    BY <2>1, <2>2 DEF ReadInv
<1> QED
  BY <1>1, InitHolds, NextKeeps, ReadKeeps, ReadSections, PTL DEF Spec

-----------------------------------------------------------------------------
(* Numbers and how they are written.                                       *)

\* d has the digits of the numbers up to n
Written(d, n) ==
    d = [m \in 0..n |-> IF m < 10 THEN <<m>> ELSE Append(d[m \div 10], m % 10)]

\* A number is its last digit and the rest.
LEMMA DivTen ==
    /\ \A m \in Nat : m >= 10 => m \div 10 \in 0..(m - 1)
    /\ \A m \in Nat : m % 10 \in 0..9 /\ m = 10 * (m \div 10) + (m % 10)
<1>1. \A m \in Nat : m >= 10 => m \div 10 \in 0..(m - 1)
  OBVIOUS
<1>2. \A m \in Nat : m % 10 \in 0..9 /\ m = 10 * (m \div 10) + (m % 10)
  OBVIOUS
<1> QED
  BY <1>1, <1>2

\* The recursion of Digits has a solution.
LEMMA WrittenExists ==
    ASSUME NEW n \in Nat
    PROVE  \E d : Written(d, n)
<1> DEFINE T == {k \in Nat : ~\E d : Written(d, k)}
<1> SUFFICES ASSUME T # {} PROVE FALSE
  BY DEF T
<1>1. PICK k \in T : \A j \in T : k <= j
  <2>1. T \subseteq Nat
    OBVIOUS
  <2> HIDE DEF T
  <2> QED
    BY <2>1, LeastOf
<1>2. k \in Nat /\ ~\E d : Written(d, k)
  BY <1>1
<1>3. ASSUME NEW e, k # 0 => Written(e, k - 1) PROVE FALSE
  <2> DEFINE g(m) == IF m < 10 THEN <<m>> ELSE Append(e[m \div 10], m % 10)
             d == [m \in 0..k |-> g(m)]
  <2>1. \A m \in 0..k : m # k => d[m] = e[m]
    <3> SUFFICES ASSUME NEW m \in 0..k, m # k PROVE d[m] = e[m]
      OBVIOUS
    <3>1. k # 0 /\ m \in 0..(k - 1)
      BY <1>2
    <3>2. e = [x \in 0..(k - 1) |-> g(x)]
      BY <1>3, <3>1 DEF Written
    <3>3. e[m] = g(m)
      <4> HIDE DEF g
      <4> QED
        BY <3>1, <3>2
    <3> QED
      BY <3>3
  <2>2. \A m \in 0..k : m >= 10 => d[m \div 10] = e[m \div 10]
    <3> SUFFICES ASSUME NEW m \in 0..k, m >= 10 PROVE d[m \div 10] = e[m \div 10]
      OBVIOUS
    <3>1. m \div 10 \in 0..k /\ m \div 10 # k
      BY <1>2, DivTen
    <3> HIDE DEF d
    <3> QED
      BY <2>1, <3>1
  <2>3. \A m \in 0..k : d[m] = IF m < 10 THEN <<m>> ELSE Append(d[m \div 10], m % 10)
    <3> SUFFICES ASSUME NEW m \in 0..k
                 PROVE  d[m] = IF m < 10 THEN <<m>> ELSE Append(d[m \div 10], m % 10)
      OBVIOUS
    <3>1. d[m] = g(m)
      OBVIOUS
    <3> HIDE DEF d
    <3>2. CASE m < 10
      BY <3>1, <3>2
    <3>3. CASE ~(m < 10)
      <4>1. m >= 10
        BY <1>2, <3>3
      <4> QED
        BY <3>1, <3>3, <4>1, <2>2
    <3> QED
      BY <3>2, <3>3
  <2>4. d = [m \in 0..k |-> d[m]]
    OBVIOUS
  <2> HIDE DEF d
  <2>5. Written(d, k)
    BY <2>3, <2>4 DEF Written
  <2> QED
    BY <1>2, <2>5
<1>4. k # 0 => \E d : Written(d, k - 1)
  <2> SUFFICES ASSUME k # 0, k - 1 \in T PROVE FALSE
    BY <1>2
  <2> HIDE DEF T
  <2> QED
    BY <1>1, <1>2
<1> QED
  BY <1>3, <1>4

\* what a digit at the end does to the value of a number
LEMMA ValueAppend ==
    ASSUME NEW q \in Seq(0..9), NEW x \in 0..9
    PROVE  /\ ValueOf(Append(q, x)) = 10 * ValueOf(q) + x
           /\ ValueOf(q) \in Nat
<1> DEFINE t == Append(q, x)
           n == Len(q)
<1>1. t \in Seq(0..9) /\ Len(t) = n + 1 /\ t[n + 1] = x /\ \A i \in 1..n : t[i] = q[i]
  BY AppendProperties
<1>2. n \in Nat /\ \A i \in 1..n : q[i] \in 0..9
  OBVIOUS
<1> HIDE DEF t, n
<1>3. PICK c : c[0] = 0 /\ (\A i \in 1..n : c[i] = 10 * c[i - 1] + q[i]) /\ c[n] = ValueOf(q)
  BY ValueSteps DEF n
<1>4. PICK e : e[0] = 0 /\ (\A i \in 1..(n + 1) : e[i] = 10 * e[i - 1] + t[i]) /\ e[n + 1] = ValueOf(t)
  BY <1>1, ValueSteps
<1> DEFINE P(i) == c[i] = 10 * c[i - 1] + q[i]
           Q(i) == e[i] = 10 * e[i - 1] + t[i]
<1>p. \A i \in 1..n : P(i)
  BY <1>3
<1>q. \A i \in 1..(n + 1) : Q(i)
  BY <1>4
<1> HIDE DEF P, Q
<1> DEFINE T == {i \in 0..n : ~(c[i] = e[i] /\ c[i] \in Nat)}
<1>5. T = {}
  <2> SUFFICES ASSUME T # {} PROVE FALSE
    OBVIOUS
  <2>1. PICK i \in T : \A j \in T : i <= j
    <3>1. T \subseteq Nat
      OBVIOUS
    <3> HIDE DEF T
    <3> QED
      BY <3>1, LeastOf
  <2>2. i \in 0..n /\ ~(c[i] = e[i] /\ c[i] \in Nat)
    OBVIOUS
  <2>3. i # 0
    BY <1>3, <1>4, <2>2
  <2>4. i - 1 \in 0..n /\ i - 1 \notin T
    <3>1. i - 1 \in 0..n /\ ~(i <= i - 1)
      BY <1>2, <2>2, <2>3
    <3> HIDE DEF T
    <3> QED
      BY <2>1, <3>1
  <2>5. c[i - 1] = e[i - 1] /\ c[i - 1] \in Nat
    BY <2>4
  <2>6. i \in 1..n /\ i \in 1..(n + 1)
    BY <1>2, <2>2, <2>3
  <2>7. c[i] = 10 * c[i - 1] + q[i] /\ e[i] = 10 * e[i - 1] + q[i] /\ q[i] \in Nat
    <3> HIDE DEF T
    <3>0. t[i] = q[i] /\ q[i] \in 0..9
      BY ONLY <1>1, <1>2, <2>6
    <3>1. t[i] = q[i] /\ q[i] \in Nat
      BY ONLY <3>0
    <3>2. P(i)
      BY ONLY <1>p, <2>6
    <3>3. Q(i)
      BY ONLY <1>q, <2>6
    <3> QED
      BY <3>1, <3>2, <3>3 DEF P, Q
  <2> HIDE DEF T
  <2> QED
    BY <2>2, <2>5, <2>7
<1>6. c[n] = e[n] /\ c[n] \in Nat
  <2>1. n \in 0..n
    BY <1>2
  <2> QED
    BY <1>5, <2>1
<1>7. e[n + 1] = 10 * e[n] + x
  <2>1. n + 1 \in 1..(n + 1) /\ (n + 1) - 1 = n
    BY <1>2
  <2>2. e[n + 1] = 10 * e[(n + 1) - 1] + t[n + 1]
    BY <1>q, <2>1 DEF Q
  <2> QED
    BY <1>1, <2>1, <2>2
<1>8. ValueOf(t) = 10 * ValueOf(q) + x /\ ValueOf(q) \in Nat
  BY <1>3, <1>4, <1>6, <1>7
<1> QED
  BY <1>8 DEF t

\* The value of one digit.
LEMMA ValueOne == \A x \in 0..9 : ValueOf(<<x>>) = x
<1> SUFFICES ASSUME NEW x \in 0..9 PROVE ValueOf(<<x>>) = x
  OBVIOUS
<1>1. <<x>> \in Seq(0..9) /\ Len(<<x>>) = 1 /\ <<x>>[1] = x
  OBVIOUS
<1> DEFINE q == <<x>>
<1> HIDE DEF q
<1>2. PICK c : c[0] = 0 /\ (\A i \in 1..Len(q) : c[i] = 10 * c[i - 1] + q[i]) /\ c[Len(q)] = ValueOf(q)
  BY <1>1, ValueSteps DEF q
<1>3. c[1] = 10 * c[0] + x /\ c[1] = ValueOf(q)
  <2>1. Len(q) = 1 /\ q[1] = x /\ 1 \in 1..1 /\ 1 - 1 = 0
    BY <1>1 DEF q
  <2> QED
    BY <1>2, <2>1
<1>4. ValueOf(q) = x
  BY <1>2, <1>3
<1> QED
  BY <1>4 DEF q

\* str(n): digits, and int() of them is n
LEMMA DigitsAre ==
    ASSUME NEW n \in Nat
    PROVE  Digits(n) \in Seq(0..9) /\ Digits(n) # <<>> /\ ValueOf(Digits(n)) = n
<1> DEFINE d == CHOOSE e : Written(e, n)
<1>1. Digits(n) = d[n]
  BY DEF Digits, Written
<1>2. Written(d, n)
  BY WrittenExists
<1> HIDE DEF d
<1>3. \A m \in 0..n : d[m] = IF m < 10 THEN <<m>> ELSE Append(d[m \div 10], m % 10)
  <2> DEFINE g(m) == IF m < 10 THEN <<m>> ELSE Append(d[m \div 10], m % 10)
  <2>1. d = [m \in 0..n |-> g(m)]
    BY <1>2 DEF Written
  <2> HIDE DEF g
  <2>2. \A m \in 0..n : d[m] = g(m)
    BY <2>1
  <2> QED
    BY <2>2 DEF g
<1> DEFINE Good(s, m) == s \in Seq(0..9) /\ s # <<>> /\ ValueOf(s) = m
           T == {m \in 0..n : ~Good(d[m], m)}
<1>4. T = {}
  <2> SUFFICES ASSUME T # {} PROVE FALSE
    OBVIOUS
  <2>1. PICK m \in T : \A j \in T : m <= j
    <3>1. T \subseteq Nat
      OBVIOUS
    <3> HIDE DEF T
    <3> QED
      BY <3>1, LeastOf
  <2>2. m \in 0..n /\ ~Good(d[m], m)
    OBVIOUS
  <2>3. CASE m < 10
    <3>1. d[m] = <<m>> /\ m \in 0..9
      <4>1. m \in 0..n
        BY <2>2
      <4>2. m \in 0..9
        BY <2>3, <4>1
      <4>3. d[m] = <<m>>
        BY ONLY <1>3, <2>3, <4>1
      <4> QED
        BY <4>2, <4>3
    <3>2. <<m>> \in Seq(0..9) /\ <<m>> # <<>> /\ ValueOf(<<m>>) = m
      BY <3>1, ValueOne
    <3> QED
      BY <2>2, <3>1, <3>2
  <2>4. CASE ~(m < 10)
    <3> DEFINE k == m \div 10
               x == m % 10
               s == d[k]
    <3>1. k \in 0..(m - 1) /\ x \in 0..9 /\ m = 10 * k + x
      BY <2>2, <2>4, DivTen
    <3>2. d[m] = Append(s, x)
      <4> HIDE DEF T
      <4> QED
        BY <1>3, <2>2, <2>4
    <3> HIDE DEF k, x
    <3>3. k \in 0..n /\ ~(m <= k)
      BY <2>2, <3>1
    <3>4. k \notin T
      <4> HIDE DEF T
      <4> QED
        BY <2>1, <3>3
    <3>5. Good(s, k)
      BY <3>3, <3>4
    <3> HIDE DEF s
    <3>6. ValueOf(Append(s, x)) = 10 * ValueOf(s) + x
      BY <3>1, <3>5, ValueAppend
    <3>7. Append(s, x) \in Seq(0..9) /\ Append(s, x) # <<>>
      BY <3>1, <3>5, AppendProperties
    <3>8. Good(Append(s, x), m)
      BY <3>1, <3>5, <3>6, <3>7
    <3> QED
      BY <2>2, <3>2, <3>8
  <2> QED
    BY <2>3, <2>4
<1>5. Good(d[n], n)
  <2>1. n \in 0..n
    OBVIOUS
  <2> QED
    BY <1>4, <2>1
<1> QED
  BY <1>1, <1>5

-----------------------------------------------------------------------------
(* What the generator leaves in the columns of a field.                    *)

\* the records of R have all columns
Shaped(R) == \A r \in R : DOMAIN r = 1..RecordLength /\ r = [k \in 1..RecordLength |-> r[k]]

\* the columns of f have a value of it
Carries(R, f) ==
    \A r \in R : \E v \in Values(f) : \A k \in Columns(f) : r[k] = v[k - f.from + 1]

\* A filled record has all columns.
LEMMA FilledShaped ==
    ASSUME NEW R, NEW g, Shaped(R)
    PROVE  Shaped(Filled(g, R))
<1> SUFFICES ASSUME NEW r \in R, NEW v \in Values(g)
             PROVE  LET w == Write(r, g, v) IN
                    DOMAIN w = 1..RecordLength /\ w = [k \in 1..RecordLength |-> w[k]]
  BY DEF Shaped, Filled
<1>1. DOMAIN r = 1..RecordLength
  BY DEF Shaped
<1> DEFINE h(c) == IF c \in Columns(g) THEN v[c - g.from + 1] ELSE r[c]
<1>2. Write(r, g, v) = [c \in 1..RecordLength |-> h(c)]
  BY <1>1 DEF Write
<1> HIDE DEF h
<1> QED
  BY <1>2

\* A field that is filled has a value of it.
LEMMA FilledSelf ==
    ASSUME NEW R, NEW f, Shaped(R), Columns(f) \subseteq 1..RecordLength
    PROVE  Carries(Filled(f, R), f)
<1> SUFFICES ASSUME NEW r \in R, NEW v \in Values(f)
             PROVE  \A k \in Columns(f) : Write(r, f, v)[k] = v[k - f.from + 1]
  BY DEF Carries, Filled
<1>1. DOMAIN r = 1..RecordLength
  BY DEF Shaped
<1> DEFINE h(c) == IF c \in Columns(f) THEN v[c - f.from + 1] ELSE r[c]
<1>2. Write(r, f, v) = [c \in 1..RecordLength |-> h(c)]
  BY <1>1 DEF Write
<1> HIDE DEF h
<1>3. \A k \in Columns(f) : Write(r, f, v)[k] = h(k)
  BY <1>2
<1> QED
  BY <1>3 DEF h

\* A field leaves the columns of those it does not overlap.
LEMMA FilledOther ==
    ASSUME NEW R, NEW f, NEW g, Shaped(R), Carries(R, f), Columns(f) \subseteq 1..RecordLength,
           Columns(f) \intersect Columns(g) = {}
    PROVE  Carries(Filled(g, R), f)
<1> SUFFICES ASSUME NEW r \in R, NEW w \in Values(g)
             PROVE  \E v \in Values(f) : \A k \in Columns(f) : Write(r, g, w)[k] = v[k - f.from + 1]
  BY DEF Carries, Filled
<1>1. DOMAIN r = 1..RecordLength
  BY DEF Shaped
<1>2. PICK v \in Values(f) : \A k \in Columns(f) : r[k] = v[k - f.from + 1]
  BY DEF Carries
<1> DEFINE h(c) == IF c \in Columns(g) THEN w[c - g.from + 1] ELSE r[c]
<1>3. Write(r, g, w) = [c \in 1..RecordLength |-> h(c)]
  BY <1>1 DEF Write
<1>4. \A k \in Columns(f) : h(k) = r[k]
  OBVIOUS
<1> HIDE DEF h
<1>5. \A k \in Columns(f) : Write(r, g, w)[k] = h(k)
  BY <1>3
<1> QED
  BY <1>2, <1>4, <1>5

\* the fields that begin in one column
LEMMA ColumnShaped ==
    ASSUME NEW S, NEW c, NEW R, IsFiniteSet(S), Shaped(R)
    PROVE  Shaped(FilledAt(S, c, R))
<1> DEFINE F == FieldsAt(S, c)
<1>0. F = {f \in S : f.from = c}
  BY DEF FieldsAt
<1>2. IsFiniteSet(F)
  BY <1>0, FS_Subset
<1>1. PICK h : Filling(h, F, R) /\ h[F] = FilledAt(S, c, R)
  BY FieldSteps
<1>3. /\ h[{}] = R
      /\ \A t : t \subseteq F /\ t # {} => \E f \in t : h[t] = Filled(f, h[t \ {f}])
  BY <1>1 DEF Filling
<1> HIDE DEF F
<1> DEFINE T == {t \in SUBSET F : ~Shaped(h[t])}
<1>4. T = {}
  <2> SUFFICES ASSUME T # {} PROVE FALSE
    OBVIOUS
  <2>1. PICK s \in T : \A t \in T : ~(t \subseteq s /\ t # s)
    <3>1. T \subseteq SUBSET F
      OBVIOUS
    <3> HIDE DEF T
    <3> QED
      BY <1>2, <3>1, SmallestSet
  <2>2. s \subseteq F /\ ~Shaped(h[s])
    OBVIOUS
  <2>3. s # {}
    BY <1>3, <2>2
  <2>4. PICK f \in s : h[s] = Filled(f, h[s \ {f}])
    BY <1>3, <2>2, <2>3
  <2>5. s \ {f} \notin T
    <3>1. s \ {f} \subseteq s /\ s \ {f} # s
      BY <2>4
    <3> HIDE DEF T
    <3> QED
      BY <2>1, <3>1
  <2>6. Shaped(h[s \ {f}])
    BY <2>2, <2>5
  <2> QED
    BY <2>2, <2>4, <2>6, FilledShaped
<1>5. F \notin T
  BY <1>4
<1>6. Shaped(h[F])
  BY <1>5
<1> QED
  BY <1>1, <1>6

\* The fields of one column leave those they do not overlap.
LEMMA ColumnCarries ==
    ASSUME NEW S, NEW c, NEW R, IsFiniteSet(S), Shaped(R), NEW f, Carries(R, f),
           Columns(f) \subseteq 1..RecordLength,
           \A g \in S : g.from = c => Columns(f) \intersect Columns(g) = {}
    PROVE  Carries(FilledAt(S, c, R), f)
<1> DEFINE F == FieldsAt(S, c)
<1>0. F = {g \in S : g.from = c}
  BY DEF FieldsAt
<1>2. IsFiniteSet(F) /\ \A g \in F : Columns(f) \intersect Columns(g) = {}
  <2>1. F \subseteq S
    BY <1>0
  <2> HIDE DEF F
  <2> QED
    BY <1>0, <2>1, FS_Subset
<1>1. PICK h : Filling(h, F, R) /\ h[F] = FilledAt(S, c, R)
  BY FieldSteps
<1>3. /\ h[{}] = R
      /\ \A t : t \subseteq F /\ t # {} => \E g \in t : h[t] = Filled(g, h[t \ {g}])
  BY <1>1 DEF Filling
<1> HIDE DEF F
<1> DEFINE T == {t \in SUBSET F : ~(Shaped(h[t]) /\ Carries(h[t], f))}
<1>4. T = {}
  <2> SUFFICES ASSUME T # {} PROVE FALSE
    OBVIOUS
  <2>1. PICK s \in T : \A t \in T : ~(t \subseteq s /\ t # s)
    <3>1. T \subseteq SUBSET F
      OBVIOUS
    <3> HIDE DEF T
    <3> QED
      BY <1>2, <3>1, SmallestSet
  <2>2. s \subseteq F /\ ~(Shaped(h[s]) /\ Carries(h[s], f))
    OBVIOUS
  <2>3. s # {}
    BY <1>3, <2>2
  <2>4. PICK g \in s : h[s] = Filled(g, h[s \ {g}])
    BY <1>3, <2>2, <2>3
  <2>5. s \ {g} \notin T
    <3>1. s \ {g} \subseteq s /\ s \ {g} # s
      BY <2>4
    <3> HIDE DEF T
    <3> QED
      BY <2>1, <3>1
  <2>6. Shaped(h[s \ {g}]) /\ Carries(h[s \ {g}], f)
    BY <2>2, <2>5
  <2>7. Columns(f) \intersect Columns(g) = {}
    BY <1>2, <2>2
  <2> QED
    BY <2>2, <2>4, <2>6, <2>7, FilledShaped, FilledOther
<1>5. F \notin T
  BY <1>4
<1>6. Carries(h[F], f)
  BY <1>5
<1> QED
  BY <1>1, <1>6

\* a field that overlaps no other has its value in every record
LEMMA RecordsCarry ==
    ASSUME NEW S, IsFiniteSet(S), NEW f \in S, f.from \in 1..RecordLength,
           \A g \in S : g.from \in Columns(g),
           Columns(f) \subseteq 1..RecordLength,
           \A g \in S : g # f => Columns(f) \intersect Columns(g) = {}
    PROVE  Shaped(Records(S)) /\ Carries(Records(S), f)
<1> DEFINE n == RecordLength
           a == f.from
<1>1. PICK c : /\ c[0] = Blanks /\ \A i \in 1..n : c[i] = FilledAt(S, i, c[i - 1])
               /\ c[n] = Records(S)
  BY RecordSteps
<1>2. n \in Nat /\ a \in 1..n
  BY WireAssumption
<1>3. Shaped(Blanks)
  <2> DEFINE b == [x \in 1..RecordLength |-> BLANK]
  <2>1. Blanks = {b}
    BY DEF Blanks
  <2>2. DOMAIN b = 1..RecordLength /\ b = [k \in 1..RecordLength |-> b[k]]
    OBVIOUS
  <2> QED
    BY <2>1, <2>2 DEF Shaped
<1> HIDE DEF n
<1> DEFINE OK(i) == Shaped(c[i]) /\ (i >= a => Carries(c[i], f))
           T == {i \in 0..n : ~OK(i)}
<1>4. T = {}
  <2> SUFFICES ASSUME T # {} PROVE FALSE
    OBVIOUS
  <2>1. PICK i \in T : \A j \in T : i <= j
    <3>1. T \subseteq Nat
      OBVIOUS
    <3> HIDE DEF T
    <3> QED
      BY <3>1, LeastOf
  <2>2. i \in 0..n /\ ~OK(i)
    OBVIOUS
  <2>3. i # 0
    <3>1. ~(0 >= a)
      BY <1>2
    <3> HIDE DEF a
    <3> QED
      BY <1>1, <1>3, <2>2, <3>1
  <2>4. OK(i - 1)
    <3>1. i - 1 \in 0..n /\ ~(i <= i - 1)
      BY <1>2, <2>2, <2>3
    <3>2. i - 1 \notin T
      <4> HIDE DEF T
      <4> QED
        BY <2>1, <3>1
    <3> QED
      BY <3>1, <3>2
  <2>5. i \in 1..n
    BY <1>2, <2>2, <2>3
  <2>6. c[i] = FilledAt(S, i, c[i - 1])
    BY <1>1, <2>5
  <2>7. Shaped(c[i])
    BY <2>4, <2>6, ColumnShaped
  <2>8. ASSUME i > a PROVE Carries(c[i], f)
    <3>1. Carries(c[i - 1], f)
      BY <1>2, <2>4, <2>5, <2>8
    <3>2. \A g \in S : g.from = i => Columns(f) \intersect Columns(g) = {}
      BY <1>2, <2>5, <2>8
    <3> QED
      BY <2>4, <2>6, <3>1, <3>2, ColumnCarries
  <2>9. ASSUME i = a PROVE Carries(c[i], f)
    <3> DEFINE F == FieldsAt(S, i)
               R == c[i - 1]
    <3>1. F = {f}
      <4>1. ASSUME NEW g \in S, g.from = i, g # f PROVE FALSE
        <5>1. i \in Columns(g) /\ i \in Columns(f)
          BY <2>9, <4>1
        <5> QED
          BY <4>1, <5>1
      <4> QED
        BY <2>9, <4>1 DEF FieldsAt
    <3> HIDE DEF R
    <3>a. PICK h : Filling(h, F, R) /\ h[F] = FilledAt(S, i, R)
      BY FieldSteps
    <3> HIDE DEF F
    <3>2. /\ h[{}] = R /\ h[F] = FilledAt(S, i, R)
          /\ \A t : t \subseteq F /\ t # {} => \E g \in t : h[t] = Filled(g, h[t \ {g}])
      BY <3>a DEF Filling
    <3>3. F \ {f} = {}
      BY <3>1
    <3>4. h[F] = Filled(f, h[F \ {f}])
      BY <3>1, <3>2
    <3>5. h[F] = Filled(f, R)
      BY <3>2, <3>3, <3>4
    <3>6. Shaped(R)
      BY <2>4 DEF R
    <3>7. Carries(Filled(f, R), f)
      BY <3>6, FilledSelf
    <3> QED
      BY <2>6, <3>2, <3>5, <3>7 DEF R
  <2>10. i >= a => i > a \/ i = a
    BY <1>2, <2>5
  <2> QED
    BY <2>2, <2>7, <2>8, <2>9, <2>10
<1>5. OK(n)
  <2>1. n \in 0..n
    BY <1>2
  <2> QED
    BY <1>4, <2>1
<1>6. n >= a
  BY <1>2
<1>7. Shaped(c[n]) /\ Carries(c[n], f)
  BY <1>5, <1>6
<1> QED
  BY <1>1, <1>7

-----------------------------------------------------------------------------
(* What the validator makes of it.                                         *)

\* a digit or a dash
Marks == (0..9) \union {DASH}

\* A code is written with digits and a dash.
LEMMA TextIs ==
    ASSUME NEW c \in Codes
    PROVE  /\ Text(c) \in Seq(Marks) /\ Text(c) # <<>>
           /\ Number(c) => Text(c) = Digits(c.lo)
<1>1. c.lo \in Nat /\ c.hi \in Nat
  BY DEF Codes
<1> DEFINE a == Digits(c.lo)
           b == Digits(c.hi)
<1>2. a \in Seq(0..9) /\ a # <<>> /\ b \in Seq(0..9)
  BY <1>1, DigitsAre
<1>3. Text(c) = IF Number(c) THEN a ELSE (a \o <<DASH>>) \o b
  BY DEF Text
<1> HIDE DEF a, b
<1>4. 0..9 \subseteq Marks /\ DASH \in Marks
  BY DEF Marks
<1> DEFINE M == Marks
<1> HIDE DEF M
<1>5. a \in Seq(M) /\ b \in Seq(M)
  BY <1>2, <1>4, SeqMonotonic DEF M
<1>6. <<DASH>> \in Seq(M)
  BY <1>4 DEF M
<1>7. (a \o <<DASH>>) \o b \in Seq(M) /\ (a \o <<DASH>>) \o b # <<>>
  <2> DEFINE x == a \o <<DASH>>
  <2>1. x \in Seq(M) /\ Len(x) = Len(a) + 1
    <3>1. Len(<<DASH>>) = 1
      OBVIOUS
    <3> QED
      BY <1>5, <1>6, <3>1, ConcatProperties
  <2> HIDE DEF x
  <2>2. x \o b \in Seq(M) /\ Len(x \o b) = Len(x) + Len(b)
    BY <1>5, <2>1, ConcatProperties
  <2>3. Len(x \o b) # 0
    BY <1>5, <2>1, <2>2
  <2>4. x \o b # <<>>
    BY <2>3
  <2> QED
    BY <2>2, <2>4 DEF x
<1> QED
  BY <1>2, <1>3, <1>5, <1>7 DEF M, a

\* strip() takes away what ljust() added
LEMMA Stripped ==
    ASSUME NEW n \in Nat, NEW s \in Seq(Int), Len(s) <= n, \A i \in 1..Len(s) : s[i] # BLANK,
           NEW w \in Seq(Int), Len(w) = n,
           \A i \in 1..n : w[i] = IF i <= Len(s) THEN s[i] ELSE BLANK
    PROVE  Strip(w) = s
<1> DEFINE solid == {i \in DOMAIN w : w[i] # BLANK}
           l == Len(s)
<1>1. l \in Nat /\ DOMAIN w = 1..n /\ DOMAIN s = 1..l
  OBVIOUS
<1>2. solid = 1..l
  <2>1. \A i \in 1..n : w[i] # BLANK <=> i <= l
    BY <1>1
  <2> HIDE DEF l
  <2> QED
    BY <1>1, <2>1 DEF l
<1>3. Strip(w) = IF solid = {} THEN <<>> ELSE SubSeq(w, Min(solid), Max(solid))
  BY DEF Strip
<1> HIDE DEF solid
<1>4. CASE l = 0
  <2>1. solid = {} /\ s = <<>>
    BY <1>2, <1>4
  <2> QED
    BY <1>3, <2>1
<1>5. CASE l # 0
  <2>1. solid # {} /\ solid \subseteq Int /\ 1 \in solid /\ l \in solid
    BY <1>1, <1>2, <1>5
  <2>2. Min(solid) = 1
    <3>1. \A j \in solid : 1 <= j
      BY <1>1, <1>2
    <3> QED
      BY <2>1, <3>1, MinIs
  <2>3. Max(solid) = l
    <3>1. \A j \in solid : j <= l
      BY <1>1, <1>2
    <3> QED
      BY <2>1, <3>1, MaxIs
  <2>4. Strip(w) = SubSeq(w, 1, l)
    BY <1>3, <2>1, <2>2, <2>3
  <2> DEFINE t == SubSeq(w, 1, l)
  <2>5. t \in Seq(Int) /\ Len(t) = l /\ \A i \in 1..l : t[i] = w[i]
    <3>1. \A i \in 1..l : w[i] \in Int
      BY <1>1
    <3>2. 1 \in Int /\ l \in Int /\ 1 <= l /\ l - 1 + 1 = l
      BY <1>1, <1>5
    <3>3. /\ SubSeq(w, 1, l) \in Seq(Int)
          /\ Len(SubSeq(w, 1, l)) = IF 1 <= l THEN l - 1 + 1 ELSE 0
          /\ \A i \in 1..(l - 1 + 1) : SubSeq(w, 1, l)[i] = w[1 + i - 1]
      <4> HIDE DEF l
      <4> QED
        BY <3>1, <3>2, SubSeqProperties
    <3> HIDE DEF l
    <3>4. \A i \in 1..l : 1 + i - 1 = i
      BY <3>2
    <3> QED
      BY <3>2, <3>3, <3>4
  <2> HIDE DEF t
  <2>6. \A i \in 1..l : t[i] = s[i]
    BY <1>1, <2>5
  <2>7. t = s
    BY <1>1, <2>5, <2>6, SeqEqual
  <2> QED
    BY <2>4, <2>7 DEF t
<1> QED
  BY <1>4, <1>5

\* a text that fits the field f, and that the validator does not object to
Sound(f, s) ==
    /\ s \in Seq(Int) /\ Len(s) <= f.length /\ \A i \in 1..Len(s) : s[i] # BLANK
    /\ f.tag = "SKIP" => s = <<>>
    /\ f.tag # "SKIP" /\ f.codes # {} => s # <<>> /\ Allowed(f, s) /\ f.digits = 0
    /\ f.tag # "SKIP" /\ f.codes = {} => ~BadFormat(f, s)

\* a field whose values can be right
Fillable(f) ==
    /\ f.codes # {} => \E c \in Picks(f) : Len(Text(c)) <= f.length
    /\ f.digits # 0 => /\ f.codes = {} /\ Content[f.name] # "letters"
                       /\ Content[f.name] = "digits" => f.length = f.digits

\* A code of an expanded range is a number of it.
LEMMA Expanded ==
    ASSUME NEW d \in Codes, NEW c \in Expand(d)
    PROVE  /\ c \in Codes
           /\ c = d \/ (c.lo = c.hi /\ c.lo \in d.lo..d.hi)
<1>1. d.lo \in Nat /\ d.hi \in Nat
  BY DEF Codes
<1>2. CASE d.hi - d.lo > 20 \/ d.lo > d.hi
  BY <1>2 DEF Expand
<1>3. CASE ~(d.hi - d.lo > 20 \/ d.lo > d.hi)
  <2>1. PICK i \in d.lo..d.hi : c = [lo |-> i, hi |-> i]
    BY <1>3 DEF Expand
  <2>2. i \in Nat
    BY <1>1
  <2> QED
    BY <2>1, <2>2 DEF Codes
<1> QED
  BY <1>2, <1>3

\* a code the generator picks is one the validator knows
LEMMA PickedIsAllowed ==
    ASSUME NEW f, f.codes \subseteq Codes, NEW d \in f.codes, NEW c \in Expand(d)
    PROVE  Allowed(f, Text(c))
<1>1. d \in Codes /\ c \in Codes /\ (c = d \/ (c.lo = c.hi /\ c.lo \in d.lo..d.hi))
  BY Expanded
<1>2. CASE c = d
  BY <1>2 DEF Allowed
<1>3. CASE c.lo = c.hi /\ c.lo \in d.lo..d.hi
  <2> DEFINE i == c.lo
  <2>1. i \in Nat /\ d.lo \in Nat /\ d.hi \in Nat
    BY <1>1 DEF Codes
  <2>2. Text(c) = Digits(i)
    BY <1>1, <1>3, TextIs DEF Number
  <2>3. CASE Number(d)
    <3>1. d.lo = i
      BY <1>3, <2>1, <2>3 DEF Number
    <3>2. Text(d) = Digits(i)
      BY <1>1, <2>3, <3>1, TextIs
    <3> QED
      BY <2>2, <3>2 DEF Allowed
  <2>4. CASE ~Number(d)
    <3> DEFINE s == Digits(i)
    <3>1. s \in Seq(0..9) /\ s # <<>> /\ ValueOf(s) = i
      BY <2>1, DigitsAre
    <3> HIDE DEF s
    <3>2. IsNumeric(s)
      BY <3>1 DEF IsNumeric
    <3>3. ValueOf(s) \in d.lo..d.hi
      BY <1>3, <3>1
    <3>4. Text(c) = s
      BY <2>2 DEF s
    <3> HIDE DEF i
    <3> QED
      BY <2>4, <3>2, <3>3, <3>4 DEF Allowed
  <2> QED
    BY <2>3, <2>4
<1> QED
  BY <1>1, <1>2, <1>3

\* A code that is picked is sound.
LEMMA CodeSound ==
    ASSUME NEW f \in Nodes, Fillable(f), f.tag # "SKIP", f.codes # {}, NEW c \in Picks(f)
    PROVE  Sound(f, Text(c))
<1> DEFINE all == UNION {Expand(d) : d \in f.codes}
           fit == {x \in all : Len(Text(x)) <= f.length}
<1>0. f.codes \subseteq Codes /\ f.length \in Nat
  BY NodeType
<1>1. Picks(f) = IF fit = {} THEN all ELSE fit
  BY DEF Picks
<1>2. fit # {}
  <2>1. PICK x \in Picks(f) : Len(Text(x)) <= f.length
    BY DEF Fillable
  <2>2. x \in all
    BY <1>1
  <2> QED
    BY <2>1, <2>2
<1>3. c \in all /\ Len(Text(c)) <= f.length
  BY <1>1, <1>2
<1>4. PICK d \in f.codes : c \in Expand(d)
  BY <1>3
<1> DEFINE s == Text(c)
<1>5. Allowed(f, s)
  BY <1>0, <1>4, PickedIsAllowed
<1>6. s \in Seq(Marks) /\ s # <<>>
  BY <1>0, <1>4, Expanded, TextIs
<1>7. f.digits = 0
  BY DEF Fillable
<1>8. Len(s) <= f.length
  BY <1>3
<1> HIDE DEF s
<1>9. s \in Seq(Int) /\ \A i \in 1..Len(s) : s[i] # BLANK
  <2>1. Marks \subseteq Int /\ \A x \in Marks : x # BLANK
    BY DEF Marks, DASH, BLANK
  <2>2. s \in Seq(Int)
    BY <1>6, <2>1, SeqMonotonic
  <2>3. \A i \in 1..Len(s) : s[i] \in Marks
    BY <1>6, ElementOfSeq
  <2> QED
    BY <2>1, <2>2, <2>3
<1>10. Sound(f, s)
  BY <1>5, <1>6, <1>7, <1>8, <1>9 DEF Sound
<1> QED
  BY <1>10 DEF s

\* A freeform value is sound.
LEMMA FreeformSound ==
    ASSUME NEW f \in Nodes, Fillable(f), f.tag # "SKIP", f.codes = {}
    PROVE  Sound(f, Freeform(f))
<1> DEFINE n == f.length
           k == Content[f.name]
           s == Freeform(f)
<1>1. n \in Nat /\ f.name \in Texts \union {"code", "SKIP"}
  BY NodeType
<1>2. k \in {"digits", "letters", "blank"}
  BY <1>1, WireAssumption
<1>3. f.digits # 0 => k # "letters" /\ (k = "digits" => n = f.digits)
  BY DEF Fillable
<1>4. CASE k = "digits"
  <2>1. s = [i \in 1..n |-> 7]
    BY <1>4 DEF Freeform
  <2>2. s \in Seq(Int) /\ Len(s) = n /\ DOMAIN s = 1..n /\ \A i \in 1..n : s[i] = 7
    BY <1>1, <2>1
  <2> HIDE DEF s
  <2>3. s # <<>> => IsNumeric(s)
    BY <2>2 DEF IsNumeric
  <2>4. ~BadFormat(f, s)
    BY <1>3, <1>4, <2>2, <2>3 DEF BadFormat
  <2>5. \A i \in 1..Len(s) : s[i] # BLANK
    BY <2>2 DEF BLANK
  <2>6. Sound(f, s)
    BY <1>1, <2>2, <2>4, <2>5 DEF Sound
  <2> QED
    BY <2>6 DEF s
<1>5. CASE k = "letters"
  <2>1. s = [i \in 1..n |-> LETTER]
    BY <1>5 DEF Freeform
  <2>2. s \in Seq(Int) /\ Len(s) = n /\ DOMAIN s = 1..n /\ \A i \in 1..n : s[i] = LETTER
    BY <1>1, <2>1 DEF LETTER
  <2> HIDE DEF s
  <2>4. ~BadFormat(f, s)
    BY <1>3, <1>5 DEF BadFormat
  <2>5. \A i \in 1..Len(s) : s[i] # BLANK
    BY <2>2 DEF BLANK, LETTER
  <2>6. Sound(f, s)
    BY <1>1, <2>2, <2>4, <2>5 DEF Sound
  <2> QED
    BY <2>6 DEF s
<1>6. CASE k = "blank"
  <2>1. s = <<>>
    BY <1>6 DEF Freeform
  <2>2. ~BadFormat(f, s)
    BY <2>1 DEF BadFormat
  <2>3. <<>> \in Seq(Int) /\ Len(<<>>) = 0
    OBVIOUS
  <2>4. Len(s) <= f.length /\ \A i \in 1..Len(s) : s[i] # BLANK
    BY <1>1, <2>1, <2>3
  <2> HIDE DEF s
  <2>5. Sound(f, s)
    BY <2>1, <2>2, <2>3, <2>4 DEF Sound
  <2> QED
    BY <2>5 DEF s
<1> QED
  BY <1>2, <1>4, <1>5, <1>6

\* What the generator writes for a fillable field is a sound text, padded.
LEMMA ValueSound ==
    ASSUME NEW f \in Nodes, Fillable(f), NEW v \in Values(f)
    PROVE  \E s : v = Padded(s, f.length) /\ Sound(f, s)
<1>1. CASE f.tag = "SKIP"
  <2>1. v = Padded(<<>>, f.length)
    BY <1>1 DEF Values
  <2>2. <<>> \in Seq(Int) /\ Len(<<>>) = 0 /\ f.length \in Nat
    BY NodeType
  <2>3. Sound(f, <<>>)
    BY <1>1, <2>2 DEF Sound
  <2> QED
    BY <2>1, <2>3
<1>2. CASE f.tag # "SKIP" /\ f.codes # {}
  <2>1. PICK c \in Picks(f) : v = Padded(Text(c), f.length)
    BY <1>2 DEF Values
  <2> QED
    BY <1>2, <2>1, CodeSound
<1>3. CASE f.tag # "SKIP" /\ f.codes = {}
  <2>1. v = Padded(Freeform(f), f.length)
    BY <1>3 DEF Values
  <2> QED
    BY <1>3, <2>1, FreeformSound
<1> QED
  BY <1>1, <1>2, <1>3

\* validate_record passes a sound text.
LEMMA VerdictIs ==
    ASSUME NEW r, DOMAIN r = 1..RecordLength, r = [k \in 1..RecordLength |-> r[k]],
           NEW f \in Nodes, f.length # 0, f.from # 0, f.from + f.length - 1 <= RecordLength,
           NEW s, Sound(f, s), \A k \in Columns(f) : r[k] = Padded(s, f.length)[k - f.from + 1]
    PROVE  Verdict(r, f) = "ok"
<1> DEFINE a == f.from
           n == f.length
           last == a + n - 1
           N == RecordLength
           w == SubSeq(r, a, last)
<1>1. a \in Nat \ {0} /\ n \in Nat \ {0} /\ N \in Nat /\ last \in Nat /\ last <= N /\ f.digits \in Nat
  BY NodeType, WireAssumption
<1>2. Columns(f) = a..last
  BY DEF Columns
<1>3. s \in Seq(Int) /\ Len(s) <= n /\ \A i \in 1..Len(s) : s[i] # BLANK
  BY DEF Sound
<1>4. \A i \in 1..n : Padded(s, n)[i] = IF i <= Len(s) THEN s[i] ELSE BLANK
  BY DEF Padded
<1>5. \A i \in 1..n : Padded(s, n)[i] \in Int
  <2> SUFFICES ASSUME NEW i \in 1..n PROVE Padded(s, n)[i] \in Int
    OBVIOUS
  <2>1. CASE i <= Len(s)
    <3>1. i \in 1..Len(s)
      BY <1>1, <1>3, <2>1
    <3>2. s[i] \in Int
      BY <1>3, <3>1, ElementOfSeq
    <3> QED
      BY <1>4, <2>1, <3>2
  <2>2. CASE ~(i <= Len(s))
    BY <1>4, <2>2 DEF BLANK
  <2> QED
    BY <2>1, <2>2
<1>p. \A k \in Columns(f) : r[k] = Padded(s, n)[k - a + 1]
  OBVIOUS
<1> HIDE DEF a, n, last, N
<1>6. \A k \in a..last : r[k] = Padded(s, n)[k - a + 1] /\ k - a + 1 \in 1..n
  <2> SUFFICES ASSUME NEW k \in a..last
               PROVE  r[k] = Padded(s, n)[k - a + 1] /\ k - a + 1 \in 1..n
    OBVIOUS
  <2>1. k \in Columns(f)
    BY <1>2
  <2>2. k - a + 1 \in 1..n
    BY <1>1 DEF last
  <2> QED
    BY <1>p, <2>1, <2>2
<1>7. \A k \in a..last : r[k] \in Int
  BY <1>5, <1>6
<1>0. last = a + n - 1
  BY DEF last, a, n
<1>8. w \in Seq(Int) /\ Len(w) = n /\ \A i \in 1..n : w[i] = r[a + i - 1]
  <2>1. /\ w \in Seq(Int)
        /\ Len(w) = IF a <= last THEN last - a + 1 ELSE 0
        /\ \A i \in 1..(last - a + 1) : w[i] = r[a + i - 1]
    <3>1. a \in Int /\ last \in Int
      BY <1>1
    <3> QED
      BY ONLY <1>7, <3>1, SubSeqProperties DEF w
  <2>2. a <= last /\ last - a + 1 = n
    BY <1>0, <1>1
  <2> HIDE DEF w
  <2> QED
    BY <2>1, <2>2
<1> HIDE DEF w
<1>9. \A i \in 1..n : w[i] = IF i <= Len(s) THEN s[i] ELSE BLANK
  <2> SUFFICES ASSUME NEW i \in 1..n PROVE w[i] = IF i <= Len(s) THEN s[i] ELSE BLANK
    OBVIOUS
  <2>1. a + i - 1 \in a..last /\ (a + i - 1) - a + 1 = i
    BY <1>0, <1>1
  <2>2. w[i] = Padded(s, n)[i]
    BY <1>6, <1>8, <2>1
  <2> QED
    BY <1>4, <2>2
<1>10. Strip(w) = s
  BY <1>1, <1>3, <1>8, <1>9, Stripped
<1>11. Len(r) = N
  <2> DEFINE q == [k \in 1..N |-> r[k]]
  <2>1. r = q
    BY DEF N
  <2>2. Len(q) = N
    BY ONLY <1>1
  <2> QED
    BY <2>1, <2>2
<1>12. ~(last > Len(r))
  BY ONLY <1>1, <1>11
<1>13. Verdict(r, f) =
         IF last > Len(r) THEN "length"
         ELSE IF f.tag = "SKIP" THEN IF s # <<>> THEN "skip_dirty" ELSE "ok"
         ELSE IF f.codes # {} /\ s # <<>> /\ ~Allowed(f, s) THEN "unknown_code"
         ELSE IF f.codes # {} /\ s = <<>> /\ f.required THEN "missing_required"
         ELSE IF BadFormat(f, s) THEN "bad_format" ELSE "ok"
  BY <1>10 DEF Verdict, last, w, a, n
<1>14. CASE f.tag = "SKIP"
  <2>1. s = <<>>
    BY <1>14 DEF Sound
  <2>2. Verdict(r, f) = IF s # <<>> THEN "skip_dirty" ELSE "ok"
    BY ONLY <1>12, <1>13, <1>14
  <2> QED
    BY ONLY <2>1, <2>2
<1>15. CASE f.tag # "SKIP" /\ f.codes # {}
  <2>1. s # <<>> /\ Allowed(f, s) /\ f.digits = 0
    BY <1>15 DEF Sound
  <2>2. ~BadFormat(f, s)
    BY <2>1 DEF BadFormat
  <2> QED
    BY <1>12, <1>13, <1>15, <2>1, <2>2
<1>16. CASE f.tag # "SKIP" /\ f.codes = {}
  <2>1. ~BadFormat(f, s)
    BY <1>16 DEF Sound
  <2> QED
    BY <1>12, <1>13, <1>16, <2>1
<1> QED
  BY <1>14, <1>15, <1>16

\* IInv implies RoundTrip.
LEMMA GeneratedIsValid == IInv => RoundTrip
<1> DEFINE S == fetch_layout
<1> SUFFICES ASSUME IInv, NEW r \in Records(S), NEW f \in S, ~Disputed(f, S)
             PROVE  Verdict(r, f) = "ok"
  BY DEF RoundTrip
<1>1. layout \subseteq Nodes /\ IsFiniteSet(layout) /\ \A g \in layout : NodeOK(g)
  BY DEF IInv, TypeOK, Graph
<1>2. S \subseteq layout /\ \A g \in S : g.length # 0
  BY DEF fetch_layout, Kept
<1> HIDE DEF S
<1>3. IsFiniteSet(S)
  BY <1>1, <1>2, FS_Subset
<1>4. \A g \in S : /\ g \in Nodes /\ g.from # 0 /\ g.length # 0 /\ g.from \in Nat /\ g.length \in Nat
                   /\ g.from \in Columns(g)
  <2> SUFFICES ASSUME NEW g \in S
               PROVE  /\ g \in Nodes /\ g.from # 0 /\ g.length # 0 /\ g.from \in Nat /\ g.length \in Nat
                      /\ g.from \in Columns(g)
    OBVIOUS
  <2>1. g \in Nodes /\ g.length # 0 /\ g.from # 0
    BY <1>1, <1>2 DEF NodeOK
  <2>2. g.from \in Nat /\ g.length \in Nat
    BY <2>1, NodeType
  <2>3. g.from \in Columns(g)
    BY <2>1, <2>2 DEF Columns
  <2> QED
    BY <2>1, <2>2, <2>3
<1>5. /\ \A g \in S \ {f} : Columns(f) \intersect Columns(g) = {}
      /\ ~(f.from + f.length - 1 > RecordLength)
      /\ f.codes # {} => \E c \in Picks(f) : ~(Len(Text(c)) > f.length)
      /\ f.digits # 0 => /\ f.codes = {} /\ Content[f.name] # "letters"
                         /\ Content[f.name] = "digits" => f.length = f.digits
  BY DEF Disputed
<1>6. f.from \in 1..RecordLength /\ Columns(f) \subseteq 1..RecordLength
      /\ f.from + f.length - 1 <= RecordLength
  <2>1. RecordLength \in Nat
    BY WireAssumption
  <2> QED
    BY <1>4, <1>5, <2>1 DEF Columns
<1>7. Fillable(f)
  <2>1. \A c \in Picks(f) : ~(Len(Text(c)) > f.length) => Len(Text(c)) <= f.length
    <3> SUFFICES ASSUME NEW c \in Picks(f) PROVE Len(Text(c)) \in Nat
      BY <1>4
    <3>1. PICK d \in f.codes : c \in Expand(d)
      BY DEF Picks
    <3>2. d \in Codes
      BY <1>4, NodeType
    <3>3. c \in Codes
      BY <3>1, <3>2, Expanded
    <3>4. Text(c) \in Seq(Marks)
      BY <3>3, TextIs
    <3> HIDE DEF Picks
    <3> QED
      BY <3>4, LenProperties
  <2> QED
    BY <1>5, <2>1 DEF Fillable
<1>8. \A g \in S : g # f => Columns(f) \intersect Columns(g) = {}
  BY <1>5
<1>9. Shaped(Records(S)) /\ Carries(Records(S), f)
  BY <1>3, <1>4, <1>6, <1>8, RecordsCarry
<1>10. PICK v \in Values(f) : \A k \in Columns(f) : r[k] = v[k - f.from + 1]
  BY <1>9 DEF Carries
<1>11. PICK s : v = Padded(s, f.length) /\ Sound(f, s)
  BY <1>4, <1>7, ValueSound
<1>12. \A k \in Columns(f) : r[k] = Padded(s, f.length)[k - f.from + 1]
  BY <1>10, <1>11
<1>13. DOMAIN r = 1..RecordLength /\ r = [k \in 1..RecordLength |-> r[k]]
  BY <1>9 DEF Shaped
<1> QED
  BY <1>4, <1>6, <1>11, <1>12, <1>13, VerdictIs

\* Every record generate_sample_submission can make of the graph's layout passes
\* validate_submission, but for the fields that RoundTrip excepts.
THEOREM GeneratedRecordsPass == Spec => []RoundTrip
<1> QED
  BY GeneratedIsValid, InvariantHolds, PTL
=============================================================================
