--------------------------- MODULE Reports_proofs ---------------------------
(***************************************************************************)
(* Proofs about what is reported: the windows and the percentiles of the   *)
(* agent's statistics (AccumStats), for any number of operations, and the  *)
(* totals that the data commands of the load test log (DataTools), for any *)
(* number of files, workers and buffers.                                   *)
(*                                                                         *)
(* The community modules' MapThenSumSet takes the elements of a set in an  *)
(* order that CHOOSE fixes; what the proofs need is that the order does    *)
(* not matter.  An induction over the parts of a set, or over numbers, is  *)
(* written as an argument about a smallest counterexample.                 *)
(***************************************************************************)
EXTENDS LoadTest, AccumStats, FiniteSetTheorems, TLAPS

(* The element a sum takes next. *)
AnyOf(s) == CHOOSE x \in s : TRUE

(* g gives every part of S the sum of f over it, one element at a time. *)
IsSum(g, f, S) ==
    g = [s \in SUBSET S |-> IF s = {} THEN 0 ELSE f[AnyOf(s)] + g[s \ {AnyOf(s)}]]

Total(f, S) == (CHOOSE g : IsSum(g, f, S))[S]

LEMMA AnyOfIn == ASSUME NEW s, s # {} PROVE AnyOf(s) \in s
BY DEF AnyOf

(* A set of parts of a finite set that is not empty has a smallest one. *)
LEMMA MinimalPart ==
    ASSUME NEW S, IsFiniteSet(S), NEW T \in SUBSET (SUBSET S), T # {}
    PROVE  \E s \in T : \A t \in T : t \subseteq s => t = s
<1> DEFINE R == StrictSubsetOrdering(S)
           F == FiniteSubsetsOf(S)
<1>1. F = SUBSET S
  BY FS_FiniteSubsetsOfFinite
<1>2. IsWellFoundedOn(R, F)
  BY FS_StrictSubsetOrderingWellFounded
<1>3. T \subseteq F
  BY <1>1
<1> HIDE DEF R, F
<1>4. PICK s \in T : \A t \in T : ~ (<<t, s>> \in R)
  BY <1>2, <1>3, WFMin
<1>5. \A t \in T : t \subseteq s => t = s
  BY <1>4 DEF R, StrictSubsetOrdering
<1> QED
  BY <1>5

LEMMA SumsAgree ==
    ASSUME NEW f, NEW h, NEW S, NEW T, IsFiniteSet(S), NEW g, NEW k,
           IsSum(g, f, S), IsSum(k, h, T)
    PROVE  \A U : U \subseteq S /\ U \subseteq T /\ (\A x \in U : f[x] = h[x]) => g[U] = k[U]
<1> SUFFICES ASSUME NEW U, U \subseteq S, U \subseteq T, \A x \in U : f[x] = h[x]
             PROVE  g[U] = k[U]
  OBVIOUS
<1> DEFINE Bad == {s \in SUBSET U : g[s] # k[s]}
<1> SUFFICES ASSUME Bad # {} PROVE FALSE
  OBVIOUS
<1>1. PICK s \in Bad : \A t \in Bad : t \subseteq s => t = s
  <2>1. IsFiniteSet(U)
    BY FS_Subset
  <2>2. Bad \in SUBSET (SUBSET U)
    OBVIOUS
  <2> HIDE DEF Bad
  <2> QED
    BY <2>1, <2>2, MinimalPart
<1>2. s \in SUBSET S /\ s \in SUBSET T /\ s \in SUBSET U
  BY <1>1
<1>3. /\ g[s] = IF s = {} THEN 0 ELSE f[AnyOf(s)] + g[s \ {AnyOf(s)}]
      /\ k[s] = IF s = {} THEN 0 ELSE h[AnyOf(s)] + k[s \ {AnyOf(s)}]
  BY <1>2 DEF IsSum
<1>4. s # {}
  BY <1>1, <1>3
<1>5. AnyOf(s) \in s
  BY <1>4, AnyOfIn
<1>6. s \ {AnyOf(s)} \notin Bad
  BY <1>1, <1>5
<1>7. g[s \ {AnyOf(s)}] = k[s \ {AnyOf(s)}]
  BY <1>2, <1>6
<1> QED
  BY <1>1, <1>2, <1>3, <1>4, <1>5, <1>7

(* Every function has its sums over the parts of a finite set. *)
LEMMA SumExists ==
    ASSUME NEW f, NEW S, IsFiniteSet(S)
    PROVE  \E g : IsSum(g, f, S)
<1> DEFINE Bad == {s \in SUBSET S : ~ \E g : IsSum(g, f, s)}
<1> SUFFICES ASSUME Bad # {} PROVE FALSE
  OBVIOUS
<1>1. PICK s \in Bad : \A t \in Bad : t \subseteq s => t = s
  <2>1. Bad \in SUBSET (SUBSET S)
    OBVIOUS
  <2> HIDE DEF Bad
  <2> QED
    BY <2>1, MinimalPart
<1>2. \A t \in SUBSET s : IsFiniteSet(t) /\ (t # s => \E g : IsSum(g, f, t))
  BY <1>1, FS_Subset
<1>3. \A t \in SUBSET s : t # s => IsSum(CHOOSE g : IsSum(g, f, t), f, t)
  BY <1>2
<1> DEFINE Part(t) == (CHOOSE g : IsSum(g, f, t))[t]
           New(t)  == IF t = {} THEN 0 ELSE f[AnyOf(t)] + Part(t \ {AnyOf(t)})
           k       == [t \in SUBSET s |-> New(t)]
<1>4. ASSUME NEW t \in SUBSET s, t # s PROVE Part(t) = New(t)
  <2> DEFINE g == CHOOSE g : IsSum(g, f, t)
             u == t \ {AnyOf(t)}
             h == CHOOSE h : IsSum(h, f, u)
  <2>1. IsSum(g, f, t)
    BY <1>3, <1>4
  <2>2. g[t] = IF t = {} THEN 0 ELSE f[AnyOf(t)] + g[u]
    BY <2>1 DEF IsSum
  <2>3. CASE t = {}
    BY <2>2, <2>3
  <2>4. CASE t # {}
    <3>1. AnyOf(t) \in t /\ u \in SUBSET s /\ u # s
      BY <2>4, <1>4, AnyOfIn
    <3>2. IsSum(h, f, u)
      BY <3>1, <1>3
    <3>3. IsFiniteSet(t) /\ u \in SUBSET t
      BY <1>2, <1>4
    <3> HIDE DEF g, h, u
    <3>4. g[u] = h[u]
      BY <2>1, <3>2, <3>3, SumsAgree
    <3> QED
      BY <2>2, <3>4, <2>4 DEF g, h, u
  <2> QED
    BY <2>3, <2>4
<1>5. ASSUME NEW t \in SUBSET s, t # {} PROVE k[t \ {AnyOf(t)}] = Part(t \ {AnyOf(t)})
  <2>1. AnyOf(t) \in t
    BY <1>5, AnyOfIn
  <2>2. t \ {AnyOf(t)} \in SUBSET s /\ t \ {AnyOf(t)} # s
    BY <2>1
  <2> HIDE DEF Part, New
  <2> QED
    BY <2>2, <1>4
<1>6. \A t \in SUBSET s : New(t) = IF t = {} THEN 0 ELSE f[AnyOf(t)] + k[t \ {AnyOf(t)}]
  <2> HIDE DEF Part, k
  <2> QED
    BY <1>5
<1>7. k = [t \in SUBSET s |-> IF t = {} THEN 0 ELSE f[AnyOf(t)] + k[t \ {AnyOf(t)}]]
  <2> HIDE DEF New
  <2> QED
    BY <1>6
<1>8. IsSum(k, f, s)
  <2> HIDE DEF k
  <2> QED BY <1>7 DEF IsSum
<1> QED
  BY <1>1, <1>8

LEMMA TotalIsSum ==
    ASSUME NEW f, NEW S, IsFiniteSet(S), NEW g, IsSum(g, f, S)
    PROVE  Total(f, S) = g[S]
<1> DEFINE h == CHOOSE h : IsSum(h, f, S)
<1>1. IsSum(h, f, S)
  OBVIOUS
<1> HIDE DEF h
<1>2. h[S] = g[S]
  BY <1>1, SumsAgree
<1> QED
  BY <1>2 DEF Total, h

LEMMA TotalStep ==
    ASSUME NEW f, NEW S, IsFiniteSet(S)
    PROVE  Total(f, S) = IF S = {} THEN 0 ELSE f[AnyOf(S)] + Total(f, S \ {AnyOf(S)})
<1> DEFINE u == S \ {AnyOf(S)}
<1>1. PICK g : IsSum(g, f, S)
  BY SumExists
<1>2. Total(f, S) = g[S] /\ g[S] = IF S = {} THEN 0 ELSE f[AnyOf(S)] + g[u]
  BY <1>1, TotalIsSum DEF IsSum
<1>3. u \in SUBSET S /\ IsFiniteSet(u)
  BY FS_Subset
<1> HIDE DEF u
<1>4. PICK h : IsSum(h, f, u)
  BY <1>3, SumExists
<1>5. g[u] = h[u]
  <2>1. \A U : U \subseteq S /\ U \subseteq u /\ (\A x \in U : f[x] = f[x]) => g[U] = h[U]
    BY <1>1, <1>4, SumsAgree
  <2> QED
    BY <1>3, <2>1
<1>6. Total(f, u) = h[u]
  BY <1>3, <1>4, TotalIsSum
<1> QED
  BY <1>2, <1>5, <1>6 DEF u

LEMMA TotalType ==
    ASSUME NEW f, NEW S, IsFiniteSet(S), \A x \in S : f[x] \in Int
    PROVE  Total(f, S) \in Int
<1> DEFINE Bad == {s \in SUBSET S : Total(f, s) \notin Int}
<1> SUFFICES ASSUME Bad # {} PROVE FALSE
  OBVIOUS
<1>1. PICK s \in Bad : \A t \in Bad : t \subseteq s => t = s
  <2>1. Bad \in SUBSET (SUBSET S)
    OBVIOUS
  <2> HIDE DEF Bad
  <2> QED
    BY <2>1, MinimalPart
<1>2. s \in SUBSET S /\ IsFiniteSet(s)
  BY <1>1, FS_Subset
<1>3. s # {} /\ Total(f, s) = f[AnyOf(s)] + Total(f, s \ {AnyOf(s)})
  BY <1>1, <1>2, TotalStep
<1>4. AnyOf(s) \in s
  BY <1>3, AnyOfIn
<1>5. Total(f, s \ {AnyOf(s)}) \in Int
  BY <1>1, <1>2, <1>4
<1> QED
  BY <1>1, <1>2, <1>3, <1>4, <1>5

(* The elements can be taken in any order. *)
LEMMA TotalAny ==
    ASSUME NEW f, NEW S, IsFiniteSet(S), \A x \in S : f[x] \in Int, NEW x \in S
    PROVE  Total(f, S) = f[x] + Total(f, S \ {x})
<1> DEFINE Bad == {s \in SUBSET S : \E y \in s : Total(f, s) # f[y] + Total(f, s \ {y})}
<1> SUFFICES ASSUME Bad # {} PROVE FALSE
  OBVIOUS
<1>1. PICK s \in Bad : \A t \in Bad : t \subseteq s => t = s
  <2>1. Bad \in SUBSET (SUBSET S)
    OBVIOUS
  <2> HIDE DEF Bad
  <2> QED
    BY <2>1, MinimalPart
<1>2. PICK y \in s : Total(f, s) # f[y] + Total(f, s \ {y})
  BY <1>1
<1> DEFINE a == AnyOf(s)
<1>3. s \in SUBSET S /\ IsFiniteSet(s) /\ a \in s
  BY <1>1, <1>2, FS_Subset, AnyOfIn
<1>4. Total(f, s) = f[a] + Total(f, s \ {a})
  BY <1>2, <1>3, TotalStep
<1> HIDE DEF a
<1>5. y # a
  BY <1>2, <1>4
<1>6. Total(f, s \ {a}) = f[y] + Total(f, (s \ {a}) \ {y})
  <2>1. s \ {a} \in SUBSET S /\ y \in s \ {a} /\ s \ {a} \notin Bad
    BY <1>1, <1>2, <1>3, <1>5
  <2> QED
    BY <2>1
<1>7. Total(f, s \ {y}) = f[a] + Total(f, (s \ {y}) \ {a})
  <2>1. s \ {y} \in SUBSET S /\ a \in s \ {y} /\ s \ {y} \notin Bad
    BY <1>1, <1>2, <1>3, <1>5
  <2> QED
    BY <2>1
<1>8. (s \ {y}) \ {a} = (s \ {a}) \ {y}
  OBVIOUS
<1>9. f[a] \in Int /\ f[y] \in Int /\ Total(f, (s \ {a}) \ {y}) \in Int
  <2>1. (s \ {a}) \ {y} \in SUBSET S
    BY <1>3
  <2>2. IsFiniteSet((s \ {a}) \ {y})
    BY <2>1, FS_Subset
  <2>3. \A z \in (s \ {a}) \ {y} : f[z] \in Int
    BY <2>1
  <2> QED
    BY <1>2, <1>3, <2>2, <2>3, TotalType
<1> DEFINE w == Total(f, (s \ {a}) \ {y})
<1>10. Total(f, s) = f[a] + (f[y] + w) /\ Total(f, s \ {y}) = f[a] + w
  BY <1>4, <1>6, <1>7, <1>8
<1>11. w \in Int
  BY <1>9
<1> HIDE DEF w
<1> QED
  BY <1>2, <1>9, <1>10, <1>11

LEMMA TotalSame ==
    ASSUME NEW f, NEW h, NEW S, IsFiniteSet(S), \A x \in S : f[x] = h[x]
    PROVE  Total(f, S) = Total(h, S)
<1>1. PICK g : IsSum(g, f, S)
  BY SumExists
<1>2. PICK k : IsSum(k, h, S)
  BY SumExists
<1>3. \A U : U \subseteq S /\ U \subseteq S /\ (\A x \in U : f[x] = h[x]) => g[U] = k[U]
  BY <1>1, <1>2, SumsAgree
<1>4. g[S] = k[S]
  BY <1>3
<1> QED
  BY <1>1, <1>2, <1>4, TotalIsSum

(* Each summand one more. *)
LEMMA TotalShift ==
    ASSUME NEW f, NEW h, NEW S, IsFiniteSet(S),
           \A x \in S : f[x] \in Int /\ h[x] = f[x] + 1
    PROVE  Total(h, S) = Total(f, S) + Cardinality(S)
<1> DEFINE Bad == {s \in SUBSET S : Total(h, s) # Total(f, s) + Cardinality(s)}
<1> SUFFICES ASSUME Bad # {} PROVE FALSE
  OBVIOUS
<1>1. PICK s \in Bad : \A t \in Bad : t \subseteq s => t = s
  <2>1. Bad \in SUBSET (SUBSET S)
    OBVIOUS
  <2> HIDE DEF Bad
  <2> QED
    BY <2>1, MinimalPart
<1>2. s \in SUBSET S /\ IsFiniteSet(s)
  BY <1>1, FS_Subset
<1>3. s # {}
  <2>1. Total(h, {}) = 0 /\ Total(f, {}) = 0 /\ Cardinality({}) = 0
    BY TotalStep, FS_EmptySet
  <2>2. Total(h, s) # Total(f, s) + Cardinality(s)
    BY <1>1
  <2> QED
    BY <2>1, <2>2
<1> DEFINE a == AnyOf(s)
           u == s \ {a}
<1>4. a \in s /\ Total(h, s) = h[a] + Total(h, u) /\ Total(f, s) = f[a] + Total(f, u)
  BY <1>2, <1>3, TotalStep, AnyOfIn
<1> HIDE DEF a
<1>5. u \in SUBSET S /\ u \subseteq s /\ u # s
  BY <1>2, <1>4
<1>6. Cardinality(u) = Cardinality(s) - 1 /\ IsFiniteSet(u) /\ Cardinality(s) \in Nat
  BY <1>2, <1>4, FS_RemoveElement, FS_CardinalityType
<1>7. Total(h, u) = Total(f, u) + Cardinality(u)
  BY <1>1, <1>5
<1>8. Total(f, u) \in Int
  <2>1. \A x \in u : f[x] \in Int
    BY <1>5
  <2> HIDE DEF u
  <2> QED
    BY <2>1, <1>6, TotalType
<1>9. f[a] \in Int /\ h[a] = f[a] + 1
  BY <1>2, <1>4
<1> HIDE DEF u
<1> QED
  BY <1>1, <1>4, <1>6, <1>7, <1>8, <1>9

LEMMA TotalZero ==
    ASSUME NEW f, NEW S, IsFiniteSet(S), \A x \in S : f[x] = 0
    PROVE  Total(f, S) = 0
<1> DEFINE Bad == {s \in SUBSET S : Total(f, s) # 0}
<1> SUFFICES ASSUME Bad # {} PROVE FALSE
  OBVIOUS
<1>1. PICK s \in Bad : \A t \in Bad : t \subseteq s => t = s
  <2>1. Bad \in SUBSET (SUBSET S)
    OBVIOUS
  <2> HIDE DEF Bad
  <2> QED
    BY <2>1, MinimalPart
<1>2. s \in SUBSET S /\ IsFiniteSet(s)
  BY <1>1, FS_Subset
<1>3. s # {} /\ Total(f, s) = f[AnyOf(s)] + Total(f, s \ {AnyOf(s)})
  BY <1>1, <1>2, TotalStep
<1>4. AnyOf(s) \in s
  BY <1>3, AnyOfIn
<1> QED
  BY <1>1, <1>2, <1>3, <1>4

(* Elements whose summand is 0 can be left out. *)
LEMMA TotalOfSupport ==
    ASSUME NEW f, NEW S, IsFiniteSet(S), NEW T \in SUBSET S,
           \A x \in S : f[x] \in Int, \A x \in S \ T : f[x] = 0
    PROVE  Total(f, S) = Total(f, T)
<1> DEFINE Bad == {s \in SUBSET S : T \subseteq s /\ Total(f, s) # Total(f, T)}
<1> SUFFICES ASSUME Bad # {} PROVE FALSE
  OBVIOUS
<1>1. PICK s \in Bad : \A t \in Bad : t \subseteq s => t = s
  <2>1. Bad \in SUBSET (SUBSET S)
    OBVIOUS
  <2> HIDE DEF Bad
  <2> QED
    BY <2>1, MinimalPart
<1>2. s \in SUBSET S /\ IsFiniteSet(s) /\ T \subseteq s /\ s # T
  BY <1>1, FS_Subset
<1>3. PICK x \in s \ T : TRUE
  BY <1>2
<1>4. \A y \in s : f[y] \in Int
  BY <1>2
<1> DEFINE u == s \ {x}
<1>5. Total(f, s) = f[x] + Total(f, u) /\ f[x] = 0
  BY <1>2, <1>3, <1>4, TotalAny
<1>6. Total(f, u) = Total(f, T)
  BY <1>1, <1>2, <1>3
<1>7. Total(f, u) \in Int
  <2>1. IsFiniteSet(u) /\ \A y \in u : f[y] \in Int
    BY <1>2, <1>4, FS_RemoveElement
  <2> HIDE DEF u
  <2> QED
    BY <2>1, TotalType
<1> HIDE DEF u
<1> QED
  BY <1>1, <1>5, <1>6, <1>7
-----------------------------------------------------------------------------
(* The windows of the statistics. *)

(* The time each outstanding operation has taken in this window. *)
Times == [id \in Active |-> InWindow(id)]

(* What LogStats would report is owed, and all that is owed unless an id   *)
(* was started again; no operation began, and the window did not, after    *)
(* now.  This is inductive.                                                *)
AccumInv ==
    /\ now \in Int /\ start \in Int /\ start <= now
    /\ ops \in Int /\ optime \in Int
    /\ IsFiniteSet(Active)
    /\ currentOps = [id \in Active |-> currentOps[id]]
    /\ \A id \in Active : currentOps[id] \in Int /\ currentOps[id] <= now
    /\ owedTime \in Int /\ owedOps \in Int
    /\ restarts \in Nat /\ unseen \in Nat /\ unseen <= restarts
    /\ optime + Total(Times, Active) <= owedTime
    /\ ops <= owedOps
    /\ restarts = 0 => optime + Total(Times, Active) = owedTime /\ ops = owedOps

(* The sum in LogStats is the total of the times. *)
LEMMA ExecutedIsTotal ==
    ASSUME IsFiniteSet(Active)
    PROVE  Executed = optime + Total(Times, Active)
<1> DEFINE Sums(g) == g = [s \in SUBSET Active |->
                             IF s = {} THEN 0
                             ELSE InWindow(CHOOSE x \in s : TRUE) + g[s \ {CHOOSE x \in s : TRUE}]]
           g0 == CHOOSE g : Sums(g)
<1>1. Executed = optime + g0[Active]
  BY DEF Executed, MapThenSumSet, MapThenFoldSet
<1>2. \A g : Sums(g) <=> IsSum(g, Times, Active)
  <2>1. \A s \in SUBSET Active : s # {} => Times[AnyOf(s)] = InWindow(AnyOf(s))
    BY AnyOfIn DEF Times
  <2> QED
    BY <2>1 DEF IsSum, AnyOf
<1>3. \E g : Sums(g)
  BY <1>2, SumExists
<1> HIDE DEF Sums
<1>4. Sums(g0)
  BY <1>3
<1>5. IsSum(g0, Times, Active)
  BY <1>2, <1>4
<1> HIDE DEF g0
<1>6. Total(Times, Active) = g0[Active]
  BY <1>5, TotalIsSum
<1> QED
  BY <1>1, <1>6

LEMMA TimesAreIntegers ==
    ASSUME AccumInv
    PROVE  /\ \A id \in Active : Times[id] \in Nat /\ Times[id] = InWindow(id)
           /\ Total(Times, Active) \in Int
<1>1. \A id \in Active : Times[id] \in Nat /\ Times[id] = InWindow(id)
  BY DEF AccumInv, Times, InWindow, Larger
<1>2. IsFiniteSet(Active)
  BY DEF AccumInv
<1> QED
  BY <1>1, <1>2, TotalType

LEMMA AccumInitEstablishes == AccumInit => AccumInv
<1> SUFFICES ASSUME AccumInit PROVE AccumInv
  OBVIOUS
<1>1. Active = {} /\ IsFiniteSet(Active)
  BY FS_EmptySet DEF AccumInit, Active
<1>2. Total(Times, Active) = 0
  BY <1>1, TotalStep
<1> QED
  BY <1>1, <1>2 DEF AccumInit, AccumInv

(* An operation that begins has taken no time yet; under an id that is in  *)
(* the table it takes the place of one that had.                           *)
LEMMA StartOpPreserves ==
    ASSUME AccumInv, NEW id \in Ids, StartOp(id)
    PROVE  AccumInv'
<1>1. /\ Active' = Active \cup {id}
      /\ currentOps' = [i \in Active' |-> IF i = id THEN now ELSE currentOps[i]]
      /\ IF id \in Active THEN restarts' = restarts + 1 /\ unseen' = unseen + 1
         ELSE UNCHANGED <<restarts, unseen>>
      /\ UNCHANGED <<now, start, ops, optime, owedTime, owedOps>>
  BY DEF StartOp, Active, shareVars
<1> DEFINE Others == Active \ {id}
<1>2. IsFiniteSet(Active) /\ IsFiniteSet(Active') /\ IsFiniteSet(Others)
  BY <1>1, FS_AddElement, FS_RemoveElement DEF AccumInv
<1>3. Times'[id] = 0 /\ \A i \in Others : Times'[i] = Times[i] /\ Times'[i] \in Int
  BY <1>1, TimesAreIntegers DEF AccumInv, Times, InWindow, Larger
<1>4. Total(Times', Active') = Total(Times', Others) /\ Total(Times', Others) = Total(Times, Others)
  <2>1. Active' \ {id} = Others /\ id \in Active' /\ \A i \in Active' : Times'[i] \in Int
    BY <1>1, <1>3
  <2>2. Total(Times', Others) = Total(Times, Others) /\ Total(Times', Others) \in Int
    BY <1>2, <1>3, TotalSame, TotalType
  <2> HIDE DEF Others
  <2>3. Total(Times', Active') = Times'[id] + Total(Times', Active' \ {id})
    BY <1>2, <2>1, TotalAny
  <2>4. Total(Times', Active' \ {id}) = Total(Times', Others)
    BY <2>1
  <2> QED
    BY <1>3, <2>2, <2>3, <2>4
<1>5. /\ Total(Times, Others) \in Int
      /\ Total(Times, Others) <= Total(Times, Active)
      /\ id \notin Active => Total(Times, Others) = Total(Times, Active)
  <2>1. CASE id \in Active
    <3>1. Total(Times, Active) = Times[id] + Total(Times, Others)
      BY <1>2, <2>1, TimesAreIntegers, TotalAny
    <3>2. Times[id] \in Nat /\ Total(Times, Others) \in Int
      BY <1>2, <2>1, TimesAreIntegers, TotalType
    <3> HIDE DEF Others
    <3> QED
      BY <2>1, <3>1, <3>2
  <2>2. CASE id \notin Active
    <3>1. Others = Active
      BY <2>2
    <3> QED
      BY <2>2, <3>1, TimesAreIntegers
  <2> QED
    BY <2>1, <2>2
<1> HIDE DEF Others
<1>6. /\ currentOps' = [i \in Active' |-> currentOps'[i]]
      /\ \A i \in Active' : currentOps'[i] \in Int /\ currentOps'[i] <= now'
  BY <1>1 DEF AccumInv
<1>7. optime' + Total(Times', Active') <= optime + Total(Times, Active)
  BY <1>1, <1>4, <1>5, TimesAreIntegers DEF AccumInv
<1>8. id \notin Active => optime' + Total(Times', Active') = optime + Total(Times, Active)
  BY <1>1, <1>4, <1>5
<1>9. /\ restarts' \in Nat /\ unseen' \in Nat /\ unseen' <= restarts'
      /\ restarts' = 0 => restarts = 0 /\ id \notin Active
  BY <1>1 DEF AccumInv
<1>10. Total(Times', Active') \in Int /\ Total(Times, Active) \in Int
  BY <1>4, <1>5, TimesAreIntegers
<1> QED
  BY <1>1, <1>2, <1>6, <1>7, <1>8, <1>9, <1>10 DEF AccumInv

(* The time of an operation that leaves the table leaves the total. *)
LEMMA ForgetTakesItsTime ==
    ASSUME AccumInv, NEW id \in Active, Forget(id), UNCHANGED <<now, start>>
    PROVE  /\ IsFiniteSet(Active')
           /\ currentOps' = [i \in Active' |-> currentOps'[i]]
           /\ \A i \in Active' : currentOps'[i] \in Int /\ currentOps'[i] <= now'
           /\ Total(Times, Active) = InWindow(id) + Total(Times', Active')
           /\ InWindow(id) \in Int /\ Total(Times', Active') \in Int
<1>1. /\ Active' = Active \ {id}
      /\ currentOps' = [i \in Active' |-> currentOps[i]]
  BY DEF Forget, Restrict, Active
<1>2. IsFiniteSet(Active) /\ IsFiniteSet(Active')
  BY <1>1, FS_RemoveElement DEF AccumInv
<1>3. Total(Times, Active) = InWindow(id) + Total(Times, Active')
  BY <1>1, <1>2, TimesAreIntegers, TotalAny
<1>4. \A i \in Active' : Times'[i] = Times[i] /\ Times'[i] \in Int
  BY <1>1, TimesAreIntegers DEF AccumInv, Times, InWindow, Larger
<1>5. Total(Times', Active') = Total(Times, Active') /\ Total(Times', Active') \in Int
  BY <1>2, <1>4, TotalSame, TotalType
<1> QED
  BY <1>1, <1>2, <1>3, <1>5, TimesAreIntegers DEF AccumInv

LEMMA CancelOpPreserves ==
    ASSUME AccumInv, NEW id \in Ids, CancelOp(id)
    PROVE  AccumInv'
<1>1. UNCHANGED <<now, start, ops, optime, owedOps>>
  BY DEF CancelOp
<1>2. CASE id \in Active
  <2>1. Forget(id) /\ owedTime' = owedTime - InWindow(id) /\ UNCHANGED <<restarts, unseen>>
    BY <1>2 DEF CancelOp, shareVars
  <2> QED
    BY <1>1, <1>2, <2>1, ForgetTakesItsTime DEF AccumInv
<1>3. CASE id \notin Active
  <2>1. /\ UNCHANGED <<currentOps, owedTime, restarts>>
        /\ unseen' = unseen \/ (unseen > 0 /\ unseen' = unseen - 1)
    BY <1>3 DEF CancelOp, UnseenEnds, shareVars
  <2>2. Active' = Active /\ Times' = Times
    BY <1>1, <2>1 DEF Active, Times, InWindow
  <2> QED
    BY <1>1, <2>1, <2>2 DEF AccumInv
<1> QED
  BY <1>2, <1>3

(* The time moves to optime. *)
LEMMA DoneOpPreserves ==
    ASSUME AccumInv, NEW id \in Ids, DoneOp(id)
    PROVE  AccumInv'
<1>1. UNCHANGED <<now, start, owedTime>>
  BY DEF DoneOp
<1>2. CASE id \in Active
  <2>1. /\ Forget(id) /\ ops' = ops + 1 /\ owedOps' = owedOps + 1
        /\ optime' = optime + InWindow(id)
        /\ UNCHANGED <<restarts, unseen>>
    BY <1>2 DEF DoneOp, shareVars
  <2> QED
    BY <1>1, <1>2, <2>1, ForgetTakesItsTime DEF AccumInv
<1>3. CASE id \notin Active
  <2>1. /\ UNCHANGED <<currentOps, ops, optime, restarts>>
        /\ \/ unseen > 0 /\ unseen' = unseen - 1 /\ owedOps' = owedOps + 1
           \/ UNCHANGED <<unseen, owedOps>>
    BY <1>3 DEF DoneOp, UnseenEnds, shareVars
  <2>2. Active' = Active /\ Times' = Times
    BY <1>1, <2>1 DEF Active, Times, InWindow
  <2> QED
    BY <1>1, <2>1, <2>2 DEF AccumInv
<1> QED
  BY <1>2, <1>3

(* What is reported is owed no more, and the operations going on begin anew. *)
LEMMA LogStatsPreserves ==
    ASSUME AccumInv, LogStats
    PROVE  AccumInv'
<1>1. /\ start' = now /\ ops' = 0 /\ optime' = 0
      /\ report' = [executed |-> Executed, dur |-> now - start, ops |-> ops]
      /\ owedTime' = owedTime - report'.executed
      /\ owedOps' = owedOps - report'.ops
      /\ UNCHANGED <<now, currentOps, restarts, unseen>>
  BY DEF LogStats, shareVars
<1>2. Active' = Active /\ IsFiniteSet(Active)
  BY <1>1 DEF Active, AccumInv
<1>3. /\ Executed \in Int /\ Executed <= owedTime
      /\ restarts = 0 => Executed = owedTime
  BY <1>2, ExecutedIsTotal, TimesAreIntegers DEF AccumInv
<1>4. /\ owedTime' \in Int /\ owedTime' >= 0 /\ owedOps' \in Int /\ owedOps' >= 0
      /\ restarts' = 0 => owedTime' = 0 /\ owedOps' = 0
  BY <1>1, <1>3 DEF AccumInv
<1>5. \A id \in Active : Times'[id] = 0
  BY <1>1, <1>2 DEF AccumInv, Times, InWindow, Larger
<1>6. Total(Times', Active') = 0
  BY <1>2, <1>5, TotalZero
<1> QED
  BY <1>1, <1>2, <1>4, <1>6 DEF AccumInv

LEMMA SameCardinality ==
    ASSUME NEW S PROVE Cardinality(S) = Cardinality(S)
BY DEF Cardinality, Cardinality

(* A tick of the clock is a tick of every outstanding operation. *)
LEMMA TickPreserves ==
    ASSUME AccumInv, Tick
    PROVE  AccumInv'
<1>1. /\ now' = now + 1 /\ owedTime' = owedTime + Cardinality(Active) + unseen
      /\ UNCHANGED <<start, ops, optime, currentOps, restarts, unseen, owedOps>>
  BY SameCardinality DEF Tick, shareVars
<1>2. Active' = Active /\ IsFiniteSet(Active) /\ Cardinality(Active) \in Nat
  BY <1>1, FS_CardinalityType DEF Active, AccumInv
<1>3. \A id \in Active : Times[id] \in Int /\ Times'[id] = Times[id] + 1
  BY <1>1, <1>2, TimesAreIntegers DEF AccumInv, Times, InWindow, Larger
<1>4. Total(Times', Active) = Total(Times, Active) + Cardinality(Active)
  BY <1>2, <1>3, TotalShift
<1>5. /\ owedTime' \in Int
      /\ optime' + Total(Times', Active') <= owedTime'
      /\ restarts' = 0 => optime' + Total(Times', Active') = owedTime'
  BY <1>1, <1>2, <1>4, TimesAreIntegers DEF AccumInv
<1> QED
  BY <1>1, <1>2, <1>5 DEF AccumInv

LEMMA AccumKeepsInv == AccumInv /\ [AccumNext]_windowVars => AccumInv'
<1> SUFFICES ASSUME AccumInv, [AccumNext]_windowVars PROVE AccumInv'
  OBVIOUS
<1>1. CASE AccumNext
  BY <1>1, StartOpPreserves, CancelOpPreserves, DoneOpPreserves, LogStatsPreserves, TickPreserves
  DEF AccumNext
<1>2. CASE UNCHANGED windowVars
  <2>1. UNCHANGED <<now, start, ops, optime, currentOps, restarts, unseen, owedTime, owedOps>>
    BY <1>2 DEF windowVars, accumVars, histVars, shareVars
  <2>2. Active' = Active /\ Times' = Times
    BY <2>1 DEF Active, Times, InWindow
  <2> QED
    BY <2>1, <2>2 DEF AccumInv
<1> QED
  BY <1>1, <1>2

(* Over all windows together no time of an operation is reported twice     *)
(* (stats_accum.go: LogStats, DoneOp, CancelOp) and none done is counted   *)
(* twice, also when operations share an id; and until two do, none is left *)
(* out: for every set of ids and however starts, reports, cancellations,   *)
(* ends and the clock's ticks follow.                                      *)
THEOREM NothingIsReportedTwice == AccumSpec => []WindowsAddUp
<1>1. AccumInv => WindowsAddUp
  BY ExecutedIsTotal DEF AccumInv, WindowsAddUp
<1> QED
  BY AccumInitEstablishes, AccumKeepsInv, <1>1, PTL DEF AccumSpec
-----------------------------------------------------------------------------
(* The percentiles.  The state of the walk has a closed form: after i of   *)
(* n points it has come down to n - i, and each percentile that this has   *)
(* reached was read off at the first point where it did.                   *)

(* A finite set of integers has a least element. *)
LEMMA LeastOf ==
    ASSUME NEW S, IsFiniteSet(S)
    PROVE  S # {} /\ S \subseteq Int => \E m \in S : \A x \in S : m <= x
<1>1. SUFFICES ASSUME S # {}, S \subseteq Int PROVE \E m \in S : \A x \in S : m <= x
  OBVIOUS
<1> DEFINE UpTo(x) == {y \in S : y <= x}
           T == {UpTo(x) : x \in S}
<1>2. T \in SUBSET (SUBSET S) /\ T # {}
  BY <1>1
<1>3. PICK s \in T : \A t \in T : t \subseteq s => t = s
  <2> HIDE DEF T
  <2> QED
    BY <1>2, MinimalPart
<1>4. PICK m \in S : s = UpTo(m)
  BY <1>3
<1>5. ASSUME NEW x \in S, x < m PROVE FALSE
  <2>1. \A y \in S : y <= x => y <= m
    BY <1>1, <1>5
  <2>2. UpTo(x) \in T /\ UpTo(x) \subseteq UpTo(m)
    BY <2>1
  <2>3. m \in UpTo(m) /\ m \notin UpTo(x)
    BY <1>1, <1>5
  <2> QED
    BY <1>3, <1>4, <2>2, <2>3
<1> QED
  BY <1>1, <1>5

LEMMA LeastFrom ==
    ASSUME NEW n \in Nat, NEW S \in SUBSET (0..n), S # {}
    PROVE  \E m \in S : \A x \in S : m <= x
<1>1. IsFiniteSet(0..n)
  BY FS_Interval
<1>2. IsFiniteSet(S)
  BY <1>1, FS_Subset
<1>3. S \subseteq Int
  OBVIOUS
<1> QED
  BY <1>2, <1>3, LeastOf

(* What never goes up from one index to the next never goes up. *)
LEMMA Descends ==
    ASSUME NEW f, NEW n \in Nat, \A i \in 1..n : f[i] \in Int,
           \A i \in 2..n : f[i - 1] >= f[i]
    PROVE  \A i, j \in 1..n : i <= j => f[i] >= f[j]
<1> SUFFICES ASSUME NEW i \in 1..n, NEW k \in 1..n, i <= k, f[i] < f[k] PROVE FALSE
  OBVIOUS
<1> DEFINE Bad == {j \in 1..n : i <= j /\ f[i] < f[j]}
<1>1. PICK m \in Bad : \A x \in Bad : m <= x
  <2>1. Bad # {} /\ Bad \subseteq 0..n
    OBVIOUS
  <2> HIDE DEF Bad
  <2> QED BY <2>1, LeastFrom
<1>2. m # i /\ m - 1 \in 1..n /\ m \in 2..n
  BY <1>1
<1>3. m - 1 \in Bad
  BY <1>1, <1>2
<1> QED
  BY <1>1, <1>2, <1>3

(* The part of 1..n that is closed downward is an interval. *)
LEMMA InitialPart ==
    ASSUME NEW n \in Nat, NEW R \in SUBSET (1..n),
           \A i \in R : \A k \in 1..i : k \in R
    PROVE  R = 1..Cardinality(R) /\ Cardinality(R) \in 0..n
<1> DEFINE Out == (1..(n + 1)) \ R
<1>1. PICK m \in Out : \A x \in Out : m <= x
  <2>1. Out # {} /\ Out \subseteq 0..(n + 1)
    OBVIOUS
  <2>2. n + 1 \in Nat
    OBVIOUS
  <2> HIDE DEF Out
  <2> QED BY <2>1, <2>2, LeastFrom
<1>2. R = 1..(m - 1)
  <2>1. \A i \in 1..(m - 1) : i \in R
    BY <1>1
  <2>2. m \notin R
    BY <1>1
  <2>3. \A i \in R : i \in 1..n /\ (i >= m => m \in 1..i)
    BY <1>1
  <2>4. \A i \in R : i \in 1..(m - 1)
    BY <1>1, <2>2, <2>3
  <2> QED
    BY <2>1, <2>4
<1>3. Cardinality(1..(m - 1)) = m - 1
  BY <1>1, FS_Interval, 1 \in Int, m - 1 \in Int
<1> QED
  BY <1>1, <1>2, <1>3

LEMMA TimesMonotone ==
    ASSUME NEW a \in Nat, NEW b \in Nat, a <= b, NEW n \in Nat
    PROVE  a * n \in Nat /\ b * n \in Nat /\ a * n <= b * n
<1> DEFINE d == b - a
<1>1. d \in Nat /\ b = a + d
  OBVIOUS
<1>2. b * n = a * n + d * n /\ d * n \in Nat /\ a * n \in Nat
  BY <1>1
<1> QED
  BY <1>1, <1>2

LEMMA SequenceOf ==
    ASSUME NEW T, NEW p \in Seq(T)
    PROVE  /\ Len(p) \in Nat /\ DOMAIN p = 1..Len(p)
           /\ \A i \in 1..Len(p) : p[i] \in T
OBVIOUS

LEMMA PercentilesDescend ==
    /\ NumPercentiles \in Nat
    /\ \A j \in 1..NumPercentiles : Percentiles[j] \in 0..100
    /\ \A k, j \in 1..NumPercentiles : k <= j => Percentiles[k] >= Percentiles[j]
<1>1. /\ NumPercentiles \in Nat
      /\ \A j \in 1..NumPercentiles : Percentiles[j] \in 0..100
  <2>1. Percentiles \in Seq(0..100)
    BY DistributionAssumption
  <2> QED
    BY <2>1, SequenceOf DEF NumPercentiles
<1>2. \A j \in 2..NumPercentiles : Percentiles[j - 1] > Percentiles[j] /\ j - 1 \in 1..NumPercentiles
  BY <1>1, DistributionAssumption DEF NumPercentiles
<1>3. /\ \A j \in 1..NumPercentiles : Percentiles[j] \in Int
      /\ \A j \in 2..NumPercentiles : Percentiles[j - 1] >= Percentiles[j]
  BY <1>1, <1>2
<1>4. \A k, j \in 1..NumPercentiles : k <= j => Percentiles[k] >= Percentiles[j]
  BY <1>1, <1>3, Descends
<1> QED
  BY <1>1, <1>4

LEMMA PercentileTimes == \A n \in Nat : \A j \in 1..NumPercentiles : Percentiles[j] * n \in Nat
<1>1. \A j \in 1..NumPercentiles : Percentiles[j] \in Nat
  BY PercentilesDescend
<1> QED
  BY <1>1, TimesMonotone

(* What the walk over n points has come down to after i of them. *)
Reached(n, i) == {j \in 1..NumPercentiles : i # 0 /\ (n - i) * 100 <= Percentiles[j] * n}

LEMMA ReachedIsInitial ==
    ASSUME NEW n \in Nat, NEW i \in 0..n
    PROVE  /\ Reached(n, i) = 1..Cardinality(Reached(n, i))
           /\ Cardinality(Reached(n, i)) \in 0..NumPercentiles
<1>1. ASSUME NEW j \in Reached(n, i), NEW k \in 1..j PROVE k \in Reached(n, i)
  <2>1. k \in 1..NumPercentiles /\ j \in 1..NumPercentiles /\ k <= j
    BY PercentilesDescend DEF Reached
  <2>2. Percentiles[j] \in Nat /\ Percentiles[k] \in Nat /\ Percentiles[j] <= Percentiles[k]
    BY <2>1, PercentilesDescend
  <2>3. /\ Percentiles[j] * n \in Nat /\ Percentiles[k] * n \in Nat
        /\ Percentiles[j] * n <= Percentiles[k] * n
    BY <2>2, TimesMonotone
  <2>4. i # 0 /\ (n - i) * 100 <= Percentiles[j] * n /\ (n - i) * 100 \in Int
    BY DEF Reached
  <2>5. (n - i) * 100 <= Percentiles[k] * n
    BY <2>3, <2>4
  <2> QED
    BY <2>1, <2>4, <2>5 DEF Reached
<1>2. Reached(n, i) \in SUBSET (1..NumPercentiles) /\ NumPercentiles \in Nat
  BY PercentilesDescend DEF Reached
<1> HIDE DEF Reached
<1> QED
  BY <1>1, <1>2, InitialPart

LEMMA ReachedGrows ==
    ASSUME NEW n \in Nat, NEW i \in 0..n, NEW k \in 0..n, i <= k
    PROVE  Reached(n, i) \subseteq Reached(n, k)
<1> SUFFICES ASSUME NEW j \in Reached(n, i) PROVE j \in Reached(n, k)
  OBVIOUS
<1>1. Percentiles[j] * n \in Nat
  BY PercentileTimes DEF Reached
<1>2. (n - k) * 100 <= (n - i) * 100
  OBVIOUS
<1>3. k # 0 /\ (n - k) * 100 <= Percentiles[j] * n
  BY <1>1, <1>2 DEF Reached
<1> QED
  BY <1>3 DEF Reached

LEMMA ReachedInTheEnd ==
    ASSUME NEW n \in Nat \ {0}
    PROVE  Reached(n, 0) = {} /\ Reached(n, n) = 1..NumPercentiles
<1>1. \A j \in 1..NumPercentiles : Percentiles[j] * n \in Nat
  BY PercentileTimes
<1>2. (n - n) * 100 = 0
  OBVIOUS
<1> QED
  BY <1>1, <1>2 DEF Reached

(* The point at which percentile j is read off. *)
FirstAt(n, j) ==
    CHOOSE k \in 1..n : j \in Reached(n, k) /\ \A l \in 0..n : l < k => j \notin Reached(n, l)

LEMMA FirstIsFirst ==
    ASSUME NEW n \in Nat \ {0}, NEW j \in 1..NumPercentiles
    PROVE  /\ FirstAt(n, j) \in 1..n
           /\ j \in Reached(n, FirstAt(n, j))
           /\ \A l \in 0..n : l < FirstAt(n, j) => j \notin Reached(n, l)
<1> DEFINE Good == {k \in 0..n : j \in Reached(n, k)}
<1>1. n \in Good /\ 0 \notin Good
  <2>1. Reached(n, 0) = {} /\ Reached(n, n) = 1..NumPercentiles
    BY ReachedInTheEnd
  <2> QED
    BY <2>1
<1>2. PICK k \in Good : \A l \in Good : k <= l
  <2>1. Good \in SUBSET (0..n) /\ Good # {}
    BY <1>1
  <2> HIDE DEF Good
  <2> QED
    BY <2>1, LeastFrom
<1>3. k \in 1..n /\ j \in Reached(n, k) /\ \A l \in 0..n : l < k => j \notin Reached(n, l)
  BY <1>1, <1>2
<1> QED
  BY <1>3 DEF FirstAt

(* The state of the walk over s after i points. *)
WalkedTo(s, i) ==
    LET n == Len(s)
    IN [left   |-> n - i,
        j      |-> 1 + Cardinality(Reached(n, i)),
        values |-> [j \in 1..NumPercentiles |->
                      IF j \in Reached(n, i) THEN s[FirstAt(n, j)].timing ELSE 0]]

LEMMA WalkGoesOn ==
    ASSUME NEW s, NEW i, Len(s) \in Nat, i \in 1..Len(s), s[i].weight = 1, total = Len(s)
    PROVE  WalkStep(s, WalkedTo(s, i - 1), i) = WalkedTo(s, i)
<1> DEFINE n     == Len(s)
           acc   == WalkedTo(s, i - 1)
           left  == acc.left - s[i].weight
           given == {j \in acc.j..NumPercentiles :
                       \A k \in acc.j..j : left * 100 <= Percentiles[k] * total}
           a     == Cardinality(Reached(n, i - 1))
           b     == Cardinality(Reached(n, i))
<1>1. /\ n \in Nat \ {0} /\ i \in 0..n /\ i - 1 \in 0..n
      /\ acc.left = n - (i - 1) /\ acc.j = 1 + a
      /\ acc.values = [j \in 1..NumPercentiles |->
                         IF j \in Reached(n, i - 1) THEN s[FirstAt(n, j)].timing ELSE 0]
  BY DEF WalkedTo
<1>2. left = n - i
  BY <1>1
<1>3. /\ Reached(n, i - 1) = 1..a /\ a \in 0..NumPercentiles
      /\ Reached(n, i) = 1..b /\ b \in 0..NumPercentiles
      /\ Reached(n, i - 1) \subseteq Reached(n, i)
  BY <1>1, ReachedIsInitial, ReachedGrows
<1>4. NumPercentiles \in Nat
  BY PercentilesDescend
<1>5. a <= b
  <2> HIDE DEF a, b
  <2>1. 1..a \subseteq 1..b
    BY <1>3, Zenon
  <2>2. a \in Nat /\ b \in Nat
    BY <1>3, <1>4
  <2>3. a # 0 => a \in 1..a
    BY <2>2
  <2> QED
    BY <2>1, <2>2, <2>3
<1>6. given = (a + 1)..b
  <2>1. ASSUME NEW j \in 1..NumPercentiles
        PROVE  j \in Reached(n, i) <=> left * 100 <= Percentiles[j] * total
    BY <1>1, <1>2 DEF Reached
  <2>2. given = {j \in (a + 1)..NumPercentiles : \A k \in (a + 1)..j : k \in Reached(n, i)}
    <3> HIDE DEF left, acc, a
    <3> QED
      BY <1>1, <1>3, <1>4, <2>1
  <2> HIDE DEF given, a, b
  <2>3. a \in Nat /\ b \in Nat /\ b <= NumPercentiles /\ Reached(n, i) = 1..b
    BY <1>3, <1>4
  <2>4. ASSUME NEW j \in given PROVE j \in (a + 1)..b
    <3>1. j \in (a + 1)..NumPercentiles /\ \A k \in (a + 1)..j : k \in 1..b
      BY <2>2, <2>3
    <3>2. j \in (a + 1)..j
      BY <1>4, <2>3, <3>1
    <3> QED
      BY <2>3, <3>1, <3>2
  <2>5. ASSUME NEW j \in (a + 1)..b PROVE j \in given
    BY <1>4, <2>2, <2>3
  <2> QED
    BY <2>4, <2>5
<1>7. acc.j + Cardinality(given) = 1 + b
  <2> HIDE DEF given, a, b, acc
  <2>1. a + 1 \in Int /\ b \in Int /\ a <= b
    BY <1>3, <1>4, <1>5
  <2>2. Cardinality((a + 1)..b) = IF a + 1 > b THEN 0 ELSE b - (a + 1) + 1
    BY <2>1, FS_Interval
  <2>3. Cardinality((a + 1)..b) = b - a
    BY <1>3, <1>4, <2>1, <2>2
  <2> QED
    BY <1>1, <1>3, <1>4, <1>6, <2>3
<1>8. ASSUME NEW j \in 1..NumPercentiles
      PROVE  (IF j \in given THEN s[i].timing ELSE acc.values[j])
               = IF j \in Reached(n, i) THEN s[FirstAt(n, j)].timing ELSE 0
  <2>1. CASE j \in given
    <3>1. j \in Reached(n, i) /\ j \notin Reached(n, i - 1)
      <4> HIDE DEF given, a, b
      <4> QED
        BY <1>3, <1>6, <2>1
    <3>2. ASSUME NEW l \in 0..n, l < i PROVE j \notin Reached(n, l)
      <4>1. Reached(n, l) \subseteq Reached(n, i - 1)
        BY <1>1, <3>2, ReachedGrows
      <4> QED
        BY <3>1, <4>1
    <3>3. FirstAt(n, j) = i
      <4>1. /\ FirstAt(n, j) \in 1..n /\ j \in Reached(n, FirstAt(n, j))
            /\ \A l \in 0..n : l < FirstAt(n, j) => j \notin Reached(n, l)
        BY <1>1, FirstIsFirst
      <4> QED
        BY <1>1, <3>1, <3>2, <4>1
    <3> QED
      BY <2>1, <3>1, <3>3
  <2>2. CASE j \notin given
    <3>1. j \in Reached(n, i) <=> j \in Reached(n, i - 1)
      <4> HIDE DEF given, a, b
      <4> QED
        BY <1>3, <1>6, <2>2
    <3> HIDE DEF given, acc
    <3> QED
      BY <1>1, <2>2, <3>1
  <2> QED
    BY <2>1, <2>2
<1>9. WalkStep(s, acc, i)
        = [left |-> left, j |-> acc.j + Cardinality(given),
           values |-> [j \in 1..NumPercentiles |-> IF j \in given THEN s[i].timing ELSE acc.values[j]]]
  BY DEF WalkStep
<1>10. WalkStep(s, acc, i) = WalkedTo(s, i)
  <2> HIDE DEF given, acc, left, a
  <2> QED
    BY <1>2, <1>7, <1>8, <1>9 DEF WalkedTo
<1> QED
  BY <1>10

LEMMA WalkIsWalkedTo ==
    ASSUME NEW s, Len(s) \in Nat, \A i \in 1..Len(s) : s[i].weight = 1, total = Len(s)
    PROVE  Walk(s) = WalkedTo(s, Len(s)).values
<1> DEFINE none     == [left |-> total, j |-> 1, values |-> [j \in 1..NumPercentiles |-> 0]]
           Walks(g) == g = [i \in 0..Len(s) |-> IF i = 0 THEN none ELSE WalkStep(s, g[i - 1], i)]
           g0       == CHOOSE g : Walks(g)
           k        == [i \in 0..Len(s) |-> WalkedTo(s, i)]
<1>1. Walk(s) = g0[Len(s)].values
  BY DEF Walk
<1>2. WalkedTo(s, 0) = none
  <2>1. Reached(Len(s), 0) = {} /\ Cardinality({}) = 0
    BY FS_EmptySet DEF Reached
  <2>2. WalkedTo(s, 0).values = [j \in 1..NumPercentiles |-> 0]
    BY <2>1 DEF WalkedTo
  <2>3. Len(s) - 0 = total /\ 1 + 0 = 1
    OBVIOUS
  <2>4. WalkedTo(s, 0) = [left |-> Len(s) - 0, j |-> 1 + Cardinality(Reached(Len(s), 0)),
                          values |-> WalkedTo(s, 0).values]
    BY DEF WalkedTo
  <2> QED
    BY <2>1, <2>2, <2>3, <2>4
<1>3. \A i \in 1..Len(s) : i - 1 \in 0..Len(s) /\ WalkedTo(s, i) = WalkStep(s, WalkedTo(s, i - 1), i)
  BY WalkGoesOn
<1>4. Walks(k)
  <2> HIDE DEF none
  <2>1. \A i \in 0..Len(s) : k[i] = IF i = 0 THEN none ELSE WalkStep(s, k[i - 1], i)
    BY <1>2, <1>3
  <2> QED
    BY <2>1
<1>5. Walks(g0)
  <2> HIDE DEF Walks
  <2> QED
    BY <1>4
<1> HIDE DEF none, g0
<1>6. \A i \in 0..Len(s) : g0[i] = IF i = 0 THEN none ELSE WalkStep(s, g0[i - 1], i)
  BY <1>5
<1> DEFINE Bad == {i \in 0..Len(s) : g0[i] # WalkedTo(s, i)}
<1>7. Bad = {}
  <2> SUFFICES ASSUME Bad # {} PROVE FALSE
    OBVIOUS
  <2>1. PICK m \in Bad : \A x \in Bad : m <= x
    <3>1. Bad \in SUBSET (0..Len(s))
      OBVIOUS
    <3> HIDE DEF Bad
    <3> QED
      BY <3>1, LeastFrom
  <2>2. m # 0 /\ m \in 1..Len(s)
    BY <1>2, <1>6, <2>1
  <2>3. m - 1 \in 0..Len(s) /\ m - 1 \notin Bad
    BY <2>1, <2>2
  <2>4. g0[m] = WalkStep(s, WalkedTo(s, m - 1), m)
    BY <1>6, <2>2, <2>3
  <2> QED
    BY <1>3, <2>1, <2>2, <2>4
<1> QED
  BY <1>1, <1>7

LEMMA WalkValues ==
    ASSUME NEW s, Len(s) \in Nat, \A i \in 1..Len(s) : s[i].weight = 1, total = Len(s),
           NEW j \in 1..NumPercentiles
    PROVE  Walk(s)[j] = IF Len(s) = 0 THEN 0 ELSE s[FirstAt(Len(s), j)].timing
<1>1. Walk(s)[j] = IF j \in Reached(Len(s), Len(s)) THEN s[FirstAt(Len(s), j)].timing ELSE 0
  <2> DEFINE n == Len(s)
             vs == [i \in 1..NumPercentiles |->
                      IF i \in Reached(n, n) THEN s[FirstAt(n, i)].timing ELSE 0]
  <2>1. WalkedTo(s, n).values = vs
    BY DEF WalkedTo
  <2>2. Walk(s) = vs
    BY <2>1, WalkIsWalkedTo
  <2> QED
    BY <2>2
<1>2. j \in Reached(Len(s), Len(s)) <=> Len(s) # 0
  <2>1. CASE Len(s) = 0
    BY <2>1 DEF Reached
  <2>2. CASE Len(s) # 0
    <3>1. Reached(Len(s), Len(s)) = 1..NumPercentiles
      BY <2>2, ReachedInTheEnd
    <3> QED
      BY <2>2, <3>1
  <2> QED
    BY <2>1, <2>2
<1> QED
  BY <1>1, <1>2
-----------------------------------------------------------------------------
LatencyPoints == [timing : Nat, weight : {1}]

LEMMA SortingPermutes ==
    ASSUME NEW r \in Seq(LatencyPoints), NEW s \in SortedOrders(r)
    PROVE  /\ Len(s) = Len(r) /\ Len(s) \in Nat
           /\ \A i \in 1..Len(s) : s[i].weight = 1 /\ s[i].timing \in Nat
           /\ \A i, k \in 1..Len(s) : i <= k => s[i].timing >= s[k].timing
           /\ \E q \in Bijection(1..Len(s), 1..Len(s)) : \A i \in 1..Len(s) : s[i] = r[q[i]]
<1> DEFINE n == Len(r)
<1>1. n \in Nat /\ \A i \in 1..n : r[i] \in LatencyPoints
  BY SequenceOf
<1>2. PICK q \in [1..n -> 1..n] :
        /\ \A i, k \in 1..n : i # k => q[i] # q[k]
        /\ s = [i \in 1..n |-> r[q[i]]]
        /\ \A i \in 2..n : s[i - 1].timing >= s[i].timing
  BY DEF SortedOrders
<1>3. Len(s) = n
  BY <1>1, <1>2
<1>4. \A i \in 1..n : s[i] = r[q[i]] /\ s[i].weight = 1 /\ s[i].timing \in Nat
  BY <1>1, <1>2 DEF LatencyPoints
<1>5. \A i \in 2..n : s[i - 1].timing >= s[i].timing
  BY <1>2
<1>6. \A i, k \in 1..n : i <= k => s[i].timing >= s[k].timing
  <2> DEFINE f == [i \in 1..n |-> s[i].timing]
  <2>1. \A i \in 1..n : f[i] = s[i].timing /\ f[i] \in Int
    BY <1>4
  <2> HIDE DEF f
  <2>2. ASSUME NEW i \in 2..n PROVE f[i - 1] >= f[i]
    <3>1. i \in 1..n /\ i - 1 \in 1..n
      BY <1>1
    <3> QED
      BY <1>5, <2>1, <3>1
  <2>3. \A i, k \in 1..n : i <= k => f[i] >= f[k]
    BY <1>1, <2>1, <2>2, Descends
  <2> QED
    BY <2>1, <2>3
<1>7. q \in Bijection(1..n, 1..n)
  <2>1. q \in Injection(1..n, 1..n)
    BY <1>2 DEF Injection, IsInjective
  <2>2. q \in Surjection(1..n, 1..n)
    BY <1>1, <2>1, FS_Interval, FS_Injection
  <2> QED
    BY <2>1, <2>2 DEF Bijection
<1> QED
  BY <1>1, <1>3, <1>4, <1>6, <1>7

(* Each point has weight 1, so a weight is a number of points. *)
LEMMA WeightIsCount ==
    ASSUME NEW r \in Seq(LatencyPoints), NEW places \in SUBSET (1..Len(r))
    PROVE  WeightOf(r, places) = Cardinality(places)
<1> DEFINE one == [i \in places |-> 1]
           Sums(g) == g = [s \in SUBSET places |->
                             IF s = {} THEN 0
                             ELSE r[CHOOSE x \in s : TRUE].weight + g[s \ {CHOOSE x \in s : TRUE}]]
           g0 == CHOOSE g : Sums(g)
           sizes == [s \in SUBSET places |-> Cardinality(s)]
<1>1. WeightOf(r, places) = g0[places]
  BY DEF WeightOf, MapThenSumSet, MapThenFoldSet
<1>2. \A g : Sums(g) <=> IsSum(g, one, places)
  <2>1. \A i \in places : one[i] = 1 /\ r[i].weight = 1
    <3>1. \A i \in 1..Len(r) : r[i] \in LatencyPoints
      BY SequenceOf
    <3> QED
      BY <3>1 DEF LatencyPoints
  <2>2. \A s \in SUBSET places : s # {} => AnyOf(s) \in places
    BY AnyOfIn
  <2> HIDE DEF one
  <2>3. \A s \in SUBSET places : s # {} => r[AnyOf(s)].weight = one[AnyOf(s)]
    BY <2>1, <2>2
  <2> QED
    BY <2>3 DEF IsSum, AnyOf
<1>3. IsFiniteSet(places)
  <2>1. Len(r) \in Nat
    BY SequenceOf
  <2>2. IsFiniteSet(1..Len(r))
    BY <2>1, FS_Interval
  <2> QED
    BY <2>2, FS_Subset
<1>4. IsSum(sizes, one, places)
  <2>1. ASSUME NEW s \in SUBSET places
        PROVE  Cardinality(s) = IF s = {} THEN 0 ELSE one[AnyOf(s)] + sizes[s \ {AnyOf(s)}]
    <3>1. IsFiniteSet(s)
      BY <1>3, FS_Subset
    <3>2. CASE s = {}
      BY <3>2, FS_EmptySet
    <3>3. CASE s # {}
      <4>1. AnyOf(s) \in s /\ s \ {AnyOf(s)} \in SUBSET places
        BY <3>3, AnyOfIn
      <4>2. Cardinality(s \ {AnyOf(s)}) = Cardinality(s) - 1 /\ Cardinality(s) \in Nat
        BY <3>1, <4>1, FS_RemoveElement, FS_CardinalityType
      <4>3. one[AnyOf(s)] = 1 /\ sizes[s \ {AnyOf(s)}] = Cardinality(s \ {AnyOf(s)})
        BY <4>1
      <4> HIDE DEF one, sizes
      <4>4. Cardinality(s) = one[AnyOf(s)] + sizes[s \ {AnyOf(s)}]
        BY <4>2, <4>3
      <4> QED
        BY <3>3, <4>4
    <3> QED
      BY <3>2, <3>3
  <2> QED
    BY <2>1 DEF IsSum
<1>5. Sums(g0)
  <2> HIDE DEF Sums
  <2> QED
    BY <1>2, <1>4
<1>6. IsSum(g0, one, places)
  BY <1>2, <1>5
<1> HIDE DEF g0, one, sizes
<1>7. g0[places] = sizes[places]
  BY <1>3, <1>4, <1>6, SumsAgree
<1> QED
  BY <1>1, <1>7 DEF sizes

(* Sorting does not change how many points are below a timing. *)
LEMMA SameNumberBelow ==
    ASSUME NEW r, NEW s, Len(r) \in Nat, Len(s) = Len(r),
           NEW q \in Bijection(1..Len(s), 1..Len(s)), \A i \in 1..Len(s) : s[i] = r[q[i]],
           NEW t
    PROVE  Cardinality(Below(r, t)) = Cardinality(Below(s, t))
<1> DEFINE n == Len(s)
           f == [i \in Below(s, t) |-> q[i]]
<1>1. /\ q \in [1..n -> 1..n]
      /\ \A i, k \in 1..n : q[i] = q[k] => i = k
      /\ \A k \in 1..n : \E i \in 1..n : q[i] = k
  BY DEF Bijection, Injection, IsInjective, Surjection
<1>2. f \in [Below(s, t) -> Below(r, t)]
  BY <1>1 DEF Below
<1>3. \A i, k \in Below(s, t) : f[i] = f[k] => i = k
  BY <1>1 DEF Below
<1>4. \A k \in Below(r, t) : \E i \in Below(s, t) : f[i] = k
  <2> SUFFICES ASSUME NEW k \in Below(r, t) PROVE \E i \in Below(s, t) : f[i] = k
    OBVIOUS
  <2>1. k \in 1..n /\ r[k].timing < t
    BY DEF Below
  <2>2. PICK i \in 1..n : q[i] = k
    BY <1>1, <2>1
  <2>3. i \in Below(s, t)
    BY <2>1, <2>2 DEF Below
  <2> QED
    BY <2>2, <2>3
<1>5. f \in Bijection(Below(s, t), Below(r, t))
  BY <1>2, <1>3, <1>4 DEF Bijection, Injection, IsInjective, Surjection
<1>6. IsFiniteSet(Below(s, t))
  <2>1. IsFiniteSet(1..n) /\ Below(s, t) \in SUBSET (1..n)
    BY FS_Interval DEF Below
  <2> QED
    BY <2>1, FS_Subset
<1> QED
  BY <1>5, <1>6, FS_Bijection DEF ExistsBijection

LEMMA MaxIs ==
    ASSUME NEW S \in SUBSET Int, NEW m \in S, \A x \in S : m >= x
    PROVE  Max(S) = m
<1>1. \A x \in S : (\A y \in S : x >= y) => x = m
  OBVIOUS
<1>2. Max(S) \in S /\ \A y \in S : Max(S) >= y
  BY DEF Max
<1> QED
  BY <1>1, <1>2

(* What is read off at a point: at most its part of the weight is below    *)
(* it, and more than that below every larger point.                        *)
LEMMA FirstIsThePercentile ==
    ASSUME NEW s, NEW n \in Nat \ {0}, Len(s) = n,
           \A i \in 1..n : s[i].timing \in Nat,
           \A i, k \in 1..n : i <= k => s[i].timing >= s[k].timing,
           NEW j \in 1..NumPercentiles
    PROVE  \A i \in 1..n :
             LET below == Cardinality(Below(s, s[i].timing))
                 first == s[FirstAt(n, j)].timing
             IN  /\ s[i].timing = first => below * 100 <= Percentiles[j] * n
                 /\ below * 100 <= Percentiles[j] * n => s[i].timing <= first
<1> DEFINE k == FirstAt(n, j)
<1>1. /\ k \in 1..n /\ j \in Reached(n, k)
      /\ \A l \in 0..n : l < k => j \notin Reached(n, l)
  BY FirstIsFirst
<1> HIDE DEF k
<1>2. Percentiles[j] * n \in Nat
  BY PercentileTimes
<1>3. (n - k) * 100 <= Percentiles[j] * n
  BY <1>1 DEF Reached
<1> SUFFICES ASSUME NEW i \in 1..n
             PROVE  LET below == Cardinality(Below(s, s[i].timing))
                    IN  /\ s[i].timing = s[k].timing => below * 100 <= Percentiles[j] * n
                        /\ below * 100 <= Percentiles[j] * n => s[i].timing <= s[k].timing
  BY DEF k
<1> DEFINE B == Below(s, s[i].timing)
<1>4. B \in SUBSET (1..n) /\ IsFiniteSet(B) /\ Cardinality(B) \in Nat
  <2>1. B \in SUBSET (1..n) /\ IsFiniteSet(1..n)
    BY FS_Interval DEF Below
  <2> HIDE DEF B
  <2> QED
    BY <2>1, FS_Subset, FS_CardinalityType
<1>5. ASSUME s[i].timing = s[k].timing PROVE Cardinality(B) * 100 <= Percentiles[j] * n
  <2>1. B \in SUBSET ((k + 1)..n)
    <3> SUFFICES ASSUME NEW l \in B PROVE l \in (k + 1)..n
      OBVIOUS
    <3>1. l \in 1..n /\ s[l].timing < s[k].timing
      BY <1>5 DEF Below
    <3>2. ~ (l <= k)
      BY <1>1, <3>1
    <3> QED
      BY <1>1, <3>1, <3>2
  <2> HIDE DEF B
  <2>2. k + 1 \in Int /\ n \in Int
    BY <1>1
  <2>3. IsFiniteSet((k + 1)..n) /\ Cardinality((k + 1)..n) = IF k + 1 > n THEN 0 ELSE n - (k + 1) + 1
    BY <2>2, FS_Interval
  <2>4. Cardinality(B) <= Cardinality((k + 1)..n)
    BY <2>1, <2>3, FS_Subset
  <2>5. Cardinality(B) <= n - k
    BY <1>1, <1>4, <2>3, <2>4
  <2> QED
    BY <1>1, <1>2, <1>3, <1>4, <2>5
<1>6. ASSUME s[i].timing > s[k].timing PROVE Cardinality(B) * 100 > Percentiles[j] * n
  <2>1. ~ (k <= i)
    BY <1>1, <1>6
  <2>2. k - 1 \in 1..n /\ k - 1 \in 0..n /\ k - 1 < k
    BY <1>1, <2>1
  <2>3. j \notin Reached(n, k - 1)
    BY <1>1, <2>2
  <2>4. (n - (k - 1)) * 100 > Percentiles[j] * n
    BY <1>2, <2>2, <2>3 DEF Reached
  <2>5. k..n \in SUBSET B
    <3> SUFFICES ASSUME NEW l \in k..n PROVE l \in B
      OBVIOUS
    <3>1. l \in 1..n /\ k <= l
      BY <1>1
    <3>2. s[l].timing <= s[k].timing /\ s[k].timing \in Nat /\ s[l].timing \in Nat
      BY <1>1, <3>1
    <3> QED
      BY <1>6, <3>1, <3>2 DEF Below
  <2> HIDE DEF B
  <2>6. Cardinality(k..n) <= Cardinality(B)
    BY <1>4, <2>5, FS_Subset
  <2>7. Cardinality(k..n) = n - k + 1
    <3>1. k \in Int /\ n \in Int /\ ~ (k > n)
      BY <1>1
    <3> QED
      BY <3>1, FS_Interval
  <2> QED
    BY <1>1, <1>2, <1>4, <2>4, <2>6, <2>7
<1>7. s[i].timing \in Nat /\ s[k].timing \in Nat
  BY <1>1
<1>8. Cardinality(B) * 100 \in Nat
  BY <1>4
<1> HIDE DEF B
<1>9. /\ s[i].timing = s[k].timing => Cardinality(B) * 100 <= Percentiles[j] * n
      /\ Cardinality(B) * 100 <= Percentiles[j] * n => s[i].timing <= s[k].timing
  BY <1>2, <1>5, <1>6, <1>7, <1>8
<1> QED
  BY <1>9 DEF B

LEMMA WalkReadsPercentile ==
    ASSUME NEW r \in Seq(LatencyPoints), r # <<>>, total = Len(r),
           NEW s \in SortedOrders(r), NEW j \in 1..NumPercentiles
    PROVE  Walk(s)[j] = Percentile(r, Percentiles[j])
<1> DEFINE n == Len(r)
           p == Percentiles[j]
           k == FirstAt(n, j)
           Enough(t) == Cardinality(Below(r, t)) * 100 <= p * n
           S == {r[x].timing : x \in {i \in 1..n : Enough(r[i].timing)}}
<1>1. n \in Nat \ {0} /\ Len(s) = n /\ total = Len(s)
  BY SequenceOf, SortingPermutes
<1>2. /\ \A i \in 1..n : s[i].weight = 1 /\ s[i].timing \in Nat
      /\ \A i, l \in 1..n : i <= l => s[i].timing >= s[l].timing
  BY <1>1, SortingPermutes
<1>3. PICK q \in Bijection(1..n, 1..n) : \A i \in 1..n : s[i] = r[q[i]]
  BY <1>1, SortingPermutes
<1>4. k \in 1..n
  BY <1>1, FirstIsFirst
<1>5. Walk(s)[j] = s[k].timing
  BY <1>1, <1>2, WalkValues
<1>6. Percentile(r, p) = Max(S)
  <2>1. 1..n \in SUBSET (1..n) /\ Cardinality(1..n) = n
    BY <1>1, FS_Interval
  <2>2. WeightOf(r, 1..n) = n
    BY <2>1, WeightIsCount
  <2>3. \A t : Below(r, t) \in SUBSET (1..n)
    BY DEF Below
  <2>4. \A t : WeightOf(r, Below(r, t)) = Cardinality(Below(r, t))
    BY <2>3, WeightIsCount
  <2>5. Percentile(r, p)
          = Max({r[x].timing : x \in {i \in 1..n :
                   WeightOf(r, Below(r, r[i].timing)) * 100 <= p * WeightOf(r, 1..n)}})
    BY DEF Percentile
  <2>6. {i \in 1..n : WeightOf(r, Below(r, r[i].timing)) * 100 <= p * WeightOf(r, 1..n)}
          = {i \in 1..n : Enough(r[i].timing)}
    BY <2>2, <2>4
  <2> QED
    BY <2>5, <2>6
<1>7. \A t : Cardinality(Below(r, t)) = Cardinality(Below(s, t))
  BY <1>1, <1>3, SameNumberBelow
<1>8. /\ q \in [1..n -> 1..n]
      /\ \A x \in 1..n : \E i \in 1..n : q[i] = x
  BY <1>3 DEF Bijection, Injection, Surjection
<1>9. \A i \in 1..n :
        /\ s[i].timing = s[k].timing => Enough(s[i].timing)
        /\ Enough(s[i].timing) => s[i].timing <= s[k].timing
  <2>1. \A i \in 1..n :
          /\ s[i].timing = s[k].timing => Cardinality(Below(s, s[i].timing)) * 100 <= p * n
          /\ Cardinality(Below(s, s[i].timing)) * 100 <= p * n => s[i].timing <= s[k].timing
    BY <1>1, <1>2, FirstIsThePercentile
  <2> QED
    BY <1>7, <2>1
<1> HIDE DEF Enough, k
<1>10. s[k].timing \in S
  BY <1>3, <1>4, <1>8, <1>9
<1>11. \A t \in S : t \in Int /\ s[k].timing >= t
  <2> SUFFICES ASSUME NEW x \in 1..n, Enough(r[x].timing)
               PROVE  r[x].timing \in Int /\ s[k].timing >= r[x].timing
    OBVIOUS
  <2>1. PICK i \in 1..n : q[i] = x
    BY <1>8
  <2>2. s[i] = r[x]
    BY <1>3, <2>1
  <2>3. s[i].timing \in Nat /\ s[k].timing \in Nat /\ s[i].timing <= s[k].timing
    BY <1>2, <1>4, <1>9, <2>2
  <2> QED
    BY <2>2, <2>3
<1> HIDE DEF S
<1>12. Max(S) = s[k].timing
  BY <1>10, <1>11, MaxIs
<1> QED
  BY <1>5, <1>6, <1>12

(* The points of the window, and the longest of its operations. *)
PointsInv ==
    /\ points \in Seq(LatencyPoints)
    /\ total = Len(points)
    /\ worst \in Nat
    /\ \A i \in 1..Len(points) : points[i].timing <= worst
    /\ worst # 0 => \E i \in 1..Len(points) : points[i].timing = worst

LEMMA AddKeepsPoints ==
    ASSUME PointsInv, NEW t \in Nat, Add(1, t), worst' = Larger(worst, t)
    PROVE  PointsInv'
<1> DEFINE n == Len(points)
           p == Point(t, 1)
<1>1. n \in Nat /\ \A i \in 1..n : points[i] \in LatencyPoints /\ points[i].timing \in Nat
  <2>1. n \in Nat /\ \A i \in 1..n : points[i] \in LatencyPoints
    BY SequenceOf DEF PointsInv
  <2> QED
    BY <2>1 DEF LatencyPoints
<1>2. p \in LatencyPoints /\ p.timing = t
  BY DEF Point, LatencyPoints
<1>3. points' = Append(points, p) /\ total' = total + 1
  BY DEF Add
<1> HIDE DEF p
<1>4. /\ points' \in Seq(LatencyPoints) /\ Len(points') = n + 1
      /\ points'[n + 1] = p /\ \A i \in 1..n : points'[i] = points[i]
  BY <1>1, <1>2, <1>3 DEF PointsInv
<1>5. worst' \in Nat /\ worst' >= worst /\ worst' >= t /\ (worst' = worst \/ worst' = t)
  BY DEF PointsInv, Larger
<1>6. ASSUME NEW i \in 1..(n + 1) PROVE points'[i].timing <= worst'
  <2>1. CASE i = n + 1
    BY <1>2, <1>4, <1>5, <2>1
  <2>2. CASE i \in 1..n
    BY <1>1, <1>4, <1>5, <2>2 DEF PointsInv
  <2> QED
    BY <1>1, <2>1, <2>2
<1>7. worst' # 0 => \E i \in 1..(n + 1) : points'[i].timing = worst'
  <2>1. CASE worst' = t
    <3>1. n + 1 \in 1..(n + 1)
      BY <1>1
    <3> QED
      BY <1>2, <1>4, <2>1, <3>1
  <2>2. CASE worst' = worst
    <3> SUFFICES ASSUME worst' # 0 PROVE \E i \in 1..(n + 1) : points'[i].timing = worst'
      OBVIOUS
    <3>1. PICK i \in 1..n : points[i].timing = worst
      BY <2>2 DEF PointsInv
    <3>2. i \in 1..(n + 1) /\ points'[i].timing = worst'
      BY <1>1, <1>4, <2>2, <3>1
    <3> QED
      BY <3>2
  <2> QED
    BY <1>5, <2>1, <2>2
<1> QED
  BY <1>3, <1>4, <1>5, <1>6, <1>7 DEF PointsInv

LEMMA AccumKeepsPoints == AccumInv /\ PointsInv /\ [AccumNext]_windowVars => PointsInv'
<1> SUFFICES ASSUME AccumInv, PointsInv, [AccumNext]_windowVars PROVE PointsInv'
  OBVIOUS
<1>1. ASSUME NEW id \in Ids, DoneOp(id), id \in Active PROVE PointsInv'
  <2>1. now - currentOps[id] \in Nat
    BY <1>1 DEF AccumInv
  <2>2. Add(1, now - currentOps[id]) /\ worst' = Larger(worst, now - currentOps[id])
    BY <1>1 DEF DoneOp
  <2> QED
    BY <2>1, <2>2, AddKeepsPoints
<1>2. CASE LogStats
  <2>1. points' = <<>> /\ total' = 0 /\ worst' = 0
    BY <1>2 DEF LogStats, Clear
  <2> QED
    BY <2>1 DEF PointsInv
<1>3. ASSUME UNCHANGED <<points, total, worst>> PROVE PointsInv'
  BY <1>3 DEF PointsInv
<1>4. ASSUME NEW id \in Ids, StartOp(id) \/ CancelOp(id) \/ (DoneOp(id) /\ id \notin Active)
      PROVE  UNCHANGED <<points, total, worst>>
  BY <1>4 DEF StartOp, CancelOp, DoneOp, distVars, histVars
<1>5. Tick \/ UNCHANGED windowVars => UNCHANGED <<points, total, worst>>
  BY DEF Tick, windowVars, distVars, histVars
<1> QED
  BY <1>1, <1>2, <1>3, <1>4, <1>5 DEF AccumNext

LEMMA ReportIsRight ==
    ASSUME PointsInv, GetPercentile
    PROVE  /\ values'[1] = worst
           /\ points # <<>> =>
                \A j \in 1..NumPercentiles : values'[j] = Percentile(points, Percentiles[j])
<1>1. PICK s \in SortedOrders(points) : values' = Walk(s)
  BY DEF GetPercentile
<1> DEFINE n == Len(points)
<1>2. /\ points \in Seq(LatencyPoints) /\ total = n /\ worst \in Nat
      /\ n \in Nat /\ (n = 0 <=> points = <<>>)
      /\ \A i \in 1..n : points[i].timing <= worst
      /\ worst # 0 => \E i \in 1..n : points[i].timing = worst
  BY SequenceOf DEF PointsInv
<1>3. /\ Len(s) = n /\ total = Len(s)
      /\ \A i \in 1..n : s[i].weight = 1 /\ s[i].timing \in Nat
      /\ \A i, k \in 1..n : i <= k => s[i].timing >= s[k].timing
  BY <1>2, SortingPermutes
<1>4. 1 \in 1..NumPercentiles /\ Percentiles[1] = 100
  BY PercentilesDescend, AccumAssumption, DistributionAssumption DEF NumPercentiles
<1>5. values'[1] = IF n = 0 THEN 0 ELSE s[FirstAt(n, 1)].timing
  BY <1>1, <1>2, <1>3, <1>4, WalkValues
<1>6. values'[1] = worst
  <2>1. CASE n = 0
    BY <1>2, <1>5, <2>1
  <2>2. CASE n # 0
    <3>1. FirstAt(n, 1) = 1
      <4>1. 1 \in Reached(n, 1) /\ 1 \in 0..n
        BY <1>2, <1>4, <2>2 DEF Reached
      <4>2. FirstAt(n, 1) \in 1..n /\ \A l \in 0..n : l < FirstAt(n, 1) => 1 \notin Reached(n, l)
        BY <1>2, <1>4, <2>2, FirstIsFirst
      <4> QED
        BY <1>2, <4>1, <4>2
    <3>2. PICK q \in Bijection(1..n, 1..n) : \A i \in 1..n : s[i] = points[q[i]]
      BY <1>2, <1>3, SortingPermutes
    <3>3. q \in [1..n -> 1..n] /\ \A x \in 1..n : \E i \in 1..n : q[i] = x
      BY <3>2 DEF Bijection, Injection, Surjection
    <3>4. 1 \in 1..n /\ s[1].timing <= worst /\ s[1].timing \in Nat
      <4>1. 1 \in 1..n
        BY <1>2, <2>2
      <4>2. q[1] \in 1..n /\ s[1] = points[q[1]]
        BY <3>2, <3>3, <4>1
      <4> QED
        BY <1>2, <1>3, <4>1, <4>2
    <3>5. s[1].timing >= worst
      <4>1. CASE worst = 0
        BY <3>4, <4>1
      <4>2. CASE worst # 0
        <5>1. PICK x \in 1..n : points[x].timing = worst
          BY <1>2, <4>2
        <5>2. PICK i \in 1..n : q[i] = x
          BY <3>3
        <5>3. s[i].timing = worst /\ 1 <= i
          BY <3>2, <5>1, <5>2
        <5> QED
          BY <1>3, <3>4, <5>3
      <4> QED
        BY <4>1, <4>2
    <3> QED
      BY <1>2, <1>5, <2>2, <3>1, <3>4, <3>5
  <2> QED
    BY <2>1, <2>2
<1>7. ASSUME points # <<>>, NEW j \in 1..NumPercentiles
      PROVE  values'[j] = Percentile(points, Percentiles[j])
  BY <1>1, <1>2, <1>7, WalkReadsPercentile
<1> QED
  BY <1>6, <1>7

(* Each latency that a report gives for a percentile (timings.go:          *)
(* GetPercentile) is what the definition of a percentile gives for the     *)
(* operations done in the window, and the first is the latency of the      *)
(* longest of them: for any percentiles from 1.0 down, any number of       *)
(* operations and whatever order sort.Slice leaves equal latencies in.     *)
THEOREM PercentilesAreRight == AccumSpec => ReportsPercentiles
<1> DEFINE Right == start' > start =>
                      /\ values'[1] = worst
                      /\ points # <<>> =>
                           \A j \in 1..NumPercentiles : values'[j] = Percentile(points, Percentiles[j])
<1>1. AccumInit => PointsInv
  BY DEF AccumInit, DistInit, PointsInv
<1>2. AccumInv /\ PointsInv /\ [AccumNext]_windowVars => [Right]_windowVars
  <2> SUFFICES ASSUME AccumInv, PointsInv, [AccumNext]_windowVars, start' > start PROVE Right
    BY DEF Right
  <2>1. LogStats
    <3>1. start \in Int
      BY DEF AccumInv
    <3>2. ~ UNCHANGED start
      BY <3>1
    <3> QED
      BY <3>2 DEF AccumNext, StartOp, CancelOp, DoneOp, Tick, windowVars, accumVars
  <2> QED
    BY <2>1, ReportIsRight DEF LogStats
<1> HIDE DEF Right
<1>3. AccumSpec => [][Right]_windowVars
  BY AccumInitEstablishes, AccumKeepsInv, AccumKeepsPoints, <1>1, <1>2, PTL DEF AccumSpec
<1> QED
  BY <1>3 DEF ReportsPercentiles, Right
-----------------------------------------------------------------------------
(* The totals of the data commands.  What is proved of ApplyParallel holds *)
(* of their pool; what the workers and the counters add is below.          *)
P == INSTANCE ApplyParallel_proofs

Files == Pool!Items

(* A file is opened by a worker, counted when it is done, and its result   *)
(* sent after that.                                                        *)
CountedFileInv(i) ==
    /\ task[i] = "new" => fileOp[i] = "open"
    /\ fileOp[i] = "open" => moved[i] = 0
    /\ i \in counted => fileOp[i] \in {"ok", "failed"}
    /\ task[i] \in {"ok", "failed"} => i \in counted /\ task[i] = fileOp[i]
    /\ fileOp[i] = "ok" => moved[i] = FileSize(i) /\ stored[i] = moved[i]

FilesInv ==
    /\ fileOp \in [Files -> {"open", "moving", "ok", "failed"}]
    /\ moved \in [Files -> Nat]
    /\ stored \in [Files -> Int]
    /\ counted \in SUBSET Files
    /\ \A i \in Files : CountedFileInv(i)
    /\ work = Total(moved, counted)

(* The pool of a data command ends early only with an error. *)
WholeInv == pc \in {"drain", "returned"} /\ err = Pool!NoErr => yielded = MaxItems

(* When the line is logged the command is over. *)
LoggedInv == statistics # NoLog => pc = "returned" /\ code # Running /\ TotalsAreFinal

DataInv == P!PoolInv /\ FilesInv /\ WholeInv /\ LoggedInv

LEMMA FilesFinite == IsFiniteSet(Files) /\ Cardinality(Files) = MaxItems
BY DataAssumption, FS_Interval DEF Files, Pool!Items

LEMMA PoolFacts ==
    ASSUME P!PoolInv
    PROVE  /\ task \in [Files -> {"new", "running", "ok", "failed"}]
           /\ pc \in {"range", "limit", "drain", "returned"}
           /\ pc = "returned" => \A i \in Files : task[i] # "running"
BY DEF P!PoolInv, P!TypeOK, P!GoroutinesCounted, P!Running, P!Items, Files, Pool!Items

(* Every step of a data command is a step of ApplyParallel, or none. *)
LEMMA DataUsesPool == FilesInv /\ [DataNext]_dataVars => [P!Next]_(P!vars)
<1> SUFFICES ASSUME FilesInv, [DataNext]_dataVars PROVE [P!Next]_(P!vars)
  OBVIOUS
<1>1. CASE Dispatcher
  BY <1>1 DEF Dispatcher, P!Next, P!Dispatcher, Pool!YieldValue, P!YieldValue, Pool!SeqEnds, P!SeqEnds,
     Pool!Dispatch, P!Dispatch, Pool!ReceiveAtLimit, P!ReceiveAtLimit, Pool!ReceiveInDrain,
     P!ReceiveInDrain, Pool!Return, P!Return, Pool!Go, P!Go, Pool!Outcome, P!Outcome,
     Pool!NoErr, P!NoErr, Pool!PoolSize, P!PoolSize
<1>2. CASE \E i \in Files : SendResult(i)
  <2>1. PICK i \in Files : SendResult(i)
    BY <1>2
  <2>2. fileOp[i] \in {"ok", "failed"} /\ Pool!WorkReturns(i, fileOp[i])
    BY <2>1 DEF SendResult, FilesInv, CountedFileInv
  <2>3. P!Worker(i)
    BY <2>2 DEF P!Worker, P!WorkReturns, Pool!WorkReturns, P!NoErr, Pool!NoErr
  <2> QED
    BY <2>1, <2>3 DEF P!Next, P!Items, Files, Pool!Items
<1>3. CASE Prepare \/ LogStatistics \/ UNCHANGED dataVars
           \/ \E i \in Files : Open(i) \/ MoveBuffer(i) \/ MoveFails(i) \/ Close(i) \/ Counted(i)
  BY <1>3 DEF Prepare, LogStatistics, Open, MoveBuffer, MoveFails, Close, Counted, OnlyOp, dataVars,
     poolVars, P!vars
<1> QED
  BY <1>1, <1>2, <1>3 DEF DataNext, FileStep, Files

LEMMA PoolKeeps == P!PoolInv /\ FilesInv /\ [DataNext]_dataVars => P!PoolInv'
<1>1. P!PoolInv /\ [P!Next]_(P!vars) => P!PoolInv'
  BY DataAssumption, P!NextPreserves
<1> QED
  BY <1>1, DataUsesPool

(* The dispatcher starts workers and receives results. *)
LEMMA DispatcherKeepsFiles ==
    ASSUME P!PoolInv, FilesInv, Dispatcher
    PROVE  FilesInv'
<1>1. UNCHANGED <<fileOp, moved, stored, counted, work, tool>>
  BY DEF Dispatcher, opVars
<1>2. task' = task \/ task' = [task EXCEPT ![yielded] = "running"]
  BY DEF Dispatcher, Pool!YieldValue, Pool!SeqEnds, Pool!Dispatch, Pool!ReceiveAtLimit,
     Pool!ReceiveInDrain, Pool!Return, Pool!Go
<1>3. \A i \in Files : task'[i] = task[i] \/ task'[i] = "running"
  BY <1>2, PoolFacts
<1>4. ASSUME NEW i \in Files PROVE CountedFileInv(i)'
  <2>1. CountedFileInv(i)
    BY DEF FilesInv
  <2> QED
    BY <1>1, <1>3, <2>1 DEF CountedFileInv, FileSize, Writes
<1> QED
  BY <1>1, <1>4 DEF FilesInv, Files

(* A worker moves on with its file, which is not counted yet. *)
LEMMA WorkerKeepsFiles ==
    ASSUME P!PoolInv, FilesInv, NEW i \in Files,
           Open(i) \/ MoveBuffer(i) \/ MoveFails(i) \/ Close(i)
    PROVE  FilesInv'
<1>1. UNCHANGED <<poolVars, counted, work, tool>> /\ UNCHANGED task
  BY DEF Open, MoveBuffer, MoveFails, Close, OnlyOp, poolVars
<1>2. i \notin counted /\ task[i] = "running" /\ fileOp[i] \in {"open", "moving"}
  BY DEF FilesInv, CountedFileInv, Open, MoveBuffer, MoveFails, Close, InOp
<1>3. /\ fileOp' \in [Files -> {"open", "moving", "ok", "failed"}]
      /\ moved' \in [Files -> Nat]
      /\ stored' \in [Files -> Int]
      /\ \A j \in Files : j # i =>
           fileOp'[j] = fileOp[j] /\ moved'[j] = moved[j] /\ stored'[j] = stored[j]
  BY DEF FilesInv, Open, MoveBuffer, MoveFails, Close, OpGoes
<1>4. CountedFileInv(i)'
  <2>1. fileOp'[i] = "open" => moved'[i] = 0
    BY <1>2 DEF FilesInv, CountedFileInv, Open, MoveBuffer, MoveFails, Close, OpGoes, InOp
  <2>2. fileOp'[i] = "ok" => moved'[i] = FileSize(i)' /\ stored'[i] = moved'[i]
    BY <1>1, <1>2
    DEF FilesInv, CountedFileInv, Open, MoveBuffer, MoveFails, Close, OpGoes, InOp, FileSize, Writes
  <2> QED
    BY <1>1, <1>2, <2>1, <2>2 DEF CountedFileInv
<1>5. ASSUME NEW j \in Files, j # i PROVE CountedFileInv(j)'
  <2>1. CountedFileInv(j)
    BY DEF FilesInv
  <2> QED
    BY <1>1, <1>3, <1>5, <2>1 DEF CountedFileInv, FileSize, Writes
<1>6. Total(moved', counted) = Total(moved, counted)
  <2>1. IsFiniteSet(counted) /\ \A j \in counted : moved'[j] = moved[j]
    BY <1>2, <1>3, FilesFinite, FS_Subset DEF FilesInv
  <2> QED
    BY <2>1, TotalSame
<1> QED
  BY <1>1, <1>3, <1>4, <1>5, <1>6 DEF FilesInv, Files

(* The file is counted with what was moved of it. *)
LEMMA CountedKeepsFiles ==
    ASSUME P!PoolInv, FilesInv, NEW i \in Files, Counted(i)
    PROVE  FilesInv'
<1>1. /\ UNCHANGED <<fileOp, moved, stored, tool>> /\ UNCHANGED task
      /\ task[i] # "new" /\ fileOp[i] \in {"ok", "failed"} /\ i \notin counted
      /\ counted' = counted \cup {i}
      /\ work' = work + moved[i]
  BY DEF Counted, poolVars
<1>2. counted' \in SUBSET Files /\ IsFiniteSet(counted) /\ IsFiniteSet(counted')
  BY <1>1, FilesFinite, FS_Subset DEF FilesInv
<1>3. \A j \in counted' : moved[j] \in Int
  BY <1>2 DEF FilesInv
<1>4. Total(moved, counted') = moved[i] + Total(moved, counted)
  <2>1. i \in counted' /\ counted' \ {i} = counted
    BY <1>1
  <2>2. Total(moved, counted') = moved[i] + Total(moved, counted' \ {i})
    BY <1>2, <1>3, <2>1, TotalAny
  <2> QED
    BY <2>1, <2>2
<1>5. moved[i] \in Int /\ Total(moved, counted) \in Int
  BY <1>1, <1>2, <1>3, TotalType
<1>6. work' = Total(moved, counted')
  BY <1>1, <1>4, <1>5 DEF FilesInv
<1>7. ASSUME NEW j \in Files PROVE CountedFileInv(j)'
  <2>1. CountedFileInv(j)
    BY DEF FilesInv
  <2> QED
    BY <1>1, <2>1 DEF CountedFileInv, FileSize, Writes
<1> QED
  BY <1>1, <1>2, <1>6, <1>7 DEF FilesInv, Files

LEMMA ResultKeepsFiles ==
    ASSUME P!PoolInv, FilesInv, NEW i \in Files, SendResult(i)
    PROVE  FilesInv'
<1>1. /\ UNCHANGED <<fileOp, moved, stored, counted, work, tool>> /\ i \in counted
      /\ task' = [task EXCEPT ![i] = fileOp[i]]
  BY DEF SendResult, opVars, Pool!WorkReturns
<1>2. ASSUME NEW j \in Files PROVE CountedFileInv(j)'
  <2>1. CountedFileInv(j) /\ CountedFileInv(i)
    BY DEF FilesInv
  <2>2. task'[j] = IF j = i THEN fileOp[i] ELSE task[j]
    BY <1>1, PoolFacts
  <2> QED
    BY <1>1, <2>1, <2>2 DEF CountedFileInv, FileSize, Writes
<1> QED
  BY <1>1, <1>2 DEF FilesInv, Files

LEMMA FilesKeep == P!PoolInv /\ FilesInv /\ [DataNext]_dataVars => FilesInv'
<1> SUFFICES ASSUME P!PoolInv, FilesInv, [DataNext]_dataVars PROVE FilesInv'
  OBVIOUS
<1>1. CASE Prepare \/ LogStatistics \/ UNCHANGED dataVars
  <2>1. UNCHANGED <<task, fileOp, moved, stored, counted, work, tool>>
    BY <1>1 DEF Prepare, LogStatistics, dataVars, poolVars, opVars
  <2>2. ASSUME NEW i \in Files PROVE CountedFileInv(i)'
    <3>1. CountedFileInv(i)
      BY DEF FilesInv
    <3> QED
      BY <2>1, <3>1 DEF CountedFileInv, FileSize, Writes
  <2> QED
    BY <2>1, <2>2 DEF FilesInv, Files
<1>2. CASE Dispatcher
  BY <1>2, DispatcherKeepsFiles
<1>3. CASE \E i \in Files : FileStep(i)
  BY <1>3, WorkerKeepsFiles, CountedKeepsFiles, ResultKeepsFiles DEF FileStep
<1> QED
  BY <1>1, <1>2, <1>3 DEF DataNext, Files

LEMMA WholeKeeps == P!PoolInv /\ FilesInv /\ WholeInv /\ [DataNext]_dataVars => WholeInv'
<1> SUFFICES ASSUME P!PoolInv, FilesInv, WholeInv, [DataNext]_dataVars PROVE WholeInv'
  OBVIOUS
<1>1. CASE Dispatcher
  BY <1>1 DEF WholeInv, Dispatcher, Pool!YieldValue, Pool!SeqEnds, Pool!Dispatch, Pool!ReceiveAtLimit,
     Pool!ReceiveInDrain, Pool!Return, Pool!NoErr, Pool!Outcome
<1>2. CASE \E i \in Files : SendResult(i)
  BY <1>2 DEF WholeInv, SendResult, Pool!WorkReturns
<1>3. CASE Prepare \/ LogStatistics \/ UNCHANGED dataVars
           \/ \E i \in Files : Open(i) \/ MoveBuffer(i) \/ MoveFails(i) \/ Close(i) \/ Counted(i)
  BY <1>3 DEF WholeInv, Prepare, LogStatistics, Open, MoveBuffer, MoveFails, Close, Counted, OnlyOp,
     dataVars, poolVars
<1> QED
  BY <1>1, <1>2, <1>3 DEF DataNext, FileStep, Files

(* The sum that the specification of the log line takes is the total. *)
LEMMA MovedIsTotal == MapThenSumSet(LAMBDA i : moved[i], Pool!Items) = Total(moved, Files)
<1> DEFINE Sums(g) == g = [s \in SUBSET Files |->
                             IF s = {} THEN 0
                             ELSE moved[CHOOSE x \in s : TRUE] + g[s \ {CHOOSE x \in s : TRUE}]]
           g0 == CHOOSE g : Sums(g)
<1>1. MapThenSumSet(LAMBDA i : moved[i], Pool!Items) = g0[Files]
  BY DEF MapThenSumSet, MapThenFoldSet, Files
<1>2. \A g : Sums(g) <=> IsSum(g, moved, Files)
  BY DEF IsSum, AnyOf
<1>3. Total(moved, Files) = g0[Files]
  BY <1>2 DEF Total
<1> QED
  BY <1>1, <1>3

(* When the pool has returned, the files counted are those started.        *)
LEMMA ReturnedIsCounted ==
    ASSUME P!PoolInv, FilesInv, pc = "returned"
    PROVE  /\ counted = {i \in Files : task[i] # "new"}
           /\ work = Total(moved, Files)
<1>1. \A i \in Files : task[i] # "new" => task[i] \in {"ok", "failed"}
  BY PoolFacts
<1>2. counted = {i \in Files : task[i] # "new"}
  BY <1>1 DEF FilesInv, CountedFileInv
<1>3. \A i \in Files : moved[i] \in Int
  BY DEF FilesInv
<1>4. \A i \in Files \ counted : moved[i] = 0
  BY <1>2 DEF FilesInv, CountedFileInv
<1>5. Total(moved, Files) = Total(moved, counted)
  <2>1. counted \in SUBSET Files
    BY <1>2
  <2> QED
    BY <2>1, <1>3, <1>4, FilesFinite, TotalOfSupport
<1> QED
  BY <1>2, <1>5 DEF FilesInv

(* The log line is written after the pool has returned. *)
LEMMA LogTellsAll ==
    ASSUME P!PoolInv, FilesInv, WholeInv, LogStatistics
    PROVE  LoggedInv'
<1>1. /\ pc = "returned"
      /\ statistics' = [count |-> Cardinality(counted), total |-> work]
      /\ code' = IF err = Pool!NoErr THEN 0 ELSE 1
      /\ UNCHANGED <<pc, task, yielded, err, moved, stored, tool>>
  BY DEF LogStatistics, poolVars, opVars
<1>2. /\ statistics'.count = Cardinality({i \in Files : task[i] # "new"})
      /\ statistics'.total = MapThenSumSet(LAMBDA i : moved[i], Pool!Items)
  BY <1>1, ReturnedIsCounted, MovedIsTotal
<1>3. MapThenSumSet(LAMBDA i : moved[i], Pool!Items)' = MapThenSumSet(LAMBDA i : moved[i], Pool!Items)
  BY <1>1 DEF Pool!Items, MapThenSumSet, MapThenFoldSet
<1>4. ASSUME code' = 0
      PROVE  /\ statistics'.count = MaxItems
             /\ \A i \in Files : moved[i] = FileSize(i) /\ stored[i] = moved[i]
  <2>1. err = Pool!NoErr /\ yielded = MaxItems
    BY <1>1, <1>4 DEF WholeInv
  <2>2. \A i \in 1..yielded : task[i] = "ok"
    BY <1>1, <2>1, DataAssumption, P!NilMeansAllOk DEF Pool!NoErr, P!NoErr
  <2>3. \A i \in Files : task[i] = "ok"
    BY <2>1, <2>2 DEF Files, Pool!Items
  <2>4. {i \in Files : task[i] # "new"} = Files
    BY <2>3
  <2> QED
    BY <1>2, <2>3, <2>4, FilesFinite DEF FilesInv, CountedFileInv
<1>5. TotalsAreFinal'
  BY <1>1, <1>2, <1>3, <1>4 DEF TotalsAreFinal, Files, FileSize, Writes, Pool!Items
<1>6. code' # Running
  BY <1>1 DEF Running
<1> QED
  BY <1>1, <1>5, <1>6 DEF LoggedInv

(* After it nothing moves. *)
LEMMA LoggedIsOver ==
    ASSUME P!PoolInv, FilesInv, LoggedInv, statistics # NoLog, [DataNext]_dataVars
    PROVE  UNCHANGED dataVars
<1>1. pc = "returned" /\ code # Running
  BY DEF LoggedInv
<1>2. ~Prepare /\ ~LogStatistics /\ ~Dispatcher
  BY <1>1 DEF Prepare, LogStatistics, Dispatcher, Pool!YieldValue, Pool!SeqEnds, Pool!Dispatch,
     Pool!ReceiveAtLimit, Pool!ReceiveInDrain, Pool!Return
<1>3. ASSUME NEW i \in Files PROVE ~FileStep(i)
  <2>1. task[i] \in {"new", "ok", "failed"} /\ (task[i] # "new" => i \in counted)
    BY <1>1, PoolFacts DEF FilesInv, CountedFileInv
  <2> QED
    BY <2>1 DEF FileStep, Open, MoveBuffer, MoveFails, Close, InOp, Counted, SendResult, Pool!WorkReturns
<1> QED
  BY <1>2, <1>3 DEF DataNext, Files

LEMMA LoggedKeeps == DataInv /\ [DataNext]_dataVars => LoggedInv'
<1> SUFFICES ASSUME DataInv, [DataNext]_dataVars PROVE LoggedInv'
  OBVIOUS
<1>1. CASE statistics # NoLog
  <2>1. UNCHANGED dataVars
    BY <1>1, LoggedIsOver DEF DataInv
  <2>2. UNCHANGED <<pc, code, statistics, task, moved, stored, tool>>
    BY <2>1 DEF dataVars, poolVars, opVars
  <2>3. TotalsAreFinal' = TotalsAreFinal
    BY <2>2 DEF TotalsAreFinal, NoLog, FileSize, Writes, Pool!Items, MapThenSumSet, MapThenFoldSet
  <2> QED
    BY <1>1, <2>2, <2>3 DEF DataInv, LoggedInv, NoLog, Running
<1>2. CASE statistics = NoLog /\ LogStatistics
  BY <1>2, LogTellsAll DEF DataInv
<1>3. CASE statistics = NoLog /\ ~LogStatistics
  <2>1. statistics' = statistics
    BY <1>3 DEF DataNext, Prepare, Dispatcher, FileStep, Open, MoveBuffer, MoveFails, Close, OnlyOp,
       Counted, SendResult, dataVars
  <2> QED
    BY <1>3, <2>1 DEF LoggedInv, NoLog
<1> QED
  BY <1>1, <1>2, <1>3

LEMMA DataInitInv == DataInit => DataInv
<1> SUFFICES ASSUME DataInit PROVE DataInv
  OBVIOUS
<1>1. P!PoolInv
  <2>1. P!Init
    BY DEF DataInit, Pool!Init, P!Init, Pool!NoErr, P!NoErr, Pool!Items, P!Items
  <2> QED
    BY <2>1, DataAssumption, P!InitEstablishes
<1>2. stored \in [Files -> Int]
  BY DataAssumption DEF DataInit, Files, Absent
<1>3. Total(moved, counted) = 0
  <2>1. counted = {}
    BY DEF DataInit
  <2> QED
    BY <2>1, FS_EmptySet, TotalStep
<1>4. FilesInv
  BY <1>2, <1>3 DEF DataInit, FilesInv, CountedFileInv, Files, Pool!Init
<1>5. WholeInv /\ LoggedInv
  BY DEF DataInit, Pool!Init, WholeInv, LoggedInv
<1> QED
  BY <1>1, <1>4, <1>5 DEF DataInv

(* ApplyParallelWithStats (utils.go) counts before a worker's result is    *)
(* received, so the log line overtakes nobody and agrees with the exit     *)
(* code: for every number of files, buffers and workers, whatever fails.   *)
THEOREM TotalsFinal == DataSpec => []TotalsAreFinal
<1>1. DataInv /\ [DataNext]_dataVars => DataInv'
  BY PoolKeeps, FilesKeep, WholeKeeps, LoggedKeeps DEF DataInv
<1>2. DataInv => TotalsAreFinal
  BY DEF DataInv, LoggedInv, TotalsAreFinal
<1> QED
  BY DataInitInv, <1>1, <1>2, PTL DEF DataSpec
=============================================================================
