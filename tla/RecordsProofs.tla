---------------------------- MODULE RecordsProofs ----------------------------
(***************************************************************************)
(* Theorems about Records: what its six components promise, each under the *)
(* condition its own module names, for any number of windows, writers,     *)
(* files, jobs, accounts, requests and guesses.  The counters are sums and *)
(* counts over sets, so first come lemmas about those; then each component *)
(* with its inductive invariant (of the chain it is that of the module     *)
(* that proves about it); and at the end the theorems.                     *)
(***************************************************************************)
EXTENDS Records, FiniteSetsExt, FiniteSetTheorems, TLAPS

-----------------------------------------------------------------------------
(* Sums over finite sets.  MapThenSumSet adds the elements one after the   *)
(* other in an order nobody knows; what it computes is how many cells      *)
(* there are in columns of those heights, whatever the order.              *)

Sum(f, S) == MapThenSumSet(LAMBDA i : f[i], S)
IsIter(it, f, S) == it = [s \in SUBSET S |-> IF s = {} THEN 0
                              ELSE LET x == CHOOSE x \in s : TRUE IN f[x] + it[s \ {x}]]
Cells(f, S) == UNION {{i} \X (1..f[i]) : i \in S}

\* The function MapThenSumSet chooses adds the elements in some order.
LEMMA SumIs == ASSUME NEW f, NEW S PROVE Sum(f,S) = (CHOOSE it : IsIter(it, f, S))[S]
  BY DEF Sum, MapThenSumSet, MapThenFoldSet, IsIter

\* Among sets of subsets of a finite set there is a smallest
LEMMA SmallestSubset ==
  ASSUME NEW S, IsFiniteSet(S), NEW T, T \subseteq SUBSET S, T # {}
  PROVE  \E s \in T : \A u \in T : u \subseteq s => u = s
  <1>1. T \subseteq FiniteSubsetsOf(S)
    BY FS_Subset DEF FiniteSubsetsOf
  <1>2. \E s \in T : \A u \in T : ~ (<<u, s>> \in StrictSubsetOrdering(S))
    BY <1>1, FS_StrictSubsetOrderingWellFounded, WFMin, Zenon
  <1> QED
    BY <1>1, <1>2 DEF StrictSubsetOrdering

\* Two sets that have nothing in common are counted one after the other.
LEMMA CountUnion ==
  ASSUME NEW S, IsFiniteSet(S), NEW T, IsFiniteSet(T), S \cap T = {}
  PROVE  /\ IsFiniteSet(S \cup T) /\ Cardinality(S) \in Nat /\ Cardinality(T) \in Nat
         /\ Cardinality(S \cup T) = Cardinality(S) + Cardinality(T)
  <1>1. /\ IsFiniteSet(S \cup T)
        /\ Cardinality(S \cup T) = Cardinality(S) + Cardinality(T) - Cardinality({})
    BY FS_Union
  <1>2. Cardinality({}) = 0
    BY FS_EmptySet
  <1>3. Cardinality(S) \in Nat /\ Cardinality(T) \in Nat
    BY FS_CardinalityType
  <1> QED
    BY <1>1, <1>2, <1>3

\* One column more adds its height to the cells.
LEMMA CellsAdd ==
  ASSUME NEW f, NEW S, NEW x, x \notin S, IsFiniteSet(Cells(f, S)), f[x] \in Nat
  PROVE  /\ IsFiniteSet(Cells(f, S \cup {x}))
         /\ Cardinality(Cells(f, S \cup {x})) = Cardinality(Cells(f, S)) + f[x]
  <1> DEFINE Old == Cells(f, S)
             More == {x} \X (1..f[x])
  <1>1. Cells(f, S \cup {x}) = Old \cup More
    BY DEF Cells
  <1>2. Old \cap More = {}
    BY DEF Cells
  <1>3. IsFiniteSet(More) /\ Cardinality(More) = f[x]
    <2>1. IsFiniteSet({x}) /\ Cardinality({x}) = 1
      BY FS_Singleton
    <2>2. IsFiniteSet(1..f[x]) /\ Cardinality(1..f[x]) = f[x]
      BY FS_Interval
    <2>0. \A A, B : IsFiniteSet(A) /\ IsFiniteSet(B)
             => IsFiniteSet(A \X B) /\ Cardinality(A \X B) = Cardinality(A) * Cardinality(B)
      BY ONLY FS_Product
    <2>3. IsFiniteSet(More) /\ Cardinality(More) = Cardinality({x}) * Cardinality(1..f[x])
      BY ONLY <2>0, <2>1, <2>2
    <2> QED
      BY <2>1, <2>2, <2>3
  <1>4. IsFiniteSet(Old) /\ Cardinality(Old) \in Nat
    BY FS_CardinalityType
  <1> HIDE DEF Old, More
  <1>5. /\ IsFiniteSet(Old \cup More)
        /\ Cardinality(Old \cup More) = Cardinality(Old) + Cardinality(More) - Cardinality({})
    BY <1>2, <1>3, <1>4, FS_Union
  <1>6. Cardinality({}) = 0
    BY FS_EmptySet
  <1>7. Cardinality(Old \cup More) = Cardinality(Old) + f[x]
    BY <1>3, <1>4, <1>5, <1>6
  <1> QED
    BY <1>1, <1>5, <1>7 DEF Old

\* Finitely many columns have finitely many cells: no smallest set of them has not.
LEMMA CellsFinite ==
  ASSUME NEW f, NEW S, IsFiniteSet(S), \A i \in S : f[i] \in Nat
  PROVE  IsFiniteSet(Cells(f, S))
  <1> SUFFICES ASSUME ~ IsFiniteSet(Cells(f, S)) PROVE FALSE
    OBVIOUS
  <1> DEFINE T == {s \in SUBSET S : ~ IsFiniteSet(Cells(f, s))}
  <1>1. PICK s \in T : \A u \in T : u \subseteq s => u = s
    <2>1. T \subseteq SUBSET S /\ T # {}
      OBVIOUS
    <2> HIDE DEF T
    <2> QED
      BY <2>1, SmallestSubset
  <1>2. s # {}
    <2>1. Cells(f, {}) = {}
      BY DEF Cells
    <2> QED
      BY <2>1, FS_EmptySet
  <1>3. PICK x \in s : TRUE
    BY <1>2
  <1>4. IsFiniteSet(Cells(f, s \ {x}))
    BY <1>1, <1>3
  <1>5. (s \ {x}) \cup {x} = s
    BY <1>3
  <1> QED
    BY <1>1, <1>3, <1>4, <1>5, CellsAdd

\* The sum is the number of cells: on no smallest set do the two differ.
LEMMA SumIsCells ==
  ASSUME NEW f, NEW S, IsFiniteSet(S), \A i \in S : f[i] \in Nat
  PROVE  Sum(f, S) = Cardinality(Cells(f, S))
  <1> DEFINE G == [s \in SUBSET S |-> Cardinality(Cells(f, s))]
             F == CHOOSE it : IsIter(it, f, S)
  <1>1. \A s \in SUBSET S : IsFiniteSet(s) /\ IsFiniteSet(Cells(f, s))
    <2> TAKE s \in SUBSET S
    <2>1. IsFiniteSet(s)
      BY FS_Subset
    <2> QED
      BY <2>1, CellsFinite
  <1>2. Cardinality(Cells(f, {})) = 0
    <2>1. Cells(f, {}) = {}
      BY DEF Cells
    <2> QED
      BY <2>1, FS_EmptySet
  <1>3. ASSUME NEW s \in SUBSET S, NEW x \in s
        PROVE  G[s] = f[x] + G[s \ {x}]
    <2>1. IsFiniteSet(Cells(f, s \ {x})) /\ x \notin s \ {x} /\ (s \ {x}) \cup {x} = s
      BY <1>1
    <2>2. Cardinality(Cells(f, s)) = Cardinality(Cells(f, s \ {x})) + f[x]
      BY <2>1, CellsAdd
    <2>3. Cardinality(Cells(f, s \ {x})) \in Nat
      BY <2>1, FS_CardinalityType
    <2> QED
      BY <2>2, <2>3
  <1>4. IsIter(G, f, S)
    <2>1. ASSUME NEW s \in SUBSET S
          PROVE  G[s] = IF s = {} THEN 0
                        ELSE LET x == CHOOSE x \in s : TRUE IN f[x] + G[s \ {x}]
      <3>1. CASE s = {}
        BY <1>2, <3>1
      <3>2. CASE s # {}
        <4>1. (CHOOSE x \in s : TRUE) \in s
          BY <3>2
        <4> QED
          BY <1>3, <3>2, <4>1
      <3> QED
        BY <3>1, <3>2
    <2> HIDE DEF G
    <2>2. DOMAIN G = SUBSET S /\ G = [s \in SUBSET S |-> G[s]]
      BY DEF G
    <2> QED
      BY <2>1, <2>2 DEF IsIter
  <1>5. IsIter(F, f, S)
    BY <1>4
  <1> HIDE DEF F, G
  <1>6. ASSUME NEW s \in SUBSET S PROVE F[s] = G[s]
    <2> SUFFICES ASSUME F[s] # G[s] PROVE FALSE
      OBVIOUS
    <2> DEFINE T == {u \in SUBSET S : F[u] # G[u]}
    <2>1. PICK t \in T : \A u \in T : u \subseteq t => u = t
      <3>1. T \subseteq SUBSET S /\ T # {}
        OBVIOUS
      <3> HIDE DEF T
      <3> QED
        BY <3>1, SmallestSubset
    <2> DEFINE x == CHOOSE x \in t : TRUE
    <2>2. t # {}
      BY <1>2, <1>5, <2>1 DEF IsIter, G
    <2>3. x \in t
      BY <2>2
    <2> HIDE DEF x
    <2>4. F[t] = f[x] + F[t \ {x}]
      BY <1>5, <2>1, <2>2 DEF IsIter, x
    <2>5. F[t \ {x}] = G[t \ {x}]
      BY <2>1, <2>3
    <2> QED
      BY <1>3, <2>1, <2>3, <2>4, <2>5
  <1> QED
    BY <1>6, SumIs DEF F, G

\* What follows for sums: they are natural numbers, grow with their sets and by what is
\* added, and are the same for functions that agree.
LEMMA SumNat ==
  ASSUME NEW f, NEW S, IsFiniteSet(S), \A i \in S : f[i] \in Nat
  PROVE  Sum(f, S) \in Nat
  BY SumIsCells, CellsFinite, FS_CardinalityType

LEMMA SumEmpty == ASSUME NEW f PROVE Sum(f, {}) = 0
  <1>1. Cells(f, {}) = {}
    BY DEF Cells
  <1>2. IsFiniteSet({}) /\ Cardinality({}) = 0
    BY FS_EmptySet
  <1> QED
    BY <1>1, <1>2, SumIsCells

LEMMA SumAdd ==
  ASSUME NEW f, NEW S, IsFiniteSet(S), NEW x, x \notin S, \A i \in S \cup {x} : f[i] \in Nat
  PROVE  Sum(f, S \cup {x}) = Sum(f, S) + f[x]
  <1>1. IsFiniteSet(S \cup {x})
    BY FS_AddElement
  <1>2. IsFiniteSet(Cells(f, S)) /\ f[x] \in Nat /\ \A i \in S : f[i] \in Nat
    BY CellsFinite
  <1>3. Cardinality(Cells(f, S \cup {x})) = Cardinality(Cells(f, S)) + f[x]
    BY <1>2, CellsAdd
  <1>4. Sum(f, S \cup {x}) = Cardinality(Cells(f, S \cup {x}))
    BY <1>1, SumIsCells
  <1> QED
    BY <1>2, <1>3, <1>4, SumIsCells

LEMMA SumAgree ==
  ASSUME NEW f, NEW g, NEW S, IsFiniteSet(S), \A i \in S : f[i] \in Nat,
         \A i \in S : g[i] = f[i]
  PROVE  Sum(g, S) = Sum(f, S)
  <1>1. Cells(g, S) = Cells(f, S)
    BY DEF Cells
  <1> QED
    BY <1>1, SumIsCells

LEMMA SumSplit ==
  ASSUME NEW f, NEW S, IsFiniteSet(S), NEW T \in SUBSET S, \A i \in S : f[i] \in Nat
  PROVE  Sum(f, S) = Sum(f, T) + Sum(f, S \ T)
  <1>1. IsFiniteSet(T) /\ IsFiniteSet(S \ T)
    BY FS_Subset, FS_Difference
  <1>2. Cells(f, S) = Cells(f, T) \cup Cells(f, S \ T)
    BY DEF Cells
  <1>3. Cells(f, T) \cap Cells(f, S \ T) = {}
    BY DEF Cells
  <1>4. IsFiniteSet(Cells(f, T)) /\ IsFiniteSet(Cells(f, S \ T))
    BY <1>1, CellsFinite
  <1>5. Cardinality(Cells(f, S)) = Cardinality(Cells(f, T)) + Cardinality(Cells(f, S \ T))
    BY <1>2, <1>3, <1>4, CountUnion
  <1> QED
    BY <1>1, <1>5, SumIsCells

\* The members of a finite set that have one key, or one of some keys: the sum, over the
\* keys, of how many have each is how many have one of them.
KeyIs(D, key, b) == {d \in D : key[d] = b}
KeyIn(D, key, K) == {d \in D : key[d] \in K}

LEMMA SumCounts ==
  ASSUME NEW K, IsFiniteSet(K), NEW D, IsFiniteSet(D), NEW key, NEW n,
         \A b \in K : n[b] = Cardinality(KeyIs(D, key, b))
  PROVE  Sum(n, K) = Cardinality(KeyIn(D, key, K))
  <1> DEFINE Of(b) == KeyIs(D, key, b)
             In(J) == KeyIn(D, key, J)
  <1>1. \A b : IsFiniteSet(Of(b)) /\ Cardinality(Of(b)) \in Nat
    BY FS_Subset, FS_CardinalityType DEF KeyIs
  <1>2. \A J : IsFiniteSet(In(J)) /\ Cardinality(In(J)) \in Nat
    BY FS_Subset, FS_CardinalityType DEF KeyIn
  <1>3. \A b \in K : n[b] \in Nat
    BY <1>1
  <1> SUFFICES ASSUME Sum(n, K) # Cardinality(In(K)) PROVE FALSE
    OBVIOUS
  <1> DEFINE T == {J \in SUBSET K : Sum(n, J) # Cardinality(In(J))}
  <1>4. PICK J \in T : \A L \in T : L \subseteq J => L = J
    <2>1. T \subseteq SUBSET K /\ T # {}
      OBVIOUS
    <2> HIDE DEF T
    <2> QED
      BY <2>1, SmallestSubset
  <1>5. J # {}
    <2>1. In({}) = {}
      BY DEF KeyIn
    <2>2. Cardinality(In({})) = 0
      BY <2>1, FS_EmptySet
    <2> QED
      BY <1>4, <2>2, SumEmpty
  <1>6. PICK b \in J : TRUE
    BY <1>5
  <1> DEFINE L == J \ {b}
  <1>7. Sum(n, L) = Cardinality(In(L))
    BY <1>4, <1>6
  <1>8. J = L \cup {b} /\ b \notin L /\ IsFiniteSet(L) /\ \A i \in J : n[i] \in Nat
    BY <1>3, <1>4, <1>6, FS_Subset
  <1>9. Sum(n, J) = Sum(n, L) + n[b]
    <2> HIDE DEF L
    <2> QED
      BY <1>8, SumAdd
  <1>10. In(J) = In(L) \cup Of(b) /\ In(L) \cap Of(b) = {}
    BY <1>6 DEF KeyIn, KeyIs
  <1>11. Cardinality(In(J)) = Cardinality(In(L)) + Cardinality(Of(b))
    <2> HIDE DEF In, Of, L
    <2> QED
      BY <1>1, <1>2, <1>10, CountUnion
  <1>12. n[b] = Cardinality(Of(b)) /\ Sum(n, J) # Cardinality(In(J))
    BY <1>4, <1>6
  <1> QED
    BY <1>7, <1>9, <1>11, <1>12

\* A sum grows with what is added up, changes by what one of the terms does, and is no more
\* than so many times the largest of them.
LEMMA SumGrows ==
  ASSUME NEW f, NEW g, NEW S, IsFiniteSet(S), \A i \in S : g[i] \in Nat,
         \A i \in S : f[i] \in Nat /\ f[i] <= g[i]
  PROVE  Sum(f, S) <= Sum(g, S)
  <1>1. Cells(f, S) \subseteq Cells(g, S)
    BY DEF Cells
  <1>2. IsFiniteSet(Cells(g, S))
    BY CellsFinite
  <1>3. Cardinality(Cells(f, S)) <= Cardinality(Cells(g, S))
    BY <1>1, <1>2, FS_Subset
  <1> QED
    BY <1>3, SumIsCells

LEMMA SumChange ==
  ASSUME NEW f, NEW g, NEW S, IsFiniteSet(S), NEW x \in S,
         \A i \in S : f[i] \in Nat /\ g[i] \in Nat, \A i \in S \ {x} : g[i] = f[i]
  PROVE  Sum(g, S) + f[x] = Sum(f, S) + g[x]
  <1> DEFINE R == S \ {x}
  <1>1. IsFiniteSet(R) /\ x \notin R /\ R \cup {x} = S
    BY FS_Subset
  <1>2. \A i \in R : f[i] \in Nat /\ g[i] = f[i]
    OBVIOUS
  <1> HIDE DEF R
  <1>3. Sum(f, S) = Sum(f, R) + f[x] /\ Sum(g, S) = Sum(g, R) + g[x]
    BY <1>1, SumAdd
  <1>4. Sum(g, R) = Sum(f, R) /\ Sum(f, R) \in Nat
    BY <1>1, <1>2, SumAgree, SumNat
  <1>5. f[x] \in Nat /\ g[x] \in Nat
    OBVIOUS
  <1> QED
    BY <1>3, <1>4, <1>5

LEMMA SumBound ==
  ASSUME NEW f, NEW S, IsFiniteSet(S), NEW T \in SUBSET S, NEW m \in Nat,
         \A i \in S : f[i] \in Nat /\ f[i] <= m, \A i \in T : f[i] = 0
  PROVE  Sum(f, S) <= m * (Cardinality(S) - Cardinality(T))
  <1> DEFINE R == S \ T
             Grid == R \X (1..m)
  <1>1. IsFiniteSet(T) /\ IsFiniteSet(R) /\ R \cup T = S /\ R \cap T = {}
    BY FS_Subset
  <1>2. Cardinality(S) = Cardinality(R) + Cardinality(T)
        /\ Cardinality(R) \in Nat /\ Cardinality(T) \in Nat
    <2> HIDE DEF R
    <2> QED
      BY <1>1, CountUnion
  <1>3. Cells(f, S) \subseteq Grid
    BY DEF Cells
  <1>4. IsFiniteSet(Grid) /\ Cardinality(Grid) = Cardinality(R) * m
    <2>1. IsFiniteSet(1..m) /\ Cardinality(1..m) = m
      BY FS_Interval
    <2> HIDE DEF R
    <2>2. IsFiniteSet(Grid) /\ Cardinality(Grid) = Cardinality(R) * Cardinality(1..m)
      BY <1>1, <2>1, FS_Product, Zenon
    <2> QED
      BY <2>1, <2>2
  <1> HIDE DEF Grid, R
  <1>5. Cardinality(Cells(f, S)) <= Cardinality(Grid)
    BY <1>3, <1>4, FS_Subset
  <1>6. Cardinality(S) - Cardinality(T) = Cardinality(R)
    BY <1>2
  <1>7. Sum(f, S) = Cardinality(Cells(f, S))
    BY SumIsCells
  <1>8. Cardinality(R) * m = m * Cardinality(R)
    BY <1>2
  <1> QED
    BY <1>4, <1>5, <1>6, <1>7, <1>8

\* Among finitely many terms there is a largest.
LEMMA LargestIs ==
  ASSUME NEW f, NEW S, IsFiniteSet(S), S # {}, \A i \in S : f[i] \in Nat
  PROVE  \E i \in S : \A k \in S : f[k] <= f[i]
  <1> DEFINE Over(i) == {k \in S : f[i] <= f[k]}
             T == {Over(i) : i \in S}
  <1>1. PICK u \in T : \A t \in T : t \subseteq u => t = u
    <2>1. T \subseteq SUBSET S /\ T # {}
      OBVIOUS
    <2> HIDE DEF T
    <2> QED
      BY <2>1, SmallestSubset
  <1>2. PICK i \in S : u = Over(i)
    OBVIOUS
  <1>3. ASSUME NEW k \in S, f[i] < f[k] PROVE FALSE
    <2>1. Over(k) \subseteq Over(i)
      BY <1>3
    <2>2. i \in Over(i) /\ i \notin Over(k)
      BY <1>3
    <2> QED
      BY <1>1, <1>2, <2>1, <2>2
  <1> QED
    BY <1>2, <1>3

-----------------------------------------------------------------------------
(* The draft.                                                              *)

USE DEF Draft!Goto, Draft!Read, Draft!Leave

\* A handler that changes or sends the request has found it a draft, and while it is the
\* only one at work it still is; what it will write is what it has read.
WindowInv(w) ==
  /\ at[w] \notin {"blobs", "rows", "delete"}
  /\ at[w] \in {"patch", "drop people", "add people", "drop fields", "add fields", "send",
                "discard"} => req = "draft"
  /\ at[w] = "patch" => saw[w].req = "draft" /\ saw[w].source = source
  /\ at[w] = "send" => people /\ fields /\ saw[w].source # 0 /\ saw[w].source \in files

\* A purge has found no request that refers to the document; and between its emptying of
\* the storage and its unsetting of the version, nothing else happens to either.
SweepInv ==
  /\ at[Sweep] \in {"idle", "blobs", "rows", "delete"}
  /\ at[Sweep] # "idle" => req \in {"none", "deleted"}
  /\ at[Sweep] # "rows" /\ ver # 0 => ver \in files

DraftInv == /\ Draft!TypeOK /\ Draft!SourceReadable /\ SweepInv
            /\ \A w \in Windows : WindowInv(w)
            /\ \A h \in Draft!Handlers : at[h] # "idle" =>
                 \A g \in Draft!Handlers \ {h} : at[g] = "idle"

DraftMoves == Draft!Next /\ Draft!Alone

LEMMA DraftInit == Init => DraftInv
  <1> SUFFICES ASSUME Draft!Init PROVE DraftInv
    BY DEF Init
  <1>1. 0 \in 0..MaxVersion /\ 1 \in 0..MaxVersion /\ 1 \in 1..MaxVersion
    BY PartsAssumption DEF Draft!Assumptions
  <1>2. Draft!TypeOK
    BY <1>1 DEF Draft!Init, Draft!TypeOK, Draft!Nothing, Draft!Status
  <1> QED
    BY <1>2 DEF Draft!Init, DraftInv, WindowInv, SweepInv, Draft!SourceReadable,
       Draft!Handlers

\* What each handler writes has the type of what it writes to.
LEMMA DraftTypes == ASSUME Draft!TypeOK, Draft!Next PROVE Draft!TypeOK'
  <1> DEFINE Seen == [req : Draft!Status, source : 0..MaxVersion]
  <1>1. MaxVersion \in Nat /\ 0 \in 0..MaxVersion /\ 1..MaxVersion \subseteq 0..MaxVersion
        /\ \A n \in 0..MaxVersion : n < MaxVersion => n + 1 \in 1..MaxVersion
    BY PartsAssumption DEF Draft!Assumptions
  <1>2. /\ "none" \in Draft!Status /\ "draft" \in Draft!Status /\ "sent" \in Draft!Status
        /\ "canceled" \in Draft!Status /\ "deleted" \in Draft!Status
    BY DEF Draft!Status
  <1>3. /\ Draft!Nothing \in Seen /\ Draft!Row \in Seen
         /\ [req |-> req, source |-> ver] \in Seen
    BY <1>1, <1>2 DEF Draft!Nothing, Draft!Row, Draft!TypeOK
  <1> USE <1>1, <1>2, <1>3 DEF Draft!TypeOK, Draft!Handlers, Draft!docVars, Draft!reqVars
  <1>4. ASSUME NEW w \in Windows, Draft!Create(w) PROVE Draft!TypeOK'
    BY <1>4 DEF Draft!Create
  <1>5. ASSUME NEW w \in Windows, Draft!SaveCreate(w) PROVE Draft!TypeOK'
    BY <1>5 DEF Draft!SaveCreate
  <1>6. ASSUME NEW w \in Windows, Draft!Patch(w) PROVE Draft!TypeOK'
    BY <1>6 DEF Draft!Patch
  <1>7. ASSUME NEW w \in Windows, Draft!SavePatch(w) PROVE Draft!TypeOK'
    BY <1>7 DEF Draft!SavePatch
  <1>8. ASSUME NEW w \in Windows, Draft!DropPeople(w) PROVE Draft!TypeOK'
    BY <1>8 DEF Draft!DropPeople
  <1>9. ASSUME NEW w \in Windows, Draft!AddPeople(w) PROVE Draft!TypeOK'
    BY <1>9 DEF Draft!AddPeople
  <1>10. ASSUME NEW w \in Windows, Draft!DropFields(w) PROVE Draft!TypeOK'
    BY <1>10 DEF Draft!DropFields
  <1>11. ASSUME NEW w \in Windows, Draft!AddFields(w) PROVE Draft!TypeOK'
    BY <1>11 DEF Draft!AddFields
  <1>12. ASSUME NEW w \in Windows, Draft!Send(w) PROVE Draft!TypeOK'
    BY <1>12 DEF Draft!Send
  <1>13. ASSUME NEW w \in Windows, Draft!SaveSend(w) PROVE Draft!TypeOK'
    BY <1>13 DEF Draft!SaveSend
  <1>14. ASSUME NEW w \in Windows, Draft!Cancel(w) PROVE Draft!TypeOK'
    BY <1>14 DEF Draft!Cancel
  <1>15. ASSUME NEW w \in Windows, Draft!SaveCancel(w) PROVE Draft!TypeOK'
    BY <1>15 DEF Draft!SaveCancel
  <1>16. ASSUME NEW w \in Windows, Draft!Discard(w) PROVE Draft!TypeOK'
    BY <1>16 DEF Draft!Discard
  <1>17. ASSUME NEW w \in Windows, Draft!SaveDiscard(w) PROVE Draft!TypeOK'
    BY <1>17 DEF Draft!SaveDiscard
  <1>18. ASSUME NEW h \in Draft!Handlers, Draft!Crash(h) PROVE Draft!TypeOK'
    BY <1>18 DEF Draft!Crash
  <1>19. CASE Draft!Edit
    <2>1. ver + 1 \in 1..MaxVersion
      BY <1>19 DEF Draft!Edit
    <2> QED
      BY <1>19, <2>1 DEF Draft!Edit
  <1>20. CASE Draft!Trash \/ Draft!Restore  BY <1>20 DEF Draft!Trash, Draft!Restore
  <1>21. CASE Draft!Purge  BY <1>21 DEF Draft!Purge
  <1>22. CASE Draft!PurgeBlobs  BY <1>22 DEF Draft!PurgeBlobs
  <1>23. CASE Draft!PurgeUnset  BY <1>23 DEF Draft!PurgeUnset
  <1>24. CASE Draft!PurgeDelete  BY <1>24 DEF Draft!PurgeDelete
  <1> QED
    BY <1>4, <1>5, <1>6, <1>7, <1>8, <1>9, <1>10, <1>11, <1>12, <1>13, <1>14, <1>15, <1>16,
       <1>17, <1>18, <1>19, <1>20, <1>21, <1>22, <1>23, <1>24
    DEF Draft!Next

\* While one handler is at work no other begins; so what a handler has found stays so, and
\* what has been sent stays as it was sent.
LEMMA DraftStep == ASSUME DraftInv, DraftMoves PROVE DraftInv' /\ Draft!SentStays
  <1> DEFINE Kept == /\ Draft!SourceReadable' /\ SweepInv' /\ Draft!SentStays
                     /\ \A w \in Windows : WindowInv(w)'
  <1>1. /\ Draft!TypeOK /\ Draft!TypeOK' /\ Sweep \notin Windows
        /\ \A w \in Windows : w \in Draft!Handlers
        /\ Sweep \in Draft!Handlers
    BY DraftTypes, PartsAssumption DEF DraftInv, DraftMoves, Draft!Assumptions,
       Draft!Handlers
  <1>2. /\ DOMAIN at = Draft!Handlers /\ DOMAIN saw = Draft!Handlers /\ req \in Draft!Status
        /\ ver \in 0..MaxVersion
    BY <1>1 DEF Draft!TypeOK
  <1>3. \A h \in Draft!Handlers : at'[h] # "idle" => \A g \in Draft!Handlers \ {h} : at'[g] = "idle"
    BY DEF DraftMoves, Draft!Alone
  <1>4. at[Sweep] = "rows" => at'[Sweep] # "idle"
    BY DEF DraftMoves, Draft!Alone
  <1>5. /\ \A h \in Draft!Handlers :
             at[h] # "idle" => \A g \in Draft!Handlers \ {h} : at[g] = "idle"
        /\ \A w \in Windows : WindowInv(w)
        /\ SweepInv /\ Draft!SourceReadable
    BY DEF DraftInv
  <1> USE <1>1, <1>2, <1>3, <1>4, <1>5
      DEF WindowInv, SweepInv, Draft!SourceReadable, Draft!SentStays, Draft!SentIsComplete,
          Draft!SourceFrozen, Draft!LayoutFrozen, Draft!SentIsKept, Draft!reqVars,
          Draft!docVars,
          Draft!Nothing, Draft!Row
  <1>6. ASSUME NEW w \in Windows, Draft!Create(w) PROVE Kept
    BY <1>6 DEF Draft!Create
  <1>7. ASSUME NEW w \in Windows, Draft!SaveCreate(w) PROVE Kept
    BY <1>7 DEF Draft!SaveCreate
  <1>8. ASSUME NEW w \in Windows, Draft!Patch(w) PROVE Kept
    BY <1>8 DEF Draft!Patch
  <1>9. ASSUME NEW w \in Windows, Draft!SavePatch(w) PROVE Kept
    BY <1>9 DEF Draft!SavePatch
  <1>10. ASSUME NEW w \in Windows, Draft!DropPeople(w) PROVE Kept
    BY <1>10 DEF Draft!DropPeople
  <1>11. ASSUME NEW w \in Windows, Draft!AddPeople(w) PROVE Kept
    BY <1>11 DEF Draft!AddPeople
  <1>12. ASSUME NEW w \in Windows, Draft!DropFields(w) PROVE Kept
    BY <1>12 DEF Draft!DropFields
  <1>13. ASSUME NEW w \in Windows, Draft!AddFields(w) PROVE Kept
    BY <1>13 DEF Draft!AddFields
  <1>14. ASSUME NEW w \in Windows, Draft!Send(w) PROVE Kept
    BY <1>14 DEF Draft!Send
  <1>15. ASSUME NEW w \in Windows, Draft!SaveSend(w) PROVE Kept
    BY <1>15 DEF Draft!SaveSend
  <1>16. ASSUME NEW w \in Windows, Draft!Cancel(w) PROVE Kept
    BY <1>16 DEF Draft!Cancel
  <1>17. ASSUME NEW w \in Windows, Draft!SaveCancel(w) PROVE Kept
    BY <1>17 DEF Draft!SaveCancel
  <1>18. ASSUME NEW w \in Windows, Draft!Discard(w) PROVE Kept
    BY <1>18 DEF Draft!Discard
  <1>19. ASSUME NEW w \in Windows, Draft!SaveDiscard(w) PROVE Kept
    BY <1>19 DEF Draft!SaveDiscard
  <1>20. ASSUME NEW h \in Draft!Handlers, Draft!Crash(h) PROVE Kept
    BY <1>20 DEF Draft!Crash
  <1>21. ASSUME Draft!Edit PROVE Kept  BY <1>21 DEF Draft!Edit
  <1>22. ASSUME Draft!Trash PROVE Kept  BY <1>22 DEF Draft!Trash
  <1>23. ASSUME Draft!Restore PROVE Kept  BY <1>23 DEF Draft!Restore
  <1>24. ASSUME Draft!Purge PROVE Kept  BY <1>24 DEF Draft!Purge
  <1>25. ASSUME Draft!PurgeBlobs PROVE Kept  BY <1>25 DEF Draft!PurgeBlobs
  <1>26. ASSUME Draft!PurgeUnset PROVE Kept  BY <1>26 DEF Draft!PurgeUnset
  <1>27. ASSUME Draft!PurgeDelete PROVE Kept  BY <1>27 DEF Draft!PurgeDelete
  <1>28. Kept
    BY <1>6, <1>7, <1>8, <1>9, <1>10, <1>11, <1>12, <1>13, <1>14, <1>15, <1>16, <1>17,
       <1>18, <1>19, <1>20, <1>21, <1>22, <1>23, <1>24, <1>25, <1>26, <1>27
    DEF DraftMoves, Draft!Next
  <1> QED
    BY <1>28 DEF DraftInv

-----------------------------------------------------------------------------
(* The guest session.                                                      *)

GuestMakers == GuestUploads \cup GuestJobs

\* Until the session is claimed everything is its own; afterwards nothing is at work for it.
MakerInv(p) ==
  /\ does[p] \in {"idle", "touch", "create", "charge", "done"}
  /\ does[p] \in {"idle", "touch", "create"} => owner[p] = Nobody
  /\ does[p] = "charge" => owner[p] = who[p] \/ (who[p] = Guest /\ owner[p] = Gone)
  /\ owner[p] = Gone => ~ alive \/ sweep \in {"delete", "session"}
  /\ claimed = Nobody => who[p] = Guest /\ owner[p] \notin Users
  /\ claimed # Nobody => ~ Session!Busy(p) /\ who[p] \in {Guest, claimed}

\* Who has the session's row knows its bytes, and no purge is past its question.
ClaimInv(c) ==
  /\ does[c] \in {"idle", "lock", "move", "commit", "done"}
  /\ does[c] \in {"move", "commit"} <=> lease = c
  /\ lease = c => /\ claimed = Nobody /\ alive /\ loaded[c] = bytes
                  /\ sweep \in {"idle", "documents"}
  /\ does[c] = "commit" => asset # Guest

\* What a purge has listed is still the session's.
PurgeInv == \A p \in victims : sweep = "delete" /\ owner[p] = Guest

\* Every byte that has been charged is on the counter of whoever owns it, until the purge
\* deletes what the session has.
DoneFor(x) == {p \in GuestMakers : does[p] = "done" /\ owner[p] = x}
AllDone    == {p \in GuestMakers : does[p] = "done"}
CountInv ==
  /\ \A u \in Users : owed[u] = Cardinality(DoneFor(u))
  /\ alive /\ sweep \in {"idle", "documents"} => bytes = Cardinality(DoneFor(Guest))
  /\ bytes <= Cardinality(AllDone)

SessionInv == /\ Session!TypeOK /\ Session!WorkFollows /\ PurgeInv /\ CountInv
              /\ \A p \in GuestMakers : MakerInv(p)
              /\ \A j \in GuestJobs : claimed = Nobody => jobs[j] \notin Users
              /\ \A c \in Users : ClaimInv(c)

GuestTypes ==
  /\ alive \in BOOLEAN /\ expired \in BOOLEAN /\ claimed \in Users \cup {Nobody}
  /\ bytes \in Nat /\ owed \in [Users -> Nat]
  /\ owner \in [GuestMakers -> Users \cup {Guest, Nobody, Gone}]
  /\ jobs \in [GuestJobs -> Users \cup {Guest, Nobody, Gone}]
  /\ asset \in Users \cup {Guest, Gone} /\ lease \in Users \cup {Nobody}
  /\ does \in [GuestMakers \cup Users -> {"idle", "touch", "create", "charge", "done", "lock",
                                           "move", "commit"}]
  /\ who \in [GuestMakers -> Users \cup {Guest}] /\ loaded \in [Users -> Nat]
  /\ sweep \in {"idle", "documents", "delete", "session"} /\ victims \subseteq GuestMakers

USE DEF Session!Goto, Session!Free, Session!Open, Session!rows, Session!work, Session!purge

\* The owners that are no account are three, and no maker is an account.
LEMMA GuestNames ==
  /\ Guest \notin Users /\ Nobody \notin Users /\ Gone \notin Users
  /\ Guest # Nobody /\ Guest # Gone /\ Nobody # Gone
  /\ GuestMakers \cap Users = {} /\ GuestUploads \cap GuestJobs = {}
  /\ Session!Makers = GuestMakers
  BY PartsAssumption DEF Session!Assumptions, Session!Makers, GuestMakers

LEMMA GuestCounts ==
  /\ \A S : Session!Cardinality(S) = Cardinality(S)
  /\ IsFiniteSet(GuestMakers)
  BY FiniteAssumption DEF Session!Cardinality, Cardinality, GuestMakers

\* Any of the makers can be counted, and one more counts for one.
LEMMA GuestCounted ==
  ASSUME NEW S, S \subseteq GuestMakers
  PROVE  /\ IsFiniteSet(S) /\ Cardinality(S) \in Nat /\ Cardinality(S) <= Cardinality(GuestMakers)
         /\ Cardinality(GuestMakers) \in Nat
  BY GuestCounts, FS_Subset, FS_CardinalityType

LEMMA GuestCountedMore ==
  ASSUME NEW S, S \subseteq GuestMakers, NEW p \in GuestMakers, p \notin S
  PROVE  Cardinality(S \cup {p}) = Cardinality(S) + 1
  BY GuestCounted, FS_AddElement

LEMMA GuestTypesAre == GuestTypes /\ CountInv => Session!TypeOK
  <1> SUFFICES ASSUME GuestTypes, CountInv PROVE Session!TypeOK
    OBVIOUS
  <1>1. AllDone \subseteq GuestMakers
    BY DEF AllDone
  <1>2. /\ Cardinality(AllDone) \in Nat /\ Cardinality(AllDone) <= Cardinality(GuestMakers)
        /\ Cardinality(GuestMakers) \in Nat
    BY <1>1, GuestCounted
  <1>3. bytes \in 0..Cardinality(GuestMakers)
    BY <1>2 DEF GuestTypes, CountInv
  <1>4. bytes \in 0..Session!Cardinality(Session!Makers)
    BY <1>3, GuestNames, GuestCounts
  <1> QED
    BY <1>4, GuestNames DEF GuestTypes, Session!TypeOK

LEMMA GuestTypesOf == Session!TypeOK => GuestTypes
  <1> SUFFICES ASSUME Session!TypeOK PROVE GuestTypes
    OBVIOUS
  <1>1. bytes \in 0..Cardinality(GuestMakers) /\ Cardinality(GuestMakers) \in Nat
    BY GuestNames, GuestCounts, GuestCounted DEF Session!TypeOK
  <1> QED
    BY <1>1, GuestNames DEF Session!TypeOK, GuestTypes

\* What each request, job and sweep writes has the type of what it writes to.
LEMMA GuestTypesStep == ASSUME GuestTypes, Session!Next PROVE GuestTypes'
  <1> USE GuestNames DEF GuestTypes, GuestMakers, Session!Pass
  <1>1. ASSUME NEW w \in GuestUploads, Session!Authenticate(w) PROVE GuestTypes'
    BY <1>1 DEF Session!Authenticate
  <1>2. ASSUME NEW w \in GuestUploads, Session!Touch(w) PROVE GuestTypes'
    BY <1>2 DEF Session!Touch
  <1>3. ASSUME NEW j \in GuestJobs, Session!Submit(j) PROVE GuestTypes'
    BY <1>3 DEF Session!Submit
  <1>4. ASSUME NEW j \in GuestJobs, Session!Fetch(j) PROVE GuestTypes'
    BY <1>4 DEF Session!Fetch
  <1>5. ASSUME NEW p \in GuestMakers, Session!Create(p) PROVE GuestTypes'
    BY <1>5 DEF Session!Create
  <1>6. ASSUME NEW p \in GuestMakers, Session!CreateFails(p) PROVE GuestTypes'
    BY <1>6 DEF Session!CreateFails
  <1>7. ASSUME NEW p \in GuestMakers, Session!Charge(p) PROVE GuestTypes'
    BY <1>7 DEF Session!Charge
  <1>8. ASSUME NEW p \in GuestMakers, Session!DeleteDocument(p) PROVE GuestTypes'
    BY <1>8 DEF Session!DeleteDocument
  <1>9. ASSUME NEW c \in Users, Session!Ask(c) PROVE GuestTypes'
    BY <1>9 DEF Session!Ask
  <1>10. ASSUME NEW c \in Users, Session!Lock(c) PROVE GuestTypes'
    BY <1>10 DEF Session!Lock
  <1>11. ASSUME NEW c \in Users, Session!Refuse(c) PROVE GuestTypes'
    BY <1>11 DEF Session!Refuse
  <1>12. ASSUME NEW c \in Users, Session!MoveAssets(c) PROVE GuestTypes'
    BY <1>12 DEF Session!MoveAssets
  <1>13. ASSUME NEW c \in Users, Session!Commit(c) PROVE GuestTypes'
    BY <1>13 DEF Session!Commit
  <1>14. ASSUME NEW c \in Users, Session!Rollback(c) PROVE GuestTypes'
    BY <1>14 DEF Session!Rollback
  <1>15. ASSUME Session!Expire PROVE GuestTypes'  BY <1>15 DEF Session!Expire
  <1>16. ASSUME Session!List PROVE GuestTypes'  BY <1>16 DEF Session!List
  <1>17. ASSUME Session!FindDocuments PROVE GuestTypes'  BY <1>17 DEF Session!FindDocuments
  <1>18. ASSUME Session!DeleteAssets PROVE GuestTypes'  BY <1>18 DEF Session!DeleteAssets
  <1>19. ASSUME Session!DeleteSession PROVE GuestTypes'  BY <1>19 DEF Session!DeleteSession
  <1> QED
    BY <1>1, <1>2, <1>3, <1>4, <1>5, <1>6, <1>7, <1>8, <1>9, <1>10, <1>11, <1>12,
       <1>13, <1>14, <1>15, <1>16, <1>17, <1>18, <1>19
    DEF Session!Next

SessionMoves == Session!Next /\ Session!Unhurried

\* What the parts of the invariant say of who owns what, and who holds what.
OwnInv == /\ Session!WorkFollows /\ PurgeInv
          /\ \A p \in GuestMakers : MakerInv(p)
          /\ \A j \in GuestJobs : claimed = Nobody => jobs[j] \notin Users
          /\ \A c \in Users : ClaimInv(c)

\* What a guest has made has the owner its maker, the claim and the purge leave it to.
LEMMA OwnStep == ASSUME GuestTypes, OwnInv, SessionMoves PROVE OwnInv'
  <1>1. /\ lease' # Nobody => sweep' \in {"idle", "documents"}
        /\ claimed' # claimed => \A p \in GuestMakers : ~ Session!Busy(p)
    BY GuestNames DEF SessionMoves, Session!Unhurried
  <1> USE <1>1, GuestNames DEF GuestTypes, GuestMakers, OwnInv, Session!WorkFollows, PurgeInv,
          MakerInv, ClaimInv, Session!Busy, Session!Pass
  <1>2. ASSUME NEW w \in GuestUploads, Session!Authenticate(w) PROVE OwnInv'
    BY <1>2 DEF Session!Authenticate
  <1>3. ASSUME NEW w \in GuestUploads, Session!Touch(w) PROVE OwnInv'
    BY <1>3 DEF Session!Touch
  <1>4. ASSUME NEW j \in GuestJobs, Session!Submit(j) PROVE OwnInv'
    BY <1>4 DEF Session!Submit
  <1>5. ASSUME NEW j \in GuestJobs, Session!Fetch(j) PROVE OwnInv'
    BY <1>5 DEF Session!Fetch
  <1>6. ASSUME NEW p \in GuestMakers, Session!Create(p) PROVE OwnInv'
    BY <1>6 DEF Session!Create
  <1>7. ASSUME NEW p \in GuestMakers, Session!CreateFails(p) PROVE OwnInv'
    BY <1>7 DEF Session!CreateFails
  <1>8. ASSUME NEW p \in GuestMakers, Session!Charge(p) PROVE OwnInv'
    BY <1>8 DEF Session!Charge
  <1>9. ASSUME NEW p \in GuestMakers, Session!DeleteDocument(p) PROVE OwnInv'
    BY <1>9 DEF Session!DeleteDocument
  <1>10. ASSUME NEW c \in Users, Session!Ask(c) PROVE OwnInv'
    BY <1>10 DEF Session!Ask
  <1>11. ASSUME NEW c \in Users, Session!Lock(c) PROVE OwnInv'
    BY <1>11 DEF Session!Lock
  <1>12. ASSUME NEW c \in Users, Session!Refuse(c) PROVE OwnInv'
    BY <1>12 DEF Session!Refuse
  <1>13. ASSUME NEW c \in Users, Session!MoveAssets(c) PROVE OwnInv'
    BY <1>13 DEF Session!MoveAssets
  <1>14. ASSUME NEW c \in Users, Session!Commit(c) PROVE OwnInv'
    BY <1>14 DEF Session!Commit
  <1>15. ASSUME NEW c \in Users, Session!Rollback(c) PROVE OwnInv'
    BY <1>15 DEF Session!Rollback
  <1>16. ASSUME Session!Expire PROVE OwnInv'  BY <1>16 DEF Session!Expire
  <1>17. ASSUME Session!List PROVE OwnInv'  BY <1>17 DEF Session!List
  <1>18. ASSUME Session!FindDocuments PROVE OwnInv'  BY <1>18 DEF Session!FindDocuments
  <1>19. ASSUME Session!DeleteAssets PROVE OwnInv'  BY <1>19 DEF Session!DeleteAssets
  <1>20. ASSUME Session!DeleteSession PROVE OwnInv'  BY <1>20 DEF Session!DeleteSession
  <1> QED
    BY <1>2, <1>3, <1>4, <1>5, <1>6, <1>7, <1>8, <1>9, <1>10, <1>11, <1>12, <1>13,
       <1>14, <1>15, <1>16, <1>17, <1>18, <1>19, <1>20
    DEF SessionMoves, Session!Next

LEMMA CountsKept ==
  ASSUME CountInv, AllDone' = AllDone, \A u \in Users : DoneFor(u)' = DoneFor(u),
         DoneFor(Guest)' = DoneFor(Guest), bytes' = bytes, owed' = owed,
         alive' /\ sweep' \in {"idle", "documents"} => alive /\ sweep \in {"idle", "documents"}
  PROVE  CountInv'
  BY DEF CountInv

\* Every byte charged is on the counter of its owner, through claims and purges.
LEMMA CountStep == ASSUME GuestTypes, OwnInv, CountInv, SessionMoves PROVE CountInv'
  <1>1. claimed' # claimed => \A p \in GuestMakers : ~ Session!Busy(p)
    BY GuestNames DEF SessionMoves, Session!Unhurried
  <1>2. AllDone \subseteq GuestMakers /\ \A x : DoneFor(x) \subseteq GuestMakers
    BY DEF AllDone, DoneFor
  <1> DEFINE Kept == /\ AllDone' = AllDone /\ \A u \in Users : DoneFor(u)' = DoneFor(u)
                     /\ DoneFor(Guest)' = DoneFor(Guest) /\ bytes' = bytes /\ owed' = owed
                     /\ alive' /\ sweep' \in {"idle", "documents"} =>
                          alive /\ sweep \in {"idle", "documents"}
  <1>3. Kept => CountInv'
    BY CountsKept
  <1>4. ASSUME NEW w \in GuestUploads, Session!Authenticate(w) PROVE CountInv'
    <2>1. Kept
      BY <1>4, GuestNames DEF Session!Authenticate, GuestTypes, GuestMakers, OwnInv,
         MakerInv, ClaimInv,
         AllDone, DoneFor, Session!Pass
    <2> QED
      BY <2>1, <1>3
  <1>5. ASSUME NEW w \in GuestUploads, Session!Touch(w) PROVE CountInv'
    <2>1. Kept
      BY <1>5, GuestNames DEF Session!Touch, GuestTypes, GuestMakers, OwnInv, MakerInv,
         ClaimInv,
         AllDone, DoneFor, Session!Pass
    <2> QED
      BY <2>1, <1>3
  <1>6. ASSUME NEW j \in GuestJobs, Session!Submit(j) PROVE CountInv'
    <2>1. Kept
      BY <1>6, GuestNames DEF Session!Submit, GuestTypes, GuestMakers, OwnInv, MakerInv,
         ClaimInv,
         AllDone, DoneFor, Session!Pass
    <2> QED
      BY <2>1, <1>3
  <1>7. ASSUME NEW j \in GuestJobs, Session!Fetch(j) PROVE CountInv'
    <2>1. Kept
      BY <1>7, GuestNames DEF Session!Fetch, GuestTypes, GuestMakers, OwnInv, MakerInv,
         ClaimInv,
         AllDone, DoneFor, Session!Pass
    <2> QED
      BY <2>1, <1>3
  <1>8. ASSUME NEW p \in GuestMakers, Session!Create(p) PROVE CountInv'
    <2>1. Kept
      BY <1>8, GuestNames DEF Session!Create, GuestTypes, GuestMakers, OwnInv, MakerInv,
         ClaimInv,
         AllDone, DoneFor, Session!Pass
    <2> QED
      BY <2>1, <1>3
  <1>9. ASSUME NEW p \in GuestMakers, Session!CreateFails(p) PROVE CountInv'
    <2>1. /\ does[p] = "create" /\ owner[p] = Nobody /\ p \notin AllDone
          /\ does' = [does EXCEPT ![p] = "done"] /\ owner' = owner /\ bytes' = bytes
          /\ owed' = owed /\ ~ alive'
      BY <1>9 DEF Session!CreateFails, OwnInv, MakerInv, AllDone, DoneFor
    <2>2. AllDone' = AllDone \cup {p} /\ \A u \in Users : DoneFor(u)' = DoneFor(u)
      BY <2>1, GuestNames DEF GuestTypes, AllDone, DoneFor
    <2>3. Cardinality(AllDone') = Cardinality(AllDone) + 1 /\ Cardinality(AllDone) \in Nat
      BY <2>1, <2>2, <1>2, GuestCounted, GuestCountedMore
    <2> QED
      BY <2>1, <2>2, <2>3 DEF CountInv, GuestTypes
  <1>10. ASSUME NEW p \in GuestMakers, Session!Charge(p) PROVE CountInv'
    <2>1. /\ does[p] = "charge" /\ owner' = owner /\ alive' = alive /\ sweep' = sweep
           /\ does' = [does EXCEPT ![p] = "done"]
      BY <1>10 DEF Session!Charge
    <2>2. MakerInv(p)
      BY DEF OwnInv
    <2>3. /\ does[p] = "charge" /\ p \notin AllDone /\ owner' = owner /\ alive' = alive
          /\ does' = [does EXCEPT ![p] = "done"] /\ sweep' = sweep
          /\ owner[p] = who[p] \/ (who[p] = Guest /\ owner[p] = Gone)
          /\ owner[p] = Gone => ~ alive \/ sweep \in {"delete", "session"}
          /\ who[p] \in Users \cup {Guest}
      BY <2>1, <2>2 DEF MakerInv, AllDone, GuestTypes
    <2>4. AllDone' = AllDone \cup {p}
      BY <2>3 DEF GuestTypes, AllDone
    <2>5. Cardinality(AllDone') = Cardinality(AllDone) + 1 /\ Cardinality(AllDone) \in Nat
      BY <2>3, <2>4, <1>2, GuestCounted, GuestCountedMore
    <2>6. \A x : DoneFor(x)' = IF owner[p] = x THEN DoneFor(x) \cup {p} ELSE DoneFor(x)
      BY <2>3 DEF GuestTypes, DoneFor
    <2>7. \A x : owner[p] = x => Cardinality(DoneFor(x)') = Cardinality(DoneFor(x)) + 1
      <3> TAKE x
      <3>1. p \notin DoneFor(x)
        BY <2>3 DEF DoneFor, AllDone
      <3> QED
        BY <3>1, <2>6, <1>2, GuestCountedMore
    <2>8. \A x : owner[p] # x => DoneFor(x)' = DoneFor(x)
      BY <2>6
    <2>9. CASE who[p] = Guest
      <3>1. bytes' = (IF alive THEN bytes + 1 ELSE 0) /\ owed' = owed /\ owner[p] \notin Users
        BY <1>10, <2>3, <2>9, GuestNames DEF Session!Charge
      <3>2. \A u \in Users : owed'[u] = Cardinality(DoneFor(u)')
        BY <3>1, <2>8 DEF CountInv
      <3>3. ASSUME alive', sweep' \in {"idle", "documents"}
            PROVE  bytes' = Cardinality(DoneFor(Guest)')
        BY <3>3, <2>3, <2>7, <2>9, <3>1 DEF CountInv
      <3>4. bytes' <= Cardinality(AllDone')
        BY <3>1, <2>5 DEF CountInv, GuestTypes
      <3> QED
        BY <3>2, <3>3, <3>4 DEF CountInv
    <2>10. CASE who[p] # Guest
      <3>1. /\ owed' = [owed EXCEPT ![who[p]] = @ + 1] /\ bytes' = bytes /\ owner[p] = who[p]
            /\ who[p] \in Users
        BY <1>10, <2>3, <2>10, GuestNames DEF Session!Charge
      <3>2. ASSUME NEW u \in Users PROVE owed'[u] = Cardinality(DoneFor(u)')
        BY <3>1, <2>7, <2>8 DEF CountInv, GuestTypes
      <3>3. DoneFor(Guest)' = DoneFor(Guest)
        BY <3>1, <2>8, GuestNames
      <3>4. bytes' <= Cardinality(AllDone')
        BY <3>1, <2>5 DEF CountInv, GuestTypes
      <3> QED
        BY <3>1, <3>2, <3>3, <3>4, <2>3 DEF CountInv
    <2> QED
      BY <2>9, <2>10
  <1>11. ASSUME NEW p \in GuestMakers, Session!DeleteDocument(p) PROVE CountInv'
    <2>1. /\ sweep = "delete" /\ sweep' = sweep /\ owner[p] = Guest /\ does' = does
          /\ owner' = [owner EXCEPT ![p] = Gone] /\ bytes' = bytes /\ owed' = owed
      BY <1>11 DEF Session!DeleteDocument, OwnInv, PurgeInv
    <2>2. AllDone' = AllDone /\ \A u \in Users : DoneFor(u)' = DoneFor(u)
      BY <2>1, GuestNames DEF GuestTypes, AllDone, DoneFor
    <2> QED
      BY <2>1, <2>2 DEF CountInv
  <1>12. ASSUME NEW c \in Users, Session!Ask(c) PROVE CountInv'
    <2>1. Kept
      BY <1>12, GuestNames DEF Session!Ask, GuestTypes, GuestMakers, OwnInv, MakerInv,
         ClaimInv,
         AllDone, DoneFor, Session!Pass
    <2> QED
      BY <2>1, <1>3
  <1>13. ASSUME NEW c \in Users, Session!Lock(c) PROVE CountInv'
    <2>1. Kept
      BY <1>13, GuestNames DEF Session!Lock, GuestTypes, GuestMakers, OwnInv, MakerInv,
         ClaimInv,
         AllDone, DoneFor, Session!Pass
    <2> QED
      BY <2>1, <1>3
  <1>14. ASSUME NEW c \in Users, Session!Refuse(c) PROVE CountInv'
    <2>1. Kept
      BY <1>14, GuestNames DEF Session!Refuse, GuestTypes, GuestMakers, OwnInv, MakerInv,
         ClaimInv,
         AllDone, DoneFor, Session!Pass
    <2> QED
      BY <2>1, <1>3
  <1>15. ASSUME NEW c \in Users, Session!MoveAssets(c) PROVE CountInv'
    <2>1. Kept
      BY <1>15, GuestNames DEF Session!MoveAssets, GuestTypes, GuestMakers, OwnInv,
         MakerInv, ClaimInv,
         AllDone, DoneFor, Session!Pass
    <2> QED
      BY <2>1, <1>3
  <1>16. ASSUME NEW c \in Users, Session!Commit(c) PROVE CountInv'
    <2>1. /\ does[c] = "commit" /\ lease = c /\ claimed = Nobody /\ alive /\ loaded[c] = bytes
          /\ sweep \in {"idle", "documents"}
      BY <1>16 DEF Session!Commit, OwnInv, ClaimInv
    <2>2. /\ owner' = [p \in GuestMakers |-> IF owner[p] = Guest THEN c ELSE owner[p]]
          /\ owed' = [owed EXCEPT ![c] = @ + bytes] /\ bytes' = 0 /\ sweep' = sweep
          /\ does' = [does EXCEPT ![c] = "done"] /\ claimed' = c
      BY <1>16, <2>1 DEF Session!Commit, Session!Pass, GuestTypes
    <2>3. \A p \in GuestMakers : does'[p] = does[p] /\ owner[p] \notin Users
      BY <2>1, <2>2, GuestNames DEF GuestTypes, OwnInv, MakerInv
    <2>4. AllDone' = AllDone
      BY <2>3 DEF AllDone
    <2>5. \A u \in Users : DoneFor(u) = {}
      BY <2>3 DEF DoneFor
    <2>6. DoneFor(c)' = DoneFor(Guest)
      BY <2>2, <2>3, GuestNames DEF DoneFor
    <2>7. DoneFor(Guest)' = {} /\ \A u \in Users \ {c} : DoneFor(u)' = {}
      BY <2>2, <2>3, GuestNames DEF DoneFor
    <2>8. Cardinality({}) = 0 /\ Cardinality(AllDone) \in Nat
      BY FS_EmptySet, <1>2, GuestCounted
    <2>9. bytes = Cardinality(DoneFor(Guest)) /\ \A u \in Users : owed[u] = 0
      BY <2>1, <2>5, <2>8 DEF CountInv
    <2>10. ASSUME NEW u \in Users PROVE owed'[u] = Cardinality(DoneFor(u)')
      <3>1. owed'[u] = IF u = c THEN bytes ELSE 0
        BY <2>2, <2>9 DEF GuestTypes
      <3> QED
        BY <3>1, <2>6, <2>7, <2>8, <2>9
    <2> QED
      BY <2>2, <2>4, <2>7, <2>8, <2>10 DEF CountInv
  <1>17. ASSUME NEW c \in Users, Session!Rollback(c) PROVE CountInv'
    <2>1. Kept
      BY <1>17, GuestNames DEF Session!Rollback, GuestTypes, GuestMakers, OwnInv, MakerInv,
         ClaimInv,
         AllDone, DoneFor, Session!Pass
    <2> QED
      BY <2>1, <1>3
  <1>18. ASSUME Session!Expire PROVE CountInv'
    <2>1. Kept
      BY <1>18, GuestNames DEF Session!Expire, GuestTypes, GuestMakers, OwnInv, MakerInv,
         ClaimInv,
         AllDone, DoneFor, Session!Pass
    <2> QED
      BY <2>1, <1>3
  <1>19. ASSUME Session!List PROVE CountInv'
    <2>1. Kept
      BY <1>19, GuestNames DEF Session!List, GuestTypes, GuestMakers, OwnInv, MakerInv,
         ClaimInv,
         AllDone, DoneFor, Session!Pass
    <2> QED
      BY <2>1, <1>3
  <1>20. ASSUME Session!FindDocuments PROVE CountInv'
    <2>1. Kept
      BY <1>20, GuestNames DEF Session!FindDocuments, GuestTypes, GuestMakers, OwnInv,
         MakerInv, ClaimInv,
         AllDone, DoneFor, Session!Pass
    <2> QED
      BY <2>1, <1>3
  <1>21. ASSUME Session!DeleteAssets PROVE CountInv'
    <2>1. Kept
      BY <1>21, GuestNames DEF Session!DeleteAssets, GuestTypes, GuestMakers, OwnInv,
         MakerInv, ClaimInv,
         AllDone, DoneFor, Session!Pass
    <2> QED
      BY <2>1, <1>3
  <1>22. ASSUME Session!DeleteSession PROVE CountInv'
    <2>1. /\ ~ alive' /\ bytes' = 0 /\ owed' = owed /\ does' = does
          /\ owner' = [p \in GuestMakers |-> IF owner[p] = Guest THEN Gone ELSE owner[p]]
      BY <1>22 DEF Session!DeleteSession, Session!Pass, GuestTypes
    <2>2. AllDone' = AllDone /\ \A u \in Users : DoneFor(u)' = DoneFor(u)
      BY <2>1, GuestNames DEF GuestTypes, AllDone, DoneFor
    <2>3. Cardinality(AllDone) \in Nat
      BY <1>2, GuestCounted
    <2> QED
      BY <2>1, <2>2, <2>3 DEF CountInv
  <1> QED
    BY <1>4, <1>5, <1>6, <1>7, <1>8, <1>9, <1>10, <1>11, <1>12, <1>13, <1>14, <1>15,
       <1>16, <1>17, <1>18, <1>19, <1>20, <1>21, <1>22,
       GuestNames
    DEF SessionMoves, Session!Next

\* Nothing is made, charged or claimed to begin with.
LEMMA SessionInit == Session!Init => SessionInv
  <1> SUFFICES ASSUME Session!Init PROVE SessionInv
    OBVIOUS
  <1>1. GuestTypes
    BY GuestNames DEF Session!Init, GuestTypes
  <1>2. OwnInv
    BY GuestNames DEF Session!Init, OwnInv, Session!WorkFollows, PurgeInv, MakerInv,
       ClaimInv,
       Session!Busy, GuestMakers
  <1>3. AllDone = {} /\ \A x : DoneFor(x) = {}
    BY GuestNames DEF Session!Init, AllDone, DoneFor
  <1>4. Cardinality({}) = 0
    BY FS_EmptySet
  <1>5. CountInv
    BY <1>3, <1>4 DEF Session!Init, CountInv
  <1> QED
    BY <1>1, <1>2, <1>5, GuestTypesAre DEF SessionInv, OwnInv

LEMMA SessionStep == ASSUME SessionInv, SessionMoves PROVE SessionInv'
  <1>1. GuestTypes /\ OwnInv /\ CountInv
    BY GuestTypesOf DEF SessionInv, OwnInv
  <1>2. GuestTypes' /\ OwnInv' /\ CountInv'
    BY <1>1, GuestTypesStep, OwnStep, CountStep DEF SessionMoves
  <1>3. (GuestTypes /\ CountInv => Session!TypeOK)'
    BY GuestTypesAre, PTL
  <1> QED
    BY <1>2, <1>3 DEF SessionInv, OwnInv

\* With nothing under way a maker that made anything is done.
LEMMA SessionSettled == SessionInv => Session!CountedOnce
  <1> SUFFICES ASSUME SessionInv,
                      \A p \in GuestMakers \cup Users : does[p] \in {"idle", "done"}
               PROVE  /\ \A u \in Users : owed[u] = Session!Owned(u)
                      /\ alive /\ sweep = "idle" => bytes = Session!Owned(Guest)
    BY GuestNames DEF Session!CountedOnce
  <1>1. ASSUME NEW x \in Users \cup {Guest} PROVE Session!Owned(x) = Cardinality(DoneFor(x))
    <2>1. {p \in GuestMakers : owner[p] = x} = DoneFor(x)
      BY GuestNames DEF SessionInv, MakerInv, DoneFor
    <2> QED
      BY <2>1, GuestNames, GuestCounts DEF Session!Owned
  <1> QED
    BY <1>1 DEF SessionInv, CountInv
-----------------------------------------------------------------------------
(* The audit chain: every behaviour of Records is one of AuditChain, in    *)
(* which the other parts stutter.                                          *)

ChainThm == INSTANCE AuditChainProofs WITH rows <- events

\* The operators of the two instances are the same, and so are their actions.
LEMMA ChainLast ==
  /\ \A q, r : Chain!Before(q, r) <=> ChainThm!Before(q, r)
  /\ \A S : Chain!Last(S) = ChainThm!Last(S)
  /\ \A S : Chain!LastHash(S) = ChainThm!LastHash(S)
  <1>1. \A q, r : Chain!Before(q, r) <=> ChainThm!Before(q, r)
    BY DEF Chain!Before, ChainThm!Before
  <1>2. \A S : Chain!Last(S) = ChainThm!Last(S)
    BY DEF Chain!Last, ChainThm!Last, Chain!Before, ChainThm!Before
  <1> QED
    BY <1>1, <1>2 DEF Chain!LastHash, ChainThm!LastHash, Chain!Genesis, ChainThm!Genesis

LEMMA ChainSame ==
  /\ Chain!Assumptions <=> ChainThm!Assumptions
  /\ Chain!Init <=> ChainThm!Init
  /\ Chain!Next <=> ChainThm!Next
  /\ Chain!InTime <=> ChainThm!InTime
  /\ Chain!Distinct <=> ChainThm!Distinct
  /\ Chain!NoFork <=> ChainThm!NoFork
  /\ Chain!Intact <=> ChainThm!Intact
  <1> USE DEF Chain!Genesis, ChainThm!Genesis, Chain!NoEvent, ChainThm!NoEvent,
          Chain!Idle, ChainThm!Idle, Chain!Digest, ChainThm!Digest
  <1>1. Chain!Assumptions <=> ChainThm!Assumptions
    BY DEF Chain!Assumptions, ChainThm!Assumptions
  <1>2. Chain!Init <=> ChainThm!Init
    BY DEF Chain!Init, ChainThm!Init
  <1>3. Chain!Tick <=> ChainThm!Tick
    BY DEF Chain!Tick, ChainThm!Tick
  <1>4. ASSUME NEW w \in Writers PROVE Chain!Construct(w) <=> ChainThm!Construct(w)
    BY DEF Chain!Construct, ChainThm!Construct
  <1>5. ASSUME NEW w \in Writers PROVE Chain!LockRow(w) <=> ChainThm!LockRow(w)
    BY DEF Chain!LockRow, ChainThm!LockRow
  <1>6. ASSUME NEW w \in Writers PROVE Chain!ReadTail(w) <=> ChainThm!ReadTail(w)
    BY ChainLast DEF Chain!ReadTail, ChainThm!ReadTail
  <1>7. ASSUME NEW w \in Writers PROVE Chain!Insert(w) <=> ChainThm!Insert(w)
    BY DEF Chain!Insert, ChainThm!Insert
  <1>8. ASSUME NEW w \in Writers PROVE Chain!Crash(w) <=> ChainThm!Crash(w)
    BY DEF Chain!Crash, ChainThm!Crash
  <1>9. ASSUME NEW r PROVE Chain!Alter(r) <=> ChainThm!Alter(r)
    BY DEF Chain!Alter, ChainThm!Alter
  <1>10. ASSUME NEW r PROVE Chain!Lose(r) <=> ChainThm!Lose(r)
    BY ChainLast DEF Chain!Lose, ChainThm!Lose
  <1>11. Chain!Next <=> ChainThm!Next
    BY <1>3, <1>4, <1>5, <1>6, <1>7, <1>8, <1>9, <1>10 DEF Chain!Next, ChainThm!Next
  <1>12. Chain!InTime <=> ChainThm!InTime
    BY DEF Chain!InTime, ChainThm!InTime
  <1>13. Chain!Distinct <=> ChainThm!Distinct
    BY DEF Chain!Distinct, ChainThm!Distinct
  <1>14. Chain!NoFork <=> ChainThm!NoFork
    BY DEF Chain!NoFork, ChainThm!NoFork
  <1>15. \A r : Chain!Earlier(r) = ChainThm!Earlier(r) /\ Chain!Payload(r) = ChainThm!Payload(r)
    BY ChainLast DEF Chain!Earlier, ChainThm!Earlier, Chain!Payload, ChainThm!Payload
  <1>16. Chain!Intact <=> ChainThm!Intact
    BY <1>15, ChainLast DEF Chain!Intact, ChainThm!Intact
  <1> QED
    BY <1>1, <1>2, <1>11, <1>12, <1>13, <1>14, <1>16

\* The chain's variables behave as AuditChain says, under its conditions.
LEMMA ChainBehaves == Spec => ChainThm!OrderlySpec
  <1>1. Init => ChainThm!Init
    BY ChainSame DEF Init
  <1>2. [Next]_vars => [ChainThm!Next /\ ChainThm!InTime /\ ChainThm!Distinct]_(ChainThm!vars)
    BY ChainSame DEF Next, vars, chainVars, ChainThm!vars
  <1> QED
    BY <1>1, <1>2, PTL DEF Spec, ChainThm!OrderlySpec

\* No two events are chained to the same one, and verify_chain finds nothing broken where
\* nothing has happened, for any number of requests and tasks that record events.
THEOREM OneChainCorrect == Spec => []OneChain
  <1>1. ChainThm!OrderlySpec => [](ChainThm!NoFork) /\ [](ChainThm!ChainVerifies)
    BY PartsAssumption, ChainSame, ChainThm!NoForkCorrect, ChainThm!ChainVerifiesCorrect
  <1>2. ChainThm!NoFork /\ ChainThm!ChainVerifies => OneChain
    BY ChainSame DEF OneChain, Chain!ChainVerifies, ChainThm!ChainVerifies
  <1> QED
    BY <1>1, <1>2, ChainBehaves, PTL

\* A row altered, or lost, is noticed by verify_chain for good.
THEOREM DamageNoticedCorrect == Spec => []DamageNoticed
  <1>1. ChainThm!OrderlySpec => [](ChainThm!DamageNoticed)
    BY PartsAssumption, ChainSame, ChainThm!DamageNoticedCorrect
  <1>2. ChainThm!DamageNoticed => DamageNoticed
    BY ChainSame DEF DamageNoticed, Chain!DamageNoticed, ChainThm!DamageNoticed
  <1> QED
    BY <1>1, <1>2, ChainBehaves, PTL

\* The types of the chain.
LEMMA ChainTypes == Spec => []Chain!TypeOK
  <1>1. Init => ChainThm!Init
    BY ChainSame DEF Init
  <1>2. [Next]_vars => [ChainThm!Next]_(ChainThm!vars)
    BY ChainSame DEF Next, vars, chainVars, ChainThm!vars
  <1>3. ChainThm!Spec => []ChainThm!TypeOK
    BY PartsAssumption, ChainSame, ChainThm!TypeCorrect
  <1>4. ChainThm!TypeOK => Chain!TypeOK
    BY DEF Chain!TypeOK, ChainThm!TypeOK, Chain!Genesis, ChainThm!Genesis, Chain!NoEvent,
       ChainThm!NoEvent
  <1> QED
    BY <1>1, <1>2, <1>3, <1>4, PTL DEF Spec, ChainThm!Spec

-----------------------------------------------------------------------------
(* The slots.                                                              *)

\* The operators of the instance are those of this module.
LEMMA SlotsCount == \A S : Slots!Cardinality(S) = Cardinality(S)
  BY DEF Slots!Cardinality, Cardinality

\* The slot is held by the one request that is between the count and the commit.
SlotHolder == /\ \A r \in Requests : asks[r] \in {"charge", "count", "create"} => slot = r
              /\ slot # Nobody => asks[slot] \in {"charge", "count", "create"}

\* A request that has not come as far as its commit has made no job.
SlotNoJob == \A r \in Requests :
                asks[r] \in {"idle", "refused", "slot", "charge", "count", "create"} => job[r] = "none"

\* Under the slot there is room for one job more.
SlotRoom == /\ Slots!Active <= MaxConcurrentJobs
            /\ slot # Nobody => Slots!Active < MaxConcurrentJobs

\* Each charge has made a job, was lost with its process, or is about to make one.
SlotPending   == IF slot \in Metered /\ asks[slot] = "create" THEN 1 ELSE 0
SlotCharges == /\ charged <= OpsPerHour
               /\ \A r \in Metered : asks[r] = "count" => charged < OpsPerHour
               /\ charged <= Cardinality(Slots!Made \cap Metered) + deaths + SlotPending

SlotsInv == Slots!TypeOK /\ SlotHolder /\ SlotNoJob /\ SlotRoom /\ SlotCharges

LEMMA SlotTypesStep == ASSUME Slots!Assumptions, Slots!TypeOK, [Slots!Next]_(Slots!vars)
  PROVE Slots!TypeOK'
  <1> USE DEF Slots!TypeOK, Slots!Goto, Slots!Assumptions
  <1>1. ASSUME NEW r \in Requests, Slots!Guard(r) PROVE Slots!TypeOK'  BY <1>1 DEF Slots!Guard
  <1>2. ASSUME NEW r \in Requests, Slots!Enter(r) PROVE Slots!TypeOK'  BY <1>2 DEF Slots!Enter
  <1>3. ASSUME NEW r \in Requests, Slots!Meter(r) PROVE Slots!TypeOK'  BY <1>3 DEF Slots!Meter
  <1>4. ASSUME NEW r \in Requests, Slots!Count(r) PROVE Slots!TypeOK'  BY <1>4 DEF Slots!Count
  <1>5. ASSUME NEW r \in Requests, Slots!Create(r) PROVE Slots!TypeOK'  BY <1>5 DEF Slots!Create
  <1>6. ASSUME NEW r \in Requests, Slots!Enqueue(r) PROVE Slots!TypeOK'  BY <1>6 DEF Slots!Enqueue
  <1>7. ASSUME NEW r \in Requests, Slots!Kill(r) PROVE Slots!TypeOK'  BY <1>7 DEF Slots!Kill
  <1>8. ASSUME NEW r \in Requests, Slots!Run(r) PROVE Slots!TypeOK'  BY <1>8 DEF Slots!Run
  <1>9. ASSUME NEW r \in Requests, Slots!End(r) PROVE Slots!TypeOK'  BY <1>9 DEF Slots!End
  <1>10. CASE UNCHANGED Slots!vars  BY <1>10 DEF Slots!vars
  <1> QED
    BY <1>1, <1>2, <1>3, <1>4, <1>5, <1>6, <1>7, <1>8, <1>9, <1>10 DEF Slots!Next

LEMMA SlotHolderStep ==
  ASSUME Slots!Assumptions, Slots!TypeOK, SlotHolder, [Slots!Next]_(Slots!vars) PROVE SlotHolder'
  <1> USE DEF Slots!TypeOK, Slots!Goto, Slots!Assumptions, SlotHolder
  <1>1. ASSUME NEW r \in Requests, Slots!Guard(r) PROVE SlotHolder'  BY <1>1 DEF Slots!Guard
  <1>2. ASSUME NEW r \in Requests, Slots!Enter(r) PROVE SlotHolder'  BY <1>2 DEF Slots!Enter
  <1>3. ASSUME NEW r \in Requests, Slots!Meter(r) PROVE SlotHolder'  BY <1>3 DEF Slots!Meter
  <1>4. ASSUME NEW r \in Requests, Slots!Count(r) PROVE SlotHolder'  BY <1>4 DEF Slots!Count
  <1>5. ASSUME NEW r \in Requests, Slots!Create(r) PROVE SlotHolder'  BY <1>5 DEF Slots!Create
  <1>6. ASSUME NEW r \in Requests, Slots!Enqueue(r) PROVE SlotHolder'  BY <1>6 DEF Slots!Enqueue
  <1>7. ASSUME NEW r \in Requests, Slots!Kill(r) PROVE SlotHolder'  BY <1>7 DEF Slots!Kill
  <1>8. ASSUME NEW r \in Requests, Slots!Run(r) PROVE SlotHolder'  BY <1>8 DEF Slots!Run
  <1>9. ASSUME NEW r \in Requests, Slots!End(r) PROVE SlotHolder'  BY <1>9 DEF Slots!End
  <1>10. CASE UNCHANGED Slots!vars  BY <1>10 DEF Slots!vars
  <1> QED
    BY <1>1, <1>2, <1>3, <1>4, <1>5, <1>6, <1>7, <1>8, <1>9, <1>10 DEF Slots!Next

LEMMA SlotNoJobStep == ASSUME Slots!TypeOK, SlotNoJob, [Slots!Next]_(Slots!vars) PROVE SlotNoJob'
  <1> USE DEF Slots!TypeOK, Slots!Goto, SlotNoJob
  <1>1. ASSUME NEW r \in Requests, Slots!Guard(r) PROVE SlotNoJob'  BY <1>1 DEF Slots!Guard
  <1>2. ASSUME NEW r \in Requests, Slots!Enter(r) PROVE SlotNoJob'  BY <1>2 DEF Slots!Enter
  <1>3. ASSUME NEW r \in Requests, Slots!Meter(r) PROVE SlotNoJob'  BY <1>3 DEF Slots!Meter
  <1>4. ASSUME NEW r \in Requests, Slots!Count(r) PROVE SlotNoJob'  BY <1>4 DEF Slots!Count
  <1>5. ASSUME NEW r \in Requests, Slots!Create(r) PROVE SlotNoJob'  BY <1>5 DEF Slots!Create
  <1>6. ASSUME NEW r \in Requests, Slots!Enqueue(r) PROVE SlotNoJob'  BY <1>6 DEF Slots!Enqueue
  <1>7. ASSUME NEW r \in Requests, Slots!Kill(r) PROVE SlotNoJob'  BY <1>7 DEF Slots!Kill
  <1>8. ASSUME NEW r \in Requests, Slots!Run(r) PROVE SlotNoJob'  BY <1>8 DEF Slots!Run
  <1>9. ASSUME NEW r \in Requests, Slots!End(r) PROVE SlotNoJob'  BY <1>9 DEF Slots!End
  <1>10. CASE UNCHANGED Slots!vars  BY <1>10 DEF Slots!vars
  <1> QED
    BY <1>1, <1>2, <1>3, <1>4, <1>5, <1>6, <1>7, <1>8, <1>9, <1>10 DEF Slots!Next

JobsUnderWay == {r \in Requests : job[r] \in {"queued", "running"}}

\* Any of the requests can be counted.
LEMMA RequestsCounted ==
  ASSUME NEW S, S \subseteq Requests
  PROVE  IsFiniteSet(S) /\ Cardinality(S) \in Nat
  BY FiniteAssumption, FS_Subset, FS_CardinalityType

\* Fewer are counted in a part, and one more at the most with one more in it.
LEMMA RequestsFewer ==
  ASSUME NEW S, S \subseteq Requests, NEW T, T \subseteq S
  PROVE  Cardinality(T) <= Cardinality(S)
  BY RequestsCounted, FS_Subset

LEMMA RequestsMore ==
  ASSUME NEW S, S \subseteq Requests, NEW r, r \notin S
  PROVE  Cardinality(S \cup {r}) = Cardinality(S) + 1
  BY RequestsCounted, FS_AddElement

LEMMA SlotRoomStep ==
  ASSUME Slots!Assumptions, Slots!TypeOK, Slots!TypeOK', SlotHolder, SlotNoJob, SlotRoom,
         [Slots!Next]_(Slots!vars)
  PROVE  SlotRoom'
  <1>0. /\ Slots!Active = Cardinality(JobsUnderWay) /\ Slots!Active' = Cardinality(JobsUnderWay')
        /\ JobsUnderWay \subseteq Requests /\ JobsUnderWay' \subseteq Requests
        /\ Slots!Active \in Nat /\ Slots!Active' \in Nat /\ MaxConcurrentJobs \in Nat
    BY RequestsCounted, SlotsCount DEF Slots!Active, JobsUnderWay, Slots!Assumptions
  <1>1. ASSUME Slots!Active' <= Slots!Active, slot' = slot \/ slot' = Nobody PROVE SlotRoom'
    BY <1>0, <1>1 DEF SlotRoom
  <1>2. ASSUME UNCHANGED job PROVE Slots!Active' = Slots!Active
    BY <1>2 DEF Slots!Active
  <1>3. ASSUME NEW r \in Requests, Slots!Enter(r) PROVE SlotRoom'
    BY <1>0, <1>2, <1>3 DEF Slots!Enter, SlotRoom
  <1>4. ASSUME NEW r \in Requests, Slots!Create(r) PROVE SlotRoom'
    <2>1. slot = r /\ slot # Nobody /\ slot' = Nobody /\ job[r] = "none"
      BY <1>4 DEF Slots!Create, SlotHolder, SlotNoJob, Slots!Assumptions
    <2>2. r \notin JobsUnderWay /\ JobsUnderWay' = JobsUnderWay \cup {r}
      BY <1>4, <2>1 DEF Slots!Create, JobsUnderWay, Slots!TypeOK
    <2>3. Slots!Active' = Slots!Active + 1
      BY <1>0, <2>2, RequestsMore
    <2> QED
      BY <1>0, <2>1, <2>3 DEF SlotRoom
  <1>5. ASSUME NEW r \in Requests, Slots!Run(r) \/ Slots!End(r) PROVE SlotRoom'
    <2>1. JobsUnderWay' \subseteq JobsUnderWay /\ UNCHANGED slot
      BY <1>5 DEF Slots!Run, Slots!End, JobsUnderWay, Slots!TypeOK
    <2> QED
      BY <1>0, <1>1, <2>1, RequestsFewer
  <1>6. ASSUME NEW r \in Requests,
               Slots!Guard(r) \/ Slots!Meter(r) \/ Slots!Count(r) \/ Slots!Enqueue(r) \/ Slots!Kill(r)
        PROVE  SlotRoom'
    <2>1. UNCHANGED job /\ (slot' = slot \/ slot' = Nobody)
      BY <1>6 DEF Slots!Guard, Slots!Meter, Slots!Count, Slots!Enqueue, Slots!Kill
    <2> QED
      BY <1>0, <1>1, <1>2, <2>1
  <1>7. CASE UNCHANGED Slots!vars
    BY <1>0, <1>1, <1>2, <1>7 DEF Slots!vars
  <1> QED
    BY <1>3, <1>4, <1>5, <1>6, <1>7 DEF Slots!Next

LEMMA SlotChargesStep ==
  ASSUME Slots!Assumptions, Slots!TypeOK, Slots!TypeOK', SlotHolder, SlotHolder', SlotNoJob,
         SlotCharges, [Slots!Next]_(Slots!vars)
  PROVE  SlotCharges'
  <1> DEFINE PaidFor == Cardinality(Slots!Made \cap Metered)
  <1>0. /\ PaidFor \in Nat /\ PaidFor' \in Nat /\ charged \in Nat /\ deaths \in Nat
        /\ OpsPerHour \in Nat /\ SlotPending \in {0, 1} /\ SlotPending' \in {0, 1}
        /\ asks \in [Requests -> {"idle", "refused", "slot", "charge", "count", "create",
                                  "enqueue", "done", "dead"}]
        /\ Metered \subseteq Requests /\ Nobody \notin Metered /\ Nobody \notin Requests
    BY RequestsCounted DEF Slots!Made, SlotPending, Slots!TypeOK, Slots!Assumptions
  <1> HIDE DEF PaidFor
  <1>1. ASSUME UNCHANGED job PROVE PaidFor' = PaidFor
    BY <1>1 DEF Slots!Made, PaidFor
  <1> USE DEF Slots!Goto
  <1>2. ASSUME NEW r \in Requests, Slots!Guard(r) PROVE SlotCharges'
    <2>1. slot # r
      BY <1>2 DEF Slots!Guard, SlotHolder, Slots!Assumptions
    <2>2. SlotPending' = SlotPending
      BY <1>0, <1>2, <2>1 DEF Slots!Guard, SlotPending
    <2>3. \A q \in Metered : asks'[q] = "count" => asks[q] = "count"
      BY <1>0, <1>2 DEF Slots!Guard
    <2> QED
      BY <1>0, <1>1, <1>2, <2>2, <2>3 DEF Slots!Guard, SlotCharges, PaidFor
  <1>3. ASSUME NEW r \in Requests, Slots!Enter(r) PROVE SlotCharges'
    <2>1. SlotPending = 0
      BY <1>0, <1>3 DEF Slots!Enter, SlotPending
    <2>2. \A q \in Metered : asks'[q] = "count" => asks[q] = "count"
      BY <1>0, <1>3 DEF Slots!Enter
    <2> QED
      BY <1>0, <1>1, <1>3, <2>1, <2>2 DEF Slots!Enter, SlotCharges, PaidFor
  <1>4. ASSUME NEW r \in Requests, Slots!Meter(r) PROVE SlotCharges'
    <2>1. slot = r /\ SlotPending = 0
      BY <1>0, <1>4 DEF Slots!Meter, SlotHolder, SlotPending
    <2>2. r \in Metered /\ asks'[r] = "count" => charged < OpsPerHour
      BY <1>0, <1>4 DEF Slots!Meter, Slots!Spent
    <2>3. \A q \in Metered : q # r /\ asks'[q] = "count" => asks[q] = "count"
      BY <1>0, <1>4 DEF Slots!Meter
    <2> QED
      BY <1>0, <1>1, <1>4, <2>1, <2>2, <2>3 DEF Slots!Meter, SlotCharges, PaidFor
  <1>5. ASSUME NEW r \in Requests, Slots!Count(r) PROVE SlotCharges'
    <2>1. slot = r /\ SlotPending = 0 /\ UNCHANGED <<slot, job, deaths>>
          /\ \A q \in Metered : asks'[q] # "count"
      BY <1>0, <1>5 DEF Slots!Count, SlotHolder, SlotPending
    <2>2. CASE r \in Metered
      <3>1. charged < OpsPerHour /\ charged' = charged + 1 /\ SlotPending' = 1
        BY <1>0, <1>5, <2>1, <2>2 DEF Slots!Count, SlotCharges, SlotPending
      <3> QED
        BY <1>0, <1>1, <2>1, <3>1 DEF SlotCharges, PaidFor
    <2>3. CASE r \notin Metered
      <3>1. charged' = charged
        BY <1>5, <2>3 DEF Slots!Count
      <3> QED
        BY <1>0, <1>1, <2>1, <3>1 DEF SlotCharges, PaidFor
    <2> QED
      BY <2>2, <2>3
  <1>6. ASSUME NEW r \in Requests, Slots!Create(r) PROVE SlotCharges'
    <2>1. slot = r /\ job[r] = "none" /\ slot' = Nobody /\ UNCHANGED <<charged, deaths>>
      BY <1>6 DEF Slots!Create, SlotHolder, SlotNoJob
    <2>2. \A q \in Metered : asks'[q] = "count" => asks[q] = "count"
      BY <1>0, <1>6 DEF Slots!Create
    <2>3. CASE r \in Metered
      <3>1. Slots!Made' \cap Metered = (Slots!Made \cap Metered) \cup {r}
            /\ r \notin Slots!Made \cap Metered
        BY <1>6, <2>1, <2>3 DEF Slots!Create, Slots!Made, Slots!TypeOK, Slots!Assumptions
      <3>2. PaidFor' = PaidFor + 1
        BY <1>0, <3>1, RequestsMore DEF PaidFor, Slots!Made
      <3> QED
        BY <1>0, <2>1, <2>2, <3>2 DEF SlotCharges, PaidFor
    <2>4. CASE r \notin Metered
      <3>1. Slots!Made' \cap Metered = Slots!Made \cap Metered
        BY <1>6, <2>1, <2>4 DEF Slots!Create, Slots!Made, Slots!TypeOK, Slots!Assumptions
      <3>2. SlotPending = 0
        BY <2>1, <2>4 DEF SlotPending
      <3>3. PaidFor' = PaidFor
        BY <3>1 DEF PaidFor
      <3> QED
        BY <1>0, <2>1, <2>2, <3>2, <3>3 DEF SlotCharges, PaidFor
    <2> QED
      BY <2>3, <2>4
  <1>7. ASSUME NEW r \in Requests, Slots!Enqueue(r) PROVE SlotCharges'
    <2>1. slot # r
      BY <1>7 DEF Slots!Enqueue, SlotHolder, Slots!Assumptions
    <2>2. SlotPending' = SlotPending /\ \A q \in Metered : asks'[q] = "count" => asks[q] = "count"
      BY <1>0, <1>7, <2>1 DEF Slots!Enqueue, SlotPending
    <2> QED
      BY <1>0, <1>1, <1>7, <2>2 DEF Slots!Enqueue, SlotCharges, PaidFor
  <1>8. ASSUME NEW r \in Requests, Slots!Kill(r) PROVE SlotCharges'
    <2>1. deaths' = deaths + 1 /\ UNCHANGED <<job, charged>>
          /\ \A q \in Metered : asks'[q] = "count" => asks[q] = "count"
      BY <1>0, <1>8 DEF Slots!Kill
    <2> QED
      BY <1>0, <1>1, <2>1 DEF SlotCharges, PaidFor
  <1>9. ASSUME NEW r \in Requests, Slots!Run(r) \/ Slots!End(r) PROVE SlotCharges'
    <2>1. Slots!Made' = Slots!Made /\ UNCHANGED <<asks, slot, charged, deaths>>
      BY <1>9 DEF Slots!Run, Slots!End, Slots!Made, Slots!TypeOK
    <2> QED
      BY <1>0, <2>1 DEF SlotCharges, PaidFor, SlotPending
  <1>10. CASE UNCHANGED Slots!vars
    BY <1>0, <1>10 DEF Slots!vars, SlotCharges, SlotPending, Slots!Made
  <1> QED
    BY <1>2, <1>3, <1>4, <1>5, <1>6, <1>7, <1>8, <1>9, <1>10 DEF Slots!Next

LEMMA SlotsInit == Slots!Assumptions /\ Slots!Init => SlotsInv
  <1> SUFFICES ASSUME Slots!Assumptions, Slots!Init PROVE SlotsInv
    OBVIOUS
  <1>1. Slots!TypeOK /\ SlotHolder /\ SlotNoJob
    BY DEF Slots!Assumptions, Slots!Init, Slots!TypeOK, SlotHolder, SlotNoJob
  <1>2. Slots!Active = 0 /\ Slots!Made = {}
    <2>1. {r \in Requests : job[r] \in {"queued", "running"}} = {} /\ Slots!Made = {}
      BY DEF Slots!Init, Slots!Made
    <2> QED
      BY <2>1, FS_EmptySet, SlotsCount DEF Slots!Active
  <1>3. SlotRoom
    BY <1>2 DEF SlotRoom, Slots!Init, Slots!Assumptions
  <1>4. Cardinality(Slots!Made \cap Metered) = 0 /\ SlotPending = 0
    BY <1>2, FS_EmptySet DEF SlotPending, Slots!Init, Slots!Assumptions
  <1>5. SlotCharges
    BY <1>4 DEF SlotCharges, Slots!Init, Slots!Assumptions
  <1> QED
    BY <1>1, <1>3, <1>5 DEF SlotsInv

\* The parts of the invariant hold together, whoever holds the slot when.
LEMMA SlotsStep == ASSUME Slots!Assumptions, SlotsInv, [Slots!Next]_(Slots!vars) PROVE SlotsInv'
  <1>1. Slots!TypeOK' /\ SlotHolder'
    BY SlotTypesStep, SlotHolderStep DEF SlotsInv
  <1> QED
    BY <1>1, SlotNoJobStep, SlotRoomStep, SlotChargesStep DEF SlotsInv

\* A principal never has more jobs under way, or more heavy ones in an hour, than its tier
\* allows, and pays for what it gets, whatever arrives together and whatever dies.
LEMMA SlotsLimits == ASSUME Slots!Assumptions, SlotsInv PROVE Slots!SlotsHold
  <1>1. slot = Nobody => SlotPending = 0
    BY DEF SlotPending, Slots!Assumptions
  <1> QED
    BY <1>1, RequestsCounted, SlotsCount
    DEF SlotsInv, Slots!TypeOK, SlotRoom, SlotCharges, Slots!SlotsHold, Slots!Made

\* The types of the slots, and the limits they keep.
LEMMA SlotsCorrect == Spec => []Slots!TypeOK /\ []Slots!SlotsHold
  <1>1. Init => SlotsInv
    BY PartsAssumption, SlotsInit DEF Init
  <1>2. SlotsInv /\ [Next]_vars => SlotsInv'
    <2>1. [Next]_vars => [Slots!Next]_(Slots!vars)
      BY DEF Next, vars, slotVars, Slots!vars
    <2> QED
      BY <2>1, PartsAssumption, SlotsStep
  <1>3. SlotsInv => Slots!TypeOK /\ Slots!SlotsHold
    BY PartsAssumption, SlotsLimits DEF SlotsInv
  <1> QED
    BY <1>1, <1>2, <1>3, PTL DEF Spec

-----------------------------------------------------------------------------
(* The password meter.                                                     *)

LEMMA MeterConstants ==
  /\ Bucket \in Nat \ {0} /\ Span \in Nat \ {0} /\ KeyLife \in Nat
  /\ KeyLife > Bucket * Span /\ AttemptsPerMinute \in Nat \ {0}
  /\ MaxConcurrentJobs \in Nat /\ Horizon \in Nat
  BY PartsAssumption DEF Meter!Assumptions, Meter!Window

LEMMA MeterCounts ==
  /\ \A S : Meter!Cardinality(S) = Cardinality(S)
  /\ IsFiniteSet(Guesses)
  /\ Meter!FailuresInWindow = Sum(count, Meter!Keys)
  BY FiniteAssumption
  DEF Meter!Cardinality, Cardinality, Meter!FailuresInWindow, Meter!MapThenSumSet, Sum,
      MapThenSumSet, Meter!MapThenFoldSet, MapThenFoldSet

LEMMA GuessesCounted ==
  ASSUME NEW S, S \subseteq Guesses
  PROVE  /\ IsFiniteSet(S) /\ Cardinality(S) \in Nat /\ Cardinality(S) <= Cardinality(Guesses)
         /\ \A T : T \subseteq S => Cardinality(T) <= Cardinality(S)
         /\ \A g \in Guesses \ S : Cardinality(S \cup {g}) = Cardinality(S) + 1
         /\ \A g \in S : Cardinality(S \ {g}) = Cardinality(S) - 1
  BY MeterCounts, FS_Subset, FS_CardinalityType, FS_AddElement, FS_RemoveElement

LEMMA BucketIs ==
  ASSUME NEW t \in Nat
  PROVE  /\ t \div Bucket \in Nat
         /\ Bucket * (t \div Bucket) <= t /\ t < Bucket * (t \div Bucket) + Bucket
  BY MeterConstants

LEMMA Scaled == ASSUME NEW x \in Int, NEW y \in Int PROVE Bucket * x < Bucket * y <=> x < y
  <1>1. x < y => Bucket * x < Bucket * y
    BY MeterConstants
  <1>2. y <= x => Bucket * y <= Bucket * x
    BY MeterConstants
  <1>3. Bucket * x \in Int /\ Bucket * y \in Int 
    BY MeterConstants
  <1> QED
    BY <1>1, <1>2, <1>3

LEMMA BucketsGrow ==
  ASSUME NEW s \in Nat, NEW t \in Nat, s <= t PROVE s \div Bucket <= t \div Bucket
  <1> DEFINE q == s \div Bucket
             r == t \div Bucket
  <1>1. q \in Nat /\ r \in Nat /\ Bucket * q <= s /\ t < Bucket * r + Bucket
    BY BucketIs
  <1> HIDE DEF q, r
  <1>2. Bucket * q < Bucket * r + Bucket
    BY <1>1, MeterConstants
  <1>3. Bucket * r + Bucket = Bucket * (r + 1)
    BY <1>1, MeterConstants
  <1>4. q < r + 1
    BY <1>1, <1>2, <1>3, Scaled
  <1>5. q <= r
    BY <1>1, <1>4
  <1> QED
    BY <1>5 DEF q, r

\* A key that has expired is of no bucket in the window.
LEMMA ExpiredIsOld ==
  ASSUME NEW b \in Nat, NEW t \in Nat, b * Bucket + KeyLife <= t
  PROVE  b + Span <= t \div Bucket
  <1> DEFINE r == t \div Bucket
  <1>1. r \in Nat /\ t < Bucket * r + Bucket
    BY BucketIs
  <1> HIDE DEF r
  <1>2. Bucket * (b + Span) = b * Bucket + Bucket * Span /\ Bucket * r + Bucket = Bucket * (r + 1)
    BY <1>1, MeterConstants
  <1>3. /\ Bucket * (b + Span) \in Nat /\ Bucket * (r + 1) \in Nat /\ b * Bucket \in Nat
        /\ Bucket * Span \in Nat
    BY <1>1, MeterConstants
  <1>4. Bucket * (b + Span) < Bucket * (r + 1)
    BY <1>1, <1>2, <1>3, MeterConstants
  <1>5. b + Span < r + 1
    BY <1>1, <1>4, Scaled, MeterConstants
  <1> QED
    BY <1>1, <1>5, MeterConstants DEF r

\* What is counted in a bucket of the window is as old as a window at the most, and what
\* is younger than all but one bucket of it is counted there.
LEMMA WindowIs ==
  ASSUME NEW s \in Nat, NEW t \in Nat, s <= t
  PROVE  /\ t - s < Bucket * Span - Bucket + 1 => t \div Bucket < s \div Bucket + Span
         /\ t \div Bucket < s \div Bucket + Span => t - s < Bucket * Span
  <1> DEFINE q == s \div Bucket
             r == t \div Bucket
  <1>1. /\ q \in Nat /\ Bucket * q <= s /\ s < Bucket * q + Bucket
        /\ r \in Nat /\ Bucket * r <= t /\ t < Bucket * r + Bucket
    BY BucketIs
  <1> HIDE DEF q, r
  <1>2. Bucket * (q + Span) = Bucket * q + Bucket * Span /\ Bucket * r + Bucket = Bucket * (r + 1)
    BY <1>1, MeterConstants
  <1>3. /\ Bucket * q \in Nat /\ Bucket * r \in Nat /\ Bucket * Span \in Nat
    BY <1>1, MeterConstants
  <1>4. ASSUME t - s < Bucket * Span - Bucket + 1 PROVE r < q + Span
    <2>1. Bucket * r < Bucket * (q + Span)
      BY <1>1, <1>2, <1>3, <1>4, MeterConstants
    <2> QED
      BY <1>1, <2>1, Scaled, MeterConstants
  <1>5. ASSUME r < q + Span PROVE t - s < Bucket * Span
    <2>1. r + 1 <= q + Span
      BY <1>1, <1>5, MeterConstants
    <2>2. ~ (Bucket * (q + Span) < Bucket * (r + 1))
      BY <1>1, <2>1, Scaled, MeterConstants
    <2> QED
      BY <1>1, <1>2, <1>3, <2>2, MeterConstants
  <1> QED
    BY <1>4, <1>5 DEF q, r

\* The bucket of a guess, and whether a bucket is in the window.
BucketOf(g) == failedAt[g] \div Bucket
Live(b)     == clock \div Bucket < b + Span
InBucket(b) == {g \in Guesses : tries[g] = "done" /\ BucketOf(g) = b}
Recent      == {g \in Guesses : tries[g] = "done" /\ Live(BucketOf(g))}

MeterTypes ==
  /\ clock \in 0..Horizon /\ DOMAIN ends = DOMAIN count
  /\ \A b \in DOMAIN count : b \in Nat /\ count[b] \in Nat /\ ends[b] \in Nat
  /\ tries \in [Guesses -> {"idle", "asked", "queued", "add", "incr", "done"}]
  /\ failedAt \in [Guesses -> Nat] /\ \A g \in Guesses : failedAt[g] <= clock

\* A key lives as long as its bucket is in the window, and has the count of what was done
\* in it; none is there for a bucket to come.
KeysInv ==
  /\ \A b \in DOMAIN count : /\ b * Bucket + KeyLife <= ends[b] /\ clock < ends[b]
                             /\ b <= clock \div Bucket
                             /\ count[b] <= Cardinality(InBucket(b))
                             /\ Live(b) => count[b] = Cardinality(InBucket(b))
  /\ \A g \in Recent : BucketOf(g) \in DOMAIN count

\* Who has been told that there are attempts left is right, until a slot is found; and what
\* is at work when the last attempt is taken is what has a slot.
DoorInv ==
  /\ (\E g \in Guesses : tries[g] = "asked") => Cardinality(Recent) < AttemptsPerMinute
  /\ Cardinality(Meter!InFlight) <= MaxConcurrentJobs
  /\ Cardinality(Recent) + Cardinality(Meter!InFlight) < AttemptsPerMinute + MaxConcurrentJobs

MeterInv   == MeterTypes /\ KeysInv /\ DoorInv
MeterMoves == Meter!Next /\ Meter!Prompt

LEMMA BucketNat ==
  ASSUME MeterTypes, NEW g \in Guesses
  PROVE  /\ BucketOf(g) \in Nat /\ BucketOf(g) * Bucket <= failedAt[g]
         /\ failedAt[g] \in Nat /\ clock \in Nat /\ BucketOf(g) <= clock \div Bucket
  <1>1. failedAt[g] \in Nat /\ clock \in Nat /\ failedAt[g] <= clock
    BY DEF MeterTypes
  <1>2. BucketOf(g) \in Nat /\ Bucket * BucketOf(g) <= failedAt[g]
    BY <1>1, BucketIs DEF BucketOf
  <1>3. Bucket * BucketOf(g) = BucketOf(g) * Bucket
    BY <1>2, MeterConstants
  <1>4. BucketOf(g) <= clock \div Bucket
    BY <1>1, BucketsGrow DEF BucketOf
  <1> QED
    BY <1>1, <1>2, <1>3, <1>4

USE DEF Meter!Goto, Meter!BucketOf, Meter!Put

LEMMA MeterTypesStep == ASSUME MeterTypes, Meter!Next PROVE MeterTypes'
  <1> USE MeterConstants DEF MeterTypes
  <1>1. ASSUME Meter!Tick PROVE MeterTypes'
    BY <1>1 DEF Meter!Tick
  <1>2. ASSUME NEW g \in Guesses, Meter!Enforce(g) PROVE MeterTypes'
    BY <1>2 DEF Meter!Enforce
  <1>3. ASSUME NEW g \in Guesses, Meter!Enter(g) PROVE MeterTypes'
    BY <1>3 DEF Meter!Enter
  <1>4. ASSUME NEW g \in Guesses, Meter!Fail(g) PROVE MeterTypes'
    BY <1>4 DEF Meter!Fail
  <1>5. ASSUME NEW g \in Guesses, Meter!Add(g) PROVE MeterTypes'
    <2>1. BucketOf(g) \in Nat /\ clock + KeyLife \in Nat
      BY BucketNat
    <2> QED
      BY <1>5, <2>1 DEF Meter!Add, BucketOf
  <1>6. ASSUME NEW g \in Guesses, Meter!Incr(g) PROVE MeterTypes'
    <2>1. BucketOf(g) \in Nat /\ clock + KeyLife \in Nat
      BY BucketNat
    <2>2. CASE BucketOf(g) \in DOMAIN count
      BY <1>6, <2>1, <2>2 DEF Meter!Incr, BucketOf
    <2>3. CASE BucketOf(g) \notin DOMAIN count
      BY <1>6, <2>1, <2>3 DEF Meter!Incr, BucketOf
    <2> QED
      BY <2>2, <2>3
  <1> QED
    BY <1>1, <1>2, <1>3, <1>4, <1>5, <1>6 DEF Meter!Next

\* Nothing that is counted changes but by Incr, or leaves the window but with the clock.
LEMMA KeysKept ==
  ASSUME KeysInv, UNCHANGED <<clock, count, ends>>,
         \A b : InBucket(b)' = InBucket(b), Recent' = Recent,
         \A g \in Recent : BucketOf(g)' = BucketOf(g)
  PROVE  KeysInv'
  BY DEF KeysInv, Live

\* The counts of the buckets follow the failures, and no key is lost before its
\* bucket is out of the window.
LEMMA KeysStep == ASSUME MeterTypes, MeterTypes', KeysInv, Meter!Next PROVE KeysInv'
  <1>1. ASSUME NEW g \in Guesses, tries[g] \notin {"done"}, NEW a, a # "done",
               tries' = [tries EXCEPT ![g] = a],
               \A d \in Guesses \ {g} : failedAt'[d] = failedAt[d], UNCHANGED clock
        PROVE  /\ \A b : InBucket(b)' = InBucket(b)
               /\ Recent' = Recent /\ \A d \in Recent : BucketOf(d)' = BucketOf(d)
    BY <1>1 DEF MeterTypes, InBucket, Recent, BucketOf, Live
  <1>2. ASSUME Meter!Tick PROVE KeysInv'
    <2>1. /\ clock' = clock + 1 /\ UNCHANGED <<tries, failedAt>>
          /\ count' = [b \in {c \in DOMAIN ends : ends[c] > clock'} |-> count[b]]
          /\ ends' = [b \in {c \in DOMAIN ends : ends[c] > clock'} |-> ends[b]]
      BY <1>2 DEF Meter!Tick
    <2>2. clock \in Nat /\ clock' \in Nat /\ clock \div Bucket \in Nat /\ clock' \div Bucket \in Nat
      BY <2>1, BucketIs DEF MeterTypes
    <2>3. clock \div Bucket <= clock' \div Bucket
      BY <2>1, <2>2, BucketsGrow
    <2>4. \A b : InBucket(b)' = InBucket(b)
      BY <2>1 DEF InBucket, BucketOf
    <2>5. \A b \in Nat : Live(b)' => Live(b)
      <3> SUFFICES ASSUME NEW b \in Nat, clock' \div Bucket < b + Span
                   PROVE  clock \div Bucket < b + Span
        BY DEF Live
      <3> DEFINE q == clock \div Bucket
                 r == clock' \div Bucket
      <3>1. q \in Nat /\ r \in Nat /\ q <= r /\ r < b + Span
        BY <2>2, <2>3
      <3> HIDE DEF q, r
      <3>2. q < b + Span
        BY <3>1, MeterConstants
      <3> QED
        BY <3>2 DEF q
    <2>6. ASSUME NEW b \in DOMAIN count, Live(b)' PROVE ends[b] > clock'
      <3>1. b \in Nat /\ ends[b] \in Nat /\ b * Bucket + KeyLife <= ends[b]
        BY DEF MeterTypes, KeysInv
      <3>2. ~ (b * Bucket + KeyLife <= clock')
        BY <2>2, <2>6, <3>1, ExpiredIsOld, MeterConstants DEF Live
      <3>3. b * Bucket + KeyLife \in Nat
        BY <3>1, MeterConstants
      <3> QED
        BY <2>2, <3>1, <3>2, <3>3
    <2>7. ASSUME NEW b \in DOMAIN count' PROVE
             /\ b * Bucket + KeyLife <= ends'[b] /\ clock' < ends'[b]
             /\ b <= clock' \div Bucket /\ count'[b] <= Cardinality(InBucket(b)')
             /\ Live(b)' => count'[b] = Cardinality(InBucket(b)')
      <3>1. b \in DOMAIN count /\ b \in Nat /\ count'[b] = count[b] /\ ends'[b] = ends[b]
            /\ ends[b] > clock' /\ ends[b] \in Nat
        BY <2>1 DEF MeterTypes
      <3>2. b <= clock' \div Bucket
        BY <2>2, <2>3, <3>1 DEF KeysInv
      <3> QED
        BY <2>2, <2>4, <2>5, <3>1, <3>2 DEF KeysInv
    <2>8. ASSUME NEW g \in Recent' PROVE BucketOf(g)' \in DOMAIN count'
      <3>1. BucketOf(g)' = BucketOf(g) /\ g \in Guesses /\ tries[g] = "done" /\ Live(BucketOf(g))'
        BY <2>1, <2>8 DEF Recent, BucketOf, Live
      <3>2. BucketOf(g) \in Nat
        BY <3>1, BucketNat
      <3>3. g \in Recent
        BY <2>5, <3>1, <3>2 DEF Recent, Live
      <3>4. BucketOf(g) \in DOMAIN count
        BY <3>3 DEF KeysInv
      <3>5. ends[BucketOf(g)] > clock'
        BY <2>6, <3>1, <3>4 DEF Live
      <3> QED
        BY <2>1, <3>1, <3>4, <3>5 DEF MeterTypes
    <2> QED
      BY <2>7, <2>8 DEF KeysInv
  <1>3. ASSUME NEW g \in Guesses, Meter!Enforce(g) PROVE KeysInv'
    BY <1>1, <1>3, KeysKept DEF Meter!Enforce
  <1>4. ASSUME NEW g \in Guesses, Meter!Enter(g) PROVE KeysInv'
    <2>1. PICK a \in {"queued", "idle"} : tries' = [tries EXCEPT ![g] = a]
      BY <1>4 DEF Meter!Enter
    <2> QED
      BY <1>1, <1>4, <2>1, KeysKept DEF Meter!Enter
  <1>5. ASSUME NEW g \in Guesses, Meter!Fail(g) PROVE KeysInv'
    <2>1. \A d \in Guesses \ {g} : failedAt'[d] = failedAt[d]
      BY <1>5 DEF Meter!Fail, MeterTypes
    <2> QED
      BY <1>1, <1>5, <2>1, KeysKept DEF Meter!Fail
  <1>6. ASSUME NEW g \in Guesses, Meter!Add(g) PROVE KeysInv'
    <2> DEFINE k == BucketOf(g)
    <2>1. /\ \A b : InBucket(b)' = InBucket(b)
          /\ Recent' = Recent /\ \A d \in Recent : BucketOf(d)' = BucketOf(d)
          /\ UNCHANGED <<clock, failedAt>>
      BY <1>1, <1>6 DEF Meter!Add
    <2>2. CASE k \in DOMAIN count
      BY <1>6, <2>1, <2>2, KeysKept DEF Meter!Add, BucketOf
    <2>3. CASE k \notin DOMAIN count
      <3>1. /\ count' = [b \in DOMAIN count \cup {k} |-> IF b = k THEN 0 ELSE count[b]]
            /\ ends' = [b \in DOMAIN ends \cup {k} |-> IF b = k THEN clock + KeyLife ELSE ends[b]]
        BY <1>6, <2>3 DEF Meter!Add, BucketOf
      <3>2. k \in Nat /\ k * Bucket <= clock /\ clock \in Nat /\ k <= clock \div Bucket
            /\ k * Bucket \in Nat
        BY BucketNat, MeterConstants DEF MeterTypes
      <3>3. k * Bucket + KeyLife <= clock + KeyLife /\ clock < clock + KeyLife
        BY <3>2, MeterConstants
      <3>4. Cardinality(InBucket(k)) \in Nat /\ (Live(k) => Cardinality(InBucket(k)) = 0)
        <4>1. InBucket(k) \subseteq Guesses
          BY DEF InBucket
        <4>2. Live(k) => InBucket(k) = {}
          BY <2>3 DEF KeysInv, InBucket, Recent
        <4> QED
          BY <4>1, <4>2, GuessesCounted, FS_EmptySet
      <3>5. \A b : Live(b)' <=> Live(b)
        BY <2>1 DEF Live
      <3>6. ASSUME NEW b \in DOMAIN count' PROVE
             /\ b * Bucket + KeyLife <= ends'[b] /\ clock' < ends'[b]
             /\ b <= clock' \div Bucket /\ count'[b] <= Cardinality(InBucket(b)')
             /\ Live(b)' => count'[b] = Cardinality(InBucket(b)')
        <4>1. CASE b = k
          <5>1. count'[b] = 0 /\ ends'[b] = clock + KeyLife
            BY <3>1, <4>1 DEF MeterTypes
          <5> QED
            BY <2>1, <3>2, <3>3, <3>4, <3>5, <4>1, <5>1
        <4>2. CASE b # k
          <5>1. b \in DOMAIN count /\ count'[b] = count[b] /\ ends'[b] = ends[b]
            BY <3>1, <4>2 DEF MeterTypes
          <5> QED
            BY <2>1, <3>5, <5>1 DEF KeysInv
        <4> QED
          BY <4>1, <4>2
      <3>7. \A d \in Recent' : BucketOf(d)' \in DOMAIN count'
        BY <2>1, <3>1 DEF KeysInv
      <3> QED
        BY <3>6, <3>7 DEF KeysInv
    <2> QED
      BY <2>2, <2>3
  <1>7. ASSUME NEW g \in Guesses, Meter!Incr(g) PROVE KeysInv'
    <2> DEFINE k == BucketOf(g)
    <2>1. /\ tries[g] = "incr" /\ tries' = [tries EXCEPT ![g] = "done"]
          /\ UNCHANGED <<clock, failedAt>>
      BY <1>7 DEF Meter!Incr
    <2>2. /\ InBucket(k)' = InBucket(k) \cup {g} /\ g \notin InBucket(k)
          /\ \A b : b # k => InBucket(b)' = InBucket(b)
          /\ Recent' \subseteq Recent \cup {g} /\ \A d : BucketOf(d)' = BucketOf(d)
          /\ \A b : Live(b)' <=> Live(b)
      BY <2>1 DEF MeterTypes, InBucket, Recent, BucketOf, Live
    <2>3. /\ Cardinality(InBucket(k)) \in Nat
          /\ Cardinality(InBucket(k)') = Cardinality(InBucket(k)) + 1
      <3>1. InBucket(k) \subseteq Guesses /\ g \in Guesses \ InBucket(k)
        BY <2>2 DEF InBucket
      <3> HIDE DEF k
      <3> QED
        BY <2>2, <3>1, GuessesCounted
    <2>4. k \in Nat /\ k * Bucket <= clock /\ clock \in Nat /\ k <= clock \div Bucket
          /\ k * Bucket \in Nat
      BY BucketNat, MeterConstants DEF MeterTypes
    <2>5. k * Bucket + KeyLife <= clock + KeyLife /\ clock < clock + KeyLife
      BY <2>4, MeterConstants
    <2>6. /\ DOMAIN count' = DOMAIN count \cup {k}
          /\ \A b \in DOMAIN count : b # k => count'[b] = count[b] /\ ends'[b] = ends[b]
      <3>1. CASE k \in DOMAIN count
        BY <1>7, <3>1 DEF Meter!Incr, BucketOf, MeterTypes
      <3>2. CASE k \notin DOMAIN count
        BY <1>7, <3>2 DEF Meter!Incr, BucketOf, MeterTypes
      <3> QED
        BY <3>1, <3>2
    <2>7. /\ k * Bucket + KeyLife <= ends'[k] /\ clock < ends'[k]
          /\ count'[k] <= Cardinality(InBucket(k)')
          /\ Live(k) => count'[k] = Cardinality(InBucket(k)')
      <3>1. CASE k \in DOMAIN count
        <4>1. count'[k] = count[k] + 1 /\ ends'[k] = ends[k] /\ count[k] \in Nat
          BY <1>7, <3>1 DEF Meter!Incr, BucketOf, MeterTypes
        <4> QED
          BY <2>3, <3>1, <4>1 DEF KeysInv
      <3>2. CASE k \notin DOMAIN count
        <4>1. count'[k] = 1 /\ ends'[k] = clock + KeyLife
          BY <1>7, <3>2 DEF Meter!Incr, BucketOf, MeterTypes
        <4>2. Live(k) => Cardinality(InBucket(k)) = 0
          <5>1. Live(k) => InBucket(k) = {}
            BY <3>2 DEF KeysInv, InBucket, Recent
          <5> QED
            BY <5>1, FS_EmptySet
        <4> QED
          BY <2>3, <2>5, <4>1, <4>2
      <3> QED
        BY <3>1, <3>2
    <2>8. ASSUME NEW b \in DOMAIN count' PROVE
             /\ b * Bucket + KeyLife <= ends'[b] /\ clock' < ends'[b]
             /\ b <= clock' \div Bucket /\ count'[b] <= Cardinality(InBucket(b)')
             /\ Live(b)' => count'[b] = Cardinality(InBucket(b)')
      <3>1. CASE b = k
        BY <2>1, <2>2, <2>4, <2>7, <3>1
      <3>2. CASE b # k
        BY <2>1, <2>2, <2>6, <3>2 DEF KeysInv
      <3> QED
        BY <3>1, <3>2
    <2>9. \A d \in Recent' : BucketOf(d)' \in DOMAIN count'
      BY <2>2, <2>6 DEF KeysInv
    <2> QED
      BY <2>8, <2>9 DEF KeysInv
  <1> QED
    BY <1>2, <1>3, <1>4, <1>5, <1>6, <1>7 DEF Meter!Next

\* Done is what has failed and been counted; what is at work has no count yet.
LEMMA DoorSets ==
  /\ Recent \subseteq Guesses /\ Meter!InFlight \subseteq Guesses
  /\ IsFiniteSet(Recent) /\ IsFiniteSet(Meter!InFlight)
  /\ Cardinality(Recent) \in Nat /\ Cardinality(Meter!InFlight) \in Nat
  <1>1. Recent \subseteq Guesses /\ Meter!InFlight \subseteq Guesses
    BY DEF Recent, Meter!InFlight
  <1> QED
    BY <1>1, GuessesCounted

\* What is read at the door is what has been counted in the window.
LEMMA FailuresAre ==
  ASSUME MeterTypes, KeysInv
  PROVE  Meter!FailuresInWindow = Cardinality(Recent)
  <1> DEFINE D   == {g \in Guesses : tries[g] = "done"}
             key == [g \in Guesses |-> BucketOf(g)]
  <1>1. Meter!Keys = {b \in DOMAIN count : Live(b)}
    <2>1. clock \div Bucket \in Nat /\ \A b \in DOMAIN count : b \in Nat
      BY BucketIs DEF MeterTypes
    <2> QED
      BY <2>1, MeterConstants DEF Meter!Keys, Live
  <1>2. IsFiniteSet(Meter!Keys)
    <2>1. clock \div Bucket \in Nat /\ Meter!Keys \subseteq 0..(clock \div Bucket)
      BY <1>1, BucketIs DEF MeterTypes, KeysInv
    <2> DEFINE q == clock \div Bucket
    <2>2. IsFiniteSet(0..q)
      <3>1. q \in Int
        BY <2>1
      <3> HIDE DEF q
      <3> QED
        BY <3>1, FS_Interval
    <2> QED
      BY <2>1, <2>2, FS_Subset
  <1>3. IsFiniteSet(D)
    BY GuessesCounted
  <1>4. \A b \in Meter!Keys : count[b] = Cardinality(KeyIs(D, key, b))
    <2> TAKE b \in Meter!Keys
    <2>1. KeyIs(D, key, b) = InBucket(b)
      BY DEF InBucket, KeyIs
    <2> QED
      BY <1>1, <2>1 DEF KeysInv
  <1>5. KeyIn(D, key, Meter!Keys) = Recent
    BY <1>1 DEF Recent, KeysInv, KeyIn
  <1>6. Sum(count, Meter!Keys) = Cardinality(KeyIn(D, key, Meter!Keys))
    <2> HIDE DEF D, key
    <2> QED
      BY <1>2, <1>3, <1>4, SumCounts
  <1> QED
    BY <1>5, <1>6, MeterCounts

\* A guess that finds the last attempt taken is not let in; those at work have slots.
LEMMA DoorStep ==
  ASSUME MeterTypes, MeterTypes', KeysInv, DoorInv, MeterMoves PROVE DoorInv'
  <1> DEFINE R == Cardinality(Recent)
             F == Cardinality(Meter!InFlight)
  <1>1. /\ R \in Nat /\ F \in Nat /\ R' \in Nat /\ F' \in Nat
        /\ AttemptsPerMinute \in Nat /\ MaxConcurrentJobs \in Nat
    <2>1. (Cardinality(Recent) \in Nat /\ Cardinality(Meter!InFlight) \in Nat)'
      BY DoorSets, PTL
    <2> QED
      BY <2>1, DoorSets, MeterConstants
  <1>2. ASSUME R' <= R, F' = F, \A g \in Guesses : tries'[g] = "asked" => tries[g] = "asked"
        PROVE  DoorInv'
    BY <1>1, <1>2 DEF DoorInv
  <1>3. ASSUME NEW g \in Guesses, tries[g] # "done", NEW a, a # "done",
               tries' = [tries EXCEPT ![g] = a],
               \A d \in Guesses \ {g} : failedAt'[d] = failedAt[d], UNCHANGED clock
        PROVE  R' = R
    <2>1. Recent' = Recent
      BY <1>3 DEF MeterTypes, Recent, BucketOf, Live
    <2> QED
      BY <2>1
  <1>4. ASSUME NEW g \in Guesses, NEW a, tries' = [tries EXCEPT ![g] = a],
               (tries[g] \in {"queued", "add", "incr"}) <=> (a \in {"queued", "add", "incr"})
        PROVE  F' = F
    <2>1. Meter!InFlight' = Meter!InFlight
      BY <1>4 DEF MeterTypes, Meter!InFlight
    <2> QED
      BY <2>1
  <1>5. ASSUME Meter!Tick PROVE DoorInv'
    <2>1. clock' = clock + 1 /\ UNCHANGED <<tries, failedAt>> /\ clock \in Nat
      BY <1>5 DEF Meter!Tick, MeterTypes
    <2> DEFINE q == clock \div Bucket
               r == clock' \div Bucket
    <2>2. q \in Nat /\ r \in Nat /\ q <= r
      BY <2>1, BucketIs, BucketsGrow
    <2>3. Recent' \subseteq Recent
      <3> SUFFICES ASSUME NEW g \in Guesses, tries[g] = "done", r < BucketOf(g) + Span
                   PROVE  q < BucketOf(g) + Span
        BY <2>1 DEF Recent, Live, BucketOf
      <3> HIDE DEF q, r
      <3> QED
        BY <2>2, BucketNat, MeterConstants
    <2>4. R' <= R
      BY <2>3, GuessesCounted, DoorSets
    <2>5. Meter!InFlight' = Meter!InFlight
      BY <2>1 DEF Meter!InFlight
    <2> QED
      BY <1>2, <2>1, <2>4, <2>5
  <1>6. ASSUME NEW g \in Guesses, Meter!Enforce(g) PROVE DoorInv'
    <2>1. R < AttemptsPerMinute
      BY <1>6, FailuresAre DEF Meter!Enforce
    <2>2. R' = R /\ F' = F
      BY <1>3, <1>4, <1>6 DEF Meter!Enforce
    <2> QED
      BY <1>1, <2>1, <2>2 DEF DoorInv
  <1>7. ASSUME NEW g \in Guesses, Meter!Enter(g) PROVE DoorInv'
    <2>1. tries[g] = "asked" /\ R < AttemptsPerMinute
      BY <1>7 DEF Meter!Enter, DoorInv
    <2>2. CASE F < MaxConcurrentJobs
      <3>1. tries' = [tries EXCEPT ![g] = "queued"] /\ UNCHANGED <<clock, failedAt>>
        BY <1>7, <2>2, MeterCounts DEF Meter!Enter
      <3>2. R' = R
        BY <1>3, <2>1, <3>1
      <3>3. Meter!InFlight' = Meter!InFlight \cup {g} /\ g \in Guesses \ Meter!InFlight
        BY <2>1, <3>1 DEF MeterTypes, Meter!InFlight
      <3>4. F' = F + 1
        BY <3>3, GuessesCounted, DoorSets
      <3>5. \A d \in Guesses : tries'[d] = "asked" => tries[d] = "asked"
        BY <3>1 DEF MeterTypes
      <3> HIDE DEF R, F
      <3> QED
        BY <1>1, <2>1, <2>2, <3>2, <3>4, <3>5 DEF DoorInv, R, F
    <2>3. CASE ~ (F < MaxConcurrentJobs)
      <3>1. tries' = [tries EXCEPT ![g] = "idle"] /\ UNCHANGED <<clock, failedAt>>
        BY <1>7, <2>3, MeterCounts DEF Meter!Enter
      <3>2. R' = R /\ F' = F
        BY <1>3, <1>4, <2>1, <3>1
      <3>3. \A d \in Guesses : tries'[d] = "asked" => tries[d] = "asked"
        BY <3>1 DEF MeterTypes
      <3> QED
        BY <1>1, <1>2, <3>2, <3>3
    <2> QED
      BY <2>2, <2>3
  <1>8. ASSUME NEW g \in Guesses, Meter!Fail(g) \/ Meter!Add(g) PROVE DoorInv'
    <2>1. PICK a \in {"add", "incr"} : tries' = [tries EXCEPT ![g] = a]
      BY <1>8 DEF Meter!Fail, Meter!Add
    <2>2. /\ tries[g] \in {"queued", "add"} /\ UNCHANGED clock
          /\ \A d \in Guesses \ {g} : failedAt'[d] = failedAt[d]
      BY <1>8 DEF Meter!Fail, Meter!Add, MeterTypes
    <2>3. R' = R /\ F' = F
      BY <1>3, <1>4, <2>1, <2>2
    <2>4. \A d \in Guesses : tries'[d] = "asked" => tries[d] = "asked"
      BY <2>1 DEF MeterTypes
    <2> QED
      BY <1>1, <1>2, <2>3, <2>4
  <1>9. ASSUME NEW g \in Guesses, Meter!Incr(g) PROVE DoorInv'
    <2>1. /\ tries[g] = "incr" /\ tries' = [tries EXCEPT ![g] = "done"]
          /\ UNCHANGED <<clock, failedAt>>
      BY <1>9 DEF Meter!Incr
    <2>2. count' # count
      <3>1. CASE BucketOf(g) \in DOMAIN count
        <4>1. count'[BucketOf(g)] = count[BucketOf(g)] + 1 /\ count[BucketOf(g)] \in Nat
          BY <1>9, <3>1 DEF Meter!Incr, BucketOf, MeterTypes
        <4> QED
          BY <4>1
      <3>2. CASE BucketOf(g) \notin DOMAIN count
        BY <1>9, <3>2 DEF Meter!Incr, BucketOf
      <3> QED
        BY <3>1, <3>2
    <2>3. \A d \in Guesses : tries[d] # "asked" /\ tries'[d] # "asked"
      BY <2>1, <2>2 DEF MeterMoves, Meter!Prompt, MeterTypes
    <2>4. Recent' \subseteq Recent \cup {g} /\ g \in Guesses \ Recent
      BY <2>1 DEF MeterTypes, Recent, BucketOf, Live
    <2>5. R' <= R + 1
      <3>1. Cardinality(Recent \cup {g}) = R + 1 /\ Recent \cup {g} \subseteq Guesses
        BY <2>4, GuessesCounted, DoorSets
      <3>2. R' <= Cardinality(Recent \cup {g})
        BY <2>4, <3>1, GuessesCounted
      <3> QED
        BY <3>1, <3>2
    <2>6. Meter!InFlight' = Meter!InFlight \ {g} /\ g \in Meter!InFlight
      BY <2>1 DEF MeterTypes, Meter!InFlight
    <2>7. F' = F - 1
      BY <2>6, GuessesCounted, DoorSets
    <2> HIDE DEF R, F
    <2> QED
      BY <1>1, <2>3, <2>5, <2>7 DEF DoorInv, R, F
  <1> QED
    BY <1>5, <1>6, <1>7, <1>8, <1>9 DEF MeterMoves, Meter!Next

LEMMA MeterInit == Meter!Init => MeterInv
  <1> SUFFICES ASSUME Meter!Init PROVE MeterInv
    OBVIOUS
  <1>1. MeterTypes
    BY MeterConstants DEF Meter!Init, MeterTypes
  <1>2. Recent = {} /\ Meter!InFlight = {} /\ Cardinality({}) = 0
    BY FS_EmptySet DEF Meter!Init, Recent, Meter!InFlight
  <1>3. KeysInv
    BY <1>2 DEF Meter!Init, KeysInv
  <1>4. DoorInv
    BY <1>2, MeterConstants DEF Meter!Init, DoorInv
  <1> QED
    BY <1>1, <1>3, <1>4 DEF MeterInv

LEMMA MeterStep == ASSUME MeterInv, MeterMoves PROVE MeterInv'
  <1>1. MeterTypes'
    BY MeterTypesStep DEF MeterInv, MeterMoves
  <1> QED
    BY <1>1, KeysStep, DoorStep DEF MeterInv, MeterMoves

LEMMA MeterTypesAre == MeterInv => Meter!TypeOK
  <1> SUFFICES ASSUME MeterInv PROVE Meter!TypeOK
    OBVIOUS
  <1>1. ASSUME NEW b \in DOMAIN count PROVE b \in 0..Horizon /\ count[b] \in 0..Cardinality(Guesses)
    <2>1. /\ b \in Nat /\ b <= clock \div Bucket /\ clock \in 0..Horizon
          /\ count[b] \in Nat /\ count[b] <= Cardinality(InBucket(b))
      BY DEF MeterInv, MeterTypes, KeysInv
    <2>2. InBucket(b) \subseteq Guesses
      BY DEF InBucket
    <2>3. /\ Cardinality(InBucket(b)) <= Cardinality(Guesses) /\ Cardinality(InBucket(b)) \in Nat
          /\ Cardinality(Guesses) \in Nat
      BY <2>2, GuessesCounted
    <2>4. clock \div Bucket <= clock /\ clock \in Nat /\ clock \div Bucket \in Nat
      <3> DEFINE q == clock \div Bucket
      <3>1. clock \in Nat /\ q \in Nat /\ Bucket * q <= clock
        BY <2>1, BucketIs, MeterConstants
      <3> HIDE DEF q
      <3>2. q <= Bucket * q /\ Bucket * q \in Nat
        BY <3>1, MeterConstants
      <3>3. q <= clock
        BY <3>1, <3>2
      <3> QED
        BY <3>1, <3>3 DEF q
    <2> QED
      BY <2>1, <2>3, <2>4, MeterConstants
  <1> QED
    BY <1>1, MeterCounts, MeterConstants DEF MeterInv, MeterTypes, Meter!TypeOK

\* Who is within the window is as many as the counts say, give or take a bucket.
LEMMA MeterLimits == MeterInv => Meter!MeterHolds
  <1> SUFFICES ASSUME MeterInv PROVE Meter!MeterHolds
    OBVIOUS
  <1> DEFINE A == {g \in Meter!Done : clock - failedAt[g] < Meter!Window - Bucket + 1}
             W == {g \in Meter!Done : clock - failedAt[g] < Meter!Window}
  <1>1. ASSUME NEW g \in Guesses, tries[g] = "done"
        PROVE  /\ g \in A => Live(BucketOf(g))
               /\ Live(BucketOf(g)) => g \in W
    <2>1. failedAt[g] \in Nat /\ clock \in Nat /\ failedAt[g] <= clock
      BY DEF MeterInv, MeterTypes
    <2> QED
      BY <1>1, <2>1, WindowIs DEF Live, BucketOf, Meter!Window, Meter!Done
  <1>2. A \subseteq Recent /\ Recent \subseteq W /\ W \subseteq Guesses
    BY <1>1 DEF Recent, Meter!Done
  <1>3. /\ Cardinality(A) <= Cardinality(Recent) /\ Cardinality(Recent) <= Cardinality(W)
        /\ Cardinality(A) \in Nat /\ Cardinality(W) \in Nat
    <2> HIDE DEF A, W
    <2>1. A \subseteq Guesses
      BY <1>2, DoorSets
    <2> QED
      BY <1>2, <2>1, DoorSets, GuessesCounted
  <1>4. Meter!FailuresInWindow = Cardinality(Recent)
    BY FailuresAre DEF MeterInv
  <1>5. Cardinality(A) < AttemptsPerMinute + MaxConcurrentJobs
    BY <1>3, DoorSets, MeterConstants DEF MeterInv, DoorInv
  <1>6. /\ Meter!Within(Meter!Window - Bucket + 1) = Cardinality(A)
        /\ Meter!Within(Meter!Window) = Cardinality(W)
    BY MeterCounts DEF Meter!Within
  <1> QED
    BY <1>3, <1>4, <1>5, <1>6 DEF Meter!MeterHolds

-----------------------------------------------------------------------------
(* The storage ledger.                                                     *)

LEMMA LedgerConstants ==
  /\ Size \in [Items -> Nat] /\ Space \in [Items -> Docs \cup {"asset", "export"}]
  /\ "asset" \notin Docs /\ "export" \notin Docs
  /\ Jobs \cap Uploads = {} /\ Deleters \cap Ledger!Makers = {}
  /\ Ledger!Makers = Jobs \cup Uploads /\ Ledger!Procs = Ledger!Makers \cup Deleters
  /\ Quota \in Nat
  BY PartsAssumption DEF Ledger!Assumptions, Ledger!Makers, Ledger!Procs

\* Every item is a version, an asset or an export.
LEMMA LedgerSpaces ==
  /\ Ledger!Versions \cup Ledger!Assets \cup Ledger!Exports = Items
  /\ Ledger!Versions \cap Ledger!Assets = {} /\ Ledger!Versions \cap Ledger!Exports = {}
  /\ Ledger!Assets \cap Ledger!Exports = {}
  /\ \A i \in Items : i \in Ledger!Versions <=> Space[i] \in Docs
  BY LedgerConstants DEF Ledger!Versions, Ledger!Assets, Ledger!Exports

\* The bytes of items.
LEMMA BytesAre == \A S : Ledger!Bytes(S) = Sum(Size, S)
  BY DEF Ledger!Bytes, Sum, Ledger!MapThenSumSet, MapThenSumSet, Ledger!MapThenFoldSet,
     MapThenFoldSet

LEMMA BytesSum ==
  ASSUME NEW S \in SUBSET Items
  PROVE  /\ Ledger!Bytes(S) \in Nat
         /\ Ledger!Bytes({}) = 0
         /\ \A i \in Items : Ledger!Bytes({i}) = Size[i]
         /\ \A i \in Items \ S : Ledger!Bytes(S \cup {i}) = Ledger!Bytes(S) + Size[i]
         /\ \A T \in SUBSET S : Ledger!Bytes(S) = Ledger!Bytes(T) + Ledger!Bytes(S \ T)
  <1>1. \A T \in SUBSET Items : IsFiniteSet(T) /\ \A i \in T : Size[i] \in Nat
    BY FiniteAssumption, FS_Subset, LedgerConstants
  <1>2. Ledger!Bytes(S) \in Nat
    BY <1>1, BytesAre, SumNat
  <1>3. Ledger!Bytes({}) = 0
    BY BytesAre, SumEmpty
  <1>4. ASSUME NEW R \in SUBSET Items, NEW i \in Items \ R
        PROVE  Ledger!Bytes(R \cup {i}) = Ledger!Bytes(R) + Size[i]
    <2>1. IsFiniteSet(R) /\ i \notin R /\ \A k \in R \cup {i} : Size[k] \in Nat
      BY <1>1, LedgerConstants
    <2>2. Sum(Size, R \cup {i}) = Sum(Size, R) + Size[i]
      BY <2>1, SumAdd
    <2> QED
      BY <2>2, BytesAre
  <1>5. ASSUME NEW i \in Items PROVE Ledger!Bytes({i}) = Size[i]
    <2>1. {} \in SUBSET Items /\ i \in Items \ {} /\ {} \cup {i} = {i}
      OBVIOUS
    <2> QED
      BY <2>1, <1>3, <1>4, LedgerConstants
  <1>6. ASSUME NEW T \in SUBSET S
        PROVE  Ledger!Bytes(S) = Ledger!Bytes(T) + Ledger!Bytes(S \ T)
    <2>1. IsFiniteSet(S) /\ \A i \in S : Size[i] \in Nat
      BY <1>1
    <2>2. Sum(Size, S) = Sum(Size, T) + Sum(Size, S \ T)
      BY <2>1, SumSplit
    <2> QED
      BY <2>2, BytesAre
  <1> QED
    BY <1>2, <1>3, <1>4, <1>5, <1>6

LedgerTypes ==
  /\ used \in Int /\ blobs \subseteq spent /\ rows \subseteq spent
  /\ spent \subseteq Items /\ gone \subseteq Docs
  /\ begun \subseteq Ledger!Makers /\ flight \subseteq Jobs \cap begun
  /\ step \in [Ledger!Procs -> {"idle", "engine", "next", "put", "row", "charge",
                                "result", "unlink", "refund", "strip"}]
  /\ hand \in [Ledger!Procs -> SUBSET Items] /\ read \in [Ledger!Procs -> Int]
  /\ rpc \in {"idle", "look", "write", "versions", "assets", "exports"}
  /\ before \in Int /\ tally \in Int /\ kills = 0
  /\ \A p \in Ledger!Procs : hand[p] \subseteq spent

LEMMA LedgerTypesAre == LedgerTypes => Ledger!TypeOK
  BY DEF LedgerTypes, Ledger!TypeOK, Ledger!After

USE DEF Ledger!Goto, Ledger!Hold, Ledger!Leave, Ledger!things, Ledger!procs, Ledger!recon

\* What each process writes has the type of what it writes to.
LEMMA LedgerTypesStep == ASSUME LedgerTypes, Ledger!Next PROVE LedgerTypes'
  <1>1. \A S \in SUBSET Items : Ledger!Bytes(S) \in Int
    BY BytesSum
  <1>2. Ledger!Procs = Jobs \cup Uploads \cup Deleters /\ Ledger!Makers = Jobs \cup Uploads
    BY LedgerConstants
  <1> USE <1>1, <1>2, LedgerConstants DEF LedgerTypes
  <1>3. ASSUME NEW w \in Ledger!Makers, Ledger!Begin(w) PROVE LedgerTypes'
    BY <1>3 DEF Ledger!Begin
  <1>4. ASSUME NEW w \in Ledger!Makers, Ledger!Put(w) PROVE LedgerTypes'
    BY <1>4 DEF Ledger!Put
  <1>5. ASSUME NEW w \in Ledger!Makers, Ledger!InsertRow(w) PROVE LedgerTypes'
    BY <1>5 DEF Ledger!InsertRow
  <1>6. ASSUME NEW w \in Ledger!Makers, Ledger!Charge(w) PROVE LedgerTypes'
    <2>1. Ledger!Bytes(hand[w]) \in Int /\ used' = used + Ledger!Bytes(hand[w])
      BY <1>6 DEF Ledger!Charge
    <2>2. used' \in Int
      BY <2>1
    <2> QED
      BY <1>6, <2>2 DEF Ledger!Charge
  <1>7. ASSUME NEW w \in Ledger!Makers, Ledger!Finish(w) PROVE LedgerTypes'
    BY <1>7 DEF Ledger!Finish
  <1>8. ASSUME NEW w \in Ledger!Makers, NEW i \in Items, Ledger!Admit(w, i) PROVE LedgerTypes'
    BY <1>8 DEF Ledger!Admit
  <1>9. ASSUME NEW j \in Jobs, Ledger!Checkpoint(j) PROVE LedgerTypes'
    BY <1>9 DEF Ledger!Checkpoint
  <1>10. ASSUME NEW d \in Deleters, Ledger!Strip(d) PROVE LedgerTypes'
    BY <1>10 DEF Ledger!Strip, Ledger!Versions
  <1>11. ASSUME NEW p \in Ledger!Procs, Ledger!Unlink(p) PROVE LedgerTypes'
    BY <1>11 DEF Ledger!Unlink
  <1>12. ASSUME NEW p \in Ledger!Procs, Ledger!Refund(p) PROVE LedgerTypes'
    <2>1. Ledger!Bytes(hand[p]) \in Int /\ used' = used - Ledger!Bytes(hand[p])
      BY <1>12 DEF Ledger!Refund
    <2>2. used' \in Int
      BY <2>1
    <2> QED
      BY <1>12, <2>2 DEF Ledger!Refund
  <1>13. ASSUME NEW p \in Ledger!Procs, NEW i \in Items, Ledger!FindAsset(p, i) PROVE LedgerTypes'
    BY <1>13 DEF Ledger!FindAsset
  <1>14. ASSUME NEW d \in Deleters, NEW i \in Items, Ledger!FindExport(d, i) PROVE LedgerTypes'
    BY <1>14 DEF Ledger!FindExport
  <1>15. ASSUME NEW d \in Deleters, NEW k \in Docs, Ledger!PurgeDocument(d, k) PROVE LedgerTypes'
    BY <1>15 DEF Ledger!PurgeDocument
  <1>16. ASSUME NEW j \in Jobs, Ledger!Cancel(j) PROVE LedgerTypes'
    BY <1>16 DEF Ledger!Cancel
  <1>17. ASSUME NEW j \in Jobs, Ledger!Reap(j) PROVE LedgerTypes'
    BY <1>17 DEF Ledger!Reap
  <1>18. ASSUME Ledger!Load PROVE LedgerTypes'
    BY <1>18 DEF Ledger!Load
  <1>19. ASSUME Ledger!Look PROVE LedgerTypes'
    BY <1>19 DEF Ledger!Look
  <1>20. ASSUME Ledger!Count PROVE LedgerTypes'
    <2>1. /\ Ledger!Owes[rpc] \in SUBSET Items /\ tally' = tally + Ledger!Bytes(Ledger!Owes[rpc])
          /\ rpc' \in {"assets", "exports", "write"}
      BY <1>20 DEF Ledger!Count, Ledger!Owes, Ledger!After
    <2>2. tally' \in Int
      BY <2>1
    <2> QED
      BY <1>20, <2>1, <2>2 DEF Ledger!Count
  <1>21. ASSUME Ledger!Recompute PROVE LedgerTypes'
    BY <1>21 DEF Ledger!Recompute
  <1>22. ASSUME NEW p \in Ledger!Procs, Ledger!Kill(p) PROVE FALSE
    BY <1>22 DEF Ledger!Kill, LedgerTypes
  <1> QED
    BY <1>3, <1>4, <1>5, <1>6, <1>7, <1>8, <1>9, <1>10, <1>11, <1>12,
       <1>13, <1>14, <1>15, <1>16, <1>17, <1>18, <1>19, <1>20, <1>21, <1>22
    DEF Ledger!Next, Ledger!Step, Ledger!Delete, Ledger!Reconcile

-----------------------------------------------------------------------------
(* Who has what in hand.                                                   *)

Held(p) == \E i \in Items : hand[p] = {i}

\* What a maker works on is its own, and not there before it has come to that.
MakerHand(w) ==
  /\ w \in Uploads => step[w] \notin {"engine", "unlink", "refund", "strip"}
  /\ w \in Jobs => step[w] # "strip"
  /\ w \notin begun => step[w] = "idle"
  /\ step[w] \in {"idle", "engine", "next"} => hand[w] = {}
  /\ step[w] \in {"put", "row", "charge", "unlink", "refund"} => Held(w)
  /\ step[w] = "result" => hand[w] = {} \/ Held(w)
  /\ \A i \in hand[w] :
       /\ w \in Uploads => i \notin Ledger!Exports
       /\ w \in Jobs /\ step[w] \in {"put", "row", "charge"} => i \notin Ledger!Assets
       /\ step[w] = "put" => i \notin blobs /\ i \notin rows
       /\ step[w] = "row" => i \in Ledger!Versions /\ i \notin rows
       /\ step[w] = "charge" => /\ i \in rows <=> i \in Ledger!Versions
                                /\ i \in Ledger!Exports => i \in blobs
       /\ step[w] = "result" => i \in Ledger!Exports /\ i \in blobs /\ i \notin rows
       /\ step[w] = "unlink" => i \in Ledger!Assets /\ i \in blobs
       /\ step[w] = "refund" => i \in Ledger!Assets /\ i \notin blobs

\* What is deleted is there to be deleted: an asset or an export, and then without its file,
\* or all the versions of a document.
DeleterHand(d) ==
  /\ step[d] \in {"idle", "unlink", "refund", "strip"}
  /\ step[d] = "idle" => hand[d] = {}
  /\ step[d] = "unlink" => Held(d)
  /\ \A i \in hand[d] :
       /\ i \in Ledger!Assets => step[d] # "strip"
       /\ i \notin Ledger!Assets => i \in rows
       /\ i \in Ledger!Versions => /\ step[d] # "unlink"
                                   /\ \A k \in rows : Space[k] = Space[i] => k \in hand[d]
       /\ i \notin Ledger!Versions => hand[d] = {i} /\ (step[d] = "unlink" <=> i \in blobs)

\* One item is in one hand, but for an asset that is deleted before it has been charged.
OneHand == \A p, q \in Ledger!Procs : \A i \in hand[p] \cap hand[q] :
              p = q \/ (/\ i \in Ledger!Assets
                        /\ \/ Ledger!Deleting(p) /\ step[q] = "charge"
                           \/ Ledger!Deleting(q) /\ step[p] = "charge")

\* The conditions of Calm, as they are kept.
CalmInv ==
  /\ rpc # "idle" => \A p \in Uploads \cup Deleters : step[p] = "idle"
  /\ \A j \in Jobs : step[j] # "idle" => j \in flight
  /\ \A p, q \in Ledger!Procs : p # q /\ Ledger!Deleting(p) => ~ Ledger!Deleting(q)
  /\ \A w \in Ledger!Makers, d \in Deleters, i, k \in Ledger!Versions :
       i \in hand[w] /\ k \in hand[d] => Space[i] # Space[k]

RowsInv ==
  /\ rows \cap Ledger!Assets = {}
  /\ \A i \in rows : Space[i] \notin gone
  /\ \A i \in rows \cap Ledger!Exports :
       i \in blobs \/ \E d \in Deleters : step[d] \in {"refund", "strip"} /\ i \in hand[d]

HandsInv == /\ \A w \in Ledger!Makers : MakerHand(w)
            /\ \A d \in Deleters : DeleterHand(d)
            /\ OneHand /\ CalmInv /\ RowsInv

LedgerMoves == Ledger!Next /\ Ledger!Calm

\* The conditions of Calm, which are about what a step leads to, hold from then on.
LEMMA CalmStep == ASSUME LedgerTypes, LedgerTypes', LedgerMoves PROVE CalmInv'
  BY DEF LedgerMoves, Ledger!Calm, Ledger!Apart, Ledger!Carried, Ledger!Once, Ledger!Kept,
     CalmInv, Ledger!Deleting, LedgerTypes

\* What each process has in hand stays what its next step needs it to be.
LEMMA HandsStep ==
  ASSUME LedgerTypes, LedgerTypes', HandsInv, LedgerMoves PROVE HandsInv'
  <1>1. CalmInv'
    BY CalmStep
  <1>2. Ledger!Procs = Jobs \cup Uploads \cup Deleters /\ Ledger!Makers = Jobs \cup Uploads
        /\ Jobs \cap Uploads = {} /\ Deleters \cap Ledger!Makers = {}
    BY LedgerConstants
  <1> DEFINE Kept == /\ \A w \in Ledger!Makers : MakerHand(w)'
                     /\ \A d \in Deleters : DeleterHand(d)'
                     /\ OneHand' /\ RowsInv'
  <1> USE <1>1, <1>2, LedgerSpaces DEF LedgerTypes, HandsInv, OneHand, CalmInv, RowsInv,
          MakerHand, DeleterHand, Held, Ledger!Deleting
  <1>3. ASSUME NEW w \in Ledger!Makers, Ledger!Begin(w) PROVE Kept
    <2>1. \A v \in Ledger!Makers : MakerHand(v)'
      BY <1>3 DEF Ledger!Begin
    <2>2. \A e \in Deleters : DeleterHand(e)'
      BY <1>3 DEF Ledger!Begin
    <2>3. OneHand'
      BY <1>3 DEF Ledger!Begin
    <2>4. RowsInv'
      BY <1>3 DEF Ledger!Begin
    <2> QED
      BY <2>1, <2>2, <2>3, <2>4
  <1>4. ASSUME NEW w \in Ledger!Makers, Ledger!Put(w) PROVE Kept
    <2>1. \A v \in Ledger!Makers : MakerHand(v)'
      BY <1>4 DEF Ledger!Put
    <2>2. \A e \in Deleters : DeleterHand(e)'
      BY <1>4 DEF Ledger!Put
    <2>3. OneHand'
      BY <1>4 DEF Ledger!Put
    <2>4. RowsInv'
      BY <1>4 DEF Ledger!Put
    <2> QED
      BY <2>1, <2>2, <2>3, <2>4
  <1>5. ASSUME NEW w \in Ledger!Makers, Ledger!InsertRow(w) PROVE Kept
    <2>1. \A v \in Ledger!Makers : MakerHand(v)'
      BY <1>5 DEF Ledger!InsertRow
    <2>2. \A e \in Deleters : DeleterHand(e)'
      BY <1>5 DEF Ledger!InsertRow
    <2>3. OneHand'
      BY <1>5 DEF Ledger!InsertRow
    <2>4. RowsInv'
      BY <1>5 DEF Ledger!InsertRow
    <2> QED
      BY <2>1, <2>2, <2>3, <2>4
  <1>6. ASSUME NEW w \in Ledger!Makers, Ledger!Charge(w) PROVE Kept
    <2>1. \A v \in Ledger!Makers : MakerHand(v)'
      BY <1>6 DEF Ledger!Charge
    <2>2. \A e \in Deleters : DeleterHand(e)'
      BY <1>6 DEF Ledger!Charge
    <2>3. OneHand'
      BY <1>6 DEF Ledger!Charge
    <2>4. RowsInv'
      BY <1>6 DEF Ledger!Charge
    <2> QED
      BY <2>1, <2>2, <2>3, <2>4
  <1>7. ASSUME NEW w \in Ledger!Makers, Ledger!Finish(w) PROVE Kept
    <2>1. \A v \in Ledger!Makers : MakerHand(v)'
      BY <1>7 DEF Ledger!Finish
    <2>2. \A e \in Deleters : DeleterHand(e)'
      BY <1>7 DEF Ledger!Finish
    <2>3. OneHand'
      BY <1>7 DEF Ledger!Finish
    <2>4. RowsInv'
      BY <1>7 DEF Ledger!Finish
    <2> QED
      BY <2>1, <2>2, <2>3, <2>4
  <1>8. ASSUME NEW w \in Ledger!Makers, NEW i \in Items, Ledger!Admit(w, i) PROVE Kept
    <2>1. \A v \in Ledger!Makers : MakerHand(v)'
      BY <1>8 DEF Ledger!Admit, Ledger!Makes
    <2>2. \A e \in Deleters : DeleterHand(e)'
      BY <1>8 DEF Ledger!Admit, Ledger!Makes
    <2>3. OneHand'
      BY <1>8 DEF Ledger!Admit, Ledger!Makes
    <2>4. RowsInv'
      BY <1>8 DEF Ledger!Admit, Ledger!Makes
    <2> QED
      BY <2>1, <2>2, <2>3, <2>4
  <1>9. ASSUME NEW j \in Jobs, Ledger!Checkpoint(j) PROVE Kept
    <2>1. \A v \in Ledger!Makers : MakerHand(v)'
      BY <1>9 DEF Ledger!Checkpoint
    <2>2. \A e \in Deleters : DeleterHand(e)'
      BY <1>9 DEF Ledger!Checkpoint
    <2>3. OneHand'
      BY <1>9 DEF Ledger!Checkpoint
    <2>4. RowsInv'
      BY <1>9 DEF Ledger!Checkpoint
    <2> QED
      BY <2>1, <2>2, <2>3, <2>4
  <1>10. ASSUME NEW d \in Deleters, Ledger!Strip(d) PROVE Kept
    <2>1. \A v \in Ledger!Makers : MakerHand(v)'
      BY <1>10 DEF Ledger!Strip
    <2>2. \A e \in Deleters : DeleterHand(e)'
      BY <1>10 DEF Ledger!Strip
    <2>3. OneHand'
      BY <1>10 DEF Ledger!Strip
    <2>4. RowsInv'
      BY <1>10 DEF Ledger!Strip
    <2> QED
      BY <2>1, <2>2, <2>3, <2>4
  <1>11. ASSUME NEW p \in Ledger!Procs, Ledger!Unlink(p) PROVE Kept
    <2>1. \A v \in Ledger!Makers : MakerHand(v)'
      BY <1>11 DEF Ledger!Unlink
    <2>2. \A e \in Deleters : DeleterHand(e)'
      BY <1>11 DEF Ledger!Unlink
    <2>3. OneHand'
      BY <1>11 DEF Ledger!Unlink
    <2>4. RowsInv'
      BY <1>11 DEF Ledger!Unlink
    <2> QED
      BY <2>1, <2>2, <2>3, <2>4
  <1>12. ASSUME NEW p \in Ledger!Procs, Ledger!Refund(p) PROVE Kept
    <2>1. \A v \in Ledger!Makers : MakerHand(v)'
      BY <1>12 DEF Ledger!Refund
    <2>2. \A e \in Deleters : DeleterHand(e)'
      BY <1>12 DEF Ledger!Refund
    <2>3. OneHand'
      BY <1>12 DEF Ledger!Refund
    <2>4. RowsInv'
      BY <1>12 DEF Ledger!Refund
    <2> QED
      BY <2>1, <2>2, <2>3, <2>4
  <1>13. ASSUME NEW p \in Ledger!Procs, NEW i \in Items, Ledger!FindAsset(p, i) PROVE Kept
    <2>1. \A v \in Ledger!Makers : MakerHand(v)'
      BY <1>13 DEF Ledger!FindAsset
    <2>2. \A e \in Deleters : DeleterHand(e)'
      BY <1>13 DEF Ledger!FindAsset
    <2>3. OneHand'
      BY <1>13 DEF Ledger!FindAsset
    <2>4. RowsInv'
      BY <1>13 DEF Ledger!FindAsset
    <2> QED
      BY <2>1, <2>2, <2>3, <2>4
  <1>14. ASSUME NEW d \in Deleters, NEW i \in Items, Ledger!FindExport(d, i) PROVE Kept
    <2>1. \A v \in Ledger!Makers : MakerHand(v)'
      BY <1>14 DEF Ledger!FindExport
    <2>2. \A e \in Deleters : DeleterHand(e)'
      BY <1>14 DEF Ledger!FindExport
    <2>3. OneHand'
      BY <1>14 DEF Ledger!FindExport
    <2>4. RowsInv'
      BY <1>14 DEF Ledger!FindExport
    <2> QED
      BY <2>1, <2>2, <2>3, <2>4
  <1>15. ASSUME NEW d \in Deleters, NEW k \in Docs, Ledger!PurgeDocument(d, k) PROVE Kept
    <2>1. \A v \in Ledger!Makers : MakerHand(v)'
      BY <1>15 DEF Ledger!PurgeDocument
    <2>2. \A e \in Deleters : DeleterHand(e)'
      BY <1>15 DEF Ledger!PurgeDocument
    <2>3. OneHand'
      BY <1>15 DEF Ledger!PurgeDocument
    <2>4. RowsInv'
      BY <1>15 DEF Ledger!PurgeDocument
    <2> QED
      BY <2>1, <2>2, <2>3, <2>4
  <1>16. ASSUME NEW j \in Jobs, Ledger!Cancel(j) PROVE Kept
    <2>1. \A v \in Ledger!Makers : MakerHand(v)'
      BY <1>16 DEF Ledger!Cancel
    <2>2. \A e \in Deleters : DeleterHand(e)'
      BY <1>16 DEF Ledger!Cancel
    <2>3. OneHand'
      BY <1>16 DEF Ledger!Cancel
    <2>4. RowsInv'
      BY <1>16 DEF Ledger!Cancel
    <2> QED
      BY <2>1, <2>2, <2>3, <2>4
  <1>17. ASSUME NEW j \in Jobs, Ledger!Reap(j) PROVE Kept
    <2>1. \A v \in Ledger!Makers : MakerHand(v)'
      BY <1>17 DEF Ledger!Reap
    <2>2. \A e \in Deleters : DeleterHand(e)'
      BY <1>17 DEF Ledger!Reap
    <2>3. OneHand'
      BY <1>17 DEF Ledger!Reap
    <2>4. RowsInv'
      BY <1>17 DEF Ledger!Reap
    <2> QED
      BY <2>1, <2>2, <2>3, <2>4
  <1>18. ASSUME Ledger!Load PROVE Kept
    BY <1>18 DEF Ledger!Load
  <1>19. ASSUME Ledger!Look PROVE Kept
    BY <1>19 DEF Ledger!Look
  <1>20. ASSUME Ledger!Count PROVE Kept
    BY <1>20 DEF Ledger!Count
  <1>21. ASSUME Ledger!Recompute PROVE Kept
    BY <1>21 DEF Ledger!Recompute
  <1>22. ASSUME NEW p \in Ledger!Procs, Ledger!Kill(p) PROVE FALSE
    BY <1>22 DEF Ledger!Kill, LedgerTypes
  <1>23. Kept
    <2> HIDE <1>2, LedgerSpaces DEF Kept, LedgerTypes, HandsInv, OneHand, CalmInv, RowsInv,
             MakerHand, DeleterHand, Held, Ledger!Deleting
    <2> QED
      BY <1>3, <1>4, <1>5, <1>6, <1>7, <1>8, <1>9, <1>10, <1>11, <1>12,
         <1>13, <1>14, <1>15, <1>16, <1>17, <1>18, <1>19, <1>20, <1>21, <1>22
      DEF LedgerMoves, Ledger!Next, Ledger!Step, Ledger!Delete, Ledger!Reconcile
  <1> QED
    BY <1>23

-----------------------------------------------------------------------------
(* What the counter says.                                                  *)

At(a, i) == \E p \in Ledger!Procs : step[p] = a /\ i \in hand[p]

\* What has been charged and not refunded; and what was refunded before it is charged.
Paid == {i \in Items :
  \/ i \in Ledger!Versions /\ i \in rows /\ ~ At("charge", i) /\ ~ At("strip", i)
  \/ i \in Ledger!Assets /\ (i \in blobs \/ At("refund", i)) /\ ~ At("charge", i)
  \/ i \in Ledger!Exports /\ ((i \in rows /\ i \in blobs) \/ At("result", i) \/ At("refund", i))}
Early == {i \in Ledger!Assets : At("charge", i) /\ i \notin blobs /\ ~ At("refund", i)}

LEMMA PaidItems == Paid \subseteq Items /\ Early \subseteq Items /\ Paid \cap Early = {}
                   /\ Early \subseteq Ledger!Assets
  BY LedgerSpaces DEF Paid, Early

\* A charge is of one item, a refund of what is in hand; nothing else moves what is paid.
LEMMA ChargeEffect ==
  ASSUME LedgerTypes, LedgerTypes', HandsInv, HandsInv', NEW w \in Ledger!Makers,
         Ledger!Charge(w)
  PROVE  \E i \in Items :
           /\ hand[w] = {i} /\ used' = used + Size[i]
           /\ \/ i \in Early /\ Early' = Early \ {i} /\ Paid' = Paid
              \/ i \notin Paid /\ Paid' = Paid \cup {i} /\ Early' = Early
  <1>1. PICK i \in Items : hand[w] = {i}
    BY DEF Ledger!Charge, HandsInv, MakerHand, Held
  <1>2. used' = used + Size[i]
    BY <1>1, BytesSum DEF Ledger!Charge
  <1>3. /\ step[w] = "charge" /\ UNCHANGED <<rows, blobs>> /\ w \in Ledger!Procs
        /\ \A q \in Ledger!Procs : q # w => step'[q] = step[q] /\ hand'[q] = hand[q]
        /\ step'[w] \in {"result", "next"}
        /\ i \in Ledger!Exports => step'[w] = "result" /\ hand'[w] = {i}
        /\ i \notin Ledger!Exports => hand'[w] = {}
    BY <1>1, LedgerConstants DEF Ledger!Charge, LedgerTypes
  <1>4. ASSUME NEW k \in Items, k # i, NEW a PROVE At(a, k)' <=> At(a, k)
    BY <1>1, <1>3, <1>4 DEF At, LedgerTypes
  <1>5. At("charge", i) /\ ~ At("charge", i)' /\ (At("refund", i)' <=> At("refund", i))
        /\ (i \in Ledger!Exports => At("result", i)') /\ ~ At("result", i)
    <2>1. \A q \in Ledger!Procs :
            q # w /\ i \in hand[q] => step[q] \in {"unlink", "refund", "strip"}
      BY <1>1, <1>3 DEF HandsInv, OneHand, Ledger!Deleting
    <2> QED
      BY <1>1, <1>3, <2>1 DEF At
  <1>6. i \in Ledger!Versions => i \in rows /\ ~ At("strip", i) /\ ~ At("strip", i)'
    BY <1>1, <1>3, LedgerSpaces DEF At, HandsInv, MakerHand, OneHand, Ledger!Deleting
  <1>7. i \in Ledger!Exports => i \notin rows /\ ~ At("refund", i)
    BY <1>1, <1>3, LedgerSpaces DEF At, HandsInv, MakerHand, OneHand
  <1>8. CASE i \in Ledger!Versions
    <2>1. i \notin Paid /\ Paid' = Paid \cup {i} /\ Early' = Early
      BY <1>3, <1>4, <1>5, <1>6, <1>8, LedgerSpaces DEF Paid, Early
    <2> QED
      BY <1>1, <1>2, <2>1
  <1>9. CASE i \in Ledger!Exports
    <2>1. i \notin Paid /\ Paid' = Paid \cup {i} /\ Early' = Early
      BY <1>3, <1>4, <1>5, <1>7, <1>9, LedgerSpaces DEF Paid, Early
    <2> QED
      BY <1>1, <1>2, <2>1
  <1>10. CASE i \in Ledger!Assets
    <2>1. CASE i \in blobs \/ At("refund", i)
      <3>1. i \notin Paid /\ Paid' = Paid \cup {i} /\ Early' = Early
        BY <1>3, <1>4, <1>5, <1>10, <2>1, LedgerSpaces DEF Paid, Early
      <3> QED
        BY <1>1, <1>2, <3>1
    <2>2. CASE i \notin blobs /\ ~ At("refund", i)
      <3>1. i \in Early /\ Early' = Early \ {i} /\ Paid' = Paid
        BY <1>3, <1>4, <1>5, <1>10, <2>2, LedgerSpaces DEF Paid, Early
      <3> QED
        BY <1>1, <1>2, <3>1
    <2> QED
      BY <2>1, <2>2
  <1> QED
    BY <1>1, <1>8, <1>9, <1>10, LedgerSpaces

\* A refund takes what was paid, or comes before the charge of an asset.
LEMMA RefundEffect ==
  ASSUME LedgerTypes, LedgerTypes', HandsInv, HandsInv', NEW p \in Ledger!Procs,
         Ledger!Refund(p)
  PROVE  /\ used' = used - Ledger!Bytes(hand[p])
         /\ p \in Jobs => hand[p] \subseteq Ledger!Assets
         /\ \/ \E i \in Ledger!Assets :
                 /\ hand[p] = {i} /\ i \notin Early /\ Early' = Early \cup {i} /\ Paid' = Paid
            \/ hand[p] \subseteq Paid /\ Paid' = Paid \ hand[p] /\ Early' = Early
  <1>1. /\ step[p] = "refund" /\ UNCHANGED <<rows, blobs>> /\ hand[p] \subseteq Items
        /\ used' = used - Ledger!Bytes(hand[p])
        /\ \A q \in Ledger!Procs : q # p => step'[q] = step[q] /\ hand'[q] = hand[q]
        /\ hand[p] \subseteq Ledger!Assets => hand'[p] = {}
        /\ ~ (hand[p] \subseteq Ledger!Assets) => hand'[p] = hand[p] /\ step'[p] = "strip"
    BY LedgerConstants DEF Ledger!Refund, LedgerTypes
  <1>2. p \in Jobs => hand[p] \subseteq Ledger!Assets
    BY <1>1, LedgerConstants DEF HandsInv, MakerHand
  <1>3. \A q \in Ledger!Procs : q # p => step[q] \notin {"unlink", "refund", "strip"}
    BY <1>1 DEF HandsInv, CalmInv, Ledger!Deleting
  <1>4. ASSUME NEW k \in Items \ hand[p], NEW a PROVE At(a, k)' <=> At(a, k)
    BY <1>1 DEF At
  <1>5. CASE hand[p] = {}
    <2>1. Paid' = Paid /\ Early' = Early
      BY <1>1, <1>4, <1>5, LedgerSpaces DEF Paid, Early
    <2> QED
      BY <1>1, <1>2, <1>5, <2>1
  <1>6. CASE hand[p] \subseteq Ledger!Assets /\ hand[p] # {}
    <2>1. PICK i \in Ledger!Assets : hand[p] = {i} /\ i \notin blobs
      <3>1. CASE p \in Deleters
        <4>1. DeleterHand(p)
          BY <3>1 DEF HandsInv
        <4> QED
          BY <1>1, <1>6, <4>1, LedgerSpaces DEF DeleterHand
      <3>2. CASE p \in Ledger!Makers
        BY <1>1, <1>6, <3>2 DEF HandsInv, MakerHand, Held
      <3> QED
        BY <3>1, <3>2, LedgerConstants
    <2>2. At("refund", i) /\ ~ At("refund", i)' /\ (At("charge", i)' <=> At("charge", i))
          /\ i \in Items
      BY <1>1, <1>3, <1>6, <2>1, LedgerSpaces DEF At
    <2>3. CASE At("charge", i)
      <3>1. i \notin Early /\ Early' = Early \cup {i} /\ Paid' = Paid
        BY <1>1, <1>4, <2>1, <2>2, <2>3, LedgerSpaces DEF Paid, Early
      <3> QED
        BY <1>1, <1>2, <2>1, <3>1
    <2>4. CASE ~ At("charge", i)
      <3>1. i \in Paid /\ Paid' = Paid \ {i} /\ Early' = Early
        BY <1>1, <1>4, <2>1, <2>2, <2>4, LedgerSpaces DEF Paid, Early
      <3> QED
        BY <1>1, <1>2, <2>1, <3>1
    <2> QED
      BY <2>3, <2>4
  <1>7. CASE ~ (hand[p] \subseteq Ledger!Assets)
    <2>1. p \in Deleters /\ DeleterHand(p) /\ hand'[p] = hand[p] /\ step'[p] = "strip"
      BY <1>1, <1>2, <1>7, LedgerConstants DEF HandsInv, MakerHand
    <2>2. \A i \in hand[p] : i \notin Ledger!Assets /\ i \in rows
      BY <1>7, <2>1, LedgerSpaces DEF DeleterHand
    <2>3. ASSUME NEW i \in hand[p]
          PROVE  /\ At("refund", i) /\ ~ At("refund", i)' /\ At("strip", i)'
                 /\ ~ At("charge", i) /\ ~ At("strip", i) /\ ~ At("result", i)'
                 /\ i \in Ledger!Exports => i \notin blobs
      BY <1>1, <1>3, <2>1, <2>2, LedgerSpaces DEF At, HandsInv, OneHand, DeleterHand,
         Ledger!Deleting
    <2>4. hand[p] \subseteq Paid /\ Paid' = Paid \ hand[p]
      BY <1>1, <1>4, <2>2, <2>3, LedgerSpaces DEF Paid
    <2>5. Early' = Early
      BY <1>1, <1>4, <2>2, LedgerSpaces DEF Early
    <2> QED
      BY <1>1, <1>2, <2>4, <2>5
  <1> QED
    BY <1>5, <1>6, <1>7

Still == Paid' = Paid /\ Early' = Early

\* No other step moves what is paid.
LEMMA OthersStill ==
  ASSUME LedgerTypes, LedgerTypes', HandsInv, HandsInv', Ledger!Next,
         \A p \in Ledger!Procs : ~ Ledger!Refund(p) /\ ~ (p \in Ledger!Makers /\ Ledger!Charge(p))
  PROVE  Still /\ (used' = used \/ Ledger!Recompute)
  <1> DEFINE Kept == Still /\ (used' = used \/ Ledger!Recompute)
  <1>1. Ledger!Procs = Jobs \cup Uploads \cup Deleters /\ Ledger!Makers = Jobs \cup Uploads
        /\ Jobs \cap Uploads = {} /\ Deleters \cap Ledger!Makers = {}
    BY LedgerConstants
  <1>2. ASSUME UNCHANGED <<rows, blobs>>,
               \A a \in {"charge", "strip", "refund", "result"} : \A i \in Items :
                 At(a, i)' <=> At(a, i)
        PROVE  Still
    BY <1>2, LedgerSpaces DEF Still, Paid, Early
  <1>3. ASSUME NEW w \in Ledger!Makers, Ledger!Begin(w) PROVE Kept
    <2>1. UNCHANGED <<rows, blobs, used>>
      BY <1>3 DEF Ledger!Begin
    <2>2. \A a \in {"charge", "strip", "refund", "result"} : \A k \in Items :
            At(a, k)' <=> At(a, k)
      BY <1>3, <1>1 DEF Ledger!Begin, At, LedgerTypes, HandsInv, MakerHand, DeleterHand
    <2> QED
      BY <1>2, <2>1, <2>2
  <1>4. ASSUME NEW w \in Ledger!Makers, Ledger!Put(w) PROVE Kept
    <2>1. used' = used
      BY <1>4 DEF Ledger!Put
    <2>2. Paid' = Paid
      BY <1>4, <1>1, LedgerSpaces DEF Ledger!Put, At, LedgerTypes, HandsInv, OneHand,
         CalmInv,
         RowsInv, MakerHand, DeleterHand, Held, Paid, Ledger!Deleting
    <2>3. Early' = Early
      BY <1>4, <1>1, LedgerSpaces DEF Ledger!Put, At, LedgerTypes, HandsInv, OneHand,
         CalmInv,
         RowsInv, MakerHand, DeleterHand, Held, Early, Ledger!Deleting
    <2> QED
      BY <2>1, <2>2, <2>3 DEF Still
  <1>5. ASSUME NEW w \in Ledger!Makers, Ledger!InsertRow(w) PROVE Kept
    <2>1. used' = used
      BY <1>5 DEF Ledger!InsertRow
    <2>2. Paid' = Paid
      BY <1>5, <1>1, LedgerSpaces DEF Ledger!InsertRow, At, LedgerTypes, HandsInv, OneHand,
         CalmInv,
         RowsInv, MakerHand, DeleterHand, Held, Paid, Ledger!Deleting
    <2>3. Early' = Early
      BY <1>5, <1>1, LedgerSpaces DEF Ledger!InsertRow, At, LedgerTypes, HandsInv, OneHand,
         CalmInv,
         RowsInv, MakerHand, DeleterHand, Held, Early, Ledger!Deleting
    <2> QED
      BY <2>1, <2>2, <2>3 DEF Still
  <1>6. ASSUME NEW w \in Ledger!Makers, Ledger!Charge(w) PROVE Kept
    BY <1>6, <1>1
  <1>7. ASSUME NEW w \in Ledger!Makers, Ledger!Finish(w) PROVE Kept
    <2>1. used' = used
      BY <1>7 DEF Ledger!Finish
    <2>2. Paid' = Paid
      BY <1>7, <1>1, LedgerSpaces DEF Ledger!Finish, At, LedgerTypes, HandsInv, OneHand,
         CalmInv,
         RowsInv, MakerHand, DeleterHand, Held, Paid, Ledger!Deleting
    <2>3. Early' = Early
      BY <1>7, <1>1, LedgerSpaces DEF Ledger!Finish, At, LedgerTypes, HandsInv, OneHand,
         CalmInv,
         RowsInv, MakerHand, DeleterHand, Held, Early, Ledger!Deleting
    <2> QED
      BY <2>1, <2>2, <2>3 DEF Still
  <1>8. ASSUME NEW w \in Ledger!Makers, NEW i \in Items, Ledger!Admit(w, i) PROVE Kept
    <2>1. UNCHANGED <<rows, blobs, used>>
      BY <1>8 DEF Ledger!Admit
    <2>2. \A a \in {"charge", "strip", "refund", "result"} : \A k \in Items :
            At(a, k)' <=> At(a, k)
      BY <1>8, <1>1 DEF Ledger!Admit, At, LedgerTypes, HandsInv, MakerHand, DeleterHand
    <2> QED
      BY <1>2, <2>1, <2>2
  <1>9. ASSUME NEW j \in Jobs, Ledger!Checkpoint(j) PROVE Kept
    <2>1. UNCHANGED <<rows, blobs, used>>
      BY <1>9 DEF Ledger!Checkpoint
    <2>2. \A a \in {"charge", "strip", "refund", "result"} : \A k \in Items :
            At(a, k)' <=> At(a, k)
      BY <1>9, <1>1 DEF Ledger!Checkpoint, At, LedgerTypes, HandsInv, MakerHand, DeleterHand
    <2> QED
      BY <1>2, <2>1, <2>2
  <1>10. ASSUME NEW d \in Deleters, Ledger!Strip(d) PROVE Kept
    <2>1. used' = used
      BY <1>10 DEF Ledger!Strip
    <2>2. Paid' = Paid
      BY <1>10, <1>1, LedgerSpaces DEF Ledger!Strip, At, LedgerTypes, HandsInv, OneHand,
         CalmInv,
         RowsInv, MakerHand, DeleterHand, Held, Paid, Ledger!Deleting
    <2>3. Early' = Early
      BY <1>10, <1>1, LedgerSpaces DEF Ledger!Strip, At, LedgerTypes, HandsInv, OneHand,
         CalmInv,
         RowsInv, MakerHand, DeleterHand, Held, Early, Ledger!Deleting
    <2> QED
      BY <2>1, <2>2, <2>3 DEF Still
  <1>11. ASSUME NEW p \in Ledger!Procs, Ledger!Unlink(p) PROVE Kept
    <2>1. used' = used
      BY <1>11 DEF Ledger!Unlink
    <2>2. Paid' = Paid
      BY <1>11, <1>1, LedgerSpaces DEF Ledger!Unlink, At, LedgerTypes, HandsInv, OneHand,
         CalmInv,
         RowsInv, MakerHand, DeleterHand, Held, Paid, Ledger!Deleting
    <2>3. Early' = Early
      BY <1>11, <1>1, LedgerSpaces DEF Ledger!Unlink, At, LedgerTypes, HandsInv, OneHand,
         CalmInv,
         RowsInv, MakerHand, DeleterHand, Held, Early, Ledger!Deleting
    <2> QED
      BY <2>1, <2>2, <2>3 DEF Still
  <1>12. ASSUME NEW p \in Ledger!Procs, Ledger!Refund(p) PROVE Kept
    BY <1>12
  <1>13. ASSUME NEW p \in Ledger!Procs, NEW i \in Items, Ledger!FindAsset(p, i) PROVE Kept
    <2>1. UNCHANGED <<rows, blobs, used>>
      BY <1>13 DEF Ledger!FindAsset
    <2>2. \A a \in {"charge", "strip", "refund", "result"} : \A k \in Items :
            At(a, k)' <=> At(a, k)
      BY <1>13, <1>1 DEF Ledger!FindAsset, At, LedgerTypes, HandsInv, MakerHand, DeleterHand
    <2> QED
      BY <1>2, <2>1, <2>2
  <1>14. ASSUME NEW d \in Deleters, NEW i \in Items, Ledger!FindExport(d, i) PROVE Kept
    <2>1. UNCHANGED <<rows, blobs, used>>
      BY <1>14 DEF Ledger!FindExport
    <2>2. \A a \in {"charge", "strip", "refund", "result"} : \A k \in Items :
            At(a, k)' <=> At(a, k)
      BY <1>14, <1>1 DEF Ledger!FindExport, At, LedgerTypes, HandsInv, MakerHand,
         DeleterHand
    <2> QED
      BY <1>2, <2>1, <2>2
  <1>15. ASSUME NEW d \in Deleters, NEW k \in Docs, Ledger!PurgeDocument(d, k) PROVE Kept
    <2>1. used' = used
      BY <1>15 DEF Ledger!PurgeDocument
    <2>2. Paid' = Paid
      BY <1>15, <1>1, LedgerSpaces DEF Ledger!PurgeDocument, At, LedgerTypes, HandsInv,
         OneHand, CalmInv,
         RowsInv, MakerHand, DeleterHand, Held, Paid, Ledger!Deleting
    <2>3. Early' = Early
      BY <1>15, <1>1, LedgerSpaces DEF Ledger!PurgeDocument, At, LedgerTypes, HandsInv,
         OneHand, CalmInv,
         RowsInv, MakerHand, DeleterHand, Held, Early, Ledger!Deleting
    <2> QED
      BY <2>1, <2>2, <2>3 DEF Still
  <1>16. ASSUME NEW j \in Jobs, Ledger!Cancel(j) PROVE Kept
    <2>1. UNCHANGED <<rows, blobs, used>>
      BY <1>16 DEF Ledger!Cancel
    <2>2. \A a \in {"charge", "strip", "refund", "result"} : \A k \in Items :
            At(a, k)' <=> At(a, k)
      BY <1>16, <1>1 DEF Ledger!Cancel, At, LedgerTypes, HandsInv, MakerHand, DeleterHand
    <2> QED
      BY <1>2, <2>1, <2>2
  <1>17. ASSUME NEW j \in Jobs, Ledger!Reap(j) PROVE Kept
    <2>1. UNCHANGED <<rows, blobs, used>>
      BY <1>17 DEF Ledger!Reap
    <2>2. \A a \in {"charge", "strip", "refund", "result"} : \A k \in Items :
            At(a, k)' <=> At(a, k)
      BY <1>17, <1>1 DEF Ledger!Reap, At, LedgerTypes, HandsInv, MakerHand, DeleterHand
    <2> QED
      BY <1>2, <2>1, <2>2
  <1>18. ASSUME Ledger!Load PROVE Kept
    <2>1. UNCHANGED <<rows, blobs, step, hand>>
      BY <1>18 DEF Ledger!Load
    <2>2. Still
      BY <2>1 DEF Still, Paid, Early, At
    <2> QED
      BY <1>18, <2>2 DEF Ledger!Load
  <1>19. ASSUME Ledger!Look PROVE Kept
    <2>1. UNCHANGED <<rows, blobs, step, hand>>
      BY <1>19 DEF Ledger!Look
    <2>2. Still
      BY <2>1 DEF Still, Paid, Early, At
    <2> QED
      BY <1>19, <2>2 DEF Ledger!Look
  <1>20. ASSUME Ledger!Count PROVE Kept
    <2>1. UNCHANGED <<rows, blobs, step, hand>>
      BY <1>20 DEF Ledger!Count
    <2>2. Still
      BY <2>1 DEF Still, Paid, Early, At
    <2> QED
      BY <1>20, <2>2 DEF Ledger!Count
  <1>21. ASSUME Ledger!Recompute PROVE Kept
    <2>1. UNCHANGED <<rows, blobs, step, hand>>
      BY <1>21 DEF Ledger!Recompute
    <2>2. Still
      BY <2>1 DEF Still, Paid, Early, At
    <2> QED
      BY <1>21, <2>2 DEF Ledger!Recompute
  <1>22. ASSUME NEW p \in Ledger!Procs, Ledger!Kill(p) PROVE FALSE
    BY <1>22 DEF Ledger!Kill, LedgerTypes
  <1> QED
    BY <1>3, <1>4, <1>5, <1>6, <1>7, <1>8, <1>9, <1>10, <1>11, <1>12,
       <1>13, <1>14, <1>15, <1>16, <1>17, <1>18, <1>19, <1>20, <1>21, <1>22, <1>1
    DEF Ledger!Next, Ledger!Step, Ledger!Delete, Ledger!Reconcile

\* The counter is what is paid for, less what was refunded before its charge has come.
BooksInv == used + Ledger!Bytes(Early) = Ledger!Bytes(Paid)

\* The reconciler remembers the bytes of what was paid for when it began, B, and has counted
\* those of T.  While it is at work what is not an asset is only added, and assets are only
\* deleted.
RecountOf(B, T) ==
  /\ before = Ledger!Bytes(B) /\ tally = Ledger!Bytes(T)
  /\ B \ Ledger!Assets \subseteq Paid /\ Paid \cap Ledger!Assets \subseteq B
  /\ rpc # "look" => B \cap Ledger!Exports \subseteq rows \cap blobs
  /\ T \ Ledger!Assets \subseteq rows /\ T \cap Ledger!Assets \subseteq B
  /\ T \cap Ledger!Exports \subseteq blobs
  /\ rpc \in {"look", "versions"} => T = {}
  /\ rpc = "assets" => T \subseteq Ledger!Versions
  /\ rpc = "exports" => T \cap Ledger!Exports = {}
  /\ rpc \in {"assets", "exports", "write"} => B \cap Ledger!Versions \subseteq T
  /\ rpc \in {"exports", "write"} => blobs \cap Ledger!Assets \subseteq T
  /\ rpc = "write" => B \cap Ledger!Exports \subseteq T
RecountInv == /\ rpc \in {"idle", "look"} => tally = 0
              /\ rpc # "idle" => \E B, T \in SUBSET Items : RecountOf(B, T)

LEMMA BytesParts ==
  ASSUME NEW S \in SUBSET Items, NEW T
  PROVE  /\ Ledger!Bytes(S) = Ledger!Bytes(S \cap T) + Ledger!Bytes(S \ T)
         /\ Ledger!Bytes(S) \in Nat /\ Ledger!Bytes(S \cap T) \in Nat
         /\ Ledger!Bytes(S \ T) \in Nat
  <1>1. S \cap T \in SUBSET S /\ S \ (S \cap T) = S \ T
        /\ S \cap T \in SUBSET Items /\ S \ T \in SUBSET Items
    OBVIOUS
  <1> QED
    BY <1>1, BytesSum

LEMMA BytesZero ==
  ASSUME NEW S \in SUBSET Items, Ledger!Bytes(S) = 0, NEW T \in SUBSET S
  PROVE  Ledger!Bytes(T) = 0
  <1>1. S \cap T = T
    OBVIOUS
  <1>2. Ledger!Bytes(S) = Ledger!Bytes(T) + Ledger!Bytes(S \ T)
        /\ Ledger!Bytes(T) \in Nat /\ Ledger!Bytes(S \ T) \in Nat
    BY <1>1, BytesParts
  <1> QED
    BY <1>2

\* With nobody at work what is paid for is what there is.
LEMMA PaidAtRest ==
  ASSUME LedgerTypes, HandsInv, flight = {},
         \A p \in Uploads \cup Deleters : step[p] = "idle"
  PROVE  /\ Early = {}
         /\ Paid = {i \in Items : \/ i \in Ledger!Versions /\ i \in rows
                                  \/ i \in Ledger!Assets /\ i \in blobs
                                  \/ i \in Ledger!Exports /\ i \in rows /\ i \in blobs}
  <1>1. \A p \in Ledger!Procs : step[p] = "idle" /\ hand[p] = {}
    BY LedgerConstants DEF HandsInv, CalmInv, MakerHand, DeleterHand
  <1>2. \A a, i : ~ At(a, i)
    BY <1>1 DEF At
  <1> QED
    BY <1>2 DEF Early, Paid

\* A recount that is written is exact: what has been counted and what is paid differ by
\* nothing that has bytes, since the counter is where it was.
LEMMA RecountExact ==
  ASSUME SizesApart, LedgerTypes, HandsInv, BooksInv, RecountInv,
         rpc = "write", used = before, flight = {}
  PROVE  tally = used
  <1>1. PICK B, T \in SUBSET Items : RecountOf(B, T)
    BY DEF RecountInv
  <1>2. \A p \in Uploads \cup Deleters : step[p] = "idle"
    BY DEF HandsInv, CalmInv
  <1>3. /\ Early = {} /\ Paid \in SUBSET Items
        /\ Paid = {i \in Items : \/ i \in Ledger!Versions /\ i \in rows
                                 \/ i \in Ledger!Assets /\ i \in blobs
                                 \/ i \in Ledger!Exports /\ i \in rows /\ i \in blobs}
    BY <1>2, PaidAtRest
  <1>4. used = Ledger!Bytes(Paid) /\ Ledger!Bytes(Paid) = Ledger!Bytes(B)
    <2>1. Ledger!Bytes(Early) = 0
      BY <1>3, BytesSum
    <2>2. Ledger!Bytes(Paid) \in Nat /\ used \in Int
      BY <1>3, BytesSum DEF LedgerTypes
    <2> QED
      BY <1>1, <2>1, <2>2 DEF BooksInv, RecountOf
  <1> DEFINE Y == Paid \ B
             Z == B \ Paid
  <1>5. Z \in SUBSET Ledger!Assets /\ Y \in SUBSET (Items \ Ledger!Assets)
        /\ Z \in SUBSET Items /\ Y \in SUBSET Items
    BY <1>1, <1>3, LedgerSpaces DEF RecountOf
  <1>6. Paid \ T \in SUBSET Y /\ T \ Paid \in SUBSET Z
    BY <1>1, <1>3, LedgerSpaces DEF RecountOf
  <1>7. Ledger!Bytes(Y) = 0 /\ Ledger!Bytes(Z) = 0
    <2>1. /\ Ledger!Bytes(Paid) = Ledger!Bytes(Paid \cap B) + Ledger!Bytes(Y)
          /\ Ledger!Bytes(Paid \cap B) \in Nat /\ Ledger!Bytes(Y) \in Nat
      BY <1>3, BytesParts
    <2>2. /\ Ledger!Bytes(B) = Ledger!Bytes(B \cap Paid) + Ledger!Bytes(Z)
          /\ Ledger!Bytes(Z) \in Nat
      BY BytesParts
    <2> HIDE DEF Y, Z
    <2>3. Ledger!Bytes(B \cap Paid) = Ledger!Bytes(Paid \cap B)
      <3>1. B \cap Paid = Paid \cap B
        OBVIOUS
      <3> QED
        BY <3>1
    <2>4. Ledger!Bytes(Paid) = Ledger!Bytes(Paid \cap B) + Ledger!Bytes(Z)
      BY <1>4, <2>2, <2>3
    <2>5. Ledger!Bytes(Z) = Ledger!Bytes(Y)
      BY <2>1, <2>2, <2>4
    <2> QED
      BY <1>5, <2>5 DEF SizesApart
  <1>8. Ledger!Bytes(Paid \ T) = 0 /\ Ledger!Bytes(T \ Paid) = 0
    BY <1>5, <1>6, <1>7, BytesZero
  <1>9. /\ Ledger!Bytes(Paid) = Ledger!Bytes(Paid \cap T) + Ledger!Bytes(Paid \ T)
        /\ Ledger!Bytes(T) = Ledger!Bytes(T \cap Paid) + Ledger!Bytes(T \ Paid)
        /\ Ledger!Bytes(Paid \cap T) \in Nat /\ T \cap Paid = Paid \cap T
    <2>1. T \cap Paid = Paid \cap T
      OBVIOUS
    <2> QED
      BY <1>3, <2>1, BytesParts
  <1>10. tally = Ledger!Bytes(T)
    BY <1>1 DEF RecountOf
  <1> QED
    BY <1>4, <1>8, <1>9, <1>10

\* What the counter says after a charge, and after a refund.
LEMMA BooksStep ==
  ASSUME SizesApart, LedgerTypes, LedgerTypes', HandsInv, HandsInv', BooksInv, RecountInv,
         Ledger!Next
  PROVE  BooksInv'
  <1>1. /\ Ledger!Bytes(Paid) \in Nat /\ Ledger!Bytes(Early) \in Nat /\ used \in Int
        /\ Paid \in SUBSET Items /\ Early \in SUBSET Items
    BY PaidItems, BytesSum DEF LedgerTypes
  <1>2. ASSUME NEW w \in Ledger!Makers, Ledger!Charge(w) PROVE BooksInv'
    <2>1. PICK i \in Items :
            /\ used' = used + Size[i]
            /\ \/ i \in Early /\ Early' = Early \ {i} /\ Paid' = Paid
               \/ i \notin Paid /\ Paid' = Paid \cup {i} /\ Early' = Early
      BY <1>2, ChargeEffect
    <2>2. Size[i] \in Nat
      BY LedgerConstants
    <2>3. CASE i \in Early /\ Early' = Early \ {i} /\ Paid' = Paid
      <3>1. /\ Ledger!Bytes(Early) = Ledger!Bytes({i}) + Ledger!Bytes(Early \ {i})
            /\ Ledger!Bytes(Early \ {i}) \in Nat /\ Ledger!Bytes({i}) = Size[i]
        <4>1. {i} \in SUBSET Early /\ Early \ {i} \in SUBSET Items
          BY <1>1, <2>3
        <4> QED
          BY <1>1, <4>1, BytesSum
      <3>2. /\ Ledger!Bytes(Early') = Ledger!Bytes(Early \ {i})
            /\ Ledger!Bytes(Paid') = Ledger!Bytes(Paid)
        BY <2>3
      <3>3. used' + Ledger!Bytes(Early') = Ledger!Bytes(Paid')
        BY <1>1, <2>1, <2>2, <3>1, <3>2 DEF BooksInv
      <3> QED
        BY <3>3 DEF BooksInv, Ledger!Bytes, Ledger!MapThenSumSet, Ledger!MapThenFoldSet
    <2>4. CASE i \notin Paid /\ Paid' = Paid \cup {i} /\ Early' = Early
      <3>1. Ledger!Bytes(Paid \cup {i}) = Ledger!Bytes(Paid) + Size[i]
        BY <1>1, <2>4, BytesSum
      <3>2. used' + Ledger!Bytes(Early') = Ledger!Bytes(Paid')
        BY <1>1, <2>1, <2>2, <2>4, <3>1 DEF BooksInv
      <3> QED
        BY <3>2 DEF BooksInv
    <2> QED
      BY <2>1, <2>3, <2>4
  <1>3. ASSUME NEW p \in Ledger!Procs, Ledger!Refund(p) PROVE BooksInv'
    <2>1. /\ used' = used - Ledger!Bytes(hand[p])
          /\ \/ \E i \in Ledger!Assets :
                  /\ hand[p] = {i} /\ i \notin Early /\ Early' = Early \cup {i} /\ Paid' = Paid
             \/ hand[p] \subseteq Paid /\ Paid' = Paid \ hand[p] /\ Early' = Early
      BY <1>3, RefundEffect
    <2>2. CASE \E i \in Ledger!Assets :
                  /\ hand[p] = {i} /\ i \notin Early /\ Early' = Early \cup {i} /\ Paid' = Paid
      <3>1. PICK i \in Items :
              hand[p] = {i} /\ i \notin Early /\ Early' = Early \cup {i} /\ Paid' = Paid
        BY <2>2, LedgerSpaces
      <3>2. /\ Ledger!Bytes(Early \cup {i}) = Ledger!Bytes(Early) + Size[i]
            /\ Ledger!Bytes({i}) = Size[i] /\ Size[i] \in Nat
        BY <1>1, <3>1, BytesSum, LedgerConstants
      <3>3. used' + Ledger!Bytes(Early') = Ledger!Bytes(Paid')
        BY <1>1, <2>1, <3>1, <3>2 DEF BooksInv
      <3> QED
        BY <3>3 DEF BooksInv
    <2>3. CASE hand[p] \subseteq Paid /\ Paid' = Paid \ hand[p] /\ Early' = Early
      <3>1. /\ Ledger!Bytes(Paid) = Ledger!Bytes(hand[p]) + Ledger!Bytes(Paid \ hand[p])
            /\ Ledger!Bytes(hand[p]) \in Nat /\ Ledger!Bytes(Paid \ hand[p]) \in Nat
        <4>1. hand[p] \in SUBSET Paid /\ hand[p] \in SUBSET Items /\ Paid \ hand[p] \in SUBSET Items
          BY <1>1, <2>3
        <4> QED
          BY <1>1, <4>1, BytesSum
      <3>2. used' + Ledger!Bytes(Early') = Ledger!Bytes(Paid')
        BY <1>1, <2>1, <2>3, <3>1 DEF BooksInv
      <3> QED
        BY <3>2 DEF BooksInv
    <2> QED
      BY <2>1, <2>2, <2>3
  <1>4. ASSUME Still, used' = used PROVE BooksInv'
    BY <1>4 DEF Still, BooksInv
  <1>5. ASSUME Ledger!Recompute PROVE used' = used
    BY <1>5, RecountExact DEF Ledger!Recompute
  <1> QED
    BY <1>2, <1>3, <1>4, <1>5, OthersStill

-----------------------------------------------------------------------------
(* What the reconciler has counted.                                        *)

\* While the reconciler is at work only jobs are, and they add what is no asset and delete
\* assets.
OnlyJobs == \A p \in Uploads \cup Deleters : step[p] = "idle" /\ step'[p] = "idle"
FilesKept == /\ rows \subseteq rows' /\ blobs \ Ledger!Assets \subseteq blobs'
             /\ blobs' \cap Ledger!Assets \subseteq blobs

\* So the rows and files a count has passed stay as it found them, or go as it remembers.
LEMMA FilesStep ==
  ASSUME LedgerTypes, HandsInv, OnlyJobs, Ledger!Next
  PROVE  FilesKept
  <1>1. Ledger!Procs = Jobs \cup Uploads \cup Deleters /\ Ledger!Makers = Jobs \cup Uploads
        /\ Jobs \cap Uploads = {} /\ Deleters \cap Ledger!Makers = {}
    BY LedgerConstants
  <1>2. ASSUME NEW w \in Ledger!Makers, Ledger!Begin(w) PROVE FilesKept
    BY <1>2, <1>1 DEF Ledger!Begin, FilesKept
  <1>3. ASSUME NEW w \in Ledger!Makers, Ledger!Put(w) PROVE FilesKept
    BY <1>3, <1>1, LedgerSpaces DEF Ledger!Put, FilesKept, OnlyJobs, LedgerTypes, HandsInv,
       MakerHand
  <1>4. ASSUME NEW w \in Ledger!Makers, Ledger!InsertRow(w) PROVE FilesKept
    BY <1>4, <1>1 DEF Ledger!InsertRow, FilesKept
  <1>5. ASSUME NEW w \in Ledger!Makers, Ledger!Charge(w) PROVE FilesKept
    BY <1>5, <1>1 DEF Ledger!Charge, FilesKept
  <1>6. ASSUME NEW w \in Ledger!Makers, Ledger!Finish(w) PROVE FilesKept
    BY <1>6, <1>1 DEF Ledger!Finish, FilesKept
  <1>7. ASSUME NEW w \in Ledger!Makers, NEW i \in Items, Ledger!Admit(w, i) PROVE FilesKept
    BY <1>7, <1>1 DEF Ledger!Admit, FilesKept
  <1>8. ASSUME NEW j \in Jobs, Ledger!Checkpoint(j) PROVE FilesKept
    BY <1>8, <1>1 DEF Ledger!Checkpoint, FilesKept
  <1>9. ASSUME NEW d \in Deleters, Ledger!Strip(d) PROVE FilesKept
    BY <1>9, <1>1, LedgerSpaces DEF Ledger!Strip, FilesKept, OnlyJobs, LedgerTypes,
       HandsInv,
       MakerHand
  <1>10. ASSUME NEW p \in Ledger!Procs, Ledger!Unlink(p) PROVE FilesKept
    BY <1>10, <1>1, LedgerSpaces DEF Ledger!Unlink, FilesKept, OnlyJobs, LedgerTypes,
       HandsInv,
       MakerHand
  <1>11. ASSUME NEW p \in Ledger!Procs, Ledger!Refund(p) PROVE FilesKept
    BY <1>11, <1>1 DEF Ledger!Refund, FilesKept
  <1>12. ASSUME NEW p \in Ledger!Procs, NEW i \in Items, Ledger!FindAsset(p, i) PROVE FilesKept
    BY <1>12, <1>1 DEF Ledger!FindAsset, FilesKept
  <1>13. ASSUME NEW d \in Deleters, NEW i \in Items, Ledger!FindExport(d, i) PROVE FilesKept
    BY <1>13, <1>1 DEF Ledger!FindExport, FilesKept
  <1>14. ASSUME NEW d \in Deleters, NEW k \in Docs, Ledger!PurgeDocument(d, k) PROVE FilesKept
    BY <1>14, <1>1, LedgerSpaces DEF Ledger!PurgeDocument, FilesKept, OnlyJobs,
       LedgerTypes, HandsInv,
       MakerHand
  <1>15. ASSUME NEW j \in Jobs, Ledger!Cancel(j) PROVE FilesKept
    BY <1>15, <1>1 DEF Ledger!Cancel, FilesKept
  <1>16. ASSUME NEW j \in Jobs, Ledger!Reap(j) PROVE FilesKept
    BY <1>16, <1>1 DEF Ledger!Reap, FilesKept
  <1>17. ASSUME Ledger!Load PROVE FilesKept
    BY <1>17, <1>1 DEF Ledger!Load, FilesKept
  <1>18. ASSUME Ledger!Look PROVE FilesKept
    BY <1>18, <1>1 DEF Ledger!Look, FilesKept
  <1>19. ASSUME Ledger!Count PROVE FilesKept
    BY <1>19, <1>1 DEF Ledger!Count, FilesKept
  <1>20. ASSUME Ledger!Recompute PROVE FilesKept
    BY <1>20, <1>1 DEF Ledger!Recompute, FilesKept
  <1>21. ASSUME NEW p \in Ledger!Procs, Ledger!Kill(p) PROVE FALSE
    BY <1>21 DEF Ledger!Kill, LedgerTypes
  <1> QED
    BY <1>2, <1>3, <1>4, <1>5, <1>6, <1>7, <1>8, <1>9, <1>10, <1>11,
       <1>12, <1>13, <1>14, <1>15, <1>16, <1>17, <1>18, <1>19, <1>20, <1>21
    DEF Ledger!Next, Ledger!Step, Ledger!Delete, Ledger!Reconcile

\* What is paid moves the same way.
PaidKept == Paid \ Ledger!Assets \subseteq Paid' /\ Paid' \cap Ledger!Assets \subseteq Paid

LEMMA PaidStep ==
  ASSUME LedgerTypes, LedgerTypes', HandsInv, HandsInv', OnlyJobs, Ledger!Next
  PROVE  PaidKept
  <1>1. Ledger!Procs = Jobs \cup Uploads \cup Deleters /\ Ledger!Makers = Jobs \cup Uploads
        /\ Jobs \cap Uploads = {} /\ Deleters \cap Ledger!Makers = {}
    BY LedgerConstants
  <1>2. ASSUME NEW w \in Ledger!Makers, Ledger!Charge(w) PROVE PaidKept
    <2>1. w \in Jobs /\ step[w] = "charge"
      BY <1>1, <1>2 DEF Ledger!Charge, OnlyJobs
    <2>2. PICK i \in Items :
            /\ hand[w] = {i}
            /\ Paid' = Paid \/ Paid' = Paid \cup {i}
      BY <1>2, ChargeEffect
    <2>3. i \notin Ledger!Assets
      BY <1>2, <2>1, <2>2 DEF HandsInv, MakerHand
    <2> QED
      BY <2>2, <2>3 DEF PaidKept
  <1>3. ASSUME NEW p \in Ledger!Procs, Ledger!Refund(p) PROVE PaidKept
    <2>1. p \in Jobs
      BY <1>1, <1>3 DEF Ledger!Refund, OnlyJobs
    <2>2. hand[p] \subseteq Ledger!Assets /\ (Paid' = Paid \/ Paid' = Paid \ hand[p])
      BY <1>3, <2>1, RefundEffect
    <2> QED
      BY <2>2 DEF PaidKept
  <1>4. ASSUME Still PROVE PaidKept
    BY <1>4 DEF Still, PaidKept
  <1> QED
    BY <1>2, <1>3, <1>4, OthersStill

\* Without uploads every asset in storage is paid, and no refund has come too early.
LEMMA AssetsPaid ==
  ASSUME LedgerTypes, HandsInv, \A p \in Uploads \cup Deleters : step[p] = "idle"
  PROVE  Early = {} /\ blobs \cap Ledger!Assets \subseteq Paid
  <1>1. \A i \in Ledger!Assets : ~ At("charge", i)
    BY LedgerConstants DEF At, HandsInv, MakerHand
  <1> QED
    BY <1>1, LedgerSpaces DEF Early, Paid

\* What the reconciler has counted so far is what it remembers.
LEMMA RecountStep ==
  ASSUME LedgerTypes, LedgerTypes', HandsInv, HandsInv', BooksInv, RecountInv, Ledger!Next
  PROVE  RecountInv'
  <1>1. /\ rpc # "idle" => \A p \in Uploads \cup Deleters : step[p] = "idle"
        /\ rpc' # "idle" => \A p \in Uploads \cup Deleters : step'[p] = "idle"
    BY DEF HandsInv, CalmInv
  <1>2. /\ Ledger!Versions \in SUBSET Items /\ Ledger!Assets \in SUBSET Items
        /\ Ledger!Exports \in SUBSET Items
    BY LedgerSpaces
  <1>3. ASSUME Ledger!Load PROVE RecountInv'
    <2>1. Early = {} /\ Paid \in SUBSET Items
      <3>1. \A p \in Uploads \cup Deleters : step[p] = "idle"
        BY <1>1, <1>3 DEF Ledger!Load
      <3> QED
        BY <3>1, AssetsPaid, PaidItems
    <2>2. used = Ledger!Bytes(Paid) /\ Ledger!Bytes({}) = 0
      <3>1. Ledger!Bytes(Paid) \in Nat /\ Ledger!Bytes({}) = 0 /\ used \in Int
        BY <2>1, BytesSum DEF LedgerTypes
      <3> QED
        BY <2>1, <3>1 DEF BooksInv
    <2>3. /\ before' = Ledger!Bytes(Paid) /\ tally' = Ledger!Bytes({}) /\ rpc' = "look"
          /\ tally' = 0 /\ UNCHANGED <<rows, blobs, step, hand>>
      BY <1>3, <2>2 DEF Ledger!Load, RecountInv
    <2>4. Paid' = Paid
      BY <2>3 DEF Paid, At
    <2>5. RecountOf(Paid, {})'
      BY <2>1, <2>3, <2>4 DEF RecountOf
    <2>6. \E B, T \in SUBSET Items : RecountOf(B, T)'
      BY <2>1, <2>4, <2>5
    <2> QED
      BY <2>3, <2>6 DEF RecountInv
  <1>4. ASSUME Ledger!Look PROVE RecountInv'
    <2>1. CASE flight # {}
      BY <1>4, <2>1 DEF Ledger!Look, RecountInv
    <2>2. CASE flight = {}
      <3>1. PICK B, T \in SUBSET Items : RecountOf(B, T)
        BY <1>4 DEF Ledger!Look, RecountInv
      <3>2. /\ UNCHANGED <<rows, blobs, step, hand, before, tally>>
            /\ rpc = "look" /\ rpc' = "versions"
        BY <1>4, <2>2 DEF Ledger!Look
      <3>3. Paid' = Paid
        BY <3>2 DEF Paid, At
      <3>4. B \cap Ledger!Exports \subseteq rows \cap blobs
        BY <1>1, <2>2, <3>1, <3>2, PaidAtRest, LedgerSpaces DEF RecountOf
      <3>5. RecountOf(B, T)'
        BY <3>1, <3>2, <3>3, <3>4 DEF RecountOf
      <3> QED
        BY <3>2, <3>5 DEF RecountInv
    <2> QED
      BY <2>1, <2>2
  <1>5. ASSUME Ledger!Count PROVE RecountInv'
    <2>1. PICK B, T \in SUBSET Items : RecountOf(B, T)
      BY <1>5 DEF Ledger!Count, Ledger!After, RecountInv
    <2> DEFINE O == Ledger!Owes[rpc]
    <2>2. /\ UNCHANGED <<rows, blobs, step, hand, before>>
          /\ tally' = tally + Ledger!Bytes(O)
          /\ \/ rpc = "versions" /\ rpc' = "assets" /\ O = rows \cap Ledger!Versions
             \/ rpc = "assets" /\ rpc' = "exports" /\ O = blobs \cap Ledger!Assets
             \/ rpc = "exports" /\ rpc' = "write" /\ O = rows \cap blobs \cap Ledger!Exports
      BY <1>5 DEF Ledger!Count, Ledger!After, Ledger!Owes
    <2>3. Paid' = Paid
      BY <2>2 DEF Paid, At
    <2>4. blobs \cap Ledger!Assets \subseteq Paid
      BY <1>1, <2>2, AssetsPaid
    <2>5. PICK N \in SUBSET Items : N = T \cup O
      BY <1>2, <2>2
    <2>6. B \cap Ledger!Versions \subseteq rows
      BY <2>1, LedgerSpaces DEF RecountOf, Paid
    <2>7. T \cap O = {}
      BY <2>1, <2>2, LedgerSpaces DEF RecountOf
    <2> HIDE DEF O
    <2>8. tally' = Ledger!Bytes(N)
      <3>1. T \in SUBSET N /\ N \ T = O
        BY <2>5, <2>7
      <3>2. Ledger!Bytes(N) = Ledger!Bytes(T) + Ledger!Bytes(O)
        <4>1. Ledger!Bytes(N) = Ledger!Bytes(T) + Ledger!Bytes(N \ T)
          BY <3>1, BytesSum
        <4> QED
          BY <3>1, <4>1
      <3> QED
        BY <2>1, <2>2, <3>2 DEF RecountOf
    <2>9. RecountOf(B, N)'
      <3>1. before' = Ledger!Bytes(B) /\ tally' = Ledger!Bytes(N)
        BY <2>1, <2>2, <2>8 DEF RecountOf
      <3>2. CASE rpc = "versions"
        BY <2>1, <2>2, <2>3, <2>4, <2>5, <2>6, <3>1, <3>2, LedgerSpaces DEF RecountOf
      <3>3. CASE rpc = "assets"
        BY <2>1, <2>2, <2>3, <2>4, <2>5, <2>6, <3>1, <3>3, LedgerSpaces DEF RecountOf
      <3>4. CASE rpc = "exports"
        BY <2>1, <2>2, <2>3, <2>4, <2>5, <2>6, <3>1, <3>4, LedgerSpaces DEF RecountOf
      <3> QED
        BY <2>2, <3>2, <3>3, <3>4
    <2>10. rpc' \notin {"idle", "look"}
      BY <2>2
    <2> QED
      BY <2>5, <2>9, <2>10 DEF RecountInv
  <1>6. ASSUME Ledger!Recompute PROVE RecountInv'
    BY <1>6 DEF Ledger!Recompute, RecountInv
  <1>7. ASSUME UNCHANGED <<rpc, before, tally>> PROVE RecountInv'
    <2>1. CASE rpc = "idle"
      BY <1>7, <2>1 DEF RecountInv
    <2>2. CASE rpc # "idle"
      <3>1. PICK B, T \in SUBSET Items : RecountOf(B, T)
        BY <2>2 DEF RecountInv
      <3>2. OnlyJobs
        BY <1>1, <1>7, <2>2 DEF OnlyJobs
      <3>3. FilesKept /\ PaidKept
        BY <3>2, FilesStep, PaidStep
      <3>4. RecountOf(B, T)'
        BY <1>7, <3>1, <3>3, LedgerSpaces DEF RecountOf, FilesKept, PaidKept
      <3> QED
        BY <1>7, <3>4 DEF RecountInv
    <2> QED
      BY <2>1, <2>2
  <1>8. Ledger!Reconcile \/ UNCHANGED <<rpc, before, tally>>
    BY DEF Ledger!Next, Ledger!Step, Ledger!Delete, Ledger!Begin, Ledger!Put,
       Ledger!InsertRow, Ledger!Charge, Ledger!Finish, Ledger!Admit,
       Ledger!Checkpoint, Ledger!Strip, Ledger!Unlink, Ledger!Refund, Ledger!FindAsset,
       Ledger!FindExport,
       Ledger!PurgeDocument, Ledger!Cancel, Ledger!Reap, Ledger!Kill
  <1> QED
    BY <1>3, <1>4, <1>5, <1>6, <1>7, <1>8 DEF Ledger!Reconcile

LedgerInv == LedgerTypes /\ HandsInv /\ BooksInv /\ RecountInv

LEMMA LedgerInit == ASSUME Ledger!Init PROVE LedgerInv
  <1>1. LedgerTypes /\ HandsInv
    BY LedgerConstants DEF Ledger!Init, LedgerTypes, HandsInv, MakerHand, DeleterHand,
       OneHand,
       CalmInv, RowsInv, Held, Ledger!Deleting
  <1>2. Paid = {} /\ Early = {}
    BY LedgerConstants DEF Ledger!Init, Paid, Early, At
  <1>3. Ledger!Bytes({}) = 0
    BY BytesSum
  <1>4. BooksInv
    BY <1>2, <1>3 DEF Ledger!Init, BooksInv
  <1> QED
    BY <1>1, <1>4 DEF LedgerInv, RecountInv, Ledger!Init

LEMMA LedgerStep ==
  ASSUME SizesApart, LedgerInv, LedgerMoves PROVE LedgerInv'
  <1>1. LedgerTypes'
    BY LedgerTypesStep DEF LedgerInv, LedgerMoves
  <1>2. HandsInv'
    BY <1>1, HandsStep DEF LedgerInv
  <1> QED
    BY <1>1, <1>2, BooksStep, RecountStep DEF LedgerInv, LedgerMoves

\* Whenever nothing is under way, the counter is what is charged.
LEMMA LedgerSettled == ASSUME LedgerInv PROVE Ledger!Settled
  <1> SUFFICES ASSUME Ledger!Quiescent PROVE used = Ledger!Bytes(Ledger!Charged)
    BY DEF Ledger!Settled
  <1>1. \A p \in Ledger!Procs : step[p] = "idle"
    BY DEF Ledger!Quiescent
  <1>2. Early = {} /\ Paid = Ledger!Charged
    <2>1. flight = {} /\ \A p \in Uploads \cup Deleters : step[p] = "idle"
      BY <1>1, LedgerConstants DEF Ledger!Quiescent
    <2>2. Early = {}
          /\ Paid = {i \in Items : \/ i \in Ledger!Versions /\ i \in rows
                                   \/ i \in Ledger!Assets /\ i \in blobs
                                   \/ i \in Ledger!Exports /\ i \in rows /\ i \in blobs}
      BY <2>1, PaidAtRest DEF LedgerInv
    <2> QED
      BY <2>2 DEF LedgerInv, LedgerTypes, Ledger!Charged
  <1>3. Paid \in SUBSET Items
    BY PaidItems
  <1>4. Ledger!Bytes(Paid) \in Nat /\ Ledger!Bytes({}) = 0 /\ used \in Int
    BY <1>3, BytesSum DEF LedgerInv, LedgerTypes
  <1>5. used + 0 = Ledger!Bytes(Paid)
    BY <1>2, <1>4 DEF LedgerInv, BooksInv
  <1> QED
    BY <1>2, <1>4, <1>5

-----------------------------------------------------------------------------
(* The quota.                                                              *)

\* What a maker has been let in with and has not charged, exports aside.
LoadOf(w) == IF step[w] \in {"put", "row", "charge"} /\ hand[w] \cap Ledger!Exports = {}
             THEN Ledger!Bytes(hand[w]) ELSE 0
Load == [w \in Ledger!Makers |-> LoadOf(w)]

\* The uploads that may still be let in: each counts on a quota nobody else has used.
Waiting == {u \in Uploads : u \notin begun \/ step[u] = "next"}
Room    == Quota + Ledger!Largest * (Cardinality(Ledger!Makers) - 1 - Cardinality(Waiting))
Owing   == used - Ledger!Bytes(Paid \cap Ledger!Exports) + Sum(Load, Ledger!Makers)

\* Until something else than an export is made nothing counts; from then on, for every
\* upload that is not waiting there is room for one more file than the quota has.
QuotaInv == \/ spent \subseteq Ledger!Exports /\ \A p \in Ledger!Procs : read[p] >= 0
            \/ Owing <= Room

LEMMA MakersCounted ==
  /\ IsFiniteSet(Ledger!Makers) /\ Ledger!Cardinality(Ledger!Makers) = Cardinality(Ledger!Makers)
  /\ Cardinality(Ledger!Makers) \in Nat /\ Cardinality(Ledger!Makers) >= 1
  /\ \A S \in SUBSET Ledger!Makers : IsFiniteSet(S) /\ Cardinality(S) \in Nat
  <1>1. IsFiniteSet(Ledger!Makers) /\ Ledger!Makers # {}
    BY FiniteAssumption, PartsAssumption, LedgerConstants DEF Ledger!Assumptions
  <1>2. \A S \in SUBSET Ledger!Makers : IsFiniteSet(S) /\ Cardinality(S) \in Nat
    BY <1>1, FS_Subset, FS_CardinalityType
  <1>3. Cardinality(Ledger!Makers) \in Nat /\ Cardinality(Ledger!Makers) # 0
    BY <1>1, FS_CardinalityType, FS_EmptySet
  <1>4. Ledger!Cardinality(Ledger!Makers) = Cardinality(Ledger!Makers)
    BY DEF Ledger!Cardinality, Cardinality
  <1> QED
    BY <1>1, <1>2, <1>3, <1>4

\* The largest of the files that are no exports.
LEMMA LargestSize ==
  Ledger!Largest \in Nat /\ \A i \in Items \ Ledger!Exports : Size[i] <= Ledger!Largest
  <1> DEFINE K == Items \ Ledger!Exports
             S == {Size[i] : i \in K}
  <1>1. K # {} /\ IsFiniteSet(K)
    BY FiniteAssumption, PartsAssumption, FS_Subset DEF Ledger!Assumptions, Ledger!Exports
  <1>2. S # {} /\ \A n \in S : n \in Nat
    BY <1>1, LedgerConstants
  <1>3. \A i \in K : Size[i] \in Nat
    BY LedgerConstants
  <1>4. PICK i \in K : \A k \in K : Size[k] <= Size[i]
    <2> HIDE DEF K
    <2> QED
      BY <1>1, <1>3, LargestIs
  <1>5. \E m \in S : \A n \in S : m >= n
    <2>1. Size[i] \in S /\ \A n \in S : Size[i] >= n
      BY <1>3, <1>4
    <2> QED
      BY <2>1
  <1>6. Ledger!Largest = CHOOSE m \in S : \A n \in S : m >= n
    BY DEF Ledger!Largest, Ledger!Max
  <1>7. Ledger!Largest \in S /\ \A n \in S : Ledger!Largest >= n
    <2> HIDE DEF S
    <2> QED
      BY <1>5, <1>6
  <1> QED
    BY <1>2, <1>7

LEMMA LoadIs ==
  ASSUME LedgerTypes, HandsInv
  PROVE  /\ \A w \in Ledger!Makers : LoadOf(w) \in Nat /\ LoadOf(w) <= Ledger!Largest
         /\ \A w \in Waiting : LoadOf(w) = 0
         /\ Waiting \subseteq Ledger!Makers
  <1>1. ASSUME NEW w \in Ledger!Makers PROVE LoadOf(w) \in Nat /\ LoadOf(w) <= Ledger!Largest
    <2>1. CASE step[w] \in {"put", "row", "charge"} /\ hand[w] \cap Ledger!Exports = {}
      <3>1. PICK i \in Items : hand[w] = {i}
        BY <2>1 DEF HandsInv, MakerHand, Held
      <3>2. LoadOf(w) = Size[i] /\ i \notin Ledger!Exports
        BY <2>1, <3>1, BytesSum DEF LoadOf
      <3> QED
        BY <3>2, LargestSize, LedgerConstants
    <2>2. CASE ~ (step[w] \in {"put", "row", "charge"} /\ hand[w] \cap Ledger!Exports = {})
      BY <2>2, LargestSize DEF LoadOf
    <2> QED
      BY <2>1, <2>2
  <1>2. Waiting \subseteq Ledger!Makers
    BY LedgerConstants DEF Waiting
  <1>3. \A w \in Waiting : LoadOf(w) = 0
    BY <1>2 DEF Waiting, LoadOf, HandsInv, MakerHand
  <1> QED
    BY <1>1, <1>2, <1>3

\* The loads together, at most one file for each who is not waiting.
LEMMA LoadsBound ==
  ASSUME LedgerTypes, HandsInv, NEW T \in SUBSET Ledger!Makers, \A w \in T : LoadOf(w) = 0
  PROVE  /\ Sum(Load, Ledger!Makers) \in Nat
         /\ Sum(Load, Ledger!Makers)
              <= Ledger!Largest * (Cardinality(Ledger!Makers) - Cardinality(T))
  <1>1. \A w \in Ledger!Makers : Load[w] \in Nat /\ Load[w] <= Ledger!Largest
    BY LoadIs DEF Load
  <1>2. \A w \in T : Load[w] = 0
    BY DEF Load
  <1>3. Ledger!Largest \in Nat /\ IsFiniteSet(Ledger!Makers)
    BY LargestSize, MakersCounted
  <1> QED
    BY <1>1, <1>2, <1>3, SumNat, SumBound

\* Only what has been made is paid, and before anything but exports is, all of that.
LEMMA PaidMade ==
  ASSUME LedgerTypes PROVE Paid \subseteq spent /\ Early \subseteq spent
  BY DEF LedgerTypes, Paid, Early, At

LEMMA OnlyExports ==
  ASSUME LedgerTypes, BooksInv, spent \subseteq Ledger!Exports
  PROVE  used = Ledger!Bytes(Paid \cap Ledger!Exports) /\ used >= 0
  <1>1. Early = {} /\ Paid \cap Ledger!Exports = Paid /\ Paid \in SUBSET Items
    BY PaidMade, PaidItems, LedgerSpaces
  <1>2. Ledger!Bytes({}) = 0 /\ Ledger!Bytes(Paid) \in Nat /\ used \in Int
    BY <1>1, BytesSum DEF LedgerTypes
  <1>3. used + 0 = Ledger!Bytes(Paid)
    BY <1>1, <1>2 DEF BooksInv
  <1> QED
    BY <1>1, <1>2, <1>3

\* No step but one adds to a load, makes an upload wait, or makes what is no export: the
\* admission of a file that is none.
Light == /\ \A v \in Ledger!Makers : LoadOf(v)' = LoadOf(v) \/ LoadOf(v)' = 0
         /\ Waiting' \subseteq Waiting
         /\ spent' \ Ledger!Exports \subseteq spent
Adds  == \E w \in Ledger!Makers : \E i \in Items \ Ledger!Exports : Ledger!Admit(w, i)

\* Which steps are light.
LEMMA LightStep ==
  ASSUME LedgerTypes, LedgerTypes', HandsInv, HandsInv', Ledger!Next PROVE Light \/ Adds
  <1>1. Ledger!Procs = Jobs \cup Uploads \cup Deleters /\ Ledger!Makers = Jobs \cup Uploads
        /\ Jobs \cap Uploads = {} /\ Deleters \cap Ledger!Makers = {}
    BY LedgerConstants
  <1>2. ASSUME NEW w \in Ledger!Makers, Ledger!Begin(w) PROVE Light \/ Adds
    BY <1>2, <1>1 DEF Ledger!Begin, Light, LoadOf, Waiting, LedgerTypes, HandsInv, MakerHand
  <1>3. ASSUME NEW w \in Ledger!Makers, Ledger!Put(w) PROVE Light \/ Adds
    BY <1>3, <1>1 DEF Ledger!Put, Light, LoadOf, Waiting, LedgerTypes, HandsInv, MakerHand
  <1>4. ASSUME NEW w \in Ledger!Makers, Ledger!InsertRow(w) PROVE Light \/ Adds
    BY <1>4, <1>1 DEF Ledger!InsertRow, Light, LoadOf, Waiting, LedgerTypes, HandsInv,
       MakerHand
  <1>5. ASSUME NEW w \in Ledger!Makers, Ledger!Charge(w) PROVE Light \/ Adds
    BY <1>5, <1>1 DEF Ledger!Charge, Light, LoadOf, Waiting, LedgerTypes, HandsInv,
       MakerHand
  <1>6. ASSUME NEW w \in Ledger!Makers, Ledger!Finish(w) PROVE Light \/ Adds
    BY <1>6, <1>1 DEF Ledger!Finish, Light, LoadOf, Waiting, LedgerTypes, HandsInv,
       MakerHand
  <1>7. ASSUME NEW w \in Ledger!Makers, NEW i \in Items, Ledger!Admit(w, i) PROVE Light \/ Adds
    <2>1. CASE i \notin Ledger!Exports
      BY <1>7, <2>1 DEF Adds
    <2>2. CASE i \in Ledger!Exports
      <3>1. w \in Jobs
        BY <1>7, <1>1, <2>2 DEF Ledger!Admit, Ledger!Makes
      <3>2. LoadOf(w)' = 0
        BY <1>7, <1>1, <2>2 DEF Ledger!Admit, LoadOf, LedgerTypes
      <3> QED
        BY <1>7, <1>1, <2>2, <3>1, <3>2 DEF Ledger!Admit, Light, LoadOf, Waiting,
           LedgerTypes
    <2> QED
      BY <2>1, <2>2
  <1>8. ASSUME NEW j \in Jobs, Ledger!Checkpoint(j) PROVE Light \/ Adds
    BY <1>8, <1>1 DEF Ledger!Checkpoint, Light, LoadOf, Waiting, LedgerTypes, HandsInv,
       MakerHand
  <1>9. ASSUME NEW d \in Deleters, Ledger!Strip(d) PROVE Light \/ Adds
    BY <1>9, <1>1 DEF Ledger!Strip, Light, LoadOf, Waiting, LedgerTypes, HandsInv, MakerHand
  <1>10. ASSUME NEW p \in Ledger!Procs, Ledger!Unlink(p) PROVE Light \/ Adds
    BY <1>10, <1>1 DEF Ledger!Unlink, Light, LoadOf, Waiting, LedgerTypes, HandsInv,
       MakerHand
  <1>11. ASSUME NEW p \in Ledger!Procs, Ledger!Refund(p) PROVE Light \/ Adds
    BY <1>11, <1>1 DEF Ledger!Refund, Light, LoadOf, Waiting, LedgerTypes, HandsInv,
       MakerHand
  <1>12. ASSUME NEW p \in Ledger!Procs, NEW i \in Items, Ledger!FindAsset(p, i) PROVE Light \/ Adds
    BY <1>12, <1>1 DEF Ledger!FindAsset, Light, LoadOf, Waiting, LedgerTypes, HandsInv,
       MakerHand
  <1>13. ASSUME NEW d \in Deleters, NEW i \in Items, Ledger!FindExport(d, i) PROVE Light \/ Adds
    BY <1>13, <1>1 DEF Ledger!FindExport, Light, LoadOf, Waiting, LedgerTypes, HandsInv,
       MakerHand
  <1>14. ASSUME NEW d \in Deleters, NEW k \in Docs, Ledger!PurgeDocument(d, k) PROVE Light \/ Adds
    BY <1>14, <1>1 DEF Ledger!PurgeDocument, Light, LoadOf, Waiting, LedgerTypes, HandsInv,
       MakerHand
  <1>15. ASSUME NEW j \in Jobs, Ledger!Cancel(j) PROVE Light \/ Adds
    BY <1>15, <1>1 DEF Ledger!Cancel, Light, LoadOf, Waiting, LedgerTypes, HandsInv,
       MakerHand
  <1>16. ASSUME NEW j \in Jobs, Ledger!Reap(j) PROVE Light \/ Adds
    BY <1>16, <1>1 DEF Ledger!Reap, Light, LoadOf, Waiting, LedgerTypes, HandsInv, MakerHand
  <1>17. ASSUME Ledger!Load PROVE Light \/ Adds
    BY <1>17, <1>1 DEF Ledger!Load, Light, LoadOf, Waiting, LedgerTypes, HandsInv, MakerHand
  <1>18. ASSUME Ledger!Look PROVE Light \/ Adds
    BY <1>18, <1>1 DEF Ledger!Look, Light, LoadOf, Waiting, LedgerTypes, HandsInv, MakerHand
  <1>19. ASSUME Ledger!Count PROVE Light \/ Adds
    BY <1>19, <1>1 DEF Ledger!Count, Light, LoadOf, Waiting, LedgerTypes, HandsInv,
       MakerHand
  <1>20. ASSUME Ledger!Recompute PROVE Light \/ Adds
    BY <1>20, <1>1 DEF Ledger!Recompute, Light, LoadOf, Waiting, LedgerTypes, HandsInv,
       MakerHand
  <1>21. ASSUME NEW p \in Ledger!Procs, Ledger!Kill(p) PROVE FALSE
    BY <1>21 DEF Ledger!Kill, LedgerTypes
  <1> QED
    BY <1>2, <1>3, <1>4, <1>5, <1>6, <1>7, <1>8, <1>9, <1>10, <1>11,
       <1>12, <1>13, <1>14, <1>15, <1>16, <1>17, <1>18, <1>19, <1>20, <1>21
    DEF Ledger!Next, Ledger!Step, Ledger!Delete, Ledger!Reconcile

\* What a process has read is the counter, or nothing.
LEMMA ReadStep ==
  ASSUME LedgerTypes, Ledger!Next
  PROVE  \A p \in Ledger!Procs : read'[p] = read[p] \/ read'[p] = used \/ read'[p] = 0
  <1> DEFINE Reads == \A q \in Ledger!Procs : read'[q] = read[q] \/ read'[q] = used \/ read'[q] = 0
  <1>1. ASSUME NEW w \in Ledger!Makers, Ledger!Begin(w) PROVE Reads
    BY <1>1 DEF Ledger!Begin, LedgerTypes
  <1>2. ASSUME NEW w \in Ledger!Makers, Ledger!Put(w) PROVE Reads
    BY <1>2 DEF Ledger!Put, LedgerTypes
  <1>3. ASSUME NEW w \in Ledger!Makers, Ledger!InsertRow(w) PROVE Reads
    BY <1>3 DEF Ledger!InsertRow, LedgerTypes
  <1>4. ASSUME NEW w \in Ledger!Makers, Ledger!Charge(w) PROVE Reads
    BY <1>4 DEF Ledger!Charge, LedgerTypes
  <1>5. ASSUME NEW w \in Ledger!Makers, Ledger!Finish(w) PROVE Reads
    BY <1>5 DEF Ledger!Finish, LedgerTypes
  <1>6. ASSUME NEW w \in Ledger!Makers, NEW i \in Items, Ledger!Admit(w, i) PROVE Reads
    BY <1>6 DEF Ledger!Admit, LedgerTypes
  <1>7. ASSUME NEW j \in Jobs, Ledger!Checkpoint(j) PROVE Reads
    BY <1>7 DEF Ledger!Checkpoint, LedgerTypes
  <1>8. ASSUME NEW d \in Deleters, Ledger!Strip(d) PROVE Reads
    BY <1>8 DEF Ledger!Strip, LedgerTypes
  <1>9. ASSUME NEW p \in Ledger!Procs, Ledger!Unlink(p) PROVE Reads
    BY <1>9 DEF Ledger!Unlink, LedgerTypes
  <1>10. ASSUME NEW p \in Ledger!Procs, Ledger!Refund(p) PROVE Reads
    BY <1>10 DEF Ledger!Refund, LedgerTypes
  <1>11. ASSUME NEW p \in Ledger!Procs, NEW i \in Items, Ledger!FindAsset(p, i) PROVE Reads
    BY <1>11 DEF Ledger!FindAsset, LedgerTypes
  <1>12. ASSUME NEW d \in Deleters, NEW i \in Items, Ledger!FindExport(d, i) PROVE Reads
    BY <1>12 DEF Ledger!FindExport, LedgerTypes
  <1>13. ASSUME NEW d \in Deleters, NEW k \in Docs, Ledger!PurgeDocument(d, k) PROVE Reads
    BY <1>13 DEF Ledger!PurgeDocument, LedgerTypes
  <1>14. ASSUME NEW j \in Jobs, Ledger!Cancel(j) PROVE Reads
    BY <1>14 DEF Ledger!Cancel, LedgerTypes
  <1>15. ASSUME NEW j \in Jobs, Ledger!Reap(j) PROVE Reads
    BY <1>15 DEF Ledger!Reap, LedgerTypes
  <1>16. ASSUME Ledger!Load PROVE Reads
    BY <1>16 DEF Ledger!Load, LedgerTypes
  <1>17. ASSUME Ledger!Look PROVE Reads
    BY <1>17 DEF Ledger!Look, LedgerTypes
  <1>18. ASSUME Ledger!Count PROVE Reads
    BY <1>18 DEF Ledger!Count, LedgerTypes
  <1>19. ASSUME Ledger!Recompute PROVE Reads
    BY <1>19 DEF Ledger!Recompute, LedgerTypes
  <1>20. ASSUME NEW p \in Ledger!Procs, Ledger!Kill(p) PROVE FALSE
    BY <1>20 DEF Ledger!Kill, LedgerTypes
  <1> QED
    BY <1>1, <1>2, <1>3, <1>4, <1>5, <1>6, <1>7, <1>8, <1>9, <1>10,
       <1>11, <1>12, <1>13, <1>14, <1>15, <1>16, <1>17, <1>18, <1>19, <1>20
    DEF Ledger!Next, Ledger!Step, Ledger!Delete, Ledger!Reconcile

\* What is owed, as of a light step, does not grow.
LEMMA OwingStep ==
  ASSUME SizesApart, LedgerInv, LedgerInv', Ledger!Next, Light
  PROVE  Owing \in Int /\ Owing' \in Int /\ Owing' <= Owing
  <1>1. LedgerTypes /\ LedgerTypes' /\ HandsInv /\ HandsInv' /\ BooksInv /\ RecountInv
    BY DEF LedgerInv
  <1> DEFINE P == Paid \cap Ledger!Exports
             M == Ledger!Makers
  <1>2. /\ P \in SUBSET Items /\ P' \in SUBSET Items /\ P' = Paid' \cap Ledger!Exports
        /\ used \in Int /\ used' \in Int
    BY <1>1, PaidItems DEF LedgerTypes, Paid, Ledger!Exports
  <1>3. Ledger!Bytes(P) \in Nat /\ Ledger!Bytes(P') \in Nat
    BY <1>2, BytesSum
  <1>4. \A w \in M : Load[w] \in Nat /\ Load'[w] \in Nat
        /\ (Load'[w] = Load[w] \/ Load'[w] = 0)
    <2>1. \A w \in M : LoadOf(w) \in Nat /\ LoadOf(w)' \in Nat
      <3>1. \A w \in M : LoadOf(w) \in Nat
        BY <1>1, LoadIs
      <3>2. \A w \in M : LoadOf(w)' \in Nat
        BY <3>1 DEF Light
      <3> QED
        BY <3>1, <3>2
    <2>2. Load' = [w \in M |-> LoadOf(w)']
      BY DEF Load
    <2> QED
      BY <2>1, <2>2 DEF Load, Light
  <1>5. Sum(Load, M) \in Nat /\ Sum(Load', M) \in Nat /\ Sum(Load', M) <= Sum(Load, M)
    <2>1. IsFiniteSet(M)
      BY MakersCounted
    <2>2. \A w \in M : Load'[w] <= Load[w]
      BY <1>4
    <2> QED
      BY <1>4, <2>1, <2>2, SumNat, SumGrows
  <1>6. /\ Owing = used - Ledger!Bytes(P) + Sum(Load, M)
        /\ Owing' = used' - Ledger!Bytes(P') + Sum(Load', M)
    BY DEF Owing
  <1>7. ASSUME used' - Ledger!Bytes(P') + Sum(Load', M) <= used - Ledger!Bytes(P) + Sum(Load, M)
        PROVE  Owing \in Int /\ Owing' \in Int /\ Owing' <= Owing
    <2> HIDE DEF P, M
    <2> QED
      BY <1>2, <1>3, <1>5, <1>6, <1>7
  <1>8. ASSUME used' - Ledger!Bytes(P') <= used - Ledger!Bytes(P)
        PROVE  Owing \in Int /\ Owing' \in Int /\ Owing' <= Owing
    <2> HIDE DEF P, M
    <2> QED
      BY <1>2, <1>3, <1>5, <1>7, <1>8
  <1>9. ASSUME NEW w \in M, Ledger!Charge(w)
        PROVE  Owing \in Int /\ Owing' \in Int /\ Owing' <= Owing
    <2>1. PICK i \in Items :
            /\ hand[w] = {i} /\ used' = used + Size[i]
            /\ \/ i \in Early /\ Early' = Early \ {i} /\ Paid' = Paid
               \/ i \notin Paid /\ Paid' = Paid \cup {i} /\ Early' = Early
      BY <1>1, <1>9, ChargeEffect
    <2>2. Size[i] \in Nat
      BY LedgerConstants DEF QuotaInv
    <2>3. CASE i \in Ledger!Exports
      <3>1. i \notin P /\ P' = P \cup {i}
        BY <1>2, <2>1, <2>3, PaidItems, LedgerSpaces
      <3>2. Ledger!Bytes(P') = Ledger!Bytes(P) + Size[i]
        <4> HIDE DEF P
        <4>1. Ledger!Bytes(P \cup {i}) = Ledger!Bytes(P) + Size[i]
          BY <1>2, <3>1, BytesSum
        <4> QED
          BY <3>1, <4>1
      <3>3. used' - Ledger!Bytes(P') <= used - Ledger!Bytes(P)
        <4> HIDE DEF P
        <4> QED
          BY <1>2, <1>3, <2>1, <2>2, <3>2
      <3> QED
        BY <1>8, <3>3
    <2>4. CASE i \notin Ledger!Exports
      <3>1. P' = P
        BY <1>2, <2>1, <2>4
      <3>2. Load[w] = Size[i] /\ Load'[w] = 0
        <4>1. LoadOf(w) = Ledger!Bytes({i})
          BY <1>9, <2>1, <2>4 DEF Ledger!Charge, LoadOf
        <4>2. step'[w] \in {"next", "result"}
          BY <1>1, <1>9, LedgerConstants DEF Ledger!Charge, LedgerTypes
        <4>3. LoadOf(w)' = 0
          BY <4>2 DEF LoadOf
        <4> QED
          BY <4>1, <4>3, BytesSum DEF Load
      <3>3. \A v \in M \ {w} : Load'[v] = Load[v]
        <4>1. \A v \in M \ {w} : step'[v] = step[v] /\ hand'[v] = hand[v]
          BY <1>1, <1>9, LedgerConstants DEF Ledger!Charge, LedgerTypes
        <4> QED
          BY <4>1 DEF Load, LoadOf
      <3>4. Sum(Load', M) + Size[i] = Sum(Load, M) + 0
        BY <1>4, <3>2, <3>3, MakersCounted, SumChange
      <3>5. used' - Ledger!Bytes(P') + Sum(Load', M) <= used - Ledger!Bytes(P) + Sum(Load, M)
        <4>1. Ledger!Bytes(P') = Ledger!Bytes(P)
          BY <3>1
        <4> HIDE DEF P, M
        <4> QED
          BY <1>2, <1>3, <1>5, <2>1, <2>2, <3>4, <4>1
      <3> QED
        BY <1>7, <3>5
    <2> QED
      BY <2>3, <2>4
  <1>10. ASSUME NEW p \in Ledger!Procs, Ledger!Refund(p)
         PROVE  Owing \in Int /\ Owing' \in Int /\ Owing' <= Owing
    <2>1. /\ used' = used - Ledger!Bytes(hand[p])
          /\ \/ \E i \in Ledger!Assets :
                  /\ hand[p] = {i} /\ i \notin Early /\ Early' = Early \cup {i} /\ Paid' = Paid
             \/ hand[p] \subseteq Paid /\ Paid' = Paid \ hand[p] /\ Early' = Early
      BY <1>1, <1>10, RefundEffect
    <2>2. hand[p] \in SUBSET Items
      BY <1>1 DEF LedgerTypes
    <2>3. Ledger!Bytes(hand[p]) \in Nat
      BY <2>2, BytesSum
    <2>4. CASE Paid' = Paid
      <3>1. Ledger!Bytes(P') = Ledger!Bytes(P)
        BY <1>2, <2>4
      <3>2. used' - Ledger!Bytes(P') <= used - Ledger!Bytes(P)
        <4> HIDE DEF P
        <4> QED
          BY <1>2, <1>3, <2>1, <2>3, <3>1
      <3> QED
        BY <1>8, <3>2
    <2>5. CASE hand[p] \subseteq Paid /\ Paid' = Paid \ hand[p]
      <3> DEFINE H == hand[p] \cap Ledger!Exports
      <3>1. H \in SUBSET P /\ P' = P \ H /\ H \in SUBSET hand[p]
        BY <1>2, <2>5
      <3>2. Ledger!Bytes(P) = Ledger!Bytes(H) + Ledger!Bytes(P \ H)
        <4> HIDE DEF P, H
        <4> QED
          BY <1>2, <3>1, BytesSum
      <3>3. /\ Ledger!Bytes(hand[p]) = Ledger!Bytes(H) + Ledger!Bytes(hand[p] \ H)
            /\ Ledger!Bytes(hand[p] \ H) \in Nat /\ Ledger!Bytes(H) \in Nat
        <4>1. hand[p] \ H \in SUBSET Items /\ H \in SUBSET Items
          BY <2>2
        <4> HIDE DEF H
        <4> QED
          BY <2>2, <3>1, <4>1, BytesSum
      <3>4. Ledger!Bytes(P') = Ledger!Bytes(P \ H)
        BY <3>1
      <3>5. used' - Ledger!Bytes(P') <= used - Ledger!Bytes(P)
        <4> HIDE DEF P, H
        <4> QED
          BY <1>2, <1>3, <2>1, <2>3, <3>2, <3>3, <3>4
      <3> QED
        BY <1>8, <3>5
    <2> QED
      BY <2>1, <2>4, <2>5
  <1>11. ASSUME Still, used' = used PROVE Owing \in Int /\ Owing' \in Int /\ Owing' <= Owing
    <2>1. P' = P
      BY <1>2, <1>11 DEF Still
    <2>2. used' - Ledger!Bytes(P') <= used - Ledger!Bytes(P)
      <3>1. Ledger!Bytes(P') = Ledger!Bytes(P)
        BY <2>1
      <3> HIDE DEF P
      <3> QED
        BY <1>2, <1>3, <1>11, <3>1
    <2> QED
      BY <1>8, <2>2
  <1>12. ASSUME Ledger!Recompute PROVE used' = used
    BY <1>1, <1>12, RecountExact DEF Ledger!Recompute
  <1> QED
    BY <1>1, <1>9, <1>10, <1>11, <1>12, OthersStill

LEMMA RoomGrows ==
  ASSUME NEW S \in SUBSET Ledger!Makers, NEW T \in SUBSET S
  PROVE  /\ Quota + Ledger!Largest * (Cardinality(Ledger!Makers) - 1 - Cardinality(S)) \in Int
         /\ Quota + Ledger!Largest * (Cardinality(Ledger!Makers) - 1 - Cardinality(S))
            <= Quota + Ledger!Largest * (Cardinality(Ledger!Makers) - 1 - Cardinality(T))
  <1> DEFINE a == Cardinality(Ledger!Makers) - 1 - Cardinality(S)
             b == Cardinality(Ledger!Makers) - 1 - Cardinality(T)
             m == Ledger!Largest
  <1>1. Cardinality(T) <= Cardinality(S) /\ Cardinality(T) \in Nat /\ Cardinality(S) \in Nat
    BY MakersCounted, FS_Subset
  <1>2. a \in Int /\ b \in Int /\ a <= b /\ m \in Nat /\ Quota \in Nat
    BY <1>1, MakersCounted, LargestSize, LedgerConstants
  <1> HIDE DEF a, b, m
  <1>3. m * a \in Int /\ m * b \in Int /\ m * a <= m * b
    BY <1>2
  <1>4. Quota + m * a \in Int /\ Quota + m * a <= Quota + m * b
    BY <1>2, <1>3
  <1> QED
    BY <1>4 DEF a, b, m

\* Who is let in has read a counter that leaves room for it: a job the one there is, an upload
\* the one it began with, which its place among the waiting keeps.
LEMMA QuotaStep ==
  ASSUME SizesApart, LedgerInv, LedgerInv', LedgerMoves, QuotaInv PROVE QuotaInv'
  <1>1. LedgerTypes /\ LedgerTypes' /\ HandsInv /\ HandsInv' /\ BooksInv
        /\ Ledger!Next
    BY DEF LedgerInv, LedgerMoves
  <1>2. Waiting \subseteq Ledger!Makers /\ Waiting' \subseteq Ledger!Makers
    BY LedgerConstants DEF Waiting
  <1>3. ASSUME Light PROVE QuotaInv'
    <2>1. CASE spent \subseteq Ledger!Exports /\ \A p \in Ledger!Procs : read[p] >= 0
      <3>1. spent' \subseteq Ledger!Exports
        BY <1>3, <2>1 DEF Light
      <3>2. \A p \in Ledger!Procs : read'[p] >= 0
        BY <1>1, <2>1, OnlyExports, ReadStep
      <3> QED
        BY <3>1, <3>2 DEF QuotaInv, Ledger!Exports
    <2>2. CASE Owing <= Room
      <3>1. Owing \in Int /\ Owing' \in Int /\ Owing' <= Owing
        BY <1>1, <1>3, OwingStep
      <3>2. Room \in Int /\ Room' \in Int /\ Room <= Room'
        <4>1. Waiting' \in SUBSET Waiting /\ Waiting \in SUBSET Ledger!Makers
              /\ Waiting' \in SUBSET Ledger!Makers
          BY <1>2, <1>3 DEF Light
        <4>2. Room' = Quota + Ledger!Largest
                                * (Cardinality(Ledger!Makers) - 1 - Cardinality(Waiting'))
          BY DEF Room
        <4> QED
          BY <4>1, <4>2, RoomGrows DEF Room
      <3>3. Owing' <= Room'
        BY <2>2, <3>1, <3>2
      <3> QED
        BY <3>3 DEF QuotaInv
    <2> QED
      BY <2>1, <2>2 DEF QuotaInv
  <1>4. ASSUME NEW w \in Ledger!Makers, NEW i \in Items \ Ledger!Exports, Ledger!Admit(w, i)
        PROVE  QuotaInv'
    <2> DEFINE M == Ledger!Makers
               L == Ledger!Largest
               P == Paid \cap Ledger!Exports
    <2>1. /\ step[w] = "next" /\ hand'[w] = {i} /\ step'[w] = "put" /\ w \in begun
          /\ UNCHANGED <<used, rows, blobs, begun>>
          /\ \A q \in Ledger!Procs : q # w => step'[q] = step[q] /\ hand'[q] = hand[q]
          /\ Ledger!Reading(w) + Size[i] <= Quota
      <3>1. w \in begun
        BY <1>1, <1>4 DEF Ledger!Admit, HandsInv, MakerHand
      <3> QED
        BY <1>1, <1>4, <3>1, LedgerConstants DEF Ledger!Admit, LedgerTypes
    <2>2. Size[i] \in Nat /\ Size[i] <= L /\ L \in Nat /\ Quota \in Nat
          /\ used \in Int /\ used' = used
      BY <1>1, <2>1, LedgerConstants, LargestSize DEF LedgerTypes
    <2>3. Still
      <3>1. /\ ~ (\E v \in Ledger!Makers : Ledger!Charge(v))
            /\ ~ (\E p \in Ledger!Procs : Ledger!Refund(p))
        BY <1>1, <1>4, <2>1 DEF Ledger!Charge, Ledger!Refund, Ledger!Admit, LedgerTypes
      <3> QED
        BY <1>1, <3>1, OthersStill
    <2>4. /\ P \in SUBSET Items /\ P' = P
          /\ Ledger!Bytes(P) \in Nat /\ Ledger!Bytes(P') = Ledger!Bytes(P)
      <3>1. P \in SUBSET Items /\ P' = P
        BY <2>3, PaidItems DEF Still, Ledger!Exports
      <3> QED
        BY <3>1, BytesSum
    <2>5. Load[w] = 0 /\ Load'[w] = Size[i]
      <3>1. LoadOf(w) = 0
        BY <2>1 DEF LoadOf
      <3>2. LoadOf(w)' = Ledger!Bytes({i})
        BY <2>1 DEF LoadOf, Ledger!Bytes, Ledger!MapThenSumSet, Ledger!MapThenFoldSet,
           Ledger!Exports
      <3>3. Load' = [v \in M |-> LoadOf(v)']
        BY DEF Load
      <3> QED
        BY <3>1, <3>2, <3>3, BytesSum DEF Load
    <2>6. \A v \in M \ {w} : Load'[v] = Load[v]
      BY <2>1, LedgerConstants DEF Load, LoadOf
    <2>7. \A v \in M : Load[v] \in Nat /\ Load'[v] \in Nat
      BY <1>1, <2>2, <2>5, <2>6, LoadIs DEF Load
    <2>8. /\ Sum(Load, M) \in Nat /\ Sum(Load', M) \in Nat
          /\ Sum(Load', M) + 0 = Sum(Load, M) + Size[i]
      BY <2>5, <2>6, <2>7, MakersCounted, SumChange, SumNat
    <2>9. Waiting' = Waiting \ {w} /\ w \notin Waiting' /\ (w \in Waiting <=> w \in Uploads)
      BY <2>1, LedgerConstants DEF Waiting
    <2>10. /\ Owing = used - Ledger!Bytes(P) + Sum(Load, M)
           /\ Owing' = used' - Ledger!Bytes(P') + Sum(Load', M)
           /\ Room = Quota + L * (Cardinality(M) - 1 - Cardinality(Waiting))
           /\ Room' = Quota + L * (Cardinality(M) - 1 - Cardinality(Waiting'))
      BY DEF Owing, Room
    <2>11. IsFiniteSet(Waiting) /\ Cardinality(Waiting) \in Nat
           /\ IsFiniteSet(Waiting') /\ Cardinality(Waiting') \in Nat
           /\ Cardinality(M) \in Nat
      BY <1>2, MakersCounted
    \* A waiting upload gives up the room that was kept for it.
    <2>12. CASE w \in Uploads /\ Owing <= Room
      <3>1. Cardinality(Waiting') = Cardinality(Waiting) - 1
        BY <2>9, <2>11, <2>12, FS_RemoveElement
      <3>2. L * (Cardinality(M) - 1 - Cardinality(Waiting'))
              = L * (Cardinality(M) - 1 - Cardinality(Waiting)) + L
           /\ L * (Cardinality(M) - 1 - Cardinality(Waiting)) \in Int
        <4> DEFINE a == Cardinality(M) - 1 - Cardinality(Waiting)
        <4>1. a \in Int /\ Cardinality(M) - 1 - Cardinality(Waiting') = a + 1
          BY <2>11, <3>1
        <4> HIDE DEF a, L
        <4>2. L * (a + 1) = L * a + L /\ L * a \in Int
          BY <2>2, <4>1
        <4> QED
          BY <4>1, <4>2 DEF a
      <3>3. Owing' <= Room'
        <4> HIDE DEF P, M, L
        <4> QED
          BY <2>2, <2>4, <2>8, <2>10, <2>12, <3>2
      <3> QED
        BY <3>3 DEF QuotaInv
    \* A job reads the counter as it is; who is not waiting has at most one file in hand.
    <2>13. CASE \/ w \in Jobs
                \/ spent \subseteq Ledger!Exports /\ \A p \in Ledger!Procs : read[p] >= 0
      <3> DEFINE T == Waiting' \cup {w}
      <3>1. T \in SUBSET M /\ Cardinality(T) = Cardinality(Waiting') + 1
        BY <1>2, <2>9, <2>11, FS_AddElement
      <3>2. \A v \in T : LoadOf(v) = 0
        <4>1. \A v \in Waiting : LoadOf(v) = 0
          BY <1>1, LoadIs
        <4> QED
          BY <2>5, <2>9, <4>1 DEF Load
      <3>3. Sum(Load, M) <= L * (Cardinality(M) - 1 - Cardinality(Waiting'))
        <4> HIDE DEF T
        <4>1. Sum(Load, M) <= L * (Cardinality(M) - Cardinality(T))
          BY <1>1, <3>1, <3>2, LoadsBound
        <4>2. Cardinality(M) - Cardinality(T) = Cardinality(M) - 1 - Cardinality(Waiting')
          BY <2>11, <3>1
        <4> QED
          BY <4>1, <4>2
      <3>4. used - Ledger!Bytes(P) + Size[i] <= Quota
        <4>1. CASE w \in Jobs
          <5> HIDE DEF P
          <5> QED
            BY <2>1, <2>2, <2>4, <4>1 DEF Ledger!Reading
        <4>2. CASE spent \subseteq Ledger!Exports /\ \A p \in Ledger!Procs : read[p] >= 0
          <5>1. used = Ledger!Bytes(P) /\ used >= 0
            BY <1>1, <4>2, OnlyExports
          <5>2. read[w] \in Int /\ read[w] >= 0
            BY <1>1, <4>2, LedgerConstants DEF LedgerTypes
          <5>3. Ledger!Reading(w) \in Int /\ Ledger!Reading(w) >= 0
            BY <2>2, <5>1, <5>2 DEF Ledger!Reading
          <5>4. used - Ledger!Bytes(P) = 0
            <6> HIDE DEF P
            <6> QED
              BY <2>2, <2>4, <5>1
          <5> HIDE DEF P
          <5> QED
            BY <2>1, <2>2, <5>3, <5>4
        <4> QED
          BY <2>13, <4>1, <4>2
      <3>5. Owing' <= Room'
        <4> DEFINE r == L * (Cardinality(M) - 1 - Cardinality(Waiting'))
                   s == Sum(Load, M)
        <4>1. r \in Int /\ s \in Nat /\ s <= r
          BY <2>2, <2>8, <2>11, <3>3
        <4>2. Room' = Quota + r /\ Owing' = used' - Ledger!Bytes(P') + Sum(Load', M)
              /\ Sum(Load', M) + 0 = s + Size[i] /\ Sum(Load', M) \in Nat
          BY <2>8, <2>10
        <4> HIDE DEF P, M, L, r, s
        <4> QED
          BY <2>2, <2>4, <3>4, <4>1, <4>2
      <3> QED
        BY <3>5 DEF QuotaInv
    <2>14. w \in Uploads \/ w \in Jobs
      BY LedgerConstants
    <2> QED
      BY <2>12, <2>13, <2>14 DEF QuotaInv
  <1> QED
    BY <1>1, <1>3, <1>4, LightStep DEF Adds

LEMMA QuotaInit == ASSUME Ledger!Init PROVE QuotaInv
  BY DEF Ledger!Init, QuotaInv

LEMMA LedgerLimit == ASSUME LedgerInv, QuotaInv PROVE Ledger!QuotaHeld
  <1>1. LedgerTypes /\ HandsInv /\ BooksInv
    BY DEF LedgerInv
  <1> DEFINE P == Paid \cap Ledger!Exports
             E == spent \cap Ledger!Exports
             n == Cardinality(Ledger!Makers)
             L == Ledger!Largest
             k == Cardinality(Waiting)
  <1>2. P \in SUBSET E /\ E \in SUBSET Items
    BY <1>1, PaidMade DEF LedgerTypes
  <1>3. Ledger!Bytes(E) = Ledger!Bytes(P) + Ledger!Bytes(E \ P)
        /\ Ledger!Bytes(P) \in Nat /\ Ledger!Bytes(E \ P) \in Nat
    <2>1. P \in SUBSET Items /\ E \ P \in SUBSET Items
      BY <1>2
    <2> HIDE DEF P, E
    <2> QED
      BY <1>2, <2>1, BytesSum
  <1>4. L \in Nat /\ n \in Nat /\ n >= 1 /\ k \in Nat /\ Quota \in Nat /\ used \in Int
    <2>1. Waiting \in SUBSET Ledger!Makers
      BY LedgerConstants DEF Waiting
    <2> QED
      BY <1>1, <2>1, MakersCounted, LargestSize, LedgerConstants DEF LedgerTypes
  <1>5. Ledger!QuotaHeld <=> used <= Quota + Ledger!Bytes(E) + (n - 1) * L
    BY MakersCounted DEF Ledger!QuotaHeld
  <1>6. (n - 1) * L \in Nat /\ L * (n - 1 - k) \in Int /\ L * (n - 1 - k) <= (n - 1) * L
    <2> HIDE DEF n, L, k
    <2>1. (n - 1) * L \in Nat /\ (n - 1) * L = L * (n - 1)
      BY <1>4
    <2>2. n - 1 - k \in Int /\ n - 1 - k <= n - 1 /\ n - 1 \in Int
      BY <1>4
    <2>3. L * (n - 1 - k) \in Int /\ L * (n - 1 - k) <= L * (n - 1)
      BY <1>4, <2>2
    <2> QED
      BY <2>1, <2>3
  <1>7. CASE spent \subseteq Ledger!Exports
    <2>1. used = Ledger!Bytes(P)
      BY <1>1, <1>7, OnlyExports
    <2> HIDE DEF P, E, n, L, k
    <2> QED
      BY <1>3, <1>4, <1>5, <1>6, <2>1
  <1>8. CASE Owing <= Room
    <2>1. Sum(Load, Ledger!Makers) \in Nat
      <3>1. {} \in SUBSET Ledger!Makers /\ \A w \in {} : LoadOf(w) = 0
        OBVIOUS
      <3> QED
        BY <1>1, <3>1, LoadsBound
    <2>2. used - Ledger!Bytes(P) + Sum(Load, Ledger!Makers) <= Quota + L * (n - 1 - k)
      BY <1>8 DEF Owing, Room
    <2> HIDE DEF P, E, n, L, k
    <2> QED
      BY <1>3, <1>4, <1>5, <1>6, <2>1, <2>2
  <1> QED
    BY <1>7, <1>8 DEF QuotaInv

-----------------------------------------------------------------------------
(* Records.  Where one part moves the others stay as they are.             *)

\* A step of Records moves one part, under its condition.
LEMMA PartsMove ==
  ASSUME [Next]_vars
  PROVE  /\ DraftMoves \/ UNCHANGED draftVars
         /\ LedgerMoves \/ UNCHANGED ledgerVars
         /\ SessionMoves \/ UNCHANGED guestVars
         /\ MeterMoves \/ UNCHANGED meterVars
  BY DEF Next, vars, DraftMoves, LedgerMoves, SessionMoves, MeterMoves

\* A part that does not move keeps its invariant.
LEMMA DraftStays == ASSUME DraftInv, UNCHANGED draftVars PROVE DraftInv' /\ Draft!SentStays
  <1>1. Draft!TypeOK'
    BY DEF draftVars, DraftInv, Draft!TypeOK, Draft!Status, Draft!Handlers
  <1>2. Draft!SourceReadable' /\ SweepInv' /\ \A w \in Windows : WindowInv(w)'
    BY DEF draftVars, DraftInv, Draft!SourceReadable, SweepInv, WindowInv
  <1>3. \A h \in Draft!Handlers : at'[h] # "idle" =>
          \A g \in Draft!Handlers \ {h} : at'[g] = "idle"
    BY DEF draftVars, DraftInv
  <1>4. Draft!SentStays
    BY DEF draftVars, Draft!SentStays, Draft!SentIsComplete, Draft!SourceFrozen,
       Draft!LayoutFrozen, Draft!SentIsKept
  <1> QED
    BY <1>1, <1>2, <1>3, <1>4 DEF DraftInv, Draft!Handlers

LEMMA SessionStays == ASSUME SessionInv, UNCHANGED guestVars PROVE SessionInv'
  <1>1. Session!TypeOK'
    BY DEF guestVars, SessionInv, Session!TypeOK
  <1>2. Session!WorkFollows' /\ PurgeInv'
    BY DEF guestVars, SessionInv, Session!WorkFollows, PurgeInv
  <1>3. CountInv'
    <2>1. AllDone' = AllDone /\ \A x : DoneFor(x)' = DoneFor(x)
      BY DEF guestVars, AllDone, DoneFor
    <2> QED
      BY <2>1 DEF guestVars, SessionInv, CountInv
  <1>4. \A p \in GuestMakers : MakerInv(p)'
    BY DEF guestVars, SessionInv, MakerInv, Session!Busy
  <1>5. \A c \in Users : ClaimInv(c)'
    BY DEF guestVars, SessionInv, ClaimInv
  <1> QED
    BY <1>1, <1>2, <1>3, <1>4, <1>5 DEF guestVars, SessionInv

LEMMA MeterStays == ASSUME MeterInv, UNCHANGED meterVars PROVE MeterInv'
  <1>1. MeterTypes'
    BY DEF meterVars, MeterInv, MeterTypes
  <1>2. /\ \A b : InBucket(b)' = InBucket(b) /\ Live(b)' = Live(b)
        /\ \A g : BucketOf(g)' = BucketOf(g)
        /\ Recent' = Recent /\ Meter!InFlight' = Meter!InFlight
    BY DEF meterVars, InBucket, Live, BucketOf, Recent, Meter!InFlight
  <1>3. KeysInv'
    BY <1>2 DEF meterVars, MeterInv, KeysInv
  <1>4. DoorInv'
    BY <1>2 DEF meterVars, MeterInv, DoorInv
  <1> QED
    BY <1>1, <1>3, <1>4 DEF MeterInv

LEMMA LedgerStays ==
  ASSUME UNCHANGED ledgerVars
  PROVE  /\ LedgerTypes => LedgerTypes'
         /\ LedgerInv => LedgerInv'
         /\ QuotaInv => QuotaInv'
  <1>1. LedgerTypes => LedgerTypes'
    BY DEF ledgerVars, LedgerTypes
  <1>2. ASSUME HandsInv PROVE HandsInv'
    <2>1. (\A w \in Ledger!Makers : MakerHand(w)') /\ \A d \in Deleters : DeleterHand(d)'
      BY <1>2 DEF ledgerVars, HandsInv, MakerHand, DeleterHand, Held
    <2>2. OneHand' /\ CalmInv' /\ RowsInv'
      BY <1>2 DEF ledgerVars, HandsInv, OneHand, CalmInv, RowsInv, Ledger!Deleting
    <2> QED
      BY <2>1, <2>2 DEF HandsInv
  <1>3. Paid' = Paid /\ Early' = Early
    BY DEF ledgerVars, Paid, Early, At
  <1>4. BooksInv => BooksInv'
    BY <1>3 DEF ledgerVars, BooksInv
  <1>5. \A B, T : RecountOf(B, T)' <=> RecountOf(B, T)
    BY <1>3 DEF ledgerVars, RecountOf
  <1>6. RecountInv => RecountInv'
    BY <1>5 DEF ledgerVars, RecountInv
  <1>7. Load' = Load /\ Waiting' = Waiting
    BY DEF ledgerVars, Load, LoadOf, Waiting
  <1>8. Owing' = Owing /\ Room' = Room
    BY <1>3, <1>7 DEF ledgerVars, Owing, Room
  <1>9. QuotaInv => QuotaInv'
    BY <1>8 DEF ledgerVars, QuotaInv
  <1> QED
    BY <1>1, <1>2, <1>4, <1>6, <1>9 DEF LedgerInv

PartsInv == DraftInv /\ SessionInv /\ MeterInv /\ LedgerTypes

\* The invariants that need no more than the conditions.
LEMMA PartsCorrect == Spec => []PartsInv
  <1>1. Init => PartsInv
    BY DraftInit, SessionInit, MeterInit, LedgerInit DEF Init, PartsInv, LedgerInv
  <1>2. PartsInv /\ [Next]_vars => PartsInv'
    BY PartsMove, DraftStep, DraftStays, SessionStep, SessionStays, MeterStep, MeterStays,
       LedgerTypesStep, LedgerStays DEF PartsInv, LedgerMoves
  <1> QED
    BY <1>1, <1>2, PTL DEF Spec

\* The values every part's state can have.
THEOREM TypeCorrect == Spec => []TypeOK
  <1>1. PartsInv => Draft!TypeOK /\ Session!TypeOK /\ Meter!TypeOK /\ Ledger!TypeOK
    BY MeterTypesAre, LedgerTypesAre DEF PartsInv, DraftInv, SessionInv
  <1>2. Spec => []Chain!TypeOK
    BY ChainTypes
  <1>3. Draft!TypeOK /\ Session!TypeOK /\ Meter!TypeOK /\ Ledger!TypeOK /\ Chain!TypeOK
        /\ Slots!TypeOK => TypeOK
    BY DEF TypeOK
  <1> QED
    BY <1>1, <1>2, <1>3, PartsCorrect, SlotsCorrect, PTL

\* The file that is to be signed can be read until the request is over, whatever is edited,
\* trashed or purged; and what a guest has made goes to the account that claims it, so that
\* the purge of the session deletes nothing of an account.
THEOREM KeptCorrect == Spec => []KeptWhileNeeded
  <1>1. PartsInv => KeptWhileNeeded
    BY DEF PartsInv, DraftInv, SessionInv, KeptWhileNeeded
  <1> QED
    BY <1>1, PartsCorrect, PTL

\* A request that is sent is complete and stays what was sent.
THEOREM SentCorrect == Spec => SentStays
  <1>1. PartsInv /\ [Next]_vars => Draft!SentStays
    BY PartsMove, DraftStep, DraftStays DEF PartsInv
  <1>2. PartsInv /\ [Next]_vars => [Draft!SentStays]_vars
    BY <1>1
  <1> QED
    BY <1>2, PartsCorrect, PTL DEF Spec, SentStays

BooksKept == LedgerInv /\ QuotaInv

\* The ledger's, which a recount keeps if sizes are apart.
LEMMA BooksCorrect == ASSUME SizesApart PROVE Spec => []BooksKept
  <1>1. Init => BooksKept
    BY LedgerInit, QuotaInit DEF Init, BooksKept
  <1>2. BooksKept /\ [Next]_vars => BooksKept'
    BY PartsMove, LedgerStep, QuotaStep, LedgerStays DEF BooksKept
  <1> QED
    BY <1>1, <1>2, PTL DEF Spec

\* Whenever nothing is under way the counter of an account is what it is charged for, through
\* jobs, batches, cancellations, deletions and recounts; and so are those of a guest and of
\* the account that claims what the guest made.
THEOREM SettledCorrect == ASSUME SizesApart PROVE Spec => []Settled
  <1>1. BooksKept /\ PartsInv => Settled
    BY LedgerSettled, SessionSettled DEF BooksKept, PartsInv, Settled
  <1> QED
    BY <1>1, BooksCorrect, PartsCorrect, PTL

\* The limits hold: the quota, but for exports and one file for each other writer; the slots
\* and hourly operations of a tier; the attempts at a password.
THEOREM LimitsCorrect == ASSUME SizesApart PROVE Spec => []LimitsHold
  <1>1. BooksKept /\ PartsInv /\ Slots!SlotsHold => LimitsHold
    BY LedgerLimit, MeterLimits DEF BooksKept, PartsInv, LimitsHold
  <1> QED
    BY <1>1, BooksCorrect, PartsCorrect, SlotsCorrect, PTL

=============================================================================
