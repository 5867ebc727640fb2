--------------------------- MODULE DappGetProofs ---------------------------
(***************************************************************************)
(* Proofs about DappGet.                                                   *)
(***************************************************************************)
EXTENDS DappGet, FiniteSetTheorems, TLAPS

----------------------------------------------------------------------------
\* Least elements, from which inductions are made, and enumerations

LEMMA LeastNat ==
  ASSUME NEW T \in SUBSET Nat, T # {}
  PROVE  \E x \in T : \A y \in T : x <= y
<1> DEFINE Below == {0..x : x \in T}
<1>1. Below \subseteq FiniteSubsetsOf(Nat) /\ Below # {}
  <2>1. \A x \in T : 0..x \in SUBSET Nat /\ IsFiniteSet(0..x)
    BY FS_Interval
  <2>2. \A x \in T : 0..x \in FiniteSubsetsOf(Nat)
    BY <2>1 DEF FiniteSubsetsOf
  <2> QED
    BY <2>2
<1>2. PICK b \in Below : \A c \in Below : <<c, b>> \notin StrictSubsetOrdering(Nat)
  <2>1. IsWellFoundedOn(StrictSubsetOrdering(Nat), FiniteSubsetsOf(Nat))
    BY FS_StrictSubsetOrderingWellFounded
  <2> HIDE DEF Below
  <2> QED
    BY <1>1, <2>1, WFMin
<1>3. PICK x \in T : b = 0..x
  BY <1>2
<1>4. ASSUME NEW y \in T, y < x PROVE FALSE
  <2>1. 0..y \in Below /\ 0..y \subseteq b /\ 0..y # b /\ b \subseteq Nat
    BY <1>3, <1>4
  <2> QED
    BY <1>2, <2>1 DEF StrictSubsetOrdering
<1> QED
  BY <1>4

\* What Listing promises: every member, once.
LEMMA ListingIs ==
  ASSUME NEW S, IsFiniteSet(S)
  PROVE  /\ Cardinality(S) \in Nat
         /\ Listing(S) \in [1..Cardinality(S) -> S]
         /\ \A x \in S : \E i \in 1..Cardinality(S) : Listing(S)[i] = x
         /\ \A i, j \in 1..Cardinality(S) : Listing(S)[i] = Listing(S)[j] => i = j
<1>1. ExistsBijection(1..Cardinality(S), S) /\ Cardinality(S) \in Nat
  BY FS_CardinalityType
<1>2. Listing(S) \in Bijection(1..Cardinality(S), S)
  <2>1. PICK s \in Bijection(1..Cardinality(S), S) : TRUE
    BY <1>1 DEF ExistsBijection
  <2> QED
    BY <2>1 DEF Listing
<1> QED
  BY <1>1, <1>2 DEF Bijection, Injection, IsInjective, Surjection

\* How many members of S are smaller than v
Smaller(S, v) == Cardinality({u \in S : u < v})

LEMMA SmallerIs ==
  ASSUME NEW S \in SUBSET Nat, IsFiniteSet(S), NEW v \in S
  PROVE  /\ Smaller(S, v) \in 0..Cardinality(S) - 1
         /\ \A w \in S : v < w => Smaller(S, v) < Smaller(S, w)
<1>1. ASSUME NEW A \in SUBSET S, NEW B \in SUBSET S, NEW x \in B, A \subseteq B, x \notin A
      PROVE  /\ Cardinality(A) \in Nat /\ Cardinality(B) \in Nat
             /\ Cardinality(A) < Cardinality(B)
  <2>1. IsFiniteSet(A) /\ IsFiniteSet(B)
    BY FS_Subset
  <2>2. Cardinality(A) <= Cardinality(B) /\ Cardinality(A) # Cardinality(B)
    BY <1>1, <2>1, FS_Subset
  <2> QED
    BY <2>1, <2>2, FS_CardinalityType
<1>2. Smaller(S, v) \in 0..Cardinality(S) - 1
  <2> DEFINE A == {u \in S : u < v}
  <2>1. A \in SUBSET S /\ v \notin A /\ S \in SUBSET S
    OBVIOUS
  <2>2. Cardinality(A) \in Nat /\ Cardinality(S) \in Nat /\ Cardinality(A) < Cardinality(S)
    BY <2>1, <1>1
  <2> QED
    BY <2>2 DEF Smaller
<1>3. ASSUME NEW w \in S, v < w PROVE Smaller(S, v) < Smaller(S, w)
  <2> DEFINE A == {u \in S : u < v}
             B == {u \in S : u < w}
  <2>1. A \in SUBSET S /\ B \in SUBSET S /\ v \in B
    BY <1>3
  <2>2. ~(v < v) /\ \A u \in S : u < v => u < w
    BY <1>3
  <2>3. A \subseteq B /\ v \notin A
    BY <2>2, Zenon
  <2>4. Cardinality(A) < Cardinality(B)
    BY <2>1, <2>3, <1>1
  <2> QED
    BY <2>4 DEF Smaller
<1> QED
  BY <1>2, <1>3

\* Ascending lists every member of the set once, the smaller ones first.
LEMMA AscendingIs ==
  ASSUME NEW S \in SUBSET Nat, IsFiniteSet(S)
  PROVE  /\ Cardinality(S) \in Nat
         /\ Ascending(S) \in [1..Cardinality(S) -> S]
         /\ \A v \in S : \E k \in 1..Cardinality(S) : Ascending(S)[k] = v
         /\ \A i, j \in 1..Cardinality(S) : i < j => Ascending(S)[i] < Ascending(S)[j]
<1> DEFINE N == Cardinality(S)
           c == [v \in S |-> Smaller(S, v)]
<1>1. N \in Nat
  BY FS_CardinalityType
<1>2. \A v, w \in S : v < w => c[v] < c[w]
  BY SmallerIs
<1>3. c \in [S -> 0..N - 1]
  BY SmallerIs
<1>4. \A v, w \in S : c[v] = c[w] => v = w
  <2> SUFFICES ASSUME NEW v \in S, NEW w \in S, c[v] = c[w], v # w PROVE FALSE
    OBVIOUS
  <2>1. v < w \/ w < v
    OBVIOUS
  <2> HIDE DEF c, N
  <2>2. c[v] \in 0..N - 1 /\ c[w] \in 0..N - 1
    BY <1>3
  <2> QED
    BY <2>1, <2>2, <1>2
<1>5. \A k \in 0..N - 1 : \E v \in S : c[v] = k
  <2>1. c \in Injection(S, 0..N - 1)
    BY <1>3, <1>4 DEF Injection, IsInjective
  <2>2. IsFiniteSet(0..N - 1) /\ Cardinality(0..N - 1) = N
    <3> HIDE DEF N
    <3>1. 0 \in Int /\ N - 1 \in Int
      BY <1>1
    <3> QED
      BY <1>1, <3>1, FS_Interval
  <2>3. c \in Surjection(S, 0..N - 1)
    BY <2>1, <2>2, FS_Injection
  <2> QED
    BY <2>3 DEF Surjection
<1>6. \A k \in 1..N : Ascending(S)[k] \in S /\ c[Ascending(S)[k]] = k - 1
  <2> TAKE k \in 1..N
  <2>1. k - 1 \in 0..N - 1
    BY <1>1
  <2>2. \E v \in S : Smaller(S, v) = k - 1
    BY <1>5, <2>1
  <2>3. Ascending(S)[k] = CHOOSE v \in S : Smaller(S, v) = k - 1
    BY DEF Ascending, Smaller
  <2> QED
    BY <2>2, <2>3
<1>7. Ascending(S) \in [1..N -> S]
  <2> DEFINE nth(k) == CHOOSE v \in S : Cardinality({u \in S : u < v}) = k - 1
  <2>1. Ascending(S) = [k \in 1..N |-> nth(k)]
    BY DEF Ascending
  <2>2. \A k \in 1..N : nth(k) \in S
    BY <1>6, <2>1
  <2> HIDE DEF nth
  <2> QED
    BY <2>1, <2>2
<1>8. \A v \in S : \E k \in 1..N : Ascending(S)[k] = v
  <2> TAKE v \in S
  <2>1. c[v] + 1 \in 1..N /\ c[v] \in Nat
    BY <1>1, <1>3
  <2>2. Ascending(S)[c[v] + 1] \in S /\ c[Ascending(S)[c[v] + 1]] = c[v]
    BY <2>1, <1>6
  <2> QED
    BY <2>1, <2>2, <1>4
<1>9. \A i, j \in 1..N : i < j => Ascending(S)[i] < Ascending(S)[j]
  <2> SUFFICES ASSUME NEW i \in 1..N, NEW j \in 1..N, i < j, ~(Ascending(S)[i] < Ascending(S)[j])
               PROVE  FALSE
    OBVIOUS
  <2> DEFINE a == Ascending(S)[i]
             b == Ascending(S)[j]
  <2>1. a \in S /\ b \in S /\ c[a] = i - 1 /\ c[b] = j - 1 /\ ~(a < b)
    BY <1>6
  <2> HIDE DEF a, b, c
  <2>2. a = b \/ b < a
    BY <2>1
  <2> QED
    BY <2>1, <2>2, <1>2
<1> QED
  BY <1>1, <1>6, <1>7, <1>8, <1>9

\* Lists of different packages
List(s) == s \in Seq(Name) /\ IsInjective(s)

LEMMA EnumerationIsList ==
  ASSUME NEW N \in Nat, NEW s \in [1..N -> Name],
         \A i, j \in 1..N : s[i] = s[j] => i = j
  PROVE  List(s) /\ Len(s) = N /\ DOMAIN s = 1..N
  BY DEF List, IsInjective

LEMMA ConcatIsList ==
  ASSUME NEW s, NEW t, List(s), List(t), Range(s) \cap Range(t) = {}
  PROVE  List(s \o t) /\ Range(s \o t) = Range(s) \cup Range(t)
<1>1. /\ s \o t \in Seq(Name)
      /\ Len(s) \in Nat /\ Len(t) \in Nat
      /\ DOMAIN s = 1..Len(s) /\ DOMAIN t = 1..Len(t)
      /\ DOMAIN (s \o t) = 1..Len(s) + Len(t)
  BY DEF List
<1>2. /\ \A i \in 1..Len(s) : (s \o t)[i] = s[i]
      /\ \A i \in 1..Len(t) : (s \o t)[Len(s) + i] = t[i]
  BY DEF List
<1>3. \A k \in 1..Len(s) + Len(t) : k \notin 1..Len(s) =>
        k - Len(s) \in 1..Len(t) /\ k = Len(s) + (k - Len(s))
  BY <1>1
<1>4. Range(s \o t) = Range(s) \cup Range(t)
  <2>1. \A i \in 1..Len(s) : i \in 1..Len(s) + Len(t)
    BY <1>1
  <2>2. \A i \in 1..Len(t) : Len(s) + i \in 1..Len(s) + Len(t)
    BY <1>1
  <2>3. Range(s \o t) \subseteq Range(s) \cup Range(t)
    BY <1>1, <1>2, <1>3 DEF Range
  <2>4. Range(s) \subseteq Range(s \o t)
    BY <1>1, <1>2, <2>1 DEF Range
  <2>5. Range(t) \subseteq Range(s \o t)
    BY <1>1, <1>2, <2>2 DEF Range
  <2> QED
    BY <2>3, <2>4, <2>5
<1>5. \A i, j \in 1..Len(s) + Len(t) : (s \o t)[i] = (s \o t)[j] => i = j
  <2> SUFFICES ASSUME NEW i \in 1..Len(s) + Len(t), NEW j \in 1..Len(s) + Len(t),
                      (s \o t)[i] = (s \o t)[j]
               PROVE  i = j
    OBVIOUS
  <2>1. CASE i \in 1..Len(s) /\ j \in 1..Len(s)
    BY <2>1, <1>1, <1>2 DEF List, IsInjective
  <2>2. CASE i \notin 1..Len(s) /\ j \notin 1..Len(s)
    <3>1. t[i - Len(s)] = t[j - Len(s)]
      BY <2>2, <1>2, <1>3
    <3>2. i - Len(s) = j - Len(s)
      BY <2>2, <1>1, <1>3, <3>1 DEF List, IsInjective
    <3> QED
      BY <3>2, <1>1
  <2>3. CASE i \in 1..Len(s) /\ j \notin 1..Len(s)
    <3>1. s[i] \in Range(s) /\ t[j - Len(s)] \in Range(t)
      BY <2>3, <1>1, <1>3 DEF Range
    <3>2. s[i] = t[j - Len(s)]
      BY <2>3, <1>2, <1>3
    <3> QED
      BY <3>1, <3>2
  <2>4. CASE i \notin 1..Len(s) /\ j \in 1..Len(s)
    <3>1. s[j] \in Range(s) /\ t[i - Len(s)] \in Range(t)
      BY <2>4, <1>1, <1>3 DEF Range
    <3>2. s[j] = t[i - Len(s)]
      BY <2>4, <1>2, <1>3
    <3> QED
      BY <3>1, <3>2
  <2> QED
    BY <2>1, <2>2, <2>3, <2>4
<1> QED
  BY <1>1, <1>4, <1>5 DEF List, IsInjective

LEMMA ListingIsList ==
  ASSUME NEW S \in SUBSET Name
  PROVE  List(Listing(S)) /\ Range(Listing(S)) = S
<1>1. IsFiniteSet(S)
  BY ResolverAssumption, FS_Subset
<1> DEFINE N == Cardinality(S)
           s == Listing(S)
<1>2. /\ N \in Nat /\ s \in [1..N -> S]
      /\ \A x \in S : \E i \in 1..N : s[i] = x
      /\ \A i, j \in 1..N : s[i] = s[j] => i = j
  BY <1>1, ListingIs
<1> HIDE DEF s, N
<1>3. List(s) /\ DOMAIN s = 1..N
  <2>1. s \in [1..N -> Name]
    BY <1>2
  <2> QED
    BY <1>2, <2>1, EnumerationIsList
<1>4. Range(s) = S
  BY <1>2, <1>3 DEF Range
<1> QED
  BY <1>3, <1>4 DEF s

LEMMA KeysInIsList ==
  ASSUME List(keys), NEW S \in SUBSET Name
  PROVE  List(KeysIn(S)) /\ Range(KeysIn(S)) = KeySet \cap S
<1> DEFINE I  == {i \in DOMAIN keys : keys[i] \in S}
           N  == Cardinality(I)
           at == Ascending(I)
<1>1. /\ DOMAIN keys = 1..Len(keys) /\ Len(keys) \in Nat
      /\ \A i \in DOMAIN keys : keys[i] \in Name
  BY DEF List
<1>2. I \in SUBSET Nat /\ IsFiniteSet(I)
  <2>1. 1 \in Int /\ Len(keys) \in Int
    BY <1>1
  <2>2. IsFiniteSet(1..Len(keys))
    BY <2>1, FS_Interval
  <2>3. I \in SUBSET (1..Len(keys))
    BY <1>1
  <2>4. 1..Len(keys) \subseteq Nat
    BY <1>1
  <2> HIDE DEF I
  <2> QED
    BY <2>2, <2>3, <2>4, FS_Subset
<1>3. /\ N \in Nat /\ at \in [1..N -> I]
      /\ \A v \in I : \E k \in 1..N : at[k] = v
      /\ \A i, j \in 1..N : i < j => at[i] < at[j]
  <2> HIDE DEF I
  <2> QED
    BY <1>2, AscendingIs
<1>4. KeysIn(S) = [k \in 1..N |-> keys[at[k]]]
  <2>1. KeysIn(S) = [k \in DOMAIN at |-> keys[at[k]]]
    BY DEF KeysIn
  <2> HIDE DEF at, N
  <2> QED
    BY <1>3, <2>1
<1>5. \A i \in I : i \in DOMAIN keys /\ keys[i] \in S
  OBVIOUS
<1>6. Range(KeysIn(S)) = KeySet \cap S
  <2>1. \A i \in DOMAIN keys : keys[i] \in S => i \in I
    OBVIOUS
  <2> HIDE DEF I, N, at
  <2>2. Range(KeysIn(S)) \subseteq KeySet \cap S
    BY <1>3, <1>4, <1>5 DEF Range, KeySet
  <2>3. KeySet \cap S \subseteq Range(KeysIn(S))
    <3> SUFFICES ASSUME NEW i \in DOMAIN keys, keys[i] \in S PROVE keys[i] \in Range(KeysIn(S))
      BY DEF Range, KeySet
    <3>1. PICK k \in 1..N : at[k] = i
      BY <2>1, <1>3
    <3> QED
      BY <3>1, <1>4 DEF Range
  <2> QED
    BY <2>2, <2>3
<1>7. \A i, j \in 1..N : KeysIn(S)[i] = KeysIn(S)[j] => i = j
  <2> HIDE DEF I, N, at
  <2> SUFFICES ASSUME NEW i \in 1..N, NEW j \in 1..N, KeysIn(S)[i] = KeysIn(S)[j], i # j
               PROVE  FALSE
    OBVIOUS
  <2>1. at[i] \in DOMAIN keys /\ at[j] \in DOMAIN keys /\ keys[at[i]] = keys[at[j]]
    BY <1>3, <1>4, <1>5
  <2>2. at[i] = at[j]
    BY <2>1 DEF List, IsInjective
  <2>3. i < j \/ j < i
    BY <1>3
  <2>4. at[i] \in Nat /\ at[j] \in Nat
    BY <1>2, <1>3
  <2>5. at[i] < at[j] \/ at[j] < at[i]
    BY <2>3, <1>3
  <2> QED
    BY <2>2, <2>4, <2>5
<1>8. KeysIn(S) \in [1..N -> Name]
  <2> HIDE DEF I, N, at
  <2> QED
    BY <1>1, <1>3, <1>4, <1>5
<1> HIDE DEF I, N, at
<1> QED
  BY <1>3, <1>6, <1>7, <1>8, EnumerationIsList

----------------------------------------------------------------------------
\* The inductive invariant of the resolver

\* What is asked for: the dependencies of a version by the call for it, the
\* request by the first call, and its dependants by theirs.
CallsOK ==
  /\ \A x \in Node : calls[x] \subseteq DOMAIN world.dep[x]
  /\ \A n \in Name :
       /\ stage = "request" => calls[Top(n)] \subseteq {Request} \cap {n}
       /\ stage = "installed" =>
            calls[Top(n)] \subseteq {n} \cap (Relevant(asked) \ world.local)

\* A version in the graph is one of a key.
KeysOK == NamesOf(Present) \subseteq KeySet

\* The request's packages are keys, and so are their dependants that can be
\* asked for, unless they will be.
DependantsAsked ==
  stage \in {"installed", "resolve", "done"} =>
    /\ asked \subseteq KeySet
    /\ \A n \in Relevant(asked) \ (world.mute \ world.local) :
         n \in KeySet \/ n \in calls[Top(n)]

\* The table of the resolver is complete and labelled, and does not change.
TableOK ==
  stage \in {"resolve", "done"} =>
    /\ Aggregated
    /\ KeySet \subseteq NamesOf(Present)
    /\ \A x \in Present : Allowed(world, x[1], x[2])

\* The combination that is returned is the first valid one.
First(s) ==
  \E i \in 0..TotalCases - 1 :
    /\ s = Permutation(i) /\ ValidState(s)
    /\ \A j \in 0..i - 1 : ~ValidState(Permutation(j))

ChosenOK == IF stage = "done" THEN First(chosen) ELSE chosen = <<>>

ResolverInv ==
  /\ world \in Worlds
  /\ ResolverTypeOK
  /\ CallsOK /\ KeysOK /\ DependantsAsked /\ TableOK /\ ChosenOK

----------------------------------------------------------------------------
\* Facts about a world and what is asked for in it

LEMMA WorldIs ==
  ASSUME world \in Worlds
  PROVE  /\ world.want \in Ranges
         /\ \A x \in Node : /\ DOMAIN world.dep[x] \subseteq Name
                            /\ \A d \in DOMAIN world.dep[x] : world.dep[x][d] \in Ranges
         /\ \A n \in Name : world.inst[n] \in 0..MaxVer
         /\ world.local \subseteq Name /\ world.mute \subseteq Name
         /\ world.lost \subseteq Node
         /\ Request \in Name /\ MaxVer \in Nat \ {0}
  BY ResolverAssumption

LEMMA ListedIs ==
  ASSUME NEW r \in Ranges
  PROVE  Listed(r) \subseteq Ver
  BY ResolverAssumption DEF Ranges, Listed, Ver

\* Only installed packages depend on others.
LEMMA RelevantIs ==
  ASSUME world \in Worlds, NEW S \in SUBSET Name, NEW n \in Relevant(S)
  PROVE  n \in Name /\ n \notin S /\ world.inst[n] \in 1..MaxVer
<1> DEFINE T == {m \in Name : world.inst[m] # 0}
           Closed(U) == /\ {m \in S : world.inst[m] # 0} \subseteq U
                        /\ \A m \in Name : DependsOn(world, m, U) => m \in U
<1>1. n \in Name /\ n \notin S /\ (Closed(T) => n \in T)
  BY DEF Relevant, Dependants
<1>2. Closed(T)
  BY DEF DependsOn
<1> QED
  BY <1>1, <1>2, WorldIs

LEMMA CallerIs ==
  ASSUME NEW c \in Callers
  PROVE  /\ c[2] # 0 => c \in Node
         /\ c[2] = 0 => c[1] \in Name /\ c = Top(c[1])
  BY ResolverAssumption DEF Callers, Node, Ver, Top

LEMMA NodeIs ==
  ASSUME NEW x \in Node
  PROVE  x \in Callers /\ x[1] \in Name /\ x[2] \in Ver /\ x[2] # 0 /\ Top(x[1]) \in Callers
  BY ResolverAssumption DEF Callers, Node, Ver, Top

LEMMA TopIs ==
  ASSUME NEW n \in Name
  PROVE  Top(n) \in Callers /\ Top(n)[1] = n /\ Top(n)[2] = 0 /\ Top(n) \notin Node
  BY ResolverAssumption DEF Callers, Node, Ver, Top

\* The range a call asks for is one, and a dependant's is not empty.
LEMMA AskedRange ==
  ASSUME world \in Worlds, ResolverTypeOK, CallsOK, stage \in {"request", "installed"},
         NEW c \in Callers, NEW d \in calls[c]
  PROVE  /\ d \in Name /\ RangeOf(c, d) \in Ranges /\ Listed(RangeOf(c, d)) \subseteq Ver
         /\ stage = "installed" /\ c[2] = 0 =>
              /\ c = Top(d) /\ d \in Relevant(asked) \ world.local
              /\ RangeOf(c, d) = From(world.inst[d]) /\ world.inst[d] \in Listed(RangeOf(c, d))
<1>1. d \in Name /\ asked \in SUBSET Name
  BY DEF ResolverTypeOK
<1>2. CASE c[2] # 0
  <2>1. d \in DOMAIN world.dep[c] /\ c \in Node
    BY <1>2, CallerIs DEF CallsOK
  <2>2. RangeOf(c, d) \in Ranges
    BY <1>2, <2>1, WorldIs DEF RangeOf
  <2> QED
    BY <1>1, <1>2, <2>2, ListedIs
<1>3. CASE c[2] = 0 /\ stage = "request"
  <2>1. RangeOf(c, d) \in Ranges
    BY <1>3, WorldIs DEF RangeOf
  <2> QED
    BY <1>1, <1>3, <2>1, ListedIs
<1>4. CASE c[2] = 0 /\ stage = "installed"
  <2>1. c[1] \in Name /\ c = Top(c[1])
    BY <1>4, CallerIs
  <2>2. d = c[1] /\ d \in Relevant(asked) \ world.local
    BY <1>4, <2>1 DEF CallsOK
  <2>3. world.inst[d] \in 1..MaxVer
    BY <1>1, <2>2, RelevantIs
  <2>4. RangeOf(c, d) = From(world.inst[d])
    BY <1>4 DEF RangeOf
  <2>5. From(world.inst[d]) \in Ranges /\ world.inst[d] \in Listed(From(world.inst[d]))
    BY <2>3, WorldIs DEF From, Ranges, Listed, Ver
  <2> QED
    BY <1>1, <2>1, <2>2, <2>4, <2>5, ListedIs
<1> QED
  BY <1>2, <1>3, <1>4

LEMMA AddKeysIs ==
  ASSUME List(keys), NEW S \in SUBSET Name, AddKeys(S)
  PROVE  List(keys') /\ KeySet' = KeySet \cup S
<1>1. S \ KeySet \in SUBSET Name
  OBVIOUS
<1>2. List(Listing(S \ KeySet)) /\ Range(Listing(S \ KeySet)) = S \ KeySet
  BY <1>1, ListingIsList
<1>3. Range(keys) \cap Range(Listing(S \ KeySet)) = {}
  BY <1>2 DEF KeySet
<1>4. List(keys') /\ Range(keys') = Range(keys) \cup (S \ KeySet)
  BY <1>2, <1>3, ConcatIsList DEF AddKeys
<1> QED
  BY <1>4 DEF KeySet

----------------------------------------------------------------------------
\* The invariant holds in the first state

LEMMA InitInv == ResolverInit => ResolverInv
<1> SUFFICES ASSUME NEW w \in Worlds, ResolverStart(w) PROVE ResolverInv
  BY DEF ResolverInit
<1>1. world \in Worlds
  BY DEF ResolverStart
<1>2. \A x \in Node : Top(x[1]) \in Callers /\ x # Top(Request)
  BY NodeIs, TopIs, WorldIs, <1>1
<1>3. \A c \in Callers : calls[c] = IF c = Top(Request) THEN {Request} ELSE {}
  BY DEF ResolverStart, NoCalls
<1>4. ResolverTypeOK
  <2>1. calls \in [Callers -> SUBSET Name]
    BY <1>1, WorldIs DEF ResolverStart, NoCalls
  <2>2. keys \in Seq(Name) /\ IsInjective(keys)
    BY DEF ResolverStart, IsInjective
  <2> QED
    BY <1>2, <2>1, <2>2 DEF ResolverTypeOK, ResolverStart, NoGraph, Stages
<1>5. CallsOK
  <2>1. \A x \in Node : calls[x] = {}
    BY <1>2, <1>3, NodeIs
  <2>2. \A n \in Name : calls[Top(n)] \subseteq {Request} \cap {n}
    <3> TAKE n \in Name
    <3>1. Top(n) \in Callers /\ (Top(n) = Top(Request) => n = Request)
      BY <1>1, TopIs, WorldIs
    <3> QED
      BY <1>3, <3>1
  <2> QED
    BY <2>1, <2>2 DEF CallsOK, ResolverStart
<1>6. KeysOK /\ DependantsAsked /\ TableOK /\ ChosenOK
  BY DEF KeysOK, NamesOf, Present, DependantsAsked, TableOK, ChosenOK, ResolverStart, NoGraph
<1> QED
  BY <1>1, <1>4, <1>5, <1>6 DEF ResolverInv

----------------------------------------------------------------------------
\* The steps of the aggregation

LEMMA VersionsAnsweredInv ==
  ASSUME ResolverInv, NEW c \in Callers, NEW d \in calls[c], VersionsAnswered(c, d)
  PROVE  ResolverInv'
<1> DEFINE r     == RangeOf(c, d)
           fresh == {x \in {d} \X Listed(r) : graph[x] = "none"}
<1>1. /\ stage \in {"request", "installed"}
      /\ calls' = [calls EXCEPT ![c] = @ \ {d}]
      /\ graph' = [x \in Node |-> IF x \in fresh THEN "fetch" ELSE graph[x]]
      /\ caller' = [x \in Node |-> IF x \in fresh THEN c ELSE caller[x]]
      /\ AddKeys(NamesOf(fresh))
      /\ UNCHANGED <<world, stage, broken, asked, chosen>>
  BY DEF VersionsAnswered
<1>2. world \in Worlds /\ ResolverTypeOK /\ CallsOK /\ List(keys) /\ asked \in SUBSET Name
  BY DEF ResolverInv, ResolverTypeOK, List
<1>3. /\ d \in Name /\ Listed(r) \subseteq Ver
      /\ stage = "installed" /\ c[2] = 0 =>
           c = Top(d) /\ world.inst[d] \in Listed(r)
  BY <1>1, <1>2, AskedRange
<1>4. fresh \subseteq Node /\ NamesOf(fresh) \in SUBSET Name
  <2>1. fresh \subseteq Node
    BY <1>3 DEF Node
  <2> QED
    BY <2>1, NodeIs DEF NamesOf
<1> HIDE DEF fresh
<1>5. List(keys') /\ KeySet' = KeySet \cup NamesOf(fresh)
  BY <1>1, <1>2, <1>4, AddKeysIs
<1>6. ResolverTypeOK'
  <2>1. chosen = <<>>
    BY <1>1 DEF ResolverInv, ChosenOK
  <2>2. graph' \in [Node -> {"none", "fetch", "join", "in"}] /\ caller' \in [Node -> Callers]
    BY <1>1, <1>2 DEF ResolverTypeOK
  <2>3. calls' \in [Callers -> SUBSET Name]
    BY <1>1, <1>2 DEF ResolverTypeOK
  <2> QED
    BY <1>1, <1>2, <1>5, <2>1, <2>2, <2>3 DEF ResolverTypeOK, List
<1>7. CallsOK'
  BY <1>1, <1>2, TopIs, NodeIs DEF ResolverTypeOK, CallsOK, Relevant
<1>8. KeysOK'
  <2> SUFFICES ASSUME NEW x \in Node, graph'[x] # "none" PROVE x[1] \in KeySet'
    BY DEF KeysOK, NamesOf, Present
  <2>1. CASE x \in fresh
    BY <2>1, <1>5 DEF NamesOf
  <2>2. CASE x \notin fresh
    BY <2>2, <1>1, <1>5 DEF ResolverInv, KeysOK, NamesOf, Present
  <2> QED
    BY <2>1, <2>2
<1>9. DependantsAsked'
  <2> SUFFICES ASSUME stage = "installed"
               PROVE  /\ asked \subseteq KeySet'
                      /\ \A n \in Relevant(asked) \ (world.mute \ world.local) :
                           n \in KeySet' \/ n \in calls'[Top(n)]
    BY <1>1 DEF DependantsAsked, Relevant
  <2>1. asked \subseteq KeySet'
    BY <1>5 DEF ResolverInv, DependantsAsked
  <2> SUFFICES ASSUME NEW n \in Relevant(asked) \ (world.mute \ world.local), n \notin KeySet'
               PROVE  n \in calls'[Top(n)]
    BY <2>1
  <2>2. n \in calls[Top(n)] /\ n \in Name /\ Top(n) \in Callers
    BY <1>2, <1>5, RelevantIs, TopIs DEF ResolverInv, DependantsAsked
  <2>3. CASE c = Top(n) /\ d = n
    <3>1. c[2] = 0
      BY <2>2, <2>3, TopIs
    <3>2. <<n, world.inst[n]>> \in {d} \X Listed(r)
      BY <3>1, <2>3, <1>3
    <3>3. <<n, world.inst[n]>> \in fresh \/ <<n, world.inst[n]>> \in Present
      BY <3>2, <1>3 DEF fresh, Present, Node
    <3>4. n \in NamesOf(fresh) \/ n \in NamesOf(Present)
      BY <3>3 DEF NamesOf
    <3> QED
      BY <3>4, <1>5 DEF ResolverInv, KeysOK
  <2>4. CASE ~(c = Top(n) /\ d = n)
    BY <2>2, <2>4, <1>1, <1>2 DEF ResolverTypeOK
  <2> QED
    BY <2>3, <2>4
<1>10. TableOK' /\ ChosenOK' /\ (world \in Worlds)'
  BY <1>1 DEF ResolverInv, TableOK, ChosenOK
<1> QED
  BY <1>6, <1>7, <1>8, <1>9, <1>10 DEF ResolverInv

LEMMA VersionsFailedInv ==
  ASSUME ResolverInv, NEW c \in Callers, NEW d \in calls[c], VersionsFailed(c, d)
  PROVE  ResolverInv'
<1>1. /\ stage \in {"request", "installed"} /\ stage' \in {stage, "failed"}
      /\ Silent(world, d, RangeOf(c, d))
      /\ calls' = [calls EXCEPT ![c] = @ \ {d}]
      /\ broken' = IF c[2] # 0 THEN broken \cup {c} ELSE broken
      /\ UNCHANGED <<world, graph, keys, caller, asked, chosen>>
  BY DEF VersionsFailed
<1>2. world \in Worlds /\ ResolverTypeOK /\ CallsOK /\ asked \in SUBSET Name
  BY DEF ResolverInv, ResolverTypeOK
<1>3. KeySet' = KeySet
  BY <1>1 DEF KeySet
<1>4. ResolverTypeOK'
  BY <1>1, <1>2, <1>3, CallerIs DEF ResolverTypeOK, Stages
<1>5. CallsOK'
  BY <1>1, <1>2, TopIs, NodeIs DEF ResolverTypeOK, CallsOK, Relevant
<1>6. KeysOK'
  BY <1>1, <1>3 DEF ResolverInv, KeysOK, NamesOf, Present
<1>7. DependantsAsked'
  <2> SUFFICES ASSUME stage = "installed"
               PROVE  /\ asked \subseteq KeySet
                      /\ \A n \in Relevant(asked) \ (world.mute \ world.local) :
                           n \in KeySet \/ n \in calls'[Top(n)]
    BY <1>1, <1>3 DEF DependantsAsked, Relevant
  <2>1. asked \subseteq KeySet
    BY DEF ResolverInv, DependantsAsked
  <2> SUFFICES ASSUME NEW n \in Relevant(asked) \ (world.mute \ world.local), n \notin KeySet
               PROVE  n \in calls'[Top(n)]
    BY <2>1
  <2>2. n \in calls[Top(n)] /\ n \in Name /\ Top(n) \in Callers
    BY <1>2, RelevantIs, TopIs DEF ResolverInv, DependantsAsked
  <2>3. CASE c = Top(n) /\ d = n
    <3>1. c[2] = 0
      BY <2>2, <2>3, TopIs
    <3>2. RangeOf(c, d) = From(world.inst[d]) /\ d \notin world.local
      BY <3>1, <1>1, <1>2, AskedRange
    <3> QED
      BY <2>3, <3>2, <1>1 DEF Silent
  <2>4. CASE ~(c = Top(n) /\ d = n)
    BY <2>2, <2>4, <1>1, <1>2 DEF ResolverTypeOK
  <2> QED
    BY <2>3, <2>4
<1>8. TableOK' /\ ChosenOK' /\ (world \in Worlds)'
  BY <1>1 DEF ResolverInv, TableOK, ChosenOK
<1> QED
  BY <1>4, <1>5, <1>6, <1>7, <1>8 DEF ResolverInv

\* A fetch that runs leaves the table alone: there is none yet.
LEMMA ManifestInv ==
  ASSUME ResolverInv, NEW x \in Running,
         DependenciesAnswered(x) \/ DependenciesFailed(x) \/ VersionJoined(x)
  PROVE  ResolverInv'
<1>1. /\ x \in Node /\ graph[x] \in {"fetch", "join"}
      /\ \E g \in {"none", "join", "in"} : graph' = [graph EXCEPT ![x] = g]
      /\ calls' = calls \/ calls' = [calls EXCEPT ![x] = DOMAIN world.dep[x]]
      /\ broken' \subseteq broken
      /\ caller' = caller \/ caller' = [caller EXCEPT ![x] = Top(x[1])]
      /\ UNCHANGED <<world, stage, keys, asked, chosen>>
  BY DEF DependenciesAnswered, DependenciesFailed, VersionJoined, Running
<1>2. world \in Worlds /\ ResolverTypeOK /\ CallsOK
  BY DEF ResolverInv
<1>3. x \in Callers /\ Top(x[1]) \in Callers /\ DOMAIN world.dep[x] \subseteq Name
  BY <1>1, <1>2, NodeIs, WorldIs
<1>4. stage \notin {"resolve", "done"}
  BY <1>1 DEF ResolverInv, TableOK, Aggregated
<1>5. KeySet' = KeySet
  BY <1>1 DEF KeySet
<1>6. ResolverTypeOK'
  <2>1. graph' \in [Node -> {"none", "fetch", "join", "in"}]
    BY <1>1, <1>2 DEF ResolverTypeOK
  <2>2. calls' \in [Callers -> SUBSET Name]
    BY <1>1, <1>2, <1>3 DEF ResolverTypeOK
  <2>3. caller' \in [Node -> Callers] /\ broken' \subseteq Node
    BY <1>1, <1>2, <1>3 DEF ResolverTypeOK
  <2> QED
    BY <1>1, <1>2, <1>5, <2>1, <2>2, <2>3 DEF ResolverTypeOK
<1>7. CallsOK'
  <2>1. \A y \in Node : calls'[y] \subseteq DOMAIN world.dep[y]
    BY <1>1, <1>2, NodeIs DEF ResolverTypeOK, CallsOK
  <2>2. \A n \in Name : calls'[Top(n)] = calls[Top(n)]
    BY <1>1, <1>2, TopIs DEF ResolverTypeOK
  <2> QED
    BY <1>1, <1>2, <2>1, <2>2 DEF CallsOK, Relevant
<1>8. KeysOK'
  <2>1. Present' \subseteq Present
    BY <1>1, <1>2 DEF Present, ResolverTypeOK
  <2> QED
    BY <1>5, <2>1 DEF ResolverInv, KeysOK, NamesOf
<1>9. DependantsAsked'
  <2> SUFFICES ASSUME stage = "installed"
               PROVE  \A n \in Relevant(asked) \ (world.mute \ world.local) :
                           n \in KeySet \/ n \in calls'[Top(n)]
    BY <1>1, <1>4, <1>5 DEF ResolverInv, DependantsAsked, Relevant
  <2>1. asked \in SUBSET Name
    BY <1>2 DEF ResolverTypeOK
  <2>2. \A n \in Relevant(asked) : n \in Name
    BY <1>2, <2>1, RelevantIs
  <2>3. \A n \in Name : calls'[Top(n)] = calls[Top(n)]
    BY <1>1, <1>2, TopIs DEF ResolverTypeOK
  <2> QED
    BY <2>2, <2>3 DEF ResolverInv, DependantsAsked
<1>10. TableOK' /\ ChosenOK' /\ (world \in Worlds)'
  BY <1>1, <1>4 DEF ResolverInv, TableOK, ChosenOK
<1> QED
  BY <1>6, <1>7, <1>8, <1>9, <1>10 DEF ResolverInv

----------------------------------------------------------------------------
\* The combinations: the table, the versions of a package, the strides

\* The products of the numbers of versions exist, by induction on how many.
LEMMA ProductExists ==
  ASSUME NEW K \in Nat, NEW L \in [1..K -> Nat \ {0}]
  PROVE  \E m \in [1..K + 1 -> Nat \ {0}] :
           m[1] = 1 /\ \A k \in 1..K : m[k + 1] = m[k] * L[k]
<1> DEFINE Upto(j) == \E m \in [1..j + 1 -> Nat \ {0}] :
                        m[1] = 1 /\ \A k \in 1..j : m[k + 1] = m[k] * L[k]
           Bad     == {j \in 0..K : ~Upto(j)}
<1>1. Upto(0)
  <2> DEFINE m == [k \in 1..0 + 1 |-> 1]
  <2>1. m \in [1..0 + 1 -> Nat \ {0}] /\ m[1] = 1
    OBVIOUS
  <2>2. 1..0 = {}
    OBVIOUS
  <2> HIDE DEF m
  <2> QED
    BY <2>1, <2>2
<1>2. ASSUME NEW j \in 0..K, j # K, Upto(j) PROVE Upto(j + 1)
  <2>1. PICK m \in [1..j + 1 -> Nat \ {0}] :
           m[1] = 1 /\ \A k \in 1..j : m[k + 1] = m[k] * L[k]
    BY <1>2
  <2>2. j + 1 \in 1..K
    BY <1>2
  <2> DEFINE e == m[j + 1] * L[j + 1]
             f == [k \in 1..(j + 1) + 1 |-> IF k \in 1..j + 1 THEN m[k] ELSE e]
  <2>3. m[j + 1] \in Nat \ {0} /\ L[j + 1] \in Nat \ {0}
    BY <2>1, <2>2
  <2>4. e \in Nat \ {0}
    BY <2>3
  <2>5. \A k \in 1..j + 1 : f[k] = m[k] /\ k \in 1..(j + 1) + 1
    OBVIOUS
  <2>6. f[(j + 1) + 1] = e
    OBVIOUS
  <2>7. f \in [1..(j + 1) + 1 -> Nat \ {0}]
    <3> HIDE DEF e
    <3> QED
      BY <2>1, <2>4
  <2>8. \A k \in 1..j + 1 : f[k + 1] = f[k] * L[k]
    <3> TAKE k \in 1..j + 1
    <3>1. CASE k = j + 1
      BY <3>1, <2>5, <2>6
    <3>2. CASE k # j + 1
      <4>1. k \in 1..j /\ k + 1 \in 1..j + 1
        BY <3>2
      <4> HIDE DEF f
      <4> QED
        BY <4>1, <2>1, <2>5
    <3> QED
      BY <3>1, <3>2
  <2>9. f[1] = 1
    BY <2>1, <2>5
  <2> HIDE DEF f
  <2> QED
    BY <2>7, <2>8, <2>9
<1>3. \A j \in 0..K : Upto(j)
  <2> SUFFICES ASSUME Bad # {} PROVE FALSE
    OBVIOUS
  <2>1. PICK j \in Bad : \A i \in Bad : j <= i
    <3>1. Bad \in SUBSET Nat
      OBVIOUS
    <3> HIDE DEF Bad
    <3> QED
      BY <3>1, LeastNat
  <2> HIDE DEF Upto
  <2>2. j \in 0..K /\ ~Upto(j) /\ j # 0
    BY <1>1, <2>1
  <2>3. j - 1 \in 0..K /\ j - 1 # K /\ (j - 1) + 1 = j /\ ~(j <= j - 1)
    BY <2>2
  <2>4. Upto(j - 1)
    BY <2>1, <2>3
  <2> QED
    BY <2>2, <2>3, <2>4, <1>2
<1>4. Upto(K)
  <2> HIDE DEF Upto
  <2> QED
    BY <1>3
<1> QED
  BY <1>4

\* The versions a combination may have of a package, 0 for none
Choices(n) ==
  VersionsOf(n) \cup (IF n = Request \/ n \in InstalledDnps THEN {} ELSE {0})

\* For which versions go first, prioritizeVersions compares ...
Rank(n, v) ==
  IF n = Request THEN MaxVer - v
  ELSE IF n \in InstalledDnps THEN v
  ELSE IF v = 0 THEN 0 ELSE MaxVer + 1 - v

\* ... and lists every one once, the first ranks first.
LEMMA VersionsIs ==
  ASSUME NEW n \in Name
  PROVE  LET vs == PrioritizedVersions(n)
             N  == Len(vs)
         IN  /\ N \in Nat /\ vs \in [1..N -> Choices(n)] /\ DOMAIN vs = 1..N
             /\ \A v \in Choices(n) : \E k \in 1..N : vs[k] = v
             /\ \A i, j \in 1..N : i < j => Rank(n, vs[i]) < Rank(n, vs[j])
<1> DEFINE V == VersionsOf(n)
           N == Cardinality(V)
           a == Ascending(V)
           b == [k \in DOMAIN a |-> a[Len(a) + 1 - k]]
<1>1. V \in SUBSET Nat /\ IsFiniteSet(V) /\ \A v \in V : v \in 1..MaxVer
  <2>1. V \in SUBSET (1..MaxVer)
    BY DEF VersionsOf, Ver
  <2>2. MaxVer \in Nat /\ 1 \in Int /\ MaxVer \in Int
    BY ResolverAssumption
  <2>3. IsFiniteSet(1..MaxVer)
    BY <2>2, FS_Interval
  <2> QED
    BY <2>1, <2>2, <2>3, FS_Subset
<1>2. /\ N \in Nat /\ a \in [1..N -> V]
      /\ \A v \in V : \E k \in 1..N : a[k] = v
      /\ \A i, j \in 1..N : i < j => a[i] < a[j]
  <2> HIDE DEF V
  <2> QED
    BY <1>1, AscendingIs
<1> HIDE DEF V, N, a
<1>3. DOMAIN a = 1..N /\ Len(a) = N
  BY <1>2
<1>4. \A k \in 1..N : N + 1 - k \in 1..N /\ b[k] = a[N + 1 - k] /\ N + 1 - (N + 1 - k) = k
  BY <1>2, <1>3
<1>5. b \in [1..N -> V] /\ DOMAIN b = 1..N /\ Len(b) = N
  <2>1. \A k \in 1..N : a[N + 1 - k] \in V
    BY <1>2, <1>4
  <2>2. b = [k \in 1..N |-> a[N + 1 - k]]
    BY <1>3
  <2>3. b \in [1..N -> V]
    BY <2>1, <2>2
  <2> HIDE DEF b
  <2> QED
    BY <2>3, <1>2
<1> HIDE DEF b
<1>6. \A v \in V : \E k \in 1..N : b[k] = v
  <2> TAKE v \in V
  <2>1. PICK k \in 1..N : a[k] = v
    BY <1>2
  <2>2. N + 1 - k \in 1..N /\ b[N + 1 - k] = v
    BY <2>1, <1>4
  <2> QED
    BY <2>2
<1>7. \A i, j \in 1..N : i < j => b[j] < b[i]
  <2> TAKE i \in 1..N, j \in 1..N
  <2>1. i < j => N + 1 - j < N + 1 - i
    BY <1>2
  <2> QED
    BY <2>1, <1>2, <1>4
<1>8. PrioritizedVersions(n) =
        IF n = Request THEN b ELSE IF n \in InstalledDnps THEN a ELSE <<0>> \o b
  BY DEF PrioritizedVersions, a, b, V
<1>9. CASE n = Request
  <2>1. Choices(n) = V /\ PrioritizedVersions(n) = b
    BY <1>8, <1>9 DEF Choices, V
  <2>2. \A i, j \in 1..N : i < j => MaxVer - b[i] < MaxVer - b[j]
    <3> TAKE i \in 1..N, j \in 1..N
    <3>1. b[i] \in 1..MaxVer /\ b[j] \in 1..MaxVer /\ MaxVer \in Nat
      BY <1>1, <1>5, ResolverAssumption
    <3> QED
      BY <3>1, <1>7
  <2> QED
    BY <1>2, <1>5, <1>6, <1>9, <2>1, <2>2 DEF Rank
<1>10. CASE n # Request /\ n \in InstalledDnps
  <2>1. Choices(n) = V /\ PrioritizedVersions(n) = a
    BY <1>8, <1>10 DEF Choices, V
  <2> QED
    BY <1>2, <1>3, <1>10, <2>1 DEF Rank
<1>11. CASE n # Request /\ n \notin InstalledDnps
  <2> DEFINE vs == PrioritizedVersions(n)
  <2>1. Choices(n) = V \cup {0} /\ vs = <<0>> \o b
    BY <1>8, <1>11 DEF Choices, V
  <2>2. b \in Seq(Nat)
    <3>1. b \in [1..N -> Nat]
      BY <1>1, <1>5
    <3> QED
      BY <3>1, <1>2
  <2>3. Len(vs) = N + 1 /\ DOMAIN vs = 1..N + 1 /\ vs[1] = 0
    BY <1>2, <1>5, <2>1, <2>2
  <2>4. \A k \in 1..N : vs[k + 1] = b[k]
    BY <1>2, <1>5, <2>1, <2>2
  <2>5. \A k \in 1..N + 1 : k # 1 => k - 1 \in 1..N /\ vs[k] = b[k - 1]
    <3> TAKE k \in 1..N + 1
    <3>1. k # 1 => k - 1 \in 1..N /\ (k - 1) + 1 = k
      BY <1>2
    <3> QED
      BY <2>4, <3>1
  <2> HIDE DEF vs
  <2>6. vs \in [1..N + 1 -> Choices(n)]
    <3>1. \A k \in 1..N + 1 : vs[k] \in Choices(n)
      BY <1>5, <2>1, <2>3, <2>5
    <3>2. vs = [k \in 1..N + 1 |-> vs[k]]
      <4>1. vs \in Seq(Nat)
        BY <2>1, <2>2
      <4> QED
        BY <4>1, <2>3
    <3> QED
      BY <3>1, <3>2
  <2>7. \A v \in Choices(n) : \E k \in 1..N + 1 : vs[k] = v
    <3> TAKE v \in Choices(n)
    <3>1. CASE v = 0
      BY <1>2, <3>1, <2>3
    <3>2. CASE v \in V
      <4>1. PICK k \in 1..N : b[k] = v
        BY <1>6, <3>2
      <4>2. k + 1 \in 1..N + 1 /\ vs[k + 1] = v
        BY <1>2, <4>1, <2>4
      <4> QED
        BY <4>2
    <3> QED
      BY <2>1, <3>1, <3>2
  <2>8. \A i, j \in 1..N + 1 : i < j => Rank(n, vs[i]) < Rank(n, vs[j])
    <3> SUFFICES ASSUME NEW i \in 1..N + 1, NEW j \in 1..N + 1, i < j
                 PROVE  Rank(n, vs[i]) < Rank(n, vs[j])
      OBVIOUS
    <3>1. j # 1 /\ j - 1 \in 1..N /\ vs[j] = b[j - 1] /\ b[j - 1] \in 1..MaxVer
      <4>1. j # 1
        BY <1>2
      <4>2. j - 1 \in 1..N /\ vs[j] = b[j - 1]
        BY <4>1, <2>5
      <4> QED
        BY <4>1, <4>2, <1>1, <1>5
    <3>2. Rank(n, vs[j]) = MaxVer + 1 - b[j - 1] /\ Rank(n, vs[j]) > 0
      BY <1>11, <3>1, ResolverAssumption DEF Rank
    <3>3. CASE i = 1
      BY <1>11, <2>3, <3>2, <3>3 DEF Rank
    <3>4. CASE i # 1
      <4>1. i - 1 \in 1..N /\ vs[i] = b[i - 1] /\ b[i - 1] \in 1..MaxVer /\ i - 1 < j - 1
        <5>1. i - 1 \in 1..N /\ vs[i] = b[i - 1]
          BY <2>5, <3>4
        <5>2. i - 1 < j - 1
          BY <1>2
        <5> QED
          BY <5>1, <5>2, <1>1, <1>5
      <4>2. Rank(n, vs[i]) = MaxVer + 1 - b[i - 1]
        BY <1>11, <4>1, ResolverAssumption DEF Rank
      <4>3. b[j - 1] < b[i - 1]
        BY <4>1, <3>1, <1>7
      <4> QED
        BY <3>1, <3>2, <4>1, <4>2, <4>3, ResolverAssumption
    <3> QED
      BY <3>3, <3>4
  <2>9. N + 1 \in Nat
    BY <1>2
  <2> QED
    BY <2>3, <2>6, <2>7, <2>8, <2>9 DEF vs
<1> QED
  BY <1>9, <1>10, <1>11

\* New packages move first, then installed ones, then the request.
Class(n) == IF n = Request THEN 2 ELSE IF n \in InstalledDnps THEN 1 ELSE 0

InClasses(s) == \A i, j \in DOMAIN s : i < j => Class(s[i]) <= Class(s[j])

LEMMA ConcatInClasses ==
  ASSUME NEW s, NEW t, List(s), List(t), InClasses(s), InClasses(t),
         \A x \in Range(s), y \in Range(t) : Class(x) <= Class(y)
  PROVE  InClasses(s \o t)
<1>1. /\ Len(s) \in Nat /\ Len(t) \in Nat
      /\ DOMAIN s = 1..Len(s) /\ DOMAIN t = 1..Len(t)
      /\ DOMAIN (s \o t) = 1..Len(s) + Len(t)
      /\ \A i \in 1..Len(s) : (s \o t)[i] = s[i]
      /\ \A i \in 1..Len(t) : (s \o t)[Len(s) + i] = t[i]
  BY DEF List
<1>2. \A k \in 1..Len(s) + Len(t) : k \notin 1..Len(s) =>
        k - Len(s) \in 1..Len(t) /\ (s \o t)[k] = t[k - Len(s)]
  <2> TAKE k \in 1..Len(s) + Len(t)
  <2>1. k \notin 1..Len(s) => k - Len(s) \in 1..Len(t) /\ k = Len(s) + (k - Len(s))
    BY <1>1
  <2> QED
    BY <2>1, <1>1
<1> SUFFICES ASSUME NEW i \in 1..Len(s) + Len(t), NEW j \in 1..Len(s) + Len(t), i < j
             PROVE  Class((s \o t)[i]) <= Class((s \o t)[j])
  BY <1>1 DEF InClasses
<1>3. CASE j \in 1..Len(s)
  <2>1. i \in 1..Len(s)
    BY <1>1, <1>3
  <2> QED
    BY <1>1, <1>3, <2>1 DEF InClasses
<1>4. CASE i \in 1..Len(s) /\ j \notin 1..Len(s)
  BY <1>1, <1>2, <1>4 DEF Range
<1>5. CASE i \notin 1..Len(s) /\ j \notin 1..Len(s)
  <2>1. i - Len(s) < j - Len(s)
    BY <1>1
  <2> QED
    BY <1>1, <1>2, <1>5, <2>1 DEF InClasses
<1> QED
  BY <1>3, <1>4, <1>5

LEMMA TableIs ==
  ASSUME List(keys), world \in Worlds
  PROVE  /\ List(PrioritizedDnps) /\ Range(PrioritizedDnps) = KeySet
         /\ InClasses(PrioritizedDnps)
<1> DEFINE New  == Name \ (InstalledDnps \cup {Request})
           Inst == InstalledDnps \ {Request}
           new  == KeysIn(New)
           inst == KeysIn(Inst)
           req  == KeysIn({Request})
<1>1. New \in SUBSET Name /\ Inst \in SUBSET Name /\ {Request} \in SUBSET Name
  BY WorldIs DEF InstalledDnps
<1>2. /\ List(new) /\ Range(new) = KeySet \cap New
      /\ List(inst) /\ Range(inst) = KeySet \cap Inst
      /\ List(req) /\ Range(req) = KeySet \cap {Request}
  BY <1>1, KeysInIsList
<1>3. /\ \A x \in New : Class(x) = 0
      /\ \A x \in Inst : Class(x) = 1
      /\ \A x \in {Request} : Class(x) = 2
  BY DEF Class
<1>4. New \cap Inst = {} /\ New \cap {Request} = {} /\ Inst \cap {Request} = {}
      /\ New \cup Inst \cup {Request} = Name
  BY WorldIs DEF InstalledDnps
<1>5. PrioritizedDnps = new \o inst \o req
  BY DEF PrioritizedDnps
<1> HIDE DEF New, Inst, new, inst, req
<1>6. InClasses(new) /\ InClasses(inst) /\ InClasses(req)
  BY <1>2, <1>3 DEF InClasses, Range
<1>7. /\ List(new \o inst) /\ Range(new \o inst) = KeySet \cap (New \cup Inst)
      /\ InClasses(new \o inst)
  <2>1. Range(new) \cap Range(inst) = {}
    BY <1>2, <1>4
  <2>2. \A x \in Range(new), y \in Range(inst) : Class(x) <= Class(y)
    BY <1>2, <1>3
  <2>3. List(new \o inst) /\ Range(new \o inst) = Range(new) \cup Range(inst)
    BY <1>2, <2>1, ConcatIsList
  <2>4. InClasses(new \o inst)
    BY <1>2, <1>6, <2>2, ConcatInClasses
  <2> QED
    BY <1>2, <2>3, <2>4
<1>8. /\ List((new \o inst) \o req)
      /\ Range((new \o inst) \o req) = KeySet \cap (New \cup Inst \cup {Request})
      /\ InClasses((new \o inst) \o req)
  <2>1. Range(new \o inst) \cap Range(req) = {}
    BY <1>2, <1>4, <1>7
  <2>2. \A x \in Range(new \o inst), y \in Range(req) : Class(x) <= Class(y)
    BY <1>2, <1>3, <1>7
  <2>3. List((new \o inst) \o req)
        /\ Range((new \o inst) \o req) = Range(new \o inst) \cup Range(req)
    BY <1>2, <1>7, <2>1, ConcatIsList
  <2>4. InClasses((new \o inst) \o req)
    BY <1>2, <1>6, <1>7, <2>2, ConcatInClasses
  <2> QED
    BY <1>2, <1>7, <2>3, <2>4
<1>9. KeySet \subseteq Name
  BY DEF KeySet, Range, List
<1> QED
  BY <1>4, <1>5, <1>8, <1>9

\* Every package of the table has a version: what the resolver starts from
TableFull ==
  /\ world \in Worlds /\ List(keys)
  /\ \A n \in KeySet : Choices(n) # {}

LEMMA StridesAre ==
  ASSUME TableFull
  PROVE  LET K == Len(PrioritizedDnps)
         IN  /\ K \in Nat /\ DOMAIN PrioritizedDnps = 1..K
             /\ \A k \in 1..K : /\ PrioritizedDnps[k] \in KeySet /\ KeySet \subseteq Name
                                /\ Len(PrioritizedVersions(PrioritizedDnps[k])) \in Nat \ {0}
             /\ Strides \in [1..K + 1 -> Nat \ {0}] /\ Strides[1] = 1
             /\ \A k \in 1..K :
                  Strides[k + 1] = Strides[k] * Len(PrioritizedVersions(PrioritizedDnps[k]))
<1> DEFINE t == PrioritizedDnps
           K == Len(t)
           L == [k \in 1..K |-> Len(PrioritizedVersions(t[k]))]
<1>1. K \in Nat /\ DOMAIN t = 1..K /\ \A k \in 1..K : t[k] \in KeySet
  BY TableIs DEF TableFull, List, Range
<1>2. KeySet \subseteq Name
  BY DEF TableFull, List, KeySet, Range
<1>3. \A k \in 1..K : Len(PrioritizedVersions(t[k])) \in Nat \ {0}
  <2> TAKE k \in 1..K
  <2>1. t[k] \in Name /\ Choices(t[k]) # {}
    BY <1>1, <1>2 DEF TableFull
  <2> HIDE DEF t
  <2> QED
    BY <2>1, VersionsIs
<1> HIDE DEF t, K
<1>4. L \in [1..K -> Nat \ {0}]
  BY <1>3
<1>5. PICK m \in [1..K + 1 -> Nat \ {0}] : m[1] = 1 /\ \A k \in 1..K : m[k + 1] = m[k] * L[k]
  BY <1>1, <1>4, ProductExists
<1> DEFINE Is(f) == f = [k \in 1..K + 1 |->
                           IF k = 1 THEN 1 ELSE f[k - 1] * Len(PrioritizedVersions(t[k - 1]))]
<1>6. Strides = CHOOSE f : Is(f)
  BY DEF Strides, t, K
<1>7. Is(m)
  <2>1. \A k \in 1..K + 1 :
          m[k] = IF k = 1 THEN 1 ELSE m[k - 1] * Len(PrioritizedVersions(t[k - 1]))
    <3> TAKE k \in 1..K + 1
    <3>1. CASE k = 1
      BY <3>1, <1>5
    <3>2. CASE k # 1
      <4>1. k - 1 \in 1..K /\ (k - 1) + 1 = k
        BY <1>1, <3>2
      <4> QED
        BY <4>1, <3>2, <1>5
    <3> QED
      BY <3>1, <3>2
  <2> QED
    BY <1>5, <2>1
<1>8. Is(Strides)
  <2> HIDE DEF Is
  <2> QED
    BY <1>6, <1>7
<1>9. \A k \in 1..K + 1 : Strides[k] = m[k]
  <2> DEFINE Bad == {k \in 1..K + 1 : Strides[k] # m[k]}
  <2> SUFFICES ASSUME Bad # {} PROVE FALSE
    OBVIOUS
  <2>1. PICK j \in Bad : \A i \in Bad : j <= i
    <3>1. Bad \in SUBSET Nat
      OBVIOUS
    <3> HIDE DEF Bad
    <3> QED
      BY <3>1, LeastNat
  <2>2. j \in 1..K + 1 /\ Strides[j] # m[j]
    BY <2>1
  <2>3. j # 1
    BY <2>2, <1>5, <1>8
  <2>4. j - 1 \in 1..K /\ j - 1 \in 1..K + 1 /\ ~(j <= j - 1)
    BY <2>2, <2>3, <1>1
  <2>5. Strides[j - 1] = m[j - 1]
    <3>1. j - 1 \notin Bad
      BY <2>1, <2>4
    <3> QED
      BY <2>4, <3>1
  <2>6. Strides[j] = Strides[j - 1] * Len(PrioritizedVersions(t[j - 1]))
    BY <1>8, <2>2, <2>3
  <2>7. m[j] = m[j - 1] * Len(PrioritizedVersions(t[j - 1]))
    BY <1>7, <2>2, <2>3
  <2> QED
    BY <2>2, <2>5, <2>6, <2>7
<1>10. Strides = m
  <2>1. Strides = [k \in 1..K + 1 |-> Strides[k]]
    BY <1>8
  <2> QED
    BY <1>5, <1>9, <2>1
<1>11. \A k \in 1..K : Strides[k + 1] = Strides[k] * Len(PrioritizedVersions(t[k]))
  BY <1>5, <1>10
<1> QED
  BY <1>1, <1>2, <1>3, <1>5, <1>10, <1>11 DEF t, K

\* The version that the i-th combination has of the k-th package of the table
Pick(i, k) ==
  LET vs == PrioritizedVersions(PrioritizedDnps[k])
  IN vs[((i \div Strides[k]) % Len(vs)) + 1]

\* A combination has one of its versions for every key.
LEMMA PermutationIs ==
  ASSUME TableFull, NEW i \in Nat
  PROVE  /\ DOMAIN Permutation(i) = KeySet
         /\ \A k \in 1..Len(PrioritizedDnps) :
              Permutation(i)[PrioritizedDnps[k]] = Pick(i, k)
         /\ \A n \in KeySet : Permutation(i)[n] \in Choices(n)
         /\ Permutation(i) \in [KeySet -> 0..MaxVer]
         /\ TotalCases \in Nat \ {0}
<1> DEFINE t == PrioritizedDnps
           K == Len(t)
           V(k) == PrioritizedVersions(t[k])
           at(n) == CHOOSE j \in DOMAIN t : t[j] = n
<1>1. /\ K \in Nat /\ DOMAIN t = 1..K
      /\ \A k \in 1..K : t[k] \in KeySet /\ t[k] \in Name /\ Len(V(k)) \in Nat \ {0}
      /\ Strides \in [1..K + 1 -> Nat \ {0}]
  BY StridesAre
<1>2. List(t) /\ Range(t) = KeySet
  BY TableIs DEF TableFull
<1>3. \A n \in KeySet : at(n) \in 1..K /\ t[at(n)] = n
  <2> TAKE n \in KeySet
  <2> HIDE DEF t
  <2>1. \E j \in DOMAIN t : t[j] = n
    BY <1>2 DEF Range
  <2> QED
    BY <1>1, <2>1
<1>4. \A k \in 1..K : at(t[k]) = k
  <2> HIDE DEF t
  <2> QED
    BY <1>1, <1>2, <1>3 DEF List, IsInjective
<1>5. Permutation(i) = [n \in KeySet |-> Pick(i, at(n))]
  <2>1. Permutation(i) =
          [n \in KeySet |->
             PrioritizedVersions(n)[((i \div Strides[at(n)]) % Len(PrioritizedVersions(n))) + 1]]
    BY DEF Permutation
  <2> HIDE DEF at
  <2>2. \A n \in KeySet :
          PrioritizedVersions(n)[((i \div Strides[at(n)]) % Len(PrioritizedVersions(n))) + 1]
            = Pick(i, at(n))
    BY <1>3 DEF Pick
  <2> QED
    BY <2>1, <2>2
<1>6. \A k \in 1..K : Pick(i, k) \in Choices(t[k])
  <2> TAKE k \in 1..K
  <2> DEFINE N == Len(V(k))
             q == i \div Strides[k]
  <2>1. N \in Nat \ {0} /\ Strides[k] \in Nat \ {0} /\ t[k] \in Name
    BY <1>1
  <2>2. V(k) \in [1..N -> Choices(t[k])]
    <3> HIDE DEF t
    <3> QED
      BY <2>1, VersionsIs
  <2>3. q \in Nat
    <3>1. \A m \in Nat \ {0} : i \div m \in Nat
      OBVIOUS
    <3> QED
      BY <2>1, <3>1
  <2> HIDE DEF q, N
  <2>4. (q % N) + 1 \in 1..N
    BY <2>1, <2>3
  <2>5. Pick(i, k) = V(k)[(q % N) + 1]
    BY DEF Pick, q, N
  <2> QED
    BY <2>2, <2>4, <2>5
<1> HIDE DEF at
<1>7. \A n \in KeySet : Permutation(i)[n] \in Choices(n)
  <2> HIDE DEF t, K
  <2> QED
    BY <1>3, <1>5, <1>6
<1>8. \A n \in KeySet : Choices(n) \subseteq 0..MaxVer
  BY ResolverAssumption DEF Choices, VersionsOf, Ver
<1>9. Permutation(i) \in [KeySet -> 0..MaxVer]
  <2>1. \A n \in KeySet : Permutation(i)[n] \in 0..MaxVer
    BY <1>7, <1>8
  <2> QED
    BY <1>5, <2>1
<1>10. TotalCases \in Nat \ {0}
  <2>1. K + 1 \in 1..K + 1
    BY <1>1
  <2> QED
    BY <1>1, <2>1 DEF TotalCases
<1>11. \A k \in 1..K : Permutation(i)[t[k]] = Pick(i, k)
  <2> HIDE DEF t, K
  <2> QED
    BY <1>1, <1>4, <1>5
<1> QED
  BY <1>5, <1>7, <1>9, <1>10, <1>11

----------------------------------------------------------------------------
\* The other steps

LEMMA CleanedIs ==
  ASSUME NEW dep, NEW S
  PROVE  Cleaned(dep, S) \subseteq S
  BY DEF Cleaned

LEMMA RequestAggregatedInv ==
  ASSUME ResolverInv, RequestAggregated
  PROVE  ResolverInv'
<1> DEFINE kept   == Cleaned(world.dep, Present)
           names  == NamesOf(kept)
           added  == Relevant(names)
           direct == added \cap world.local
           set    == {<<n, world.inst[n]>> : n \in direct}
<1>1. stage = "request" /\ UNCHANGED <<world, caller, broken, chosen>>
  BY DEF RequestAggregated
<1>2. world \in Worlds /\ ResolverTypeOK /\ CallsOK /\ List(keys) /\ chosen = <<>>
  BY <1>1 DEF ResolverInv, ResolverTypeOK, ChosenOK, List
<1>3. CASE kept = {}
  <2>1. stage' = "failed" /\ UNCHANGED <<graph, keys, calls, asked>>
    BY <1>3 DEF RequestAggregated
  <2>2. KeySet' = KeySet /\ Present' = Present
    BY <2>1 DEF KeySet, Present
  <2>3. ResolverTypeOK' /\ CallsOK' /\ KeysOK'
    BY <1>1, <1>2, <2>1, <2>2 DEF ResolverTypeOK, CallsOK, KeysOK, Stages, ResolverInv, NamesOf
  <2> QED
    BY <1>1, <1>2, <2>1, <2>3 DEF ResolverInv, DependantsAsked, TableOK, ChosenOK
<1>4. CASE kept # {}
  <2>1. /\ stage' = "installed" /\ asked' = names
        /\ graph' = [x \in Node |-> IF x \in kept \cup set THEN "in" ELSE "none"]
        /\ keys' = KeysIn(names) \o Listing(direct)
        /\ calls' = [c \in Callers |->
             IF c \in {Top(n) : n \in added \ direct} THEN {c[1]} ELSE {}]
    BY <1>4 DEF RequestAggregated
  <2>2. kept \subseteq Present /\ Present \subseteq Node
    BY CleanedIs DEF Present
  <2>3. names \subseteq KeySet /\ names \in SUBSET Name /\ KeySet \subseteq Name
    <3> HIDE DEF kept
    <3>1. KeySet \subseteq Name
      BY <1>2 DEF List, Range, KeySet
    <3>2. names \subseteq NamesOf(Present)
      BY <2>2 DEF NamesOf
    <3>3. NamesOf(Present) \subseteq KeySet
      BY DEF ResolverInv, KeysOK
    <3> HIDE DEF names
    <3> QED
      BY <3>1, <3>2, <3>3
  <2> HIDE DEF kept, names
  <2>4. \A n \in added : n \in Name /\ n \notin names /\ world.inst[n] \in 1..MaxVer
    BY <1>2, <2>3, RelevantIs
  <2>5. direct \in SUBSET Name /\ direct \cap names = {}
    BY <2>4
  <2> HIDE DEF added
  <2>6. List(keys') /\ KeySet' = names \cup direct
    <3> HIDE DEF direct
    <3>1. List(KeysIn(names)) /\ Range(KeysIn(names)) = names
      BY <1>2, <2>3, KeysInIsList
    <3>2. List(Listing(direct)) /\ Range(Listing(direct)) = direct
      BY <2>5, ListingIsList
    <3>3. Range(KeysIn(names)) \cap Range(Listing(direct)) = {}
      BY <2>5, <3>1, <3>2
    <3>4. List(keys') /\ Range(keys') = names \cup direct
      BY <2>1, <3>1, <3>2, <3>3, ConcatIsList
    <3> QED
      BY <3>4 DEF KeySet
  <2>7. \A c \in Callers : c[1] \in Name
    BY DEF Callers
  <2>8. ResolverTypeOK'
    <3>1. graph' \in [Node -> {"none", "fetch", "join", "in"}]
      BY <2>1
    <3>2. calls' \in [Callers -> SUBSET Name]
      BY <2>1, <2>7
    <3> QED
      BY <1>1, <1>2, <2>1, <2>3, <2>6, <3>1, <3>2 DEF ResolverTypeOK, Stages, List
  <2>9. \A n \in Name : calls'[Top(n)] = IF n \in added \ direct THEN {n} ELSE {}
    <3> TAKE n \in Name
    <3>1. Top(n) \in Callers /\ Top(n)[1] = n
      BY TopIs
    <3>2. Top(n) \in {Top(m) : m \in added \ direct} <=> n \in added \ direct
      BY <2>4, TopIs
    <3> QED
      BY <2>1, <3>1, <3>2
  <2>10. added = Relevant(asked)' /\ asked' = names
    BY <1>1, <2>1 DEF added, Relevant
  <2>11. CallsOK'
    <3>1. \A x \in Node : calls'[x] = {}
      <4> TAKE x \in Node
      <4>1. x \in Callers /\ \A n \in added : x # Top(n)
        BY <2>4, NodeIs, TopIs
      <4> QED
        BY <2>1, <4>1
    <3>2. \A n \in Name :
            calls'[Top(n)] \subseteq {n} \cap (Relevant(asked)' \ world'.local)
      BY <1>1, <2>9, <2>10
    <3> QED
      BY <2>1, <3>1, <3>2 DEF CallsOK
  <2>12. KeysOK'
    <3> SUFFICES ASSUME NEW x \in kept \cup set PROVE x[1] \in KeySet'
      BY <2>1 DEF KeysOK, Present, NamesOf
    <3>1. x[1] \in names \cup direct
      BY DEF names, NamesOf
    <3> QED
      BY <2>6, <3>1
  <2>13. DependantsAsked'
    <3>1. asked' \subseteq KeySet'
      BY <2>6, <2>10
    <3>2. \A n \in added \ (world.mute \ world.local) : n \in KeySet' \/ n \in calls'[Top(n)]
      BY <2>4, <2>6, <2>9
    <3> QED
      BY <1>1, <2>1, <2>10, <3>1, <3>2 DEF DependantsAsked
  <2> QED
    BY <1>1, <1>2, <2>1, <2>8, <2>11, <2>12, <2>13 DEF ResolverInv, TableOK, ChosenOK
<1> QED
  BY <1>3, <1>4

LEMMA InstalledAggregatedInv ==
  ASSUME ResolverInv, InstalledAggregated
  PROVE  ResolverInv'
<1> DEFINE left == {x \in Present : Allowed(world, x[1], x[2])}
<1>1. /\ stage = "installed" /\ Aggregated
      /\ graph' = [x \in Node |-> IF x \in left THEN "in" ELSE "none"]
      /\ stage' = IF NamesOf(left) = KeySet THEN "resolve" ELSE "failed"
      /\ UNCHANGED <<world, keys, calls, caller, broken, asked, chosen>>
  BY DEF InstalledAggregated
<1>2. world \in Worlds /\ ResolverTypeOK /\ CallsOK /\ chosen = <<>> /\ KeySet' = KeySet
  BY <1>1 DEF ResolverInv, ResolverTypeOK, ChosenOK, KeySet
<1>3. Present' = left /\ left \subseteq Present
  BY <1>1 DEF Present
<1>4. ResolverTypeOK'
  BY <1>1, <1>2 DEF ResolverTypeOK, Stages
<1>5. CallsOK'
  BY <1>1, <1>2 DEF CallsOK
<1>6. KeysOK'
  BY <1>2, <1>3 DEF ResolverInv, KeysOK, NamesOf
<1>7. DependantsAsked'
  <2> SUFFICES ASSUME stage' = "resolve" PROVE DependantsAsked'
    BY <1>1 DEF DependantsAsked
  <2>1. \A n \in Name : calls[Top(n)] = {}
    BY <1>1, TopIs DEF Aggregated
  <2>2. asked \in SUBSET Name
    BY <1>2 DEF ResolverTypeOK
  <2>3. \A n \in Relevant(asked) \ (world.mute \ world.local) : n \in KeySet
    BY <1>1, <1>2, <2>1, <2>2, RelevantIs DEF ResolverInv, DependantsAsked
  <2> QED
    BY <1>1, <1>2, <2>3 DEF ResolverInv, DependantsAsked, Relevant
<1>8. TableOK'
  <2> SUFFICES ASSUME NamesOf(left) = KeySet
               PROVE  Aggregated' /\ KeySet' \subseteq NamesOf(left)
                      /\ \A x \in left : Allowed(world, x[1], x[2])'
    BY <1>1, <1>3 DEF TableOK, NamesOf
  <2>1. Aggregated'
    BY <1>1 DEF Aggregated, Running
  <2> QED
    BY <1>1, <1>2, <2>1 DEF Allowed
<1>9. ChosenOK'
  BY <1>1, <1>2 DEF ChosenOK
<1> QED
  BY <1>1, <1>2, <1>4, <1>5, <1>6, <1>7, <1>8, <1>9 DEF ResolverInv

LEMMA TableIsFull ==
  ASSUME ResolverInv, stage \in {"resolve", "done"}
  PROVE  TableFull /\ \A n \in KeySet : VersionsOf(n) # {}
<1>1. \A n \in KeySet : VersionsOf(n) # {}
  <2> TAKE n \in KeySet
  <2>1. PICK x \in Present : x[1] = n
    BY DEF ResolverInv, TableOK, NamesOf
  <2>2. x = <<n, x[2]>> /\ x[2] \in Ver
    BY <2>1 DEF Present, Node
  <2> QED
    BY <2>1, <2>2 DEF VersionsOf
<1> QED
  BY <1>1 DEF TableFull, ResolverInv, ResolverTypeOK, List, Choices

\* Which combination is the first valid one is a matter of the world and of dnps.
LEMMA FirstIsStable ==
  ASSUME UNCHANGED <<world, graph, keys>>
  PROVE  \A s : First(s)' = First(s)
<1>0. KeySet' = KeySet /\ Present' = Present
  BY DEF KeySet, Present
<1>1. \A n : PrioritizedVersions(n)' = PrioritizedVersions(n)
  BY <1>0 DEF PrioritizedVersions, VersionsOf, InstalledDnps
<1>2. PrioritizedDnps' = PrioritizedDnps
  BY DEF PrioritizedDnps, InstalledDnps, KeysIn
<1>3. Strides' = Strides
  BY <1>1, <1>2 DEF Strides
<1>4. TotalCases' = TotalCases
  BY <1>2, <1>3 DEF TotalCases
<1>5. \A i : Permutation(i)' = Permutation(i)
  BY <1>0, <1>1, <1>2, <1>3 DEF Permutation
<1>6. \A s : ValidState(s)' = ValidState(s)
  BY DEF ValidState
<1> QED
  BY <1>4, <1>5, <1>6 DEF First

LEMMA ResolvedInv ==
  ASSUME ResolverInv, Resolved \/ NotResolved
  PROVE  ResolverInv'
<1>1. /\ stage = "resolve"
      /\ \/ stage' = "done" /\ First(chosen')
         \/ stage' = "failed" /\ chosen' = chosen
      /\ UNCHANGED <<world, graph, keys, calls, caller, broken, asked>>
  BY DEF Resolved, NotResolved, First
<1>2. chosen = <<>> /\ KeySet' = KeySet /\ Present' = Present /\ Aggregated' = Aggregated
  BY <1>1 DEF ResolverInv, ChosenOK, KeySet, Present, Aggregated, Running
<1>3. chosen' = <<>> \/ chosen' \in [KeySet -> 0..MaxVer]
  <2>1. CASE stage' = "failed"
    BY <1>1, <1>2, <2>1
  <2>2. CASE stage' # "failed"
    <3>1. PICK i \in 0..TotalCases - 1 : chosen' = Permutation(i)
      BY <1>1, <2>2 DEF First
    <3>2. TableFull
      BY <1>1, TableIsFull
    <3> QED
      BY <3>1, <3>2, PermutationIs
  <2> QED
    BY <2>1, <2>2
<1>4. ResolverTypeOK'
  BY <1>1, <1>2, <1>3 DEF ResolverInv, ResolverTypeOK, Stages
<1>5. CallsOK' /\ KeysOK' /\ DependantsAsked' /\ (world \in Worlds)'
  BY <1>1, <1>2 DEF ResolverInv, CallsOK, KeysOK, NamesOf, DependantsAsked, Relevant
<1>6. TableOK'
  BY <1>1, <1>2 DEF ResolverInv, TableOK, NamesOf, Allowed
<1>7. ChosenOK'
  <2>1. First(chosen') => First(chosen)'
    BY <1>1, <1>2, FirstIsStable
  <2> QED
    BY <1>1, <1>2, <2>1 DEF ChosenOK
<1> QED
  BY <1>4, <1>5, <1>6, <1>7 DEF ResolverInv

LEMMA NextInv == ResolverInv /\ [ResolverNext]_resolverVars => ResolverInv'
<1> SUFFICES ASSUME ResolverInv, [ResolverNext]_resolverVars PROVE ResolverInv'
  OBVIOUS
<1>1. CASE UNCHANGED resolverVars
  <2>1. UNCHANGED <<world, stage, graph, keys, calls, caller, broken, asked, chosen>>
    BY <1>1 DEF resolverVars
  <2>2. KeySet' = KeySet /\ Present' = Present /\ Running' = Running /\ Aggregated' = Aggregated
    BY <2>1 DEF KeySet, Present, Running, Aggregated
  <2>3. ResolverTypeOK' /\ CallsOK' /\ KeysOK' /\ (world \in Worlds)'
    BY <2>1, <2>2 DEF ResolverInv, ResolverTypeOK, CallsOK, KeysOK, NamesOf, Relevant
  <2>4. DependantsAsked' /\ TableOK'
    BY <2>1, <2>2 DEF ResolverInv, DependantsAsked, TableOK, NamesOf, Relevant, Allowed
  <2>5. ChosenOK'
    BY <2>1, FirstIsStable DEF ResolverInv, ChosenOK
  <2> QED
    BY <2>3, <2>4, <2>5 DEF ResolverInv
<1>2. ASSUME NEW c \in Callers, NEW d \in calls[c], VersionsAnswered(c, d) \/ VersionsFailed(c, d)
      PROVE  ResolverInv'
  BY <1>2, VersionsAnsweredInv, VersionsFailedInv
<1>3. ASSUME NEW x \in Running,
             DependenciesAnswered(x) \/ DependenciesFailed(x) \/ VersionJoined(x)
      PROVE  ResolverInv'
  BY <1>3, ManifestInv
<1>4. CASE RequestAggregated
  BY <1>4, RequestAggregatedInv
<1>5. CASE InstalledAggregated
  BY <1>5, InstalledAggregatedInv
<1>6. CASE Resolved \/ NotResolved
  BY <1>6, ResolvedInv
<1> QED
  BY <1>1, <1>2, <1>3, <1>4, <1>5, <1>6 DEF ResolverNext, AggregateStep

LEMMA Invariant == ResolverSpec => []ResolverInv
  BY InitInv, NextInv, PTL DEF ResolverSpec

----------------------------------------------------------------------------
\* Theorems

(* Type correctness: the table has the shape the code gives it in every
   resolution, and what is returned is a combination of its keys. *)
THEOREM ResolverTypeCorrect == ResolverSpec => []ResolverTypeOK
<1>1. ResolverInv => ResolverTypeOK
  BY DEF ResolverInv
<1> QED
  BY <1>1, Invariant, PTL

\* What a resolution returns: for every key one of its versions, after the labels.
LEMMA ResultIs ==
  ASSUME ResolverInv, stage = "done"
  PROVE  /\ chosen \in [KeySet -> 0..MaxVer] /\ KeySet \subseteq Name
         /\ First(chosen) /\ ValidState(chosen)
         /\ \A n \in KeySet : chosen[n] \in Choices(n)
         /\ Request \in KeySet => chosen[Request] \in world.want.of
         /\ \A n \in KeySet \ {Request} : n \in InstalledDnps => chosen[n] >= world.inst[n]
<1>1. First(chosen) /\ ValidState(chosen)
  BY DEF ResolverInv, ChosenOK, First
<1>2. TableFull
  BY TableIsFull
<1>3. PICK i \in 0..TotalCases - 1 : chosen = Permutation(i)
  BY <1>1 DEF First
<1>4. i \in Nat
  BY <1>3
<1>5. chosen \in [KeySet -> 0..MaxVer] /\ \A n \in KeySet : chosen[n] \in Choices(n)
  BY <1>2, <1>3, <1>4, PermutationIs
<1>6. KeySet \subseteq Name
  BY <1>2 DEF TableFull, KeySet, Range, List
<1>7. \A n \in KeySet : n = Request \/ n \in InstalledDnps => Allowed(world, n, chosen[n])
  <2> SUFFICES ASSUME NEW n \in KeySet, n = Request \/ n \in InstalledDnps
               PROVE  Allowed(world, n, chosen[n])
    OBVIOUS
  <2>1. <<n, chosen[n]>> \in Present
    BY <1>5 DEF Choices, VersionsOf
  <2> QED
    BY <2>1 DEF ResolverInv, TableOK
<1> QED
  BY <1>1, <1>5, <1>6, <1>7 DEF Allowed

\* If the request is no downgrade, the packages are those of the result.
LEMMA AfterIs ==
  ASSUME ResolverInv, stage = "done", RequestMoves, NEW n \in KeySet
  PROVE  After(n) = chosen[n] /\ Satisfied(n)
<1>1. /\ chosen \in [KeySet -> 0..MaxVer] /\ KeySet \subseteq Name /\ ValidState(chosen)
      /\ \A m \in KeySet \ {Request} : m \in InstalledDnps => chosen[m] >= world.inst[m]
      /\ \A m \in Name : world.inst[m] \in 0..MaxVer
      /\ MaxVer \in Nat
  BY ResultIs, WorldIs DEF ResolverInv
<1>2. \A m \in KeySet : After(m) = chosen[m]
  <2> TAKE m \in KeySet
  <2>1. chosen[m] >= world.inst[m]
    BY <1>1 DEF RequestMoves, RequestIn, InstalledDnps
  <2> QED
    BY <1>1, <2>1 DEF After
<1>3. Satisfied(n)
  <2> SUFFICES ASSUME chosen[n] # 0, NEW d \in DOMAIN world.dep[<<n, chosen[n]>>]
               PROVE  After(d) \in world.dep[<<n, chosen[n]>>][d].of
    BY <1>2 DEF Satisfied
  <2>1. d \in KeySet /\ chosen[d] \in world.dep[<<n, chosen[n]>>][d].of
    BY <1>1 DEF ValidState
  <2> QED
    BY <1>2, <2>1
<1> QED
  BY <1>2, <1>3

(* A resolution brings the request into its range, downgrades nothing else, and
   every package of the result finds its dependencies. *)
THEOREM ResolvesSoundly == ResolverSpec => []ResultSound
<1>1. ResolverInv => ResultSound
  <2> SUFFICES ASSUME ResolverInv, stage = "done" PROVE ResultSound
    BY DEF ResultSound
  <2>1. DOMAIN chosen = KeySet
    BY ResultIs
  <2> QED
    BY <2>1, ResultIs, AfterIs DEF ResultSound, RequestIn
<1> QED
  BY <1>1, Invariant, PTL

(* Every installed package that depends on one the request brings in, directly
   or not, finds its dependencies after the installation, unless the registry
   did not answer for it. *)
THEOREM KeepsDependants == ResolverSpec => []DependantsKept
<1>1. ResolverInv => DependantsKept
  <2> SUFFICES ASSUME ResolverInv, stage = "done", RequestMoves,
                      NEW n \in Dependants(world, asked) \ (world.mute \ world.local)
               PROVE  Satisfied(n)
    BY DEF DependantsKept
  <2>1. n \in Name
    BY DEF Dependants
  <2>2. calls[Top(n)] = {}
    BY <2>1, TopIs DEF ResolverInv, TableOK, Aggregated
  <2>3. n \in KeySet
    BY <2>2 DEF ResolverInv, DependantsAsked, Relevant
  <2> QED
    BY <2>3, AfterIs
<1> QED
  BY <1>1, Invariant, PTL

----------------------------------------------------------------------------
\* The order in which the combinations are tried

\* Induction over an interval, up and down, for a set of its elements
LEMMA CountingUp ==
  ASSUME NEW N \in Nat, NEW T, 1 \in T, \A k \in 1..N : k \in T => k + 1 \in T
  PROVE  \A k \in 1..N + 1 : k \in T
<1> DEFINE Bad == {k \in 1..N + 1 : k \notin T}
<1> SUFFICES ASSUME Bad # {} PROVE FALSE
  OBVIOUS
<1>1. PICK j \in Bad : \A i \in Bad : j <= i
  <2>1. Bad \in SUBSET Nat
    OBVIOUS
  <2> HIDE DEF Bad
  <2> QED
    BY <2>1, LeastNat
<1>2. j \in 1..N + 1 /\ j \notin T
  BY <1>1
<1>3. j - 1 \in 1..N /\ j - 1 \in 1..N + 1 /\ ~(j <= j - 1) /\ (j - 1) + 1 = j
  BY <1>2
<1>4. j - 1 \in T
  <2>1. j - 1 \notin Bad
    BY <1>1, <1>3
  <2> QED
    BY <1>3, <2>1
<1> QED
  BY <1>2, <1>3, <1>4

LEMMA CountingDown ==
  ASSUME NEW p \in Nat \ {0}, NEW T, p \in T, \A k \in 1..p - 1 : k + 1 \in T => k \in T
  PROVE  \A k \in 1..p : k \in T
<1> DEFINE U == {j \in 1..p : p + 1 - j \in T}
<1>1. 1 \in U
  BY p + 1 - 1 = p
<1>2. \A j \in 1..p - 1 : j \in U => j + 1 \in U
  <2> SUFFICES ASSUME NEW j \in 1..p - 1, p + 1 - j \in T PROVE p + 1 - (j + 1) \in T
    OBVIOUS
  <2>1. p - j \in 1..p - 1 /\ (p - j) + 1 = p + 1 - j /\ p + 1 - (j + 1) = p - j
    OBVIOUS
  <2> QED
    BY <2>1
<1>3. \A j \in 1..(p - 1) + 1 : j \in U
  <2> HIDE DEF U
  <2>1. p - 1 \in Nat
    OBVIOUS
  <2> QED
    BY <1>1, <1>2, <2>1, CountingUp
<1> SUFFICES ASSUME NEW k \in 1..p PROVE k \in T
  OBVIOUS
<1>4. p + 1 - k \in 1..(p - 1) + 1 /\ p + 1 - (p + 1 - k) = k
  OBVIOUS
<1> QED
  BY <1>3, <1>4

LEMMA DivIs ==
  ASSUME NEW a \in Nat, NEW b \in Nat \ {0}
  PROVE  a \div b \in Nat /\ a % b \in 0..b - 1 /\ a = (a % b) + b * (a \div b)
  OBVIOUS

LEMMA DivIsUnique ==
  ASSUME NEW b \in Nat \ {0}, NEW q \in Nat, NEW r \in 0..b - 1
  PROVE  (r + b * q) \div b = q /\ (r + b * q) % b = r
  OBVIOUS

LEMMA DivDiv ==
  ASSUME NEW a \in Nat, NEW b \in Nat \ {0}, NEW c \in Nat \ {0}
  PROVE  a \div (b * c) = (a \div b) \div c
  OBVIOUS

LEMMA SumIsNat == ASSUME NEW x \in Nat, NEW y \in Nat, NEW z \in Nat PROVE x + y * z \in Nat
  OBVIOUS

LEMMA QuotientsExist ==
  ASSUME NEW K \in Nat, NEW L \in [1..K -> Nat \ {0}], NEW e \in [1..K -> Nat]
  PROVE  \E q \in [1..K + 1 -> Nat] :
           q[K + 1] = 0 /\ \A k \in 1..K : q[k] = e[k] + L[k] * q[k + 1]
<1> DEFINE From1(q, h) == /\ q \in [1..K + 1 -> Nat] /\ q[K + 1] = 0
                          /\ \A k \in 1..K : k >= h => q[k] = e[k] + L[k] * q[k + 1]
           T == {h \in 1..K + 1 : \E q : From1(q, h)}
<1>1. K + 1 \in T
  <2> DEFINE z == [k \in 1..K + 1 |-> 0]
  <2>1. z \in [1..K + 1 -> Nat] /\ K + 1 \in 1..K + 1 /\ \A k \in 1..K : ~(k >= K + 1)
    OBVIOUS
  <2>2. From1(z, K + 1)
    BY <2>1
  <2> QED
    BY <2>1, <2>2
<1>2. \A h \in 1..(K + 1) - 1 : h + 1 \in T => h \in T
  <2>0. (K + 1) - 1 = K /\ \A h \in 1..K : h \in 1..K + 1
    OBVIOUS
  <2> SUFFICES ASSUME NEW h \in 1..K, h + 1 \in T PROVE h \in T
    BY <2>0
  <2>q. PICK q : From1(q, h + 1)
    OBVIOUS
  <2> DEFINE r == [q EXCEPT ![h] = e[h] + L[h] * q[h + 1]]
  <2>1. e[h] + L[h] * q[h + 1] \in Nat
    <3>1. h + 1 \in 1..K + 1
      OBVIOUS
    <3>2. e[h] \in Nat /\ L[h] \in Nat /\ q[h + 1] \in Nat
      BY <3>1, <2>q
    <3> QED
      BY <3>2, SumIsNat
  <2>2. r \in [1..K + 1 -> Nat] /\ r[h] = e[h] + L[h] * q[h + 1]
        /\ \A k \in 1..K + 1 : k # h => r[k] = q[k]
    BY <2>0, <2>1, <2>q
  <2> HIDE DEF r
  <2>3. r[K + 1] = 0
    <3>1. K + 1 \in 1..K + 1 /\ K + 1 # h
      OBVIOUS
    <3> QED
      BY <3>1, <2>q, <2>2
  <2>4. ASSUME NEW k \in 1..K, k >= h PROVE r[k] = e[k] + L[k] * r[k + 1]
    <3>1. k + 1 \in 1..K + 1 /\ k + 1 # h
      BY <2>4
    <3>2. r[k + 1] = q[k + 1]
      BY <3>1, <2>2
    <3>3. CASE k = h
      BY <3>2, <3>3, <2>2
    <3>4. CASE k # h
      <4>1. k >= h + 1 /\ k \in 1..K + 1
        BY <3>4, <2>4
      <4>2. q[k] = e[k] + L[k] * q[k + 1]
        BY <4>1, <2>q
      <4> QED
        BY <4>1, <4>2, <3>2, <3>4, <2>2
    <3> QED
      BY <3>3, <3>4
  <2>5. From1(r, h)
    BY <2>2, <2>3, <2>4
  <2> QED
    BY <2>0, <2>5
<1>3. 1 \in T
  <2> HIDE DEF T
  <2>1. K + 1 \in Nat \ {0} /\ 1 \in 1..K + 1
    OBVIOUS
  <2> QED
    BY <1>1, <1>2, <2>1, CountingDown
<1>4. PICK q : From1(q, 1)
  BY <1>3
<1>5. \A k \in 1..K : q[k] = e[k] + L[k] * q[k + 1]
  <2>1. \A k \in 1..K : k >= 1
    OBVIOUS
  <2> QED
    BY <1>4, <2>1
<1> QED
  BY <1>4, <1>5

LEMMA MoreDigits ==
  ASSUME NEW c \in Nat \ {0}, NEW d \in Nat, NEW e \in Nat, NEW u \in Nat, NEW v \in Nat
  PROVE  /\ u <= v /\ d <= e => d + c * u <= e + c * v
         /\ u <= v /\ d < e => d + c * u < e + c * v
         /\ u < v /\ d < c => d + c * u < e + c * v
<1>1. c * u \in Nat /\ c * v \in Nat
  OBVIOUS
<1>2. u <= v => c * u <= c * v
  OBVIOUS
<1>3. u < v => c * u + c <= c * v
  OBVIOUS
<1> QED
  BY <1>1, <1>2, <1>3

\* The index with the smaller digits is the smaller one.
LEMMA SmallerDigits ==
  ASSUME NEW K \in Nat, NEW L \in [1..K -> Nat \ {0}],
         NEW d \in [1..K -> Nat], NEW e \in [1..K -> Nat],
         NEW x \in [1..K + 1 -> Nat], NEW y \in [1..K + 1 -> Nat],
         \A k \in 1..K : /\ d[k] < L[k]
                         /\ x[k] = d[k] + L[k] * x[k + 1]
                         /\ y[k] = e[k] + L[k] * y[k + 1],
         x[K + 1] = 0, y[K + 1] = 0,
         NEW p \in 1..K, d[p] < e[p], \A k \in 1..K : k > p => d[k] <= e[k]
  PROVE  x[1] < y[1]
<1> DEFINE T == {k \in 1..K + 1 : k > p => x[k] <= y[k]}
           U == {k \in 1..p : x[k] < y[k]}
<1>1. ASSUME NEW k \in 1..K
      PROVE  /\ k + 1 \in 1..K + 1 /\ k \in 1..K + 1
             /\ x[k] = d[k] + L[k] * x[k + 1] /\ y[k] = e[k] + L[k] * y[k + 1]
             /\ L[k] \in Nat \ {0} /\ d[k] \in Nat /\ e[k] \in Nat /\ d[k] < L[k]
             /\ x[k + 1] \in Nat /\ y[k + 1] \in Nat
  <2>1. k + 1 \in 1..K + 1 /\ k \in 1..K + 1
    OBVIOUS
  <2> QED
    BY <2>1
<1>1a. ASSUME NEW k \in 1..K
      PROVE  /\ x[k + 1] <= y[k + 1] /\ d[k] <= e[k] => x[k] <= y[k]
             /\ x[k + 1] <= y[k + 1] /\ d[k] < e[k] => x[k] < y[k]
             /\ x[k + 1] < y[k + 1] => x[k] < y[k]
  <2> DEFINE c == L[k]
             f == d[k]
             g == e[k]
             u == x[k + 1]
             v == y[k + 1]
  <2>1. /\ x[k] = f + c * u /\ y[k] = g + c * v
        /\ c \in Nat \ {0} /\ f \in Nat /\ g \in Nat /\ f < c /\ u \in Nat /\ v \in Nat
    BY <1>1
  <2> HIDE DEF c, f, g, u, v
  <2>2. /\ u <= v /\ f <= g => f + c * u <= g + c * v
        /\ u <= v /\ f < g => f + c * u < g + c * v
        /\ u < v => f + c * u < g + c * v
    BY <2>1, MoreDigits, Zenon
  <2> QED
    BY <2>1, <2>2 DEF c, f, g, u, v
<1>2. K + 1 \in T
  <2>1. K + 1 \in 1..K + 1
    OBVIOUS
  <2> QED
    BY <2>1
<1>3. \A k \in 1..(K + 1) - 1 : k + 1 \in T => k \in T
  <2> SUFFICES ASSUME NEW k \in 1..K, k > p => d[k] <= e[k], k + 1 > p => x[k + 1] <= y[k + 1], k > p
               PROVE  x[k] <= y[k]
    <3>1. (K + 1) - 1 = K /\ \A k \in 1..K : k \in 1..K + 1
      OBVIOUS
    <3> QED
      BY <3>1
  <2>1. d[k] <= e[k] /\ x[k + 1] <= y[k + 1]
    OBVIOUS
  <2> QED
    BY <1>1a, <2>1
<1>4. \A k \in 1..K + 1 : k \in T
  <2> HIDE DEF T
  <2>1. K + 1 \in Nat \ {0}
    OBVIOUS
  <2> QED
    BY <1>2, <1>3, <2>1, CountingDown
<1>5. x[p] < y[p]
  <2>1. p + 1 \in T /\ p + 1 > p
    BY <1>1, <1>4
  <2>2. x[p + 1] <= y[p + 1]
    BY <2>1
  <2> QED
    BY <1>1a, <2>2
<1>6. \A k \in 1..p - 1 : k + 1 \in U => k \in U
  <2> SUFFICES ASSUME NEW k \in 1..p - 1, x[k + 1] < y[k + 1] PROVE x[k] < y[k]
    <3>1. \A k \in 1..p - 1 : k \in 1..p
      OBVIOUS
    <3> QED
      BY <3>1
  <2>1. k \in 1..K
    OBVIOUS
  <2> QED
    BY <1>1a, <2>1
<1>7. p \in Nat \ {0} /\ p \in U /\ 1 \in 1..p
  BY <1>5
<1>8. \A k \in 1..p : k \in U
  <2> HIDE DEF U
  <2> QED
    BY <1>6, <1>7, CountingDown
<1> QED
  BY <1>7, <1>8

\* The digits of an index, the choices of the packages
Digit(i, k) == (i \div Strides[k]) % Len(PrioritizedVersions(PrioritizedDnps[k]))

LEMMA DigitsAre ==
  ASSUME TableFull, NEW i \in Nat, i < TotalCases
  PROVE  LET K == Len(PrioritizedDnps)
             L(k) == Len(PrioritizedVersions(PrioritizedDnps[k]))
         IN  /\ \A k \in 1..K + 1 : i \div Strides[k] \in Nat
             /\ \A k \in 1..K :
                  /\ Digit(i, k) \in Nat /\ Digit(i, k) < L(k)
                  /\ i \div Strides[k] = Digit(i, k) + L(k) * (i \div Strides[k + 1])
             /\ i \div Strides[K + 1] = 0 /\ i \div Strides[1] = i
<1> DEFINE K == Len(PrioritizedDnps)
           L == [k \in 1..K |-> Len(PrioritizedVersions(PrioritizedDnps[k]))]
           m == Strides
<1>1. /\ K \in Nat /\ L \in [1..K -> Nat \ {0}] /\ m \in [1..K + 1 -> Nat \ {0}]
      /\ m[1] = 1 /\ \A k \in 1..K : m[k + 1] = m[k] * L[k]
  BY StridesAre
<1>2. i < m[K + 1]
  BY DEF TotalCases
<1>3. \A k \in 1..K : Digit(i, k) = (i \div m[k]) % L[k]
  BY DEF Digit
<1> HIDE DEF K, L, m
<1>4. /\ \A k \in 1..K + 1 : i \div m[k] \in Nat
      /\ \A k \in 1..K : /\ (i \div m[k]) % L[k] \in 0..L[k] - 1
                         /\ i \div m[k] = ((i \div m[k]) % L[k]) + L[k] * (i \div m[k + 1])
  <2>1. \A k \in 1..K + 1 : i \div m[k] \in Nat
    BY <1>1, DivIs
  <2>2. ASSUME NEW k \in 1..K
        PROVE  /\ (i \div m[k]) % L[k] \in 0..L[k] - 1
               /\ i \div m[k] = ((i \div m[k]) % L[k]) + L[k] * (i \div m[k + 1])
    <3>1. k \in 1..K + 1 /\ m[k] \in Nat \ {0} /\ L[k] \in Nat \ {0} /\ m[k + 1] = m[k] * L[k]
      BY <1>1
    <3> DEFINE a == m[k]
               b == L[k]
               c == i \div a
    <3>2. a \in Nat \ {0} /\ b \in Nat \ {0} /\ m[k + 1] = a * b /\ c \in Nat
      BY <2>1, <3>1
    <3> HIDE DEF a, b
    <3>3. i \div (a * b) = c \div b
      BY <3>2, DivDiv
    <3> HIDE DEF c
    <3>4. c % b \in 0..b - 1 /\ c = (c % b) + b * (c \div b)
      BY <3>2, DivIs
    <3> QED
      BY <3>2, <3>3, <3>4 DEF a, b, c
  <2> QED
    BY <2>1, <2>2
<1>5. i \div m[K + 1] = 0
  <2>1. m[K + 1] \in Nat \ {0}
    <3>1. K + 1 \in 1..K + 1
      BY <1>1
    <3> QED
      BY <1>1, <3>1
  <2> QED
    BY <1>2, <2>1
<1>6. i \div m[1] = i
  BY <1>1
<1>7. ASSUME NEW k \in 1..K
      PROVE  /\ Digit(i, k) \in Nat /\ Digit(i, k) < L[k]
             /\ i \div m[k] = Digit(i, k) + L[k] * (i \div m[k + 1])
  <2>1. Digit(i, k) \in 0..L[k] - 1 /\ L[k] \in Nat
    BY <1>1, <1>3, <1>4
  <2>2. i \div m[k] = Digit(i, k) + L[k] * (i \div m[k + 1])
    BY <1>3, <1>4
  <2> QED
    BY <2>1, <2>2
<1> QED
  BY <1>4, <1>5, <1>6, <1>7 DEF K, L, m

\* Every combination is tried: it has an index.
LEMMA IndexExists ==
  ASSUME TableFull, NEW s \in [KeySet -> 0..MaxVer], \A n \in KeySet : s[n] \in Choices(n)
  PROVE  \E j \in 0..TotalCases - 1 : Permutation(j) = s
<1> DEFINE t == PrioritizedDnps
           K == Len(t)
           V(k) == PrioritizedVersions(t[k])
           L == [k \in 1..K |-> Len(V(k))]
           m == Strides
           e == [k \in 1..K |-> CHOOSE x \in 0..L[k] - 1 : V(k)[x + 1] = s[t[k]]]
<1>1. /\ K \in Nat /\ DOMAIN t = 1..K
      /\ \A k \in 1..K : t[k] \in KeySet /\ t[k] \in Name
      /\ L \in [1..K -> Nat \ {0}] /\ m \in [1..K + 1 -> Nat \ {0}]
      /\ m[1] = 1 /\ \A k \in 1..K : m[k + 1] = m[k] * L[k]
  BY StridesAre
<1>2. \A n \in KeySet : \E k \in 1..K : t[k] = n
  <2>1. Range(t) = KeySet
    BY TableIs DEF TableFull
  <2> QED
    BY <1>1, <2>1 DEF Range
<1>3. ASSUME NEW k \in 1..K
      PROVE  e[k] \in 0..L[k] - 1 /\ V(k)[e[k] + 1] = s[t[k]]
  <2>1. PICK h \in 1..Len(V(k)) : V(k)[h] = s[t[k]]
    <3>1. t[k] \in Name /\ s[t[k]] \in Choices(t[k])
      BY <1>1
    <3> HIDE DEF t
    <3> QED
      BY <3>1, VersionsIs
  <2>2. L[k] = Len(V(k)) /\ L[k] \in Nat
    BY <1>1
  <2>3. h - 1 \in 0..L[k] - 1 /\ (h - 1) + 1 = h
    BY <2>2
  <2> HIDE DEF L, V
  <2> QED
    BY <2>1, <2>3
<1> HIDE DEF e
<1>4. e \in [1..K -> Nat] /\ \A k \in 1..K : e[k] \in 0..L[k] - 1
  <2>1. \A k \in 1..K : e[k] \in Nat
    BY <1>1, <1>3
  <2> QED
    BY <1>3, <2>1 DEF e
<1>5. PICK q \in [1..K + 1 -> Nat] : q[K + 1] = 0 /\ \A k \in 1..K : q[k] = e[k] + L[k] * q[k + 1]
  <2> HIDE DEF K, L
  <2> QED
    BY <1>1, <1>4, QuotientsExist
<1> DEFINE i == q[1]
<1>6. i \in Nat
  BY <1>1
<1>7. ASSUME NEW k \in 1..K
      PROVE  q[k] \in Nat /\ q[k] \div L[k] = q[k + 1] /\ q[k] % L[k] = e[k]
  <2> DEFINE b == L[k]
             d == e[k]
             r == q[k + 1]
  <2>1. k + 1 \in 1..K + 1 /\ k \in 1..K + 1
    BY <1>1
  <2>2. b \in Nat \ {0} /\ d \in 0..b - 1 /\ r \in Nat /\ q[k] = d + b * r /\ q[k] \in Nat
    BY <1>1, <1>4, <1>5, <2>1
  <2> HIDE DEF b, d, r
  <2>3. (d + b * r) \div b = r /\ (d + b * r) % b = d
    BY <2>2, DivIsUnique
  <2> QED
    BY <2>2, <2>3 DEF b, d, r
<1>8. \A k \in 1..K + 1 : i \div m[k] = q[k]
  <2> DEFINE T == {k \in 1..K + 1 : i \div m[k] = q[k]}
  <2>1. 1 \in T
    BY <1>1, <1>6
  <2>2. \A k \in 1..K : k \in T => k + 1 \in T
    <3>0. \A k \in 1..K : k + 1 \in 1..K + 1
      BY <1>1
    <3> SUFFICES ASSUME NEW k \in 1..K, i \div m[k] = q[k] PROVE i \div m[k + 1] = q[k + 1]
      BY <3>0
    <3> DEFINE a == m[k]
               b == L[k]
    <3>1. a \in Nat \ {0} /\ b \in Nat \ {0} /\ m[k + 1] = a * b
      BY <1>1
    <3>2. i \div a = q[k] /\ q[k] \div b = q[k + 1]
      BY <1>7
    <3> HIDE DEF a, b, i
    <3>3. i \div (a * b) = (i \div a) \div b
      BY <3>1, <1>6, DivDiv
    <3> QED
      BY <3>1, <3>2, <3>3
  <2> HIDE DEF T
  <2>3. \A k \in 1..K + 1 : k \in T
    BY <1>1, <2>1, <2>2, CountingUp
  <2> QED
    BY <2>3 DEF T
<1>9. i < TotalCases /\ TotalCases \in Nat
  <2>1. K + 1 \in 1..K + 1 /\ m[K + 1] \in Nat \ {0} /\ TotalCases = m[K + 1]
    BY <1>1 DEF TotalCases
  <2>2. i \div m[K + 1] = 0
    BY <1>5, <1>8, <2>1
  <2> DEFINE b == m[K + 1]
  <2>3. b \in Nat \ {0} /\ i \div b = 0
    BY <2>1, <2>2
  <2> HIDE DEF b, i
  <2>4. i = (i % b) + b * 0 /\ i % b \in 0..b - 1
    BY <1>6, <2>3, DivIs
  <2>5. i < b
    BY <2>3, <2>4
  <2> QED
    BY <2>1, <2>5 DEF b
<1>10. \A k \in 1..K : Pick(i, k) = s[t[k]]
  <2> TAKE k \in 1..K
  <2>1. Pick(i, k) = V(k)[((i \div m[k]) % L[k]) + 1]
    BY DEF Pick
  <2>2. (i \div m[k]) % L[k] = e[k]
    <3>1. k \in 1..K + 1
      BY <1>1
    <3> QED
      BY <3>1, <1>7, <1>8
  <2> QED
    BY <2>1, <2>2, <1>3
<1>11. Permutation(i) = s
  <2>1. Permutation(i) \in [KeySet -> 0..MaxVer] /\ \A k \in 1..K : Permutation(i)[t[k]] = Pick(i, k)
    BY <1>6, PermutationIs
  <2> HIDE DEF i, t, K
  <2>2. \A n \in KeySet : Permutation(i)[n] = s[n]
    BY <1>2, <1>10, <2>1
  <2> QED
    BY <2>1, <2>2
<1> QED
  BY <1>6, <1>9, <1>11

LEMMA RankIs ==
  ASSUME world \in Worlds, NEW n \in Name, NEW v \in Choices(n)
  PROVE  Rank(n, v) \in Int /\ v \in 0..MaxVer
<1>1. v \in 0..MaxVer /\ MaxVer \in Nat
  BY ResolverAssumption DEF Choices, VersionsOf, Ver
<1> QED
  BY <1>1 DEF Rank

\* A combination that is better for one package, and not worse for those of its
\* class and of the classes after it, is tried before.
LEMMA BetterIsEarlier ==
  ASSUME TableFull, NEW i \in 0..TotalCases - 1, NEW j \in 0..TotalCases - 1, NEW n \in KeySet,
         Rank(n, Permutation(j)[n]) < Rank(n, Permutation(i)[n]),
         \A o \in KeySet : Class(o) >= Class(n) =>
           Rank(o, Permutation(j)[o]) <= Rank(o, Permutation(i)[o])
  PROVE  j < i
<1> DEFINE t == PrioritizedDnps
           K == Len(t)
           V(k) == PrioritizedVersions(t[k])
           L == [k \in 1..K |-> Len(V(k))]
           d == [k \in 1..K |-> Digit(j, k)]
           e == [k \in 1..K |-> Digit(i, k)]
           x == [k \in 1..K + 1 |-> j \div Strides[k]]
           y == [k \in 1..K + 1 |-> i \div Strides[k]]
<1>1. /\ K \in Nat /\ DOMAIN t = 1..K
      /\ \A k \in 1..K : t[k] \in KeySet /\ t[k] \in Name
      /\ L \in [1..K -> Nat \ {0}]
  BY StridesAre
<1>2. i \in Nat /\ j \in Nat /\ i < TotalCases /\ j < TotalCases
  <2>1. TotalCases \in Nat
    BY PermutationIs, 0 \in Nat
  <2> QED
    BY <2>1
<1>3. /\ \A k \in 1..K + 1 : j \div Strides[k] \in Nat
      /\ \A k \in 1..K :
           /\ Digit(j, k) \in Nat /\ Digit(j, k) < Len(V(k))
           /\ j \div Strides[k] = Digit(j, k) + Len(V(k)) * (j \div Strides[k + 1])
      /\ j \div Strides[K + 1] = 0 /\ j \div Strides[1] = j
  BY <1>2, DigitsAre
<1>4. /\ \A k \in 1..K + 1 : i \div Strides[k] \in Nat
      /\ \A k \in 1..K :
           /\ Digit(i, k) \in Nat /\ Digit(i, k) < Len(V(k))
           /\ i \div Strides[k] = Digit(i, k) + Len(V(k)) * (i \div Strides[k + 1])
      /\ i \div Strides[K + 1] = 0 /\ i \div Strides[1] = i
  BY <1>2, DigitsAre
<1>5. PICK p \in 1..K : t[p] = n
  <2>1. Range(t) = KeySet
    BY TableIs DEF TableFull
  <2> QED
    BY <1>1, <2>1 DEF Range
<1>6. ASSUME NEW k \in 1..K
      PROVE  /\ Rank(t[k], Permutation(j)[t[k]]) <= Rank(t[k], Permutation(i)[t[k]])
                  => Digit(j, k) <= Digit(i, k)
             /\ Rank(t[k], Permutation(j)[t[k]]) < Rank(t[k], Permutation(i)[t[k]])
                  => Digit(j, k) < Digit(i, k)
  <2> DEFINE f == Digit(j, k)
             g == Digit(i, k)
             vs == V(k)
             N == Len(vs)
             Of(h) == Rank(t[k], vs[h])
  <2>1. /\ Permutation(j)[t[k]] = vs[f + 1] /\ Permutation(i)[t[k]] = vs[g + 1]
    BY <1>2, PermutationIs DEF Pick, Digit
  <2>2. /\ N \in Nat /\ f \in Nat /\ g \in Nat /\ f < N /\ g < N
    BY <1>1, <1>3, <1>4
  <2>3. /\ \A h \in 1..N : vs[h] \in Choices(t[k])
        /\ \A h, l \in 1..N : h < l => Of(h) < Of(l)
    <3>1. t[k] \in Name
      BY <1>1
    <3> HIDE DEF t
    <3> QED
      BY <3>1, VersionsIs
  <2>4. \A h \in 1..N : Of(h) \in Int
    BY <1>1, <2>3, RankIs DEF TableFull
  <2> HIDE DEF f, g, N, Of
  <2>5. f + 1 \in 1..N /\ g + 1 \in 1..N
    BY <2>2
  <2>6. /\ Of(f + 1) <= Of(g + 1) => f <= g
        /\ Of(f + 1) < Of(g + 1) => f < g
    <3>1. ~(f <= g) => g + 1 < f + 1
      BY <2>2
    <3>2. ~(f < g) => g + 1 < f + 1 \/ f = g
      BY <2>2
    <3>3. Of(f + 1) \in Int /\ Of(g + 1) \in Int /\ (g + 1 < f + 1 => Of(g + 1) < Of(f + 1))
      BY <2>3, <2>4, <2>5
    <3> QED
      BY <3>1, <3>2, <3>3
  <2> QED
    BY <2>1, <2>6 DEF f, g, Of
<1>7. d[p] < e[p]
  BY <1>5, <1>6
<1>8. \A k \in 1..K : k > p => d[k] <= e[k]
  <2> SUFFICES ASSUME NEW k \in 1..K, k > p PROVE Digit(j, k) <= Digit(i, k)
    OBVIOUS
  <2>1. Class(t[k]) >= Class(n)
    <3>1. p < k /\ p \in DOMAIN t /\ k \in DOMAIN t
      BY <1>1
    <3>2. InClasses(t)
      BY TableIs DEF TableFull
    <3>3. Class(t[p]) <= Class(t[k])
      BY <3>1, <3>2 DEF InClasses
    <3> QED
      BY <1>5, <3>3 DEF Class
  <2>2. Rank(t[k], Permutation(j)[t[k]]) <= Rank(t[k], Permutation(i)[t[k]])
    BY <1>1, <2>1
  <2> QED
    BY <1>6, <2>2
<1>9. /\ d \in [1..K -> Nat] /\ e \in [1..K -> Nat]
      /\ x \in [1..K + 1 -> Nat] /\ y \in [1..K + 1 -> Nat]
      /\ x[K + 1] = 0 /\ y[K + 1] = 0 /\ x[1] = j /\ y[1] = i
  <2>1. 1 \in 1..K + 1 /\ K + 1 \in 1..K + 1
    BY <1>1
  <2> HIDE DEF t, K
  <2> QED
    BY <1>3, <1>4, <2>1
<1>10. \A k \in 1..K : /\ d[k] < L[k]
                       /\ x[k] = d[k] + L[k] * x[k + 1]
                       /\ y[k] = e[k] + L[k] * y[k + 1]
  <2> TAKE k \in 1..K
  <2>1. k \in 1..K + 1 /\ k + 1 \in 1..K + 1
    BY <1>1
  <2> HIDE DEF t, K
  <2>2. /\ d[k] = Digit(j, k) /\ e[k] = Digit(i, k) /\ L[k] = Len(V(k))
        /\ x[k] = j \div Strides[k] /\ x[k + 1] = j \div Strides[k + 1]
        /\ y[k] = i \div Strides[k] /\ y[k + 1] = i \div Strides[k + 1]
    BY <2>1
  <2> HIDE DEF d, e, x, y, L
  <2> QED
    BY <1>3, <1>4, <2>2, Zenon
<1>11. x[1] < y[1]
  <2> HIDE DEF K, L, d, e, x, y
  <2> QED
    BY <1>1, <1>5, <1>7, <1>8, <1>9, <1>10, SmallerDigits, Zenon
<1> QED
  BY <1>9, <1>11

(* No valid combination of the table is preferred to the one that is returned. *)
THEOREM ResolvesForTheBest == ResolverSpec => []ResultBest
<1>1. ResolverInv => ResultBest
  <2> SUFFICES ASSUME ResolverInv, stage = "done", NEW s \in [KeySet -> 0..MaxVer],
                      \A n \in KeySet : s[n] \in Choices(n),
                      ValidState(s), Preferred(s, chosen)
               PROVE  FALSE
    BY DEF ResultBest, Choices
  <2>1. TableFull /\ KeySet \subseteq Name
    BY TableIsFull, ResultIs
  <2>2. PICK i \in 0..TotalCases - 1 :
          chosen = Permutation(i) /\ \A j \in 0..i - 1 : ~ValidState(Permutation(j))
    BY ResultIs DEF First
  <2>3. PICK j \in 0..TotalCases - 1 : Permutation(j) = s
    BY <2>1, IndexExists
  <2>4. PICK n \in KeySet :
          /\ Rank(n, s[n]) < Rank(n, chosen[n])
          /\ \A o \in KeySet : Class(o) >= Class(n) => Rank(o, s[o]) <= Rank(o, chosen[o])
    <3>1. /\ \A o \in KeySet : s[o] \in 0..MaxVer /\ chosen[o] \in 0..MaxVer
          /\ MaxVer \in Nat
      BY ResultIs, ResolverAssumption
    <3>2. CASE \E n \in KeySet \cap {Request} : s[n] > chosen[n]
      BY <3>1, <3>2 DEF Rank, Class
    <3>3. CASE /\ \A n \in KeySet \cap {Request} : s[n] = chosen[n]
               /\ \A n \in KeySet : n # Request /\ n \in InstalledDnps => s[n] <= chosen[n]
               /\ \E n \in KeySet : n # Request /\ n \in InstalledDnps /\ s[n] < chosen[n]
      BY <3>1, <3>3 DEF Rank, Class
    <3>4. CASE \E n \in KeySet :
                 /\ n # Request /\ n \notin InstalledDnps
                 /\ Rank(n, s[n]) < Rank(n, chosen[n])
                 /\ \A o \in KeySet :
                      IF o = Request \/ o \in InstalledDnps THEN s[o] = chosen[o]
                      ELSE Rank(o, s[o]) <= Rank(o, chosen[o])
      BY <3>1, <3>4 DEF Rank, Class
    <3> QED
      BY <3>2, <3>3, <3>4 DEF Preferred, Rank
  <2>5. j < i
    BY <2>1, <2>2, <2>3, <2>4, BetterIsEarlier
  <2>6. TotalCases \in Nat
    BY <2>1, PermutationIs, 0 \in Nat
  <2>7. j \in 0..i - 1
    BY <2>5, <2>6
  <2> QED
    BY <2>2, <2>3, <2>7
<1> QED
  BY <1>1, Invariant, PTL

----------------------------------------------------------------------------
\* The inductive invariant of the aggregation

\* A version that stays once it is known, and the versions one leads to
Lasting(x) ==
  x \notin world.lost /\ \A d \in DOMAIN world.dep[x] : ~Silent(world, d, world.dep[x][d])
Leads(x, d) == {d} \X Listed(world.dep[x][d])

\* What the two stages start from, as RequestGraph and InstalledGraph say
RequestRoots == {x \in {Request} \X Listed(world.want) : ~Silent(world, Request, world.want)}
RequestKept  == Cleaned(world.dep, RequestGraph(world))
Dependent    == Relevant(NamesOf(RequestKept))
InstalledBase ==
  RequestKept \cup {<<n, world.inst[n]>> : n \in Dependent \cap world.local}
InstalledRoots ==
  UNION {{n} \X (world.inst[n]..MaxVer) : n \in Dependent \ (world.local \cup world.mute)}

Base    == IF stage = "request" THEN {} ELSE InstalledBase
Roots   == IF stage = "request" THEN RequestRoots ELSE InstalledRoots
Reached == Reachable(world, Roots, Base)

\* tried: the versions that were locked or skipped up to now. What they lead to
\* is tried or asked for, and no version that stays is given up.
Explored(tried) ==
  /\ \A x \in Roots : x \in tried \/ x[1] \in calls[Top(x[1])]
  /\ Present \subseteq tried \cup Base
  /\ \A x \in tried : Lasting(x) => graph[x] # "none"
  /\ \A x \in tried :
       \/ graph[x] = "fetch" \/ x \in world.lost \cup Base
       \/ \A d \in DOMAIN world.dep[x] :
            ~Silent(world, d, world.dep[x][d]) => d \in calls[x] \/ Leads(x, d) \subseteq tried

\* A call for dependencies is one of a version that has a manifest; the version
\* is broken once the registry did not answer for one of them.
JoiningOK ==
  \A x \in Node :
    /\ calls[x] # {} \/ x \in broken => graph[x] = "join"
    /\ x \in broken => ~Lasting(x)
    /\ graph[x] = "join" =>
         /\ x \notin world.lost
         /\ \A d \in DOMAIN world.dep[x] :
              Silent(world, d, world.dep[x][d]) => d \in calls[x] \/ x \in broken

AggregateInv ==
  stage \in {"request", "installed"} =>
    /\ stage = "installed" => asked = NamesOf(RequestKept)
    /\ \A x \in Base : graph[x] = "in"
    /\ \A x \in Node \ Base : graph[x] = "in" => Lasting(x)
    /\ Present \subseteq Base \cup Reached
    /\ JoiningOK
    /\ \E tried \in SUBSET Node : Explored(tried)

LEMMA AggregateIsStable ==
  ASSUME UNCHANGED <<world, stage>>
  PROVE  /\ Base' = Base /\ Roots' = Roots /\ Reached' = Reached /\ RequestKept' = RequestKept
         /\ \A x : Lasting(x)' = Lasting(x)
         /\ \A x, d : Leads(x, d)' = Leads(x, d)
<1>1. RequestKept' = RequestKept
  BY DEF RequestKept
<1>2. Dependent' = Dependent
  BY <1>1 DEF Dependent, Relevant, NamesOf
<1>3. Base' = Base /\ Roots' = Roots
  BY <1>1, <1>2 DEF Base, Roots, InstalledBase, InstalledRoots, RequestRoots
<1>4. Reached' = Reached
  BY <1>3 DEF Reached
<1>5. /\ \A x : Lasting(x)' = Lasting(x)
      /\ \A x, d : Leads(x, d)' = Leads(x, d)
  BY DEF Lasting, Leads
<1> QED
  BY <1>1, <1>3, <1>4, <1>5

LEMMA BaseIs ==
  ASSUME world \in Worlds
  PROVE  /\ Base \subseteq Node
         /\ \A n \in Dependent : n \in Name /\ world.inst[n] \in 1..MaxVer
<1>1. RequestKept \subseteq Node
  <2>1. RequestGraph(world) \subseteq Node
    BY DEF RequestGraph, Aggregate, Reachable
  <2> QED
    BY <2>1, CleanedIs DEF RequestKept
<1>2. \A n \in Dependent : n \in Name /\ world.inst[n] \in 1..MaxVer
  <2>1. NamesOf(RequestKept) \in SUBSET Name
    BY <1>1, NodeIs DEF NamesOf
  <2> QED
    BY <2>1, RelevantIs DEF Dependent
<1>3. \A n \in Dependent : <<n, world.inst[n]>> \in Node
  BY <1>2 DEF Node, Ver
<1> QED
  BY <1>1, <1>2, <1>3 DEF Base, InstalledBase

LEMMA RootsAre ==
  ASSUME world \in Worlds
  PROVE  Roots \subseteq Node
<1>1. {Request} \X Listed(world.want) \subseteq Node
  BY WorldIs, ListedIs DEF Node
<1>2. InstalledRoots \subseteq Node
  <2> SUFFICES ASSUME NEW n \in Dependent PROVE {n} \X (world.inst[n]..MaxVer) \subseteq Node
    BY DEF InstalledRoots
  <2>1. n \in Name /\ world.inst[n] \in 1..MaxVer /\ MaxVer \in Nat
    BY BaseIs, WorldIs
  <2>2. world.inst[n]..MaxVer \subseteq Ver
    BY <2>1 DEF Ver
  <2> QED
    BY <2>1, <2>2 DEF Node
<1> QED
  BY <1>1, <1>2 DEF Roots, RequestRoots

\* What can be reached is the least set that is closed.
LEMMA ReachedIs ==
  ASSUME world \in Worlds
  PROVE  /\ Roots \subseteq Reached /\ Reached \subseteq Node
         /\ \A x \in Reached \ (world.lost \cup Base) : \A d \in DOMAIN world.dep[x] :
              ~Silent(world, d, world.dep[x][d]) => Leads(x, d) \subseteq Reached
         /\ \A T \in SUBSET Node :
              /\ Roots \subseteq T
              /\ \A x \in T \ (world.lost \cup Base) : \A d \in DOMAIN world.dep[x] :
                   ~Silent(world, d, world.dep[x][d]) => Leads(x, d) \subseteq T
              => Reached \subseteq T
<1> DEFINE Closed(T) ==
      /\ Roots \subseteq T
      /\ \A x \in T \ (world.lost \cup Base) : \A d \in DOMAIN world.dep[x] :
           ~Silent(world, d, world.dep[x][d]) => Leads(x, d) \subseteq T
<1>1. Reached = {x \in Node : \A T \in SUBSET Node : Closed(T) => x \in T}
  BY DEF Reached, Reachable, Leads
<1>2. Roots \subseteq Reached
  BY <1>1, RootsAre
<1>3. ASSUME NEW x \in Reached \ (world.lost \cup Base), NEW d \in DOMAIN world.dep[x],
             ~Silent(world, d, world.dep[x][d])
      PROVE  Leads(x, d) \subseteq Reached
  <2>1. Leads(x, d) \subseteq Node
    BY <1>1, WorldIs, ListedIs DEF Leads, Node
  <2>2. ASSUME NEW T \in SUBSET Node, Closed(T) PROVE Leads(x, d) \subseteq T
    <3>1. x \in T
      BY <1>1, <2>2
    <3> QED
      BY <1>3, <2>2, <3>1
  <2> HIDE DEF Closed
  <2> QED
    BY <1>1, <2>1, <2>2
<1> QED
  BY <1>1, <1>2, <1>3

LEMMA AggregateIs ==
  ASSUME ResolverInv, AggregateInv, Aggregated, stage \in {"request", "installed"}
  PROVE  Present = Aggregate(world, Roots, Base)
<1>1. /\ \A x \in Node : graph[x] \in {"none", "in"} /\ calls[x] = {}
      /\ \A n \in Name : calls[Top(n)] = {}
  BY NodeIs, TopIs DEF Aggregated, Running, ResolverInv, ResolverTypeOK
<1>2. /\ \A x \in Base : graph[x] = "in"
      /\ \A x \in Node \ Base : graph[x] = "in" => Lasting(x)
      /\ Present \subseteq Base \cup Reached
  BY DEF AggregateInv
<1>3. PICK tried \in SUBSET Node : Explored(tried)
  BY DEF AggregateInv
<1>4. world \in Worlds
  BY DEF ResolverInv
<1>5. Reached \subseteq tried
  <2>1. Roots \subseteq tried
    <3>1. \A x \in Roots : x[1] \in Name
      BY <1>4, RootsAre, NodeIs
    <3> QED
      BY <1>1, <1>3, <3>1 DEF Explored
  <2>2. ASSUME NEW x \in tried \ (world.lost \cup Base), NEW d \in DOMAIN world.dep[x],
               ~Silent(world, d, world.dep[x][d])
        PROVE  Leads(x, d) \subseteq tried
    BY <1>1, <1>3, <2>2 DEF Explored
  <2> QED
    BY <1>4, <2>1, <2>2, ReachedIs
<1>6. Present \subseteq Base \cup {x \in Reached : Lasting(x)}
  BY <1>1, <1>2 DEF Present
<1>7. {x \in Reached : Lasting(x)} \subseteq Present
  BY <1>3, <1>5 DEF Explored, Present
<1>8. Base \subseteq Node
  BY <1>4, BaseIs
<1>9. Base \subseteq Present
  BY <1>2, <1>8 DEF Present
<1>10. Aggregate(world, Roots, Base) = Base \cup {x \in Reached : Lasting(x)}
  BY DEF Aggregate, Lasting, Reached
<1> QED
  BY <1>6, <1>7, <1>9, <1>10

LEMMA AggregateInit == ResolverInit => AggregateInv
<1> SUFFICES ASSUME ResolverInit PROVE AggregateInv
  OBVIOUS
<1>1. /\ stage = "request" /\ graph = NoGraph /\ broken = {} /\ world \in Worlds
      /\ calls = [NoCalls EXCEPT ![Top(Request)] = {Request}]
  BY DEF ResolverInit, ResolverStart
<1>2. \A x \in Node : graph[x] = "none" /\ calls[x] = {}
  <2> TAKE x \in Node
  <2>1. x \in Callers /\ x # Top(Request)
    BY <1>1, NodeIs, TopIs, WorldIs
  <2> QED
    BY <1>1, <2>1 DEF NoGraph, NoCalls
<1>3. calls[Top(Request)] = {Request}
  BY <1>1, WorldIs, TopIs DEF NoCalls
<1>4. Base = {} /\ \A x \in Roots : x[1] = Request
  BY <1>1 DEF Base, Roots, RequestRoots
<1>5. Explored({})
  BY <1>2, <1>3, <1>4 DEF Explored, Present
<1>6. JoiningOK
  BY <1>1, <1>2 DEF JoiningOK
<1> QED
  BY <1>1, <1>2, <1>4, <1>5, <1>6 DEF AggregateInv, Present

\* What a call asks for can be reached; a call for dependencies is one of a
\* version of the graph, the others ask for what the stage starts from.
LEMMA AskedFor ==
  ASSUME ResolverInv, AggregateInv, stage \in {"request", "installed"},
         NEW c \in Callers, NEW d \in calls[c]
  PROVE  /\ c[2] # 0 => /\ c \in Node /\ graph[c] = "join" /\ c \notin world.lost \cup Base
                        /\ d \in DOMAIN world.dep[c] /\ RangeOf(c, d) = world.dep[c][d]
         /\ c[2] = 0 => c = Top(d)
         /\ ~Silent(world, d, RangeOf(c, d)) =>
              /\ {d} \X Listed(RangeOf(c, d)) \subseteq Reached
              /\ c[2] = 0 => \A x \in Roots : x[1] = d => x \in {d} \X Listed(RangeOf(c, d))
         /\ Silent(world, d, RangeOf(c, d)) /\ stage = "installed" /\ c[2] = 0 =>
              \A x \in Roots : x[1] # d
<1>1. /\ world \in Worlds /\ CallsOK /\ ResolverTypeOK /\ JoiningOK
      /\ \A x \in Base : graph[x] = "in"
      /\ Present \subseteq Base \cup Reached
      /\ stage = "installed" => asked = NamesOf(RequestKept)
  BY DEF ResolverInv, AggregateInv
<1>2. CASE c[2] # 0
  <2>1. c \in Node
    BY <1>2, CallerIs
  <2>2. /\ graph[c] = "join" /\ c \notin world.lost \cup Base
        /\ d \in DOMAIN world.dep[c] /\ RangeOf(c, d) = world.dep[c][d]
    BY <1>1, <1>2, <2>1 DEF JoiningOK, CallsOK, RangeOf
  <2>3. c \in Reached
    BY <1>1, <2>1, <2>2 DEF Present
  <2>4. ~Silent(world, d, world.dep[c][d]) => {d} \X Listed(world.dep[c][d]) \subseteq Reached
    BY <1>1, <2>2, <2>3, ReachedIs DEF Leads
  <2> QED
    BY <1>2, <2>1, <2>2, <2>4
<1>3. CASE c[2] = 0 /\ stage = "request"
  <2>1. c = Top(Request) /\ d = Request /\ RangeOf(c, d) = world.want
    BY <1>1, <1>3, CallerIs DEF CallsOK, RangeOf
  <2>2. Roots = RequestRoots
    BY <1>3 DEF Roots
  <2>3. ~Silent(world, d, world.want) => Roots = {d} \X Listed(world.want)
    BY <2>1, <2>2 DEF RequestRoots
  <2>4. Roots \subseteq Reached
    BY <1>1, ReachedIs
  <2> QED
    BY <1>3, <2>1, <2>3, <2>4
<1>4. CASE c[2] = 0 /\ stage = "installed"
  <2>1. /\ c = Top(d) /\ d \in Dependent \ world.local
        /\ RangeOf(c, d) = From(world.inst[d])
    BY <1>1, <1>4, AskedRange DEF Dependent
  <2>2. Listed(RangeOf(c, d)) = world.inst[d]..MaxVer
    BY <2>1 DEF Listed, From
  <2>3. Silent(world, d, RangeOf(c, d)) <=> d \in world.mute
    BY <2>1 DEF Silent, From
  <2>4. Roots = InstalledRoots
    BY <1>4 DEF Roots
  <2>5. d \notin world.mute => {d} \X (world.inst[d]..MaxVer) \subseteq Roots
    BY <2>1, <2>4 DEF InstalledRoots
  <2>6. \A x \in Roots : x[1] = d => x \in {d} \X (world.inst[d]..MaxVer)
    BY <2>4 DEF InstalledRoots
  <2>7. d \in world.mute => \A x \in Roots : x[1] # d
    BY <2>4 DEF InstalledRoots
  <2>8. Roots \subseteq Reached
    BY <1>1, ReachedIs
  <2> QED
    BY <1>4, <2>1, <2>2, <2>3, <2>5, <2>6, <2>7, <2>8
<1> QED
  BY <1>2, <1>3, <1>4

LEMMA VersionsAnsweredAggregate ==
  ASSUME ResolverInv, AggregateInv, NEW c \in Callers, NEW d \in calls[c], VersionsAnswered(c, d)
  PROVE  AggregateInv'
<1> DEFINE r     == RangeOf(c, d)
           F     == {d} \X Listed(r)
           fresh == {x \in F : graph[x] = "none"}
<1>1. /\ stage \in {"request", "installed"} /\ ~Silent(world, d, r)
      /\ calls' = [calls EXCEPT ![c] = @ \ {d}]
      /\ graph' = [x \in Node |-> IF x \in fresh THEN "fetch" ELSE graph[x]]
      /\ UNCHANGED <<world, stage, broken, asked>>
  BY DEF VersionsAnswered
<1>2. /\ ResolverTypeOK /\ world \in Worlds /\ JoiningOK
      /\ stage = "installed" => asked = NamesOf(RequestKept)
      /\ \A x \in Base : graph[x] = "in"
      /\ \A x \in Node \ Base : graph[x] = "in" => Lasting(x)
      /\ Present \subseteq Base \cup Reached
  BY <1>1 DEF ResolverInv, AggregateInv
<1>3. PICK tried \in SUBSET Node : Explored(tried)
  BY <1>1 DEF AggregateInv
<1>4. /\ c[2] # 0 => /\ c \in Node /\ graph[c] = "join"
                     /\ d \in DOMAIN world.dep[c] /\ r = world.dep[c][d]
      /\ c[2] = 0 => c = Top(d)
      /\ F \subseteq Reached
      /\ c[2] = 0 => \A x \in Roots : x[1] = d => x \in F
  BY <1>1, AskedFor
<1> HIDE DEF r
<1>5. Reached \subseteq Node /\ Roots \subseteq Node /\ Base \subseteq Node
  BY <1>2, ReachedIs, RootsAre, BaseIs
<1>6. /\ \A x \in Node : x \in F => graph'[x] # "none"
      /\ \A x \in Node : x \notin F => graph'[x] = graph[x]
      /\ \A x \in Node : graph[x] # "none" => graph'[x] = graph[x]
      /\ \A x \in Node : graph[x] = "none" /\ x \in F => graph'[x] = "fetch"
  BY <1>1
<1>7. /\ \A b \in Callers : calls'[b] \subseteq calls[b]
      /\ \A b \in Callers : \A e \in calls[b] : e \in calls'[b] \/ (b = c /\ e = d)
  BY <1>1, <1>2 DEF ResolverTypeOK
<1> HIDE DEF F, fresh
<1>8. /\ Base' = Base /\ Roots' = Roots /\ Reached' = Reached /\ RequestKept' = RequestKept
      /\ \A x : Lasting(x)' = Lasting(x)
      /\ \A x, e : Leads(x, e)' = Leads(x, e)
  BY <1>1, AggregateIsStable
<1>9. \A x \in Base : graph'[x] = "in"
  BY <1>2, <1>5, <1>6
<1>10. \A x \in Node \ Base : graph'[x] = "in" => Lasting(x)
  BY <1>2, <1>6
<1>11. Present' \subseteq Base \cup Reached
  BY <1>2, <1>4, <1>6 DEF Present
<1>12. JoiningOK'
  <2> SUFFICES ASSUME NEW x \in Node
               PROVE  /\ calls'[x] # {} \/ x \in broken => graph'[x] = "join"
                      /\ x \in broken => ~Lasting(x)
                      /\ graph'[x] = "join" =>
                           /\ x \notin world.lost
                           /\ \A e \in DOMAIN world.dep[x] :
                                Silent(world, e, world.dep[x][e]) => e \in calls'[x] \/ x \in broken
    BY <1>1, <1>8 DEF JoiningOK
  <2>1. x \in Callers /\ x[2] # 0
    BY NodeIs
  <2>2. calls'[x] # {} \/ x \in broken => graph'[x] = "join"
    BY <1>2, <1>6, <1>7, <2>1 DEF JoiningOK
  <2>3. graph'[x] = "join" => graph[x] = "join"
    BY <1>6
  <2>4. ASSUME NEW e \in DOMAIN world.dep[x], Silent(world, e, world.dep[x][e]), e \in calls[x]
        PROVE  e \in calls'[x]
    BY <1>1, <1>4, <1>7, <2>1, <2>4
  <2> QED
    BY <1>2, <2>2, <2>3, <2>4 DEF JoiningOK
<1>13. PICK more \in SUBSET Node : more = tried \cup F
  BY <1>4, <1>5
<1>14. Explored(more)'
  <2>1. ASSUME NEW x \in Roots PROVE x \in more \/ x[1] \in calls'[Top(x[1])]
    <3>1. x \in tried \/ x[1] \in calls[Top(x[1])]
      BY <1>3 DEF Explored
    <3>2. Top(x[1]) \in Callers /\ Top(x[1])[2] = 0
      BY <1>5, NodeIs, TopIs
    <3> QED
      BY <1>4, <1>7, <1>13, <3>1, <3>2
  <2>2. Present' \subseteq more \cup Base
    BY <1>3, <1>6, <1>13 DEF Explored, Present
  <2>3. \A x \in more : Lasting(x) => graph'[x] # "none"
    BY <1>3, <1>6, <1>13 DEF Explored
  <2>4. ASSUME NEW x \in more, graph'[x] # "fetch", x \notin world.lost \cup Base,
               NEW e \in DOMAIN world.dep[x], ~Silent(world, e, world.dep[x][e])
        PROVE  e \in calls'[x] \/ Leads(x, e) \subseteq more
    <3>1. x \in Node /\ x \in Callers /\ x[2] # 0
      BY <1>13, NodeIs
    <3>2. x \in tried /\ graph[x] # "fetch"
      BY <1>3, <1>6, <1>13, <2>4, <3>1 DEF Explored, Present
    <3>3. e \in calls[x] \/ Leads(x, e) \subseteq tried
      BY <1>3, <2>4, <3>2 DEF Explored
    <3>4. x = c /\ e = d => Leads(x, e) = F
      BY <1>4, <1>13, <3>1 DEF Leads, F
    <3> QED
      BY <1>7, <1>13, <3>1, <3>3, <3>4
  <2> QED
    BY <1>1, <1>8, <2>1, <2>2, <2>3, <2>4 DEF Explored
<1>15. \E t \in SUBSET Node : Explored(t)'
  BY <1>13, <1>14
<1> QED
  BY <1>1, <1>2, <1>8, <1>9, <1>10, <1>11, <1>12, <1>15 DEF AggregateInv, NamesOf

LEMMA VersionsFailedAggregate ==
  ASSUME ResolverInv, AggregateInv, NEW c \in Callers, NEW d \in calls[c], VersionsFailed(c, d)
  PROVE  AggregateInv'
<1> DEFINE r == RangeOf(c, d)
<1>1. /\ stage \in {"request", "installed"} /\ Silent(world, d, r)
      /\ calls' = [calls EXCEPT ![c] = @ \ {d}]
      /\ broken' = IF c[2] # 0 THEN broken \cup {c} ELSE broken
      /\ stage' = IF c[2] = 0 /\ stage = "request" THEN "failed" ELSE stage
      /\ UNCHANGED <<world, graph, asked>>
  BY DEF VersionsFailed
<1> SUFFICES ASSUME stage' = stage, c[2] = 0 => stage = "installed" PROVE AggregateInv'
  BY <1>1 DEF AggregateInv
<1>2. /\ ResolverTypeOK /\ world \in Worlds /\ JoiningOK
      /\ stage = "installed" => asked = NamesOf(RequestKept)
      /\ \A x \in Base : graph[x] = "in"
      /\ \A x \in Node \ Base : graph[x] = "in" => Lasting(x)
      /\ Present \subseteq Base \cup Reached
  BY <1>1 DEF ResolverInv, AggregateInv
<1>3. PICK tried \in SUBSET Node : Explored(tried)
  BY <1>1 DEF AggregateInv
<1>4. /\ c[2] # 0 => /\ c \in Node /\ graph[c] = "join"
                     /\ d \in DOMAIN world.dep[c] /\ r = world.dep[c][d]
      /\ c[2] = 0 => c = Top(d) /\ \A x \in Roots : x[1] # d
  BY <1>1, AskedFor
<1> HIDE DEF r
<1>5. Roots \subseteq Node
  BY <1>2, RootsAre
<1>6. /\ \A b \in Callers : calls'[b] \subseteq calls[b]
      /\ \A b \in Callers : \A e \in calls[b] : e \in calls'[b] \/ (b = c /\ e = d)
  BY <1>1, <1>2 DEF ResolverTypeOK
<1>7. /\ Base' = Base /\ Roots' = Roots /\ Reached' = Reached /\ RequestKept' = RequestKept
      /\ \A x : Lasting(x)' = Lasting(x)
      /\ \A x, e : Leads(x, e)' = Leads(x, e)
  BY <1>1, AggregateIsStable
<1>8. Present' = Present
  BY <1>1 DEF Present
<1>9. JoiningOK'
  <2> SUFFICES ASSUME NEW x \in Node
               PROVE  /\ calls'[x] # {} \/ x \in broken' => graph[x] = "join"
                      /\ x \in broken' => ~Lasting(x)
                      /\ graph[x] = "join" =>
                           /\ x \notin world.lost
                           /\ \A e \in DOMAIN world.dep[x] :
                                Silent(world, e, world.dep[x][e]) => e \in calls'[x] \/ x \in broken'
    BY <1>1, <1>7 DEF JoiningOK
  <2>1. x \in Callers /\ x[2] # 0
    BY NodeIs
  <2>2. x \in broken' <=> x \in broken \/ x = c
    BY <1>1, <2>1
  <2>3. calls'[x] # {} \/ x \in broken' => graph[x] = "join"
    BY <1>2, <1>4, <1>6, <2>1, <2>2 DEF JoiningOK
  <2>4. x \in broken' => ~Lasting(x)
    BY <1>1, <1>2, <1>4, <2>1, <2>2 DEF JoiningOK, Lasting
  <2>5. ASSUME NEW e \in DOMAIN world.dep[x], e \in calls[x]
        PROVE  e \in calls'[x] \/ x \in broken'
    BY <1>6, <2>1, <2>2, <2>5
  <2> QED
    BY <1>2, <2>2, <2>3, <2>4, <2>5 DEF JoiningOK
<1>10. Explored(tried)'
  <2>1. ASSUME NEW x \in Roots PROVE x \in tried \/ x[1] \in calls'[Top(x[1])]
    <3>1. x \in tried \/ x[1] \in calls[Top(x[1])]
      BY <1>3 DEF Explored
    <3>2. Top(x[1]) \in Callers /\ Top(x[1])[2] = 0
      BY <1>5, NodeIs, TopIs
    <3> QED
      BY <1>4, <1>6, <3>1, <3>2
  <2>2. ASSUME NEW x \in tried, graph[x] # "fetch", x \notin world.lost \cup Base,
               NEW e \in DOMAIN world.dep[x], ~Silent(world, e, world.dep[x][e])
        PROVE  e \in calls'[x] \/ Leads(x, e) \subseteq tried
    <3>1. x \in Callers /\ x[2] # 0
      BY NodeIs
    <3>2. e \in calls[x] \/ Leads(x, e) \subseteq tried
      BY <1>3, <2>2 DEF Explored
    <3> QED
      BY <1>1, <1>4, <1>6, <2>2, <3>1, <3>2
  <2> QED
    BY <1>1, <1>3, <1>7, <1>8, <2>1, <2>2 DEF Explored
<1> QED
  BY <1>1, <1>2, <1>7, <1>8, <1>9, <1>10 DEF AggregateInv, NamesOf

LEMMA ManifestAggregate ==
  ASSUME ResolverInv, AggregateInv, NEW z \in Running,
         DependenciesAnswered(z) \/ DependenciesFailed(z) \/ VersionJoined(z)
  PROVE  AggregateInv'
<1>1. /\ z \in Node
      /\ \/ /\ graph[z] = "fetch" /\ z \notin world.lost
            /\ graph' = [graph EXCEPT ![z] = "join"]
            /\ calls' = [calls EXCEPT ![z] = DOMAIN world.dep[z]] /\ broken' = broken
         \/ /\ graph[z] = "fetch" /\ z \in world.lost
            /\ graph' = [graph EXCEPT ![z] = "none"] /\ UNCHANGED <<calls, broken>>
         \/ /\ graph[z] = "join" /\ calls[z] = {} /\ calls' = calls
            /\ graph' = [graph EXCEPT ![z] = IF z \in broken THEN "none" ELSE "in"]
            /\ broken' = broken \ {z}
      /\ UNCHANGED <<world, stage, asked>>
  BY DEF DependenciesAnswered, DependenciesFailed, VersionJoined, Returned, Running
<1> SUFFICES ASSUME stage \in {"request", "installed"} PROVE AggregateInv'
  BY <1>1 DEF AggregateInv
<1>2. /\ ResolverTypeOK /\ world \in Worlds /\ JoiningOK
      /\ stage = "installed" => asked = NamesOf(RequestKept)
      /\ \A x \in Base : graph[x] = "in"
      /\ \A x \in Node \ Base : graph[x] = "in" => Lasting(x)
      /\ Present \subseteq Base \cup Reached
  BY <1>1 DEF ResolverInv, AggregateInv
<1>3. PICK tried \in SUBSET Node : Explored(tried)
  BY <1>1 DEF AggregateInv
<1>4. /\ Base \subseteq Node /\ Roots \subseteq Node /\ z \notin Base /\ z \in Callers
      /\ \A n \in Name : z # Top(n)
  BY <1>1, <1>2, RootsAre, BaseIs, NodeIs, TopIs
<1>5. /\ \A x \in Node : x # z => graph'[x] = graph[x] /\ calls'[x] = calls[x]
                                  /\ (x \in broken' <=> x \in broken)
      /\ \A n \in Name : calls'[Top(n)] = calls[Top(n)]
      /\ \/ /\ graph[z] = "fetch" /\ z \notin world.lost /\ graph'[z] = "join"
            /\ calls'[z] = DOMAIN world.dep[z] /\ (z \in broken' <=> z \in broken)
         \/ /\ graph[z] = "fetch" /\ z \in world.lost /\ graph'[z] = "none"
            /\ calls'[z] = calls[z] /\ (z \in broken' <=> z \in broken)
         \/ /\ graph[z] = "join" /\ calls[z] = {} /\ calls'[z] = {} /\ z \notin broken'
            /\ graph'[z] = IF z \in broken THEN "none" ELSE "in"
  <2>1. \A x \in Node : x \in Callers
    BY NodeIs
  <2>2. \A n \in Name : Top(n) \in Callers
    BY TopIs
  <2> QED
    BY <1>1, <1>2, <1>4, <2>1, <2>2 DEF ResolverTypeOK
<1>6. /\ Base' = Base /\ Roots' = Roots /\ Reached' = Reached /\ RequestKept' = RequestKept
      /\ \A x : Lasting(x)' = Lasting(x)
      /\ \A x, e : Leads(x, e)' = Leads(x, e)
  BY <1>1, AggregateIsStable
<1>8. graph'[z] = "in" => Lasting(z)
  BY <1>1, <1>2, <1>5 DEF JoiningOK, Lasting
<1>9. Lasting(z) => graph'[z] # "none"
  BY <1>1, <1>2, <1>5 DEF JoiningOK, Lasting
<1>10. Present' \subseteq Present
  BY <1>1, <1>5 DEF Present
<1>11. JoiningOK'
  <2> SUFFICES ASSUME NEW x \in Node
               PROVE  /\ calls'[x] # {} \/ x \in broken' => graph'[x] = "join"
                      /\ x \in broken' => ~Lasting(x)
                      /\ graph'[x] = "join" =>
                           /\ x \notin world.lost
                           /\ \A e \in DOMAIN world.dep[x] :
                                Silent(world, e, world.dep[x][e]) => e \in calls'[x] \/ x \in broken'
    BY <1>1, <1>6 DEF JoiningOK
  <2>1. CASE x = z
    BY <1>2, <1>5, <2>1 DEF JoiningOK
  <2>2. CASE x # z
    BY <1>2, <1>5, <2>2 DEF JoiningOK
  <2> QED
    BY <2>1, <2>2
<1>12. Explored(tried)'
  <2>1. ASSUME NEW x \in Roots PROVE x \in tried \/ x[1] \in calls'[Top(x[1])]
    <3>1. x[1] \in Name
      BY <1>4, NodeIs
    <3> QED
      BY <1>3, <1>5, <3>1 DEF Explored
  <2>2. \A x \in tried : Lasting(x) => graph'[x] # "none"
    BY <1>3, <1>5, <1>9 DEF Explored
  <2>3. ASSUME NEW x \in tried, graph'[x] # "fetch", x \notin world.lost \cup Base,
               NEW e \in DOMAIN world.dep[x], ~Silent(world, e, world.dep[x][e])
        PROVE  e \in calls'[x] \/ Leads(x, e) \subseteq tried
    <3>1. CASE x # z
      BY <1>3, <1>5, <2>3, <3>1 DEF Explored
    <3>2. CASE x = z
      BY <1>3, <1>5, <2>3, <3>2 DEF Explored
    <3> QED
      BY <3>1, <3>2
  <2> QED
    BY <1>1, <1>3, <1>6, <1>10, <2>1, <2>2, <2>3 DEF Explored
<1>13. /\ \A x \in Base : graph'[x] = "in"
       /\ \A x \in Node \ Base : graph'[x] = "in" => Lasting(x)
  BY <1>2, <1>4, <1>5, <1>8
<1>14. \E t \in SUBSET Node : Explored(t)'
  BY <1>12
<1> QED
  BY <1>1, <1>2, <1>6, <1>10, <1>11, <1>13, <1>14 DEF AggregateInv, NamesOf

LEMMA RequestAggregatedAggregate ==
  ASSUME ResolverInv, AggregateInv, RequestAggregated
  PROVE  AggregateInv'
<1>1. stage = "request" /\ Aggregated /\ UNCHANGED <<world, caller, broken, chosen>>
  BY DEF RequestAggregated
<1> SUFFICES ASSUME stage' = "installed" PROVE AggregateInv'
  BY <1>1 DEF RequestAggregated, AggregateInv
<1>2. world \in Worlds /\ ResolverTypeOK /\ JoiningOK
  BY <1>1 DEF ResolverInv, AggregateInv
<1>3. Cleaned(world.dep, Present) = RequestKept
  <2>1. Present = Aggregate(world, Roots, Base)
    BY <1>1, AggregateIs
  <2>2. Aggregate(world, Roots, Base) = RequestGraph(world)
    BY <1>1 DEF Roots, Base, RequestRoots, RequestGraph
  <2> QED
    BY <2>1, <2>2 DEF RequestKept
<1>4. /\ asked' = NamesOf(RequestKept)
      /\ graph' = [x \in Node |-> IF x \in InstalledBase THEN "in" ELSE "none"]
      /\ calls' = [c \in Callers |->
           IF c \in {Top(n) : n \in Dependent \ world.local} THEN {c[1]} ELSE {}]
  <2> DEFINE names  == NamesOf(RequestKept)
             added  == Relevant(names)
             direct == added \cap world.local
  <2>1. /\ asked' = names
        /\ graph' = [x \in Node |->
             IF x \in RequestKept \cup {<<n, world.inst[n]>> : n \in direct} THEN "in" ELSE "none"]
        /\ calls' = [c \in Callers |->
             IF c \in {Top(n) : n \in added \ direct} THEN {c[1]} ELSE {}]
    <3>1. stage' # "failed"
      OBVIOUS
    <3> QED
      BY <3>1, <1>3, Zenon DEF RequestAggregated
  <2>2. added = Dependent /\ added \ direct = Dependent \ world.local
    BY DEF Dependent
  <2> QED
    BY <2>1, <2>2 DEF InstalledBase
<1>5. /\ Base' = InstalledBase /\ Roots' = InstalledRoots
      /\ RequestKept' = RequestKept /\ world' = world /\ broken' = broken
  <2>1. RequestKept' = RequestKept
    BY <1>1 DEF RequestKept
  <2>2. Dependent' = Dependent
    BY <1>1, <2>1 DEF Dependent, Relevant, NamesOf
  <2> QED
    BY <1>1, <2>1, <2>2 DEF Base, Roots, InstalledBase, InstalledRoots
<1>6. InstalledBase \subseteq Node
  <2>1. (world \in Worlds)' => (Base \subseteq Node)'
    BY BaseIs, PTL
  <2> QED
    BY <1>2, <1>5, <2>1
<1>7. /\ \A x \in Node : graph'[x] = IF x \in InstalledBase THEN "in" ELSE "none"
      /\ \A x \in Node : calls'[x] = {} /\ x \notin broken
  <2>1. \A x \in Node : x \notin broken
    BY <1>1, <1>2 DEF JoiningOK, Aggregated, Running
  <2>2. \A x \in Node : x \in Callers /\ x \notin {Top(n) : n \in Dependent \ world.local}
    BY <1>2, BaseIs, NodeIs, TopIs
  <2> QED
    BY <1>4, <2>1, <2>2
<1>8. /\ \A x \in Base' : graph'[x] = "in"
      /\ \A x \in Node \ Base' : graph'[x] # "in"
      /\ Present' \subseteq Base'
  BY <1>5, <1>6, <1>7 DEF Present
<1>9. JoiningOK'
  BY <1>5, <1>7 DEF JoiningOK
<1>10. Explored({})'
  <2>1. ASSUME NEW x \in Roots' PROVE x[1] \in calls'[Top(x[1])]
    <3>1. PICK n \in Dependent \ (world.local \cup world.mute) : x[1] = n
      BY <1>5 DEF InstalledRoots
    <3>2. n \in Name /\ Top(n) \in Callers /\ Top(n)[1] = n
      BY <1>2, BaseIs, TopIs
    <3> QED
      BY <1>4, <3>1, <3>2
  <2> QED
    BY <1>8, <2>1 DEF Explored
<1>11. \E t \in SUBSET Node : Explored(t)'
  BY <1>10
<1> QED
  BY <1>4, <1>5, <1>8, <1>9, <1>11 DEF AggregateInv, NamesOf

LEMMA AggregateNext ==
  ResolverInv /\ AggregateInv /\ [ResolverNext]_resolverVars => AggregateInv'
<1> SUFFICES ASSUME ResolverInv, AggregateInv, [ResolverNext]_resolverVars PROVE AggregateInv'
  OBVIOUS
<1>1. CASE UNCHANGED resolverVars
  <2>1. UNCHANGED <<world, stage, graph, calls, broken, asked>>
    BY <1>1 DEF resolverVars
  <2>2. /\ Base' = Base /\ Roots' = Roots /\ Reached' = Reached /\ RequestKept' = RequestKept
        /\ \A x : Lasting(x)' = Lasting(x)
        /\ \A x, d : Leads(x, d)' = Leads(x, d)
    BY <2>1, AggregateIsStable
  <2>3. Present' = Present
    BY <2>1 DEF Present
  <2>4. JoiningOK' = JoiningOK
    BY <2>1, <2>2 DEF JoiningOK
  <2>5. \A t \in SUBSET Node : Explored(t) => Explored(t)'
    BY <2>1, <2>2, <2>3 DEF Explored
  <2> QED
    BY <2>1, <2>2, <2>3, <2>4, <2>5 DEF AggregateInv, NamesOf
<1>2. ASSUME NEW c \in Callers, NEW d \in calls[c], VersionsAnswered(c, d) \/ VersionsFailed(c, d)
      PROVE  AggregateInv'
  BY <1>2, VersionsAnsweredAggregate, VersionsFailedAggregate
<1>3. ASSUME NEW x \in Running,
             DependenciesAnswered(x) \/ DependenciesFailed(x) \/ VersionJoined(x)
      PROVE  AggregateInv'
  BY <1>3, ManifestAggregate
<1>4. CASE RequestAggregated
  BY <1>4, RequestAggregatedAggregate
<1>5. CASE InstalledAggregated \/ Resolved \/ NotResolved
  <2>1. stage' \in {"resolve", "done", "failed"}
    BY <1>5 DEF InstalledAggregated, Resolved, NotResolved
  <2> QED
    BY <2>1 DEF AggregateInv
<1> QED
  BY <1>1, <1>2, <1>3, <1>4, <1>5 DEF ResolverNext, AggregateStep

(* Whatever the order in which the registry and the manifests answer, whichever
   of them fail, and however often a version is fetched again: once nothing is
   running, the graph is the one the manifests and the registry define. *)
THEOREM AggregatesConfluently == ResolverSpec => []AggregateConfluent
<1>1. ResolverInv /\ AggregateInv => AggregateConfluent
  <2> SUFFICES ASSUME ResolverInv, AggregateInv, Aggregated
               PROVE  /\ stage = "request" => Present = RequestGraph(world)
                      /\ stage = "installed" => Present = InstalledGraph(world)
    BY DEF AggregateConfluent
  <2>1. CASE stage = "request"
    <3>1. Present = Aggregate(world, RequestRoots, {})
      BY <2>1, AggregateIs DEF Roots, Base
    <3> QED
      BY <2>1, <3>1 DEF RequestGraph, RequestRoots
  <2>2. CASE stage = "installed"
    <3>1. Present = Aggregate(world, InstalledRoots, InstalledBase)
      BY <2>2, AggregateIs DEF Roots, Base
    <3>2. InstalledGraph(world) = Aggregate(world, InstalledRoots, InstalledBase)
      BY DEF InstalledGraph, InstalledRoots, InstalledBase, Dependent, RequestKept, Relevant
    <3> QED
      BY <2>2, <3>1, <3>2
  <2> QED
    BY <2>1, <2>2
<1> QED
  BY <1>1, Invariant, AggregateInit, AggregateNext, PTL DEF ResolverSpec
=============================================================================
