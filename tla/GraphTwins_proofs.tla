-------------------------- MODULE GraphTwins_proofs ---------------------------
(***************************************************************************)
(* A check of the caller never makes a function look worse: the theorem    *)
(* about GuardNeverRaisesScore, for every program.                         *)
(*                                                                         *)
(* The property compares what forty passes make of two functions that      *)
(* differ in one check, so TwinInv follows the two through the passes.     *)
(* What the check cannot touch stays the same (Alike); the function with   *)
(* the check is never the weaker one (Stronger); its sequences and chains  *)
(* are no more dangerous (InSequence, InChain); and so no score of it is   *)
(* the higher (Outcome).                                                   *)
(***************************************************************************)
EXTENDS GraphPasses_proofs

-----------------------------------------------------------------------------
(* Sums do not depend on the order in which they are made.                 *)

LEMMA SumsAgree ==
  ASSUME NEW S, IsFiniteSet(S), NEW T \in SUBSET S, NEW w, NEW h, NEW i,
         Summing(w, S, h), Summing(w, T, i)
  PROVE  \A s \in SUBSET T : h[s] = i[s]
<1> DEFINE c(s) == CHOOSE x \in s : TRUE
           V == {k \in Nat : \A s \in SUBSET T : Cardinality(s) = k => h[s] = i[s]}
<1>1. \A s \in SUBSET T : h[s] = IF s = {} THEN 0 ELSE w[c(s)] + h[s \ {c(s)}]
  <2>1. \A s \in SUBSET T : s \in SUBSET S
    OBVIOUS
  <2> QED
    BY <2>1 DEF Summing
<1>2. \A s \in SUBSET T : i[s] = IF s = {} THEN 0 ELSE w[c(s)] + i[s \ {c(s)}]
  BY DEF Summing
<1>3. \A s \in SUBSET T : s # {} => c(s) \in s
  OBVIOUS
<1> HIDE DEF c
<1>4. \A s \in SUBSET T : IsFiniteSet(s) /\ Cardinality(s) \in Nat
  BY FS_Subset, FS_CardinalityType
<1>5. 0 \in V
  BY <1>1, <1>2, <1>4, FS_EmptySet
<1>6. ASSUME NEW k \in V PROVE k + 1 \in V
  <2>1. ASSUME NEW s \in SUBSET T, Cardinality(s) = k + 1 PROVE h[s] = i[s]
    <3>1. s # {}
      <4>1. k + 1 # 0
        OBVIOUS
      <4> QED
        BY <2>1, <4>1, FS_EmptySet
    <3>2. s \ {c(s)} \in SUBSET T /\ Cardinality(s \ {c(s)}) = k
      <4>1. IsFiniteSet(s) /\ c(s) \in s
        BY <1>3, <1>4, <3>1
      <4>2. Cardinality(s \ {c(s)}) = Cardinality(s) - 1
        BY <4>1, FS_RemoveElement
      <4> QED
        BY <2>1, <4>2
    <3>3. h[s \ {c(s)}] = i[s \ {c(s)}]
      BY <3>2
    <3> QED
      BY <1>1, <1>2, <3>1, <3>3
  <2> QED
    BY <2>1
<1>7. V = Nat
  <2> HIDE DEF V
  <2>1. V \subseteq Nat
    BY DEF V
  <2> QED
    BY <1>5, <1>6, <2>1, NatSet
<1>8. \A s \in SUBSET T : Cardinality(s) \in V
  BY <1>4, <1>7
<1> QED
  BY <1>8

LEMMA TotalOfParts ==
  ASSUME NEW S, IsFiniteSet(S), NEW w, \A k \in S : w[k] \in Nat, NEW h, Summing(w, S, h)
  PROVE  \A T \in SUBSET S : Total(w, T) = h[T]
<1> SUFFICES ASSUME NEW T \in SUBSET S PROVE Total(w, T) = h[T]
  OBVIOUS
<1> DEFINE H == CHOOSE i : Summing(w, T, i)
<1>1. Summing(w, T, H)
  <2>1. IsFiniteSet(T) /\ \A k \in T : w[k] \in Nat
    BY FS_Subset
  <2> QED
    BY <2>1, SumsExist
<1>2. Total(w, T) = H[T]
  BY Zenon DEF Total, MapThenSumSet, MapThenFoldSet, Summing
<1> HIDE DEF H
<1> QED
  BY <1>1, <1>2, SumsAgree

(* The sum is any element's weight and the sum of the rest.                *)
LEMMA TotalAdds ==
  ASSUME NEW S, IsFiniteSet(S), NEW w, \A k \in S : w[k] \in Nat
  PROVE  /\ Total(w, {}) = 0
         /\ \A x \in S : Total(w, S) = w[x] + Total(w, S \ {x})
<1> DEFINE c(s) == CHOOSE x \in s : TRUE
<1>1. PICK h : Summing(w, S, h)
  BY SumsExist
<1>2. \A T \in SUBSET S : Total(w, T) = h[T] /\ Total(w, T) \in Nat
  <2>1. \A T \in SUBSET S : Total(w, T) = h[T]
    BY <1>1, TotalOfParts
  <2>2. ASSUME NEW T \in SUBSET S PROVE Total(w, T) \in Nat
    BY FS_Subset, TotalIsNat
  <2> QED
    BY <2>1, <2>2
<1>3. \A s \in SUBSET S : h[s] = IF s = {} THEN 0 ELSE w[c(s)] + h[s \ {c(s)}]
  BY <1>1 DEF Summing
<1>4. \A s \in SUBSET S : s # {} => c(s) \in s
  OBVIOUS
<1>5. \A s \in SUBSET S : h[s] \in Nat
  BY <1>2
<1> HIDE DEF c
<1> DEFINE Splits(s) == \A x \in s : h[s] = w[x] + h[s \ {x}]
           V == {k \in Nat : \A s \in SUBSET S : Cardinality(s) = k => Splits(s)}
<1>6. \A s \in SUBSET S : IsFiniteSet(s) /\ Cardinality(s) \in Nat
  BY FS_Subset, FS_CardinalityType
<1>7. 0 \in V
  <2>1. \A s \in SUBSET S : Cardinality(s) = 0 => s = {}
    BY <1>6, FS_EmptySet
  <2> QED
    BY <2>1
<1>8. ASSUME NEW k \in V PROVE k + 1 \in V
  <2>1. ASSUME NEW s \in SUBSET S, Cardinality(s) = k + 1, NEW x \in s
        PROVE  h[s] = w[x] + h[s \ {x}]
    <3>1. h[s] = w[c(s)] + h[s \ {c(s)}] /\ c(s) \in s
      BY <1>3, <1>4
    <3>2. CASE x = c(s)
      BY <3>1, <3>2
    <3>3. CASE x # c(s)
      <4> DEFINE a == s \ {c(s)}
                 b == s \ {x}
                 d == s \ {x, c(s)}
      <4>1. /\ a \in SUBSET S /\ b \in SUBSET S /\ d \in SUBSET S
            /\ x \in a /\ c(s) \in b /\ a \ {x} = d /\ b \ {c(s)} = d
        BY <3>1, <3>3
      <4>2. Cardinality(a) = k /\ Cardinality(b) = k
        <5>1. IsFiniteSet(s) /\ x \in s /\ c(s) \in s
          BY <1>6, <3>1
        <5>2. Cardinality(a) = Cardinality(s) - 1 /\ Cardinality(b) = Cardinality(s) - 1
          BY <5>1, FS_RemoveElement
        <5> QED
          BY <2>1, <5>2
      <4>3. Splits(a) /\ Splits(b)
        BY <4>1, <4>2
      <4> HIDE DEF a, b, d
      <4>4. h[a] = w[x] + h[d] /\ h[b] = w[c(s)] + h[d]
        BY <4>1, <4>3
      <4>5. h[d] \in Nat /\ w[x] \in Nat /\ w[c(s)] \in Nat
        BY <1>5, <3>1, <4>1
      <4>6. h[s] = w[c(s)] + h[a]
        BY <3>1 DEF a
      <4>7. h[s] = w[x] + h[b]
        BY <4>4, <4>5, <4>6
      <4> QED
        BY <4>7 DEF b
    <3> QED
      BY <3>2, <3>3
  <2> QED
    BY <2>1
<1>9. V = Nat
  <2> HIDE DEF V
  <2>1. V \subseteq Nat
    BY DEF V
  <2> QED
    BY <1>7, <1>8, <2>1, NatSet
<1>10. Splits(S)
  <2>1. Cardinality(S) \in V
    BY <1>6, <1>9
  <2> QED
    BY <2>1
<1>11. Total(w, {}) = 0
  <2>1. h[{}] = 0
    BY <1>3
  <2> QED
    BY <1>2, <2>1
<1>12. ASSUME NEW x \in S PROVE Total(w, S) = w[x] + Total(w, S \ {x})
  BY <1>2, <1>10
<1> QED
  BY <1>11, <1>12

(* More elements sum to no less.                                           *)
LEMMA TotalGrows ==
  ASSUME NEW B, IsFiniteSet(B), NEW w, \A k \in B : w[k] \in Nat, NEW A \in SUBSET B
  PROVE  Total(w, A) <= Total(w, B) /\ Total(w, A) \in Nat /\ Total(w, B) \in Nat
<1> DEFINE V == {k \in Nat : \A C \in SUBSET B : A \subseteq C /\ Cardinality(C \ A) = k =>
                                                    Total(w, A) <= Total(w, C)}
<1>1. \A C \in SUBSET B : IsFiniteSet(C) /\ IsFiniteSet(C \ A) /\ Cardinality(C \ A) \in Nat
                          /\ Total(w, C) \in Nat
  <2>1. ASSUME NEW C \in SUBSET B PROVE IsFiniteSet(C) /\ IsFiniteSet(C \ A)
    BY FS_Subset
  <2>2. ASSUME NEW C \in SUBSET B PROVE Total(w, C) \in Nat /\ Cardinality(C \ A) \in Nat
    BY <2>1, TotalIsNat, FS_CardinalityType
  <2> QED
    BY <2>1, <2>2
<1>2. 0 \in V
  <2>1. ASSUME NEW C \in SUBSET B, A \subseteq C, Cardinality(C \ A) = 0
        PROVE  Total(w, A) <= Total(w, C)
    <3>1. C = A
      BY <1>1, <2>1, FS_EmptySet
    <3>2. Total(w, A) \in Nat
      BY <1>1
    <3>3. Total(w, A) <= Total(w, A)
      BY <3>2
    <3> QED
      BY <3>1, <3>3
  <2> QED
    BY <2>1
<1>3. ASSUME NEW k \in V PROVE k + 1 \in V
  <2>1. ASSUME NEW C \in SUBSET B, A \subseteq C, Cardinality(C \ A) = k + 1
        PROVE  Total(w, A) <= Total(w, C)
    <3>1. C \ A # {}
      <4>1. k + 1 # 0
        OBVIOUS
      <4> QED
        BY <2>1, <4>1, FS_EmptySet
    <3>2. PICK x : x \in C \ A
      BY <3>1
    <3>3. C \ {x} \in SUBSET B /\ A \subseteq C \ {x} /\ (C \ {x}) \ A = (C \ A) \ {x}
      BY <2>1, <3>2
    <3>4. Cardinality((C \ A) \ {x}) = k
      <4>1. Cardinality((C \ A) \ {x}) = Cardinality(C \ A) - 1
        BY <1>1, <3>2, FS_RemoveElement
      <4> QED
        BY <2>1, <4>1
    <3>5. Total(w, A) <= Total(w, C \ {x})
      BY <3>3, <3>4
    <3>6. Total(w, C) = w[x] + Total(w, C \ {x})
      <4>1. IsFiniteSet(C) /\ \A j \in C : w[j] \in Nat
        BY <1>1
      <4> QED
        BY <3>2, <4>1, TotalAdds
    <3>7. w[x] \in Nat /\ Total(w, C \ {x}) \in Nat /\ Total(w, A) \in Nat
      BY <1>1, <3>2, <3>3
    <3> QED
      BY <3>5, <3>6, <3>7
  <2> QED
    BY <2>1
<1>4. V = Nat
  <2> HIDE DEF V
  <2>1. V \subseteq Nat
    BY DEF V
  <2> QED
    BY <1>2, <1>3, <2>1, NatSet
<1>5. Cardinality(B \ A) \in V
  BY <1>1, <1>4
<1> QED
  BY <1>1, <1>5

LEMMA PairTotal ==
  ASSUME NEW w, w[1] \in Nat, w[2] \in Nat
  PROVE  Total(w, {1, 2}) = w[1] + w[2]
<1>1. IsFiniteSet({1, 2}) /\ IsFiniteSet({2})
  <2>1. IsFiniteSet({1, 2, 2})
    BY Few
  <2>2. {1, 2, 2} = {1, 2}
    OBVIOUS
  <2> QED
    BY <2>1, <2>2, FS_Singleton
<1>2. Total(w, {1, 2}) = w[1] + Total(w, {1, 2} \ {1})
  BY <1>1, TotalAdds
<1>3. Total(w, {2}) = w[2] + Total(w, {2} \ {2}) /\ Total(w, {}) = 0
  BY <1>1, TotalAdds
<1>4. {1, 2} \ {1} = {2} /\ {2} \ {2} = {}
  OBVIOUS
<1>5. Total(w, {1, 2}) = w[1] + Total(w, {2}) /\ Total(w, {2}) = w[2] + 0
  BY <1>2, <1>3, <1>4
<1> QED
  BY <1>5

-----------------------------------------------------------------------------
(* Two functions that differ in a check of the caller, and whom no call    *)
(* joins to others.  All that is in the body of f is one place later in    *)
(* the body of g.                                                          *)

Later(f, g) ==
    /\ Len(Body(f)) \in Nat /\ DOMAIN Body(f) = 1..Len(Body(f))
    /\ DOMAIN Body(g) = 1..(Len(Body(f)) + 1)
    /\ Body(g)[1] = [op |-> "require", what |-> "sender"]
    /\ \A i \in DOMAIN Body(f) : i + 1 \in DOMAIN Body(g) /\ Body(g)[i + 1] = Body(f)[i]
    /\ \A j \in DOMAIN Body(g) : j = 1 \/ (j - 1 \in DOMAIN Body(f) /\ Body(g)[j] = Body(f)[j - 1])

(* What Twin says of the program; the rest of it is said of the graph.     *)
Likewise(f, g) ==
    /\ \A a \in {"contract", "vis", "ctor", "payable", "view", "mods", "says"} :
          Src(g)[a] = Src(f)[a]
    /\ Body(g) = <<[op |-> "require", what |-> "sender"]>> \o Body(f)
    /\ CallTargets(f) = {} /\ \A h \in Fns : {f, g} \cap CallTargets(h) = {}
Apart(f, g) == \A h \in Fns \ {f, g} : ~Depends(f, h)

Pair(f, g) == prog \in Programs /\ f \in Fns /\ g \in Fns /\ Likewise(f, g)

LEMMA TwinIsPair ==
  ASSUME prog \in Programs, NEW f \in Fns, NEW g \in Fns
  PROVE  Twin(f, g) <=> Pair(f, g) /\ Apart(f, g)
BY DEF Twin, Pair, Likewise, Apart

LEMMA TwinBodies ==
  ASSUME NEW f, NEW g, Pair(f, g)
  PROVE  Later(f, g) /\ f # g
<1> DEFINE r == [op |-> "require", what |-> "sender"]
           b == Body(f)
           q == <<r>> \o b
<1>1. b \in Seq(ToSet(b))
  BY ProgramAssumption DEF Pair, WellFormed, WellPlaced, IsList, Body, Src, Fns
<1>2. Body(g) = q
  BY DEF Pair, Likewise
<1> HIDE DEF b
<1>3. Len(b) \in Nat /\ DOMAIN b = 1..Len(b)
  BY <1>1
<1>4. b \in Seq(ToSet(b) \cup {r}) /\ <<r>> \in Seq(ToSet(b) \cup {r})
  BY <1>1
<1> HIDE DEF r
<1>5. Len(q) = 1 + Len(b) /\ DOMAIN q = 1..(Len(b) + 1)
  BY <1>3, <1>4
<1>6. \A j \in 1..(Len(b) + 1) : q[j] = IF j <= 1 THEN r ELSE b[j - 1]
  BY <1>3, <1>4
<1> HIDE DEF q
<1>7. q[1] = r
  BY <1>3, <1>6
<1>8. \A i \in 1..Len(b) : i + 1 \in 1..(Len(b) + 1) /\ q[i + 1] = b[i]
  BY <1>3, <1>6
<1>9. \A j \in 1..(Len(b) + 1) : j = 1 \/ (j - 1 \in 1..Len(b) /\ q[j] = b[j - 1])
  BY <1>3, <1>6
<1>10. Later(f, g)
  BY <1>2, <1>3, <1>5, <1>7, <1>8, <1>9 DEF Later, b, r
<1>11. f # g
  BY <1>3, <1>10 DEF Later, b
<1> QED
  BY <1>10, <1>11

LEMMA TwinSource ==
  ASSUME NEW f, NEW g, Pair(f, g)
  PROVE  /\ Src(g).contract = Src(f).contract /\ Src(g).mods = Src(f).mods
         /\ Src(g).payable = Src(f).payable /\ Src(g).view = Src(f).view
         /\ \A h : Says(g, h) <=> Says(f, h)
         /\ Public(g) <=> Public(f)
         /\ Entry(g) <=> Entry(f)
         /\ Guarding(g) = Guarding(f) /\ ModSeq(g) = ModSeq(f) /\ Categories(g) = Categories(f)
         /\ \A n : IsLocal(g, n) <=> IsLocal(f, n)
<1>1. /\ Src(g).contract = Src(f).contract /\ Src(g).mods = Src(f).mods
      /\ Src(g).payable = Src(f).payable /\ Src(g).view = Src(f).view
      /\ Src(g).says = Src(f).says /\ Src(g).vis = Src(f).vis /\ Src(g).ctor = Src(f).ctor
  BY DEF Pair, Likewise
<1>2. \A n : Resolved(g, n) = Resolved(f, n) /\ Local(g, n) = Local(f, n)
  BY <1>1 DEF Resolved, Local
<1>3. Guarding(g) = Guarding(f) /\ ModSeq(g) = ModSeq(f) /\ Categories(g) = Categories(f)
  BY <1>1, <1>2 DEF Guarding, ModSeq, Categories
<1> QED
  BY <1>1, <1>3 DEF Says, Public, Entry, IsLocal

(* What the two bodies have in common, but for the place.                  *)
LEMMA TwinEventsAt ==
  ASSUME NEW f, NEW g, Pair(f, g), NEW op, op # "require"
  PROVE  /\ \A i \in At(f, op) : i + 1 \in At(g, op) /\ Body(g)[i + 1] = Body(f)[i]
         /\ \A j \in At(g, op) : j - 1 \in At(f, op) /\ Body(g)[j] = Body(f)[j - 1] /\ j \in Nat
BY TwinBodies DEF Later, At

LEMMA TwinSets ==
  ASSUME NEW f, NEW g, Pair(f, g)
  PROVE  /\ WriteEdges(g) = WriteEdges(f) /\ ReadEdges(g) = ReadEdges(f)
         /\ \A h \in {f, g} : /\ Internal(h) = {} /\ CallEdges(h) = {}
                              /\ \A i \in Externals(h) : Body(h)[i].to = 0
         /\ \A h \in Fns : {f, g} \cap Internal(h) = {} /\ {f, g} \cap CallEdges(h) = {}
         /\ AttackerInput(g) <=> AttackerInput(f)
         /\ PopsArray(g) <=> PopsArray(f)
<1>1. WriteEdges(g) = WriteEdges(f)
  <2>1. \A i \in At(f, "write") : i + 1 \in At(g, "write") /\ Body(g)[i + 1] = Body(f)[i]
    BY TwinEventsAt
  <2>2. \A j \in At(g, "write") : j - 1 \in At(f, "write") /\ Body(g)[j] = Body(f)[j - 1]
    BY TwinEventsAt
  <2>3. WriteEdges(f) \subseteq WriteEdges(g)
    BY <2>1 DEF WriteEdges
  <2>4. WriteEdges(g) \subseteq WriteEdges(f)
    BY <2>2 DEF WriteEdges
  <2> QED
    BY <2>3, <2>4
<1>2. ReadEdges(g) = ReadEdges(f)
  <2> DEFINE R(h) == {Body(h)[i].var : i \in At(h, "read")}
  <2>1. \A i \in At(f, "read") : i + 1 \in At(g, "read") /\ Body(g)[i + 1] = Body(f)[i]
    BY TwinEventsAt
  <2>2. \A j \in At(g, "read") : j - 1 \in At(f, "read") /\ Body(g)[j] = Body(f)[j - 1]
    BY TwinEventsAt
  <2>3. R(f) \subseteq R(g)
    BY <2>1
  <2>4. R(g) \subseteq R(f)
    BY <2>2
  <2> QED
    BY <1>1, <2>3, <2>4 DEF ReadEdges
<1>3. 0 \notin Fns /\ \A h \in Fns : Internal(h) \subseteq Fns
  BY FunctionList, CallsKnown DEF Pair
<1>4. CallTargets(f) = {}
  BY DEF Pair, Likewise
<1>5. Internal(f) = {} /\ \A i \in Externals(f) : Body(f)[i].to = 0
  BY <1>3, <1>4 DEF CallTargets, Pair
<1>6. Internal(g) = {} /\ \A i \in Externals(g) : Body(g)[i].to = 0
  <2>1. \A j \in At(g, "internal") : j - 1 \in At(f, "internal")
    BY TwinEventsAt
  <2>2. \A j \in At(g, "external") : j - 1 \in At(f, "external") /\ Body(g)[j] = Body(f)[j - 1]
    BY TwinEventsAt
  <2>3. Internal(g) = {}
    BY <1>5, <2>1 DEF Internal
  <2>4. \A i \in Externals(g) : Body(g)[i].to = 0
    BY <1>5, <2>2 DEF Externals
  <2> QED
    BY <2>3, <2>4
<1>7. \A h \in Fns : {f, g} \cap Internal(h) = {}
  <2>1. \A h \in Fns : {f, g} \cap CallTargets(h) = {}
    BY DEF Pair, Likewise
  <2>2. \A h \in Fns : Internal(h) \subseteq CallTargets(h)
    BY <1>3 DEF CallTargets
  <2> QED
    BY <2>1, <2>2
<1>8. \A h : CallEdges(h) \subseteq Internal(h)
  BY DEF CallEdges
<1>9. AttackerInput(g) <=> AttackerInput(f)
  <2>1. Public(g) <=> Public(f)
    BY TwinSource
  <2>2. \A i \in At(f, "write") : i + 1 \in At(g, "write") /\ Body(g)[i + 1] = Body(f)[i]
    BY TwinEventsAt
  <2>3. \A j \in At(g, "write") : j - 1 \in At(f, "write") /\ Body(g)[j] = Body(f)[j - 1]
    BY TwinEventsAt
  <2> QED
    BY <2>1, <2>2, <2>3 DEF AttackerInput
<1>10. PopsArray(g) <=> PopsArray(f)
  <2>2. \A i \in At(f, "write") : i + 1 \in At(g, "write") /\ Body(g)[i + 1] = Body(f)[i]
    BY TwinEventsAt
  <2>3. \A j \in At(g, "write") : j - 1 \in At(f, "write") /\ Body(g)[j] = Body(f)[j - 1]
    BY TwinEventsAt
  <2> QED
    BY <2>2, <2>3 DEF PopsArray
<1> QED
  BY <1>1, <1>2, <1>5, <1>6, <1>7, <1>8, <1>9, <1>10

(* The checks of f, and the one of the caller.                             *)
LEMMA TwinChecks ==
  ASSUME NEW f, NEW g, Pair(f, g)
  PROVE  /\ \A what : what # "sender" => (Checks(g, what) # {} <=> Checks(f, what) # {})
         /\ InlineCheck(g) /\ RequireAC(g) /\ At(g, "require") # {} /\ ~Bare(g)
         /\ RequireAC(f) => InlineCheck(f) /\ At(f, "require") # {}
         /\ \A i \in DOMAIN Body(f) : \A what : what # "sender" =>
               (\A j \in Checks(g, what) : j < i + 1) <=> (\A j \in Checks(f, what) : j < i)
         /\ \A i \in DOMAIN Body(f) : \A what : what # "sender" =>
               (\E j \in Checks(g, what) : j > i + 1) <=> (\E j \in Checks(f, what) : j > i)
<1>1. Later(f, g)
  BY TwinBodies
<1>2. \A what : \A i \in Checks(f, what) : i + 1 \in Checks(g, what) /\ i \in Nat
  BY <1>1 DEF Later, Checks, At
<1>3. \A what : what # "sender" => \A j \in Checks(g, what) : j - 1 \in Checks(f, what) /\ j \in Nat
  BY <1>1 DEF Later, Checks, At
<1>4. 1 \in Checks(g, "sender")
  BY <1>1 DEF Later, Checks, At
<1>5. InlineCheck(g) /\ RequireAC(g) /\ At(g, "require") # {}
  BY <1>4 DEF InlineCheck, RequireAC, Checks
<1>6. RequireAC(f) => InlineCheck(f) /\ At(f, "require") # {}
  BY DEF InlineCheck, RequireAC, Checks
<1>7. \A what : what # "sender" => (Checks(g, what) # {} <=> Checks(f, what) # {})
  BY <1>2, <1>3
<1>8. ASSUME NEW i \in DOMAIN Body(f), NEW what, what # "sender"
      PROVE  /\ (\A j \in Checks(g, what) : j < i + 1) <=> (\A j \in Checks(f, what) : j < i)
             /\ (\E j \in Checks(g, what) : j > i + 1) <=> (\E j \in Checks(f, what) : j > i)
  <2>1. i \in Nat
    BY <1>1 DEF Later
  <2>2. \A j \in Checks(f, what) : j + 1 \in Checks(g, what) /\ j \in Nat
    BY <1>2
  <2>3. \A j \in Checks(g, what) : j - 1 \in Checks(f, what) /\ j \in Nat
    BY <1>3, <1>8
  <2>4. \A j \in Nat : (j < i <=> j + 1 < i + 1) /\ (j > i <=> j + 1 > i + 1)
    BY <2>1
  <2>5. \A j \in Nat : j - 1 \in Nat => (j < i + 1 <=> j - 1 < i) /\ (j > i + 1 <=> j - 1 > i)
    BY <2>1
  <2> QED
    BY <2>2, <2>3, <2>4, <2>5
<1>9. ~Bare(g)
  BY <1>5 DEF Bare
<1> QED
  BY <1>5, <1>6, <1>7, <1>8, <1>9

-----------------------------------------------------------------------------
(* What the two do when they run: the same, but for the check and the      *)
(* place of what comes after it in the body.                               *)

Moved(e) == IF e[1] = 1 THEN <<1, e[2] + 1, e[3]>> ELSE e

LEMMA MovedKeeps ==
  ASSUME NEW e
  PROVE  Moved(e)[1] = e[1] /\ Moved(e)[3] = e[3] /\ (e[1] = 1 => Moved(e)[2] = e[2] + 1)
BY DEF Moved

LEMMA BodyPlaced ==
  ASSUME NEW f, DOMAIN Body(f) \subseteq Nat
  PROVE  /\ \A e \in Placed(Body(f), 1, 1) :
               e = <<1, e[2], e[3]>> /\ e[2] \in DOMAIN Body(f) /\ e[3] = Body(f)[e[2]]
         /\ \A i \in DOMAIN Body(f) : <<1, i, Body(f)[i]>> \in Placed(Body(f), 1, 1)
<1>1. \A i \in DOMAIN Body(f) : (1 - 1) * Width + i = i
  BY DEF Width
<1>2. Placed(Body(f), 1, 1) = {<<1, i, Body(f)[i]>> : i \in DOMAIN Body(f)}
  BY <1>1 DEF Placed
<1> QED
  BY <1>2

LEMMA TwinEvents ==
  ASSUME NEW f, NEW g, Pair(f, g)
  PROVE  /\ \A e \in Events(f) : /\ Moved(e) \in Events(g)
                                 /\ e[1] = 1 => e[2] \in DOMAIN Body(f) /\ e[2] \in Nat
                                                /\ e[3] = Body(f)[e[2]]
         /\ \A e \in Events(g) : \/ e[1] = 1 /\ e[2] = 1 /\ e[3].op = "require"
                                 \/ \E d \in Events(f) : e = Moved(d)
<1> DEFINE around == Preludes(ModSeq(f)) \cup Postludes(Reverse(ModSeq(f)))
<1>1. Events(f) = Placed(Body(f), 1, 1) \cup around /\ Events(g) = Placed(Body(g), 1, 1) \cup around
  BY TwinSource DEF Events
<1>2. \A e \in around : e[1] # 1 /\ Moved(e) = e
  BY DEF Preludes, Postludes, Placed, Moved
<1> HIDE DEF around
<1>3. Later(f, g) /\ DOMAIN Body(f) \subseteq Nat /\ DOMAIN Body(g) \subseteq Nat
  BY TwinBodies DEF Later
<1>4. /\ \A e \in Placed(Body(f), 1, 1) :
            e = <<1, e[2], e[3]>> /\ e[2] \in DOMAIN Body(f) /\ e[3] = Body(f)[e[2]]
      /\ \A i \in DOMAIN Body(f) : <<1, i, Body(f)[i]>> \in Placed(Body(f), 1, 1)
  BY <1>3, BodyPlaced
<1>5. /\ \A e \in Placed(Body(g), 1, 1) :
            e = <<1, e[2], e[3]>> /\ e[2] \in DOMAIN Body(g) /\ e[3] = Body(g)[e[2]]
      /\ \A i \in DOMAIN Body(g) : <<1, i, Body(g)[i]>> \in Placed(Body(g), 1, 1)
  BY <1>3, BodyPlaced
<1>6. ASSUME NEW e \in Placed(Body(f), 1, 1) PROVE Moved(e) \in Placed(Body(g), 1, 1)
  <2>1. e[2] \in DOMAIN Body(f) /\ e[3] = Body(f)[e[2]] /\ e[1] = 1
    BY <1>4
  <2>2. e[2] + 1 \in DOMAIN Body(g) /\ Body(g)[e[2] + 1] = e[3]
    BY <1>3, <2>1 DEF Later
  <2>3. Moved(e) = <<1, e[2] + 1, Body(g)[e[2] + 1]>>
    BY <2>1, <2>2 DEF Moved
  <2> QED
    BY <1>5, <2>2, <2>3
<1>7. ASSUME NEW e \in Placed(Body(g), 1, 1)
      PROVE  \/ e[1] = 1 /\ e[2] = 1 /\ e[3].op = "require"
             \/ \E d \in Placed(Body(f), 1, 1) : e = Moved(d)
  <2>1. e = <<1, e[2], e[3]>> /\ e[2] \in DOMAIN Body(g) /\ e[3] = Body(g)[e[2]]
    BY <1>5
  <2>2. Body(g)[1].op = "require"
    BY <1>3 DEF Later
  <2>3. SUFFICES ASSUME e[2] # 1 PROVE \E d \in Placed(Body(f), 1, 1) : e = Moved(d)
    BY <2>1, <2>2
  <2>4. e[2] - 1 \in DOMAIN Body(f) /\ Body(f)[e[2] - 1] = e[3] /\ e[2] \in Nat
    BY <1>3, <2>1, <2>3 DEF Later
  <2> DEFINE d == <<1, e[2] - 1, e[3]>>
  <2>5. d \in Placed(Body(f), 1, 1)
    BY <1>4, <2>4
  <2>6. Moved(d) = <<1, e[2], e[3]>>
    BY <2>4 DEF Moved
  <2> QED
    BY <2>1, <2>5, <2>6
<1>8. ASSUME NEW e \in Events(f)
      PROVE  /\ Moved(e) \in Events(g)
             /\ e[1] = 1 => e[2] \in DOMAIN Body(f) /\ e[2] \in Nat /\ e[3] = Body(f)[e[2]]
  <2>1. CASE e \in around
    BY <1>1, <1>2, <2>1
  <2>2. CASE e \in Placed(Body(f), 1, 1)
    BY <1>1, <1>3, <1>4, <1>6, <2>2
  <2> QED
    BY <1>1, <2>1, <2>2
<1>9. ASSUME NEW e \in Events(g)
      PROVE  \/ e[1] = 1 /\ e[2] = 1 /\ e[3].op = "require"
             \/ \E d \in Events(f) : e = Moved(d)
  <2>1. CASE e \in around
    BY <1>1, <1>2, <2>1
  <2>2. CASE e \in Placed(Body(g), 1, 1)
    BY <1>1, <1>7, <2>2
  <2> QED
    BY <1>1, <2>1, <2>2
<1> QED
  BY <1>8, <1>9

(* Every event has one that begins a node before it in its segment.        *)
LEMMA SegmentBegins ==
  ASSUME prog \in Programs, NEW f \in Fns, NEW b \in Events(f)
  PROVE  \E x \in Events(f) : x[1] = b[1] /\ ~Before(b, x) /\ ~Joined(x[3])
<1> DEFINE Begun(q) == \/ DOMAIN q = {}
                       \/ 1 \in DOMAIN q /\ DOMAIN q \subseteq Nat \ {0} /\ ~Joined(q[1])
           back == Reverse(ModSeq(f))
<1>1. Len(ModSeq(f)) \in Nat /\ ModSeq(f) \in [1..Len(ModSeq(f)) -> Mods]
  BY ModifiersAround
<1>2. ASSUME NEW q, WellPlaced(prog, q) PROVE Begun(q)
  <2>1. q \in Seq(ToSet(q)) /\ (1 \in DOMAIN q => ~Joined(q[1]))
    BY <1>2 DEF WellPlaced, IsList
  <2>2. DOMAIN q = 1..Len(q) /\ Len(q) \in Nat
    BY <2>1
  <2> QED
    BY <2>1, <2>2
<1>3. Begun(Body(f)) /\ \A m \in Mods : Begun(prog.mod[m].pre) /\ Begun(prog.mod[m].post)
  <2>1. WellPlaced(prog, Body(f))
    BY ProgramAssumption DEF WellFormed, Fns, Body, Src
  <2>2. \A m \in Mods : WellPlaced(prog, prog.mod[m].pre) /\ WellPlaced(prog, prog.mod[m].post)
    BY ProgramAssumption DEF WellFormed, Mods
  <2> HIDE DEF Begun
  <2> QED
    BY <1>2, <2>1, <2>2
<1>4. ASSUME NEW q, NEW p \in Nat, NEW k \in Nat, Begun(q), b \in Placed(q, p, k)
      PROVE  \E x \in Placed(q, p, k) : x[1] = b[1] /\ ~Before(b, x) /\ ~Joined(x[3])
  <2>1. PICK i \in DOMAIN q : b = <<p, (k - 1) * Width + i, q[i]>>
    BY <1>4 DEF Placed
  <2>2. 1 \in DOMAIN q /\ i \in Nat \ {0} /\ ~Joined(q[1])
    BY <1>4
  <2> DEFINE x == <<p, (k - 1) * Width + 1, q[1]>>
  <2>3. x \in Placed(q, p, k)
    BY <2>2 DEF Placed
  <2>4. x[1] = p /\ b[1] = p /\ b[2] = (k - 1) * Width + i /\ x[2] = (k - 1) * Width + 1 /\ x[3] = q[1]
    BY <2>1
  <2>5. ~Before(b, x)
    BY <2>2, <2>4 DEF Before, Width
  <2> QED
    BY <2>2, <2>3, <2>4, <2>5
<1>5. DOMAIN back = 1..Len(ModSeq(f)) /\ \A k \in DOMAIN back : back[k] \in Mods
  <2>1. \A k \in 1..Len(ModSeq(f)) : (Len(ModSeq(f)) - k) + 1 \in 1..Len(ModSeq(f))
    BY <1>1
  <2> QED
    BY <1>1, <2>1 DEF Reverse
<1> HIDE DEF Begun, back
<1>6. CASE b \in Placed(Body(f), 1, 1)
  BY <1>3, <1>4, <1>6 DEF Events
<1>7. CASE b \in Preludes(ModSeq(f))
  <2>1. PICK k \in DOMAIN ModSeq(f) : b \in Placed(prog.mod[ModSeq(f)[k]].pre, 0, k)
    BY <1>7 DEF Preludes
  <2>2. ModSeq(f)[k] \in Mods /\ k \in Nat
    BY <1>1
  <2>3. PICK x \in Placed(prog.mod[ModSeq(f)[k]].pre, 0, k) : x[1] = b[1] /\ ~Before(b, x) /\ ~Joined(x[3])
    BY <1>3, <1>4, <2>1, <2>2
  <2>4. x \in Preludes(ModSeq(f))
    BY <2>3 DEF Preludes
  <2> QED
    BY <2>3, <2>4 DEF Events
<1>8. CASE b \in Postludes(back)
  <2>1. PICK k \in DOMAIN back : b \in Placed(prog.mod[back[k]].post, 2, k)
    BY <1>8 DEF Postludes
  <2>2. back[k] \in Mods /\ k \in Nat
    BY <1>1, <1>5
  <2>3. PICK x \in Placed(prog.mod[back[k]].post, 2, k) : x[1] = b[1] /\ ~Before(b, x) /\ ~Joined(x[3])
    BY <1>3, <1>4, <2>1, <2>2
  <2>4. x \in Postludes(back)
    BY <2>3 DEF Postludes
  <2> QED
    BY <2>3, <2>4 DEF Events, back
<1> QED
  BY <1>6, <1>7, <1>8 DEF Events, back

LEMMA PhasesOf ==
  ASSUME NEW f
  PROVE  \A e \in Events(f) : e[1] \in {0, 1, 2}
BY DEF Events, Placed, Preludes, Postludes

(* The calls and the writes correspond, in their order; and so what asks   *)
(* only for the kind of a call finds the same.                             *)
LEMMA TwinCalls ==
  ASSUME NEW f, NEW g, Pair(f, g)
  PROVE  /\ \A e \in Calls(f) : Moved(e) \in Calls(g)
         /\ \A e \in Calls(g) : \E d \in Calls(f) : e = Moved(d)
         /\ \A e \in Calls(f) : e[1] = 1 => e[2] \in DOMAIN Body(f) /\ e[2] \in Externals(f)
         /\ \A e \in Calls(f) \cup Calls(g) : e[1] = 1 => e[3].to = 0
         /\ \A S, T : /\ S \subseteq Calls(f) /\ T \subseteq Calls(g)
                      /\ \A e \in S : Moved(e) \in T
                      /\ \A e \in T : \E d \in S : e = Moved(d)
                      => (SomeWriteAfter(g, T) <=> SomeWriteAfter(f, S))
<1>1. /\ \A e \in Events(f) : /\ Moved(e) \in Events(g)
                              /\ e[1] = 1 => e[2] \in DOMAIN Body(f) /\ e[2] \in Nat
                                             /\ e[3] = Body(f)[e[2]]
      /\ \A e \in Events(g) : \/ e[1] = 1 /\ e[2] = 1 /\ e[3].op = "require"
                              \/ \E d \in Events(f) : e = Moved(d)
  BY TwinEvents
<1>2. \A e \in Calls(f) : Moved(e) \in Calls(g)
  BY <1>1, MovedKeeps DEF Calls
<1>3. \A e \in Calls(g) : \E d \in Calls(f) : e = Moved(d)
  BY <1>1, MovedKeeps DEF Calls
<1>4. \A e \in Calls(f) : e[1] = 1 => e[2] \in DOMAIN Body(f) /\ e[2] \in Externals(f) /\ e[3] = Body(f)[e[2]]
  BY <1>1 DEF Calls, Externals, At
<1>5. \A e \in Calls(f) \cup Calls(g) : e[1] = 1 => e[3].to = 0
  <2>1. \A i \in Externals(f) : Body(f)[i].to = 0
    BY TwinSets
  <2>2. \A e \in Calls(f) : e[1] = 1 => e[3].to = 0
    BY <1>4, <2>1
  <2> QED
    BY <1>3, <2>2, MovedKeeps
<1>6. \A w \in WritesIn(f) : Moved(w) \in WritesIn(g)
  BY <1>1, MovedKeeps DEF WritesIn
<1>7. \A w \in WritesIn(g) : \E d \in WritesIn(f) : w = Moved(d)
  BY <1>1, MovedKeeps DEF WritesIn
<1>8. \A a \in Events(f), b \in Events(f) : Before(Moved(a), Moved(b)) <=> Before(a, b)
  <2>1. ASSUME NEW a \in Events(f), NEW b \in Events(f) PROVE Before(Moved(a), Moved(b)) <=> Before(a, b)
    <3>1. Moved(a)[1] = a[1] /\ Moved(b)[1] = b[1]
      BY MovedKeeps
    <3>2. CASE a[1] = 1 /\ b[1] = 1
      <4>1. Moved(a)[2] = a[2] + 1 /\ Moved(b)[2] = b[2] + 1 /\ a[2] \in Nat /\ b[2] \in Nat
        BY <1>1, <3>2, MovedKeeps
      <4> QED
        BY <3>1, <4>1 DEF Before
    <3>3. CASE a[1] # b[1]
      BY <3>1, <3>3 DEF Before
    <3>4. CASE a[1] # 1 /\ b[1] # 1
      BY <3>4 DEF Moved
    <3> QED
      BY <3>2, <3>3, <3>4
  <2> QED
    BY <2>1
<1>9. \A a \in Events(f), b \in Events(f) : OneNode(g, Moved(a), Moved(b)) <=> OneNode(f, a, b)
  <2> SUFFICES ASSUME NEW a \in Events(f), NEW b \in Events(f)
               PROVE  OneNode(g, Moved(a), Moved(b)) <=> OneNode(f, a, b)
    OBVIOUS
  <2>1. \A e : Moved(e)[3] = e[3]
    BY MovedKeeps
  <2>2. ASSUME ~OneNode(f, a, b) PROVE ~OneNode(g, Moved(a), Moved(b))
    <3>1. PICK x \in Events(f) : Before(a, x) /\ ~Before(b, x) /\ ~Joined(x[3])
      BY <2>2 DEF OneNode
    <3>2. Moved(x) \in Events(g) /\ Before(Moved(a), Moved(x)) /\ ~Before(Moved(b), Moved(x))
      BY <1>1, <1>8, <3>1
    <3> QED
      BY <2>1, <3>1, <3>2 DEF OneNode
  <2>3. ASSUME ~OneNode(g, Moved(a), Moved(b)) PROVE ~OneNode(f, a, b)
    <3>1. PICK y \in Events(g) : Before(Moved(a), y) /\ ~Before(Moved(b), y) /\ ~Joined(y[3])
      BY <2>3 DEF OneNode
    <3>2. CASE \E d \in Events(f) : y = Moved(d)
      <4>1. PICK d \in Events(f) : y = Moved(d)
        BY <3>2
      <4>2. Before(a, d) /\ ~Before(b, d) /\ ~Joined(d[3])
        BY <1>8, <2>1, <3>1, <4>1
      <4> QED
        BY <4>2 DEF OneNode
    <3>3. CASE y[1] = 1 /\ y[2] = 1
      <4>1. a[1] \in {0, 1, 2} /\ b[1] \in {0, 1, 2} /\ Moved(a)[1] = a[1] /\ Moved(b)[1] = b[1]
        BY PhasesOf, MovedKeeps
      <4>2. a[1] = 1 => Moved(a)[2] = a[2] + 1 /\ a[2] \in Nat
        BY <1>1, MovedKeeps
      <4>3. a[1] = 0 /\ b[1] \in {1, 2}
        BY <3>1, <3>3, <4>1, <4>2 DEF Before
      <4>4. PICK x \in Events(f) : x[1] = b[1] /\ ~Before(b, x) /\ ~Joined(x[3])
        BY SegmentBegins DEF Pair
      <4>5. Before(a, x)
        BY <4>3, <4>4 DEF Before
      <4> QED
        BY <4>4, <4>5 DEF OneNode
    <3> QED
      BY <1>1, <3>2, <3>3
  <2> QED
    BY <2>2, <2>3
<1>10. ASSUME NEW S, NEW T, S \subseteq Calls(f), T \subseteq Calls(g),
              \A e \in S : Moved(e) \in T, \A e \in T : \E d \in S : e = Moved(d)
       PROVE  SomeWriteAfter(g, T) <=> SomeWriteAfter(f, S)
  <2>1. S \subseteq Events(f) /\ WritesIn(f) \subseteq Events(f)
    BY <1>10 DEF Calls, WritesIn
  <2>2. ASSUME SomeWriteAfter(f, S) PROVE SomeWriteAfter(g, T)
    <3>1. PICK c \in S, w \in WritesIn(f) : Before(c, w) /\ ~OneNode(f, c, w)
      BY <2>2 DEF SomeWriteAfter
    <3>2. /\ Moved(c) \in T /\ Moved(w) \in WritesIn(g)
          /\ Before(Moved(c), Moved(w)) /\ ~OneNode(g, Moved(c), Moved(w))
      BY <1>6, <1>8, <1>9, <1>10, <2>1, <3>1
    <3> QED
      BY <3>2 DEF SomeWriteAfter
  <2>3. ASSUME SomeWriteAfter(g, T) PROVE SomeWriteAfter(f, S)
    <3>1. PICK c \in T, w \in WritesIn(g) : Before(c, w) /\ ~OneNode(g, c, w)
      BY <2>3 DEF SomeWriteAfter
    <3>2. PICK a \in S : c = Moved(a)
      BY <1>10, <3>1
    <3>3. PICK b \in WritesIn(f) : w = Moved(b)
      BY <1>7, <3>1
    <3>4. Before(a, b) /\ ~OneNode(f, a, b)
      BY <1>8, <1>9, <2>1, <3>1, <3>2, <3>3
    <3> QED
      BY <3>2, <3>3, <3>4 DEF SomeWriteAfter
  <2> QED
    BY <2>2, <2>3
<1> QED
  BY <1>2, <1>3, <1>4, <1>5, <1>10

-----------------------------------------------------------------------------
(* Functions that no call joins to others keep the taint they have of      *)
(* their own, and no path of taint but their own starts at them.           *)

Separate(I) ==
    /\ I \subseteq Fns /\ \A h \in I : CallEdges(h) = {}
    /\ \A h \in Fns : CallEdges(h) \cap I = {}

Aside(I) ==
    {T \in Bounded(Fns) :
        /\ \A h \in I : T[h] = LocalResult(h)
        /\ \A h \in Fns \ I : \A p \in T[h].paths : p # <<>> /\ Head(p) \notin I}

LEMMA AllClosed ==
  ASSUME prog \in Programs
  PROVE  Closed(Fns)
BY CallsKnown DEF Closed

LEMMA PassedAside ==
  ASSUME prog \in Programs, NEW I, Separate(I), NEW T \in Aside(I), NEW f \in Fns,
         NEW g \in CallEdges(f)
  PROVE  Passed(T, f, g) \in Aside(I)
<1>1. T \in Bounded(Fns) /\ g \in Fns \ I /\ f \in Fns \ I
  BY CallsOfProgram DEF Separate, Aside
<1>2. Passed(T, f, g) \in Bounded(Fns)
  BY <1>1, AllClosed, PassedOn
<1>3. CASE ~Injects(T, f, g)
  BY <1>3 DEF Passed
<1>4. CASE Injects(T, f, g)
  <2> DEFINE U == Injected(T, f, g)
             P == {Append(p, g) : p \in T[f].paths}
  <2>1. Passed(T, f, g) = U
    BY <1>4 DEF Passed
  <2>2. T \in [Fns -> Reports] /\ T[f] \in Reports /\ T[g] \in Reports
    BY <1>1 DEF Bounded
  <2>3. (\A h \in Fns \ {g} : U[h] = T[h]) /\ U[g].paths = T[g].paths \cup P
    BY <1>1, <2>2 DEF Injected
  <2>4. \A p \in P : p # <<>> /\ Head(p) \notin I
    <3>1. \A p \in T[f].paths : p \in Seq(Fns) /\ p # <<>> /\ Head(p) \notin I
      BY <1>1, <2>2 DEF Aside, Reports
    <3>2. \A p \in Seq(Fns) : p # <<>> => Append(p, g) # <<>> /\ Head(Append(p, g)) = Head(p)
      BY <1>1
    <3> QED
      BY <3>1, <3>2
  <2>5. \A p \in T[g].paths : p # <<>> /\ Head(p) \notin I
    BY <1>1 DEF Aside
  <2>6. \A h \in Fns \ I : \A p \in T[h].paths : p # <<>> /\ Head(p) \notin I
    BY DEF Aside
  <2>7. \A h \in I : T[h] = LocalResult(h) /\ h \in Fns \ {g}
    BY <1>1 DEF Aside, Separate
  <2> HIDE DEF U, P
  <2>8. \A h \in Fns \ I : \A p \in U[h].paths : p # <<>> /\ Head(p) \notin I
    BY <2>3, <2>4, <2>5, <2>6
  <2>9. \A h \in I : U[h] = LocalResult(h)
    BY <2>3, <2>7
  <2> QED
    BY <1>2, <2>1, <2>8, <2>9 DEF Aside
<1> QED
  BY <1>3, <1>4

LEMMA CallerAside ==
  ASSUME prog \in Programs, \A h \in Fns : Callees(h) = CallEdges(h),
         NEW I, Separate(I), NEW T \in Aside(I), NEW f \in Fns
  PROVE  FromCaller(T, f) \in Aside(I)
<1> DEFINE X == Aside(I)
           callees == Ascending(Callees(f))
           n == Len(callees)
           On(k, U) == Passed(U, f, callees[k])
           F == [x \in (1..n) \X X |-> On(x[1], x[2])]
           IsRun(u) == u = [k \in 0..n |-> IF k = 0 THEN T ELSE On(k, u[k - 1])]
<1>1. n \in Nat /\ \A k \in 1..n : callees[k] \in CallEdges(f)
  <2>1. Callees(f) \in SUBSET Fns
    BY DEF Callees, Out
  <2> HIDE DEF callees
  <2>2. n \in Nat /\ callees \in [1..n -> Callees(f)]
    BY <2>1, AllAscending DEF callees
  <2> QED
    BY <2>2
<1>2. FromCaller(T, f) = (CHOOSE u : IsRun(u))[n]
  BY DEF FromCaller
<1> HIDE DEF n, callees
<1>3. \A k \in 1..n, U \in X : On(k, U) \in X
  BY <1>1, PassedAside
<1> HIDE DEF X, On
<1>4. F \in [(1..n) \X X -> X] /\ \A k \in 1..n, U \in X : F[<<k, U>>] = On(k, U)
  BY <1>3
<1> HIDE DEF F
<1>5. PICK w : Unrolled(w, X, T, n, F) /\ Only(w, X, T, n, F)
  BY <1>1, <1>4, Unrolls DEF X
<1>6. /\ w \in [0..n -> X] /\ w[0] = T
      /\ \A k \in 1..n : k - 1 \in 0..n /\ w[k - 1] \in X /\ w[k] = On(k, w[k - 1])
  <2>1. \A k \in 1..n : k - 1 \in 0..n
    BY <1>1
  <2> QED
    BY <1>4, <1>5, <2>1 DEF Unrolled
<1>7. IsRun(w)
  <2>1. \A k \in 0..n : k = 0 \/ k \in 1..n
    BY <1>1
  <2>2. \A k \in 0..n : w[k] = IF k = 0 THEN T ELSE On(k, w[k - 1])
    BY <1>1, <1>6, <2>1
  <2> QED
    BY <1>6, <2>2
<1>8. \A u : IsRun(u) => u[n] = w[n]
  <2> SUFFICES ASSUME NEW u, IsRun(u) PROVE u[n] = w[n]
    OBVIOUS
  <2>1. u[0] = T /\ \A k \in 1..n : u[k] = On(k, u[k - 1])
    BY <1>1
  <2> HIDE DEF IsRun
  <2>2. \A k \in 0..n : u[k] = w[k]
    BY <1>4, <1>5, <2>1 DEF Only
  <2> QED
    BY <1>1, <2>2
<1>9. (CHOOSE u : IsRun(u))[n] = w[n]
  <2> HIDE DEF IsRun
  <2> QED
    BY <1>7, <1>8
<1>10. FromCaller(T, f) = w[n] /\ n \in 0..n
  BY <1>1, <1>2, <1>9
<1> QED
  BY <1>6, <1>10 DEF X

LEMMA RoundAside ==
  ASSUME prog \in Programs, \A h \in Fns : Callees(h) = CallEdges(h),
         NEW I, Separate(I), NEW T \in Aside(I)
  PROVE  Round(T) \in Aside(I)
<1> DEFINE X == Aside(I)
           nodes == Ascending(Fns)
           n == Len(nodes)
           On(k, U) == FromCaller(U, nodes[k])
           F == [x \in (1..n) \X X |-> On(x[1], x[2])]
           IsRun(u) == u = [k \in 0..n |-> IF k = 0 THEN T ELSE On(k, u[k - 1])]
<1>1. n \in Nat /\ \A k \in 1..n : nodes[k] \in Fns
  <2> HIDE DEF nodes
  <2>1. n \in Nat /\ nodes \in [1..n -> Fns]
    BY AllAscending DEF nodes
  <2> QED
    BY <2>1
<1>2. Round(T) = (CHOOSE u : IsRun(u))[n]
  BY DEF Round
<1> HIDE DEF n, nodes
<1>3. \A k \in 1..n, U \in X : On(k, U) \in X
  BY <1>1, CallerAside
<1> HIDE DEF X, On
<1>4. F \in [(1..n) \X X -> X] /\ \A k \in 1..n, U \in X : F[<<k, U>>] = On(k, U)
  BY <1>3
<1> HIDE DEF F
<1>5. PICK w : Unrolled(w, X, T, n, F) /\ Only(w, X, T, n, F)
  BY <1>1, <1>4, Unrolls DEF X
<1>6. /\ w \in [0..n -> X] /\ w[0] = T
      /\ \A k \in 1..n : k - 1 \in 0..n /\ w[k - 1] \in X /\ w[k] = On(k, w[k - 1])
  <2>1. \A k \in 1..n : k - 1 \in 0..n
    BY <1>1
  <2> QED
    BY <1>4, <1>5, <2>1 DEF Unrolled
<1>7. IsRun(w)
  <2>1. \A k \in 0..n : k = 0 \/ k \in 1..n
    BY <1>1
  <2>2. \A k \in 0..n : w[k] = IF k = 0 THEN T ELSE On(k, w[k - 1])
    BY <1>1, <1>6, <2>1
  <2> QED
    BY <1>6, <2>2
<1>8. \A u : IsRun(u) => u[n] = w[n]
  <2> SUFFICES ASSUME NEW u, IsRun(u) PROVE u[n] = w[n]
    OBVIOUS
  <2>1. u[0] = T /\ \A k \in 1..n : u[k] = On(k, u[k - 1])
    BY <1>1
  <2> HIDE DEF IsRun
  <2>2. \A k \in 0..n : u[k] = w[k]
    BY <1>4, <1>5, <2>1 DEF Only
  <2> QED
    BY <1>1, <2>2
<1>9. (CHOOSE u : IsRun(u))[n] = w[n]
  <2> HIDE DEF IsRun
  <2> QED
    BY <1>7, <1>8
<1>10. Round(T) = w[n] /\ n \in 0..n
  BY <1>1, <1>2, <1>9
<1> QED
  BY <1>6, <1>10 DEF X

LEMMA RoundsAside ==
  ASSUME prog \in Programs, \A h \in Fns : Callees(h) = CallEdges(h), NEW I, Separate(I)
  PROVE  Rounds \in Aside(I)
<1> DEFINE X == Aside(I)
           n == MaxIterations
           T == Locals
           On(k, U) == Round(U)
           F == [x \in (1..n) \X X |-> On(x[1], x[2])]
           IsRun(u) == u = [k \in 0..n |-> IF k = 0 THEN T ELSE On(k, u[k - 1])]
<1>1. n \in Nat /\ T \in X
  <2>1. ASSUME NEW f \in Fns
        PROVE  /\ LocalResult(f) \in Reports /\ LocalResult(f).tainted = LocalTaint(f)
               /\ LocalResult(f).paths = {<<f>>}
    <3>1. LocalTaint(f) \subseteq Values
      BY LocalTaintIs
    <3>2. LocalWrites(f) \subseteq Svs
      <4>1. LocalWrites(f) \subseteq WriteEdges(f)
        BY DEF LocalWrites, WriteEdges
      <4> QED
        BY <4>1, CallsOfProgram
    <3>3. {<<f>>} \subseteq Seq(Fns)
      OBVIOUS
    <3> QED
      BY <3>1, <3>2, <3>3 DEF LocalResult, Reports
  <2>2. T \in [Fns -> Reports] /\ \A f \in Fns : T[f] = LocalResult(f)
    BY <2>1 DEF Locals
  <2> HIDE DEF T
  <2>3. T \in Bounded(Fns)
    BY <2>1, <2>2 DEF Bounded
  <2>4. \A h \in Fns : <<h>> # <<>> /\ Head(<<h>>) = h
    OBVIOUS
  <2>5. \A h \in Fns \ I : \A p \in T[h].paths : p # <<>> /\ Head(p) \notin I
    BY <2>1, <2>2, <2>4
  <2>6. T \in X
    BY <2>2, <2>3, <2>5 DEF Aside, Separate
  <2> QED
    BY <2>6 DEF MaxIterations
<1>2. Rounds = (CHOOSE u : IsRun(u))[n]
  BY DEF Rounds
<1> HIDE DEF n, T
<1>3. \A k \in 1..n, U \in X : On(k, U) \in X
  BY RoundAside
<1> HIDE DEF X, On
<1>4. F \in [(1..n) \X X -> X] /\ \A k \in 1..n, U \in X : F[<<k, U>>] = On(k, U)
  BY <1>3
<1> HIDE DEF F
<1>5. PICK w : Unrolled(w, X, T, n, F) /\ Only(w, X, T, n, F)
  BY <1>1, <1>4, Unrolls DEF X
<1>6. /\ w \in [0..n -> X] /\ w[0] = T
      /\ \A k \in 1..n : k - 1 \in 0..n /\ w[k - 1] \in X /\ w[k] = On(k, w[k - 1])
  <2>1. \A k \in 1..n : k - 1 \in 0..n
    BY <1>1
  <2> QED
    BY <1>4, <1>5, <2>1 DEF Unrolled
<1>7. IsRun(w)
  <2>1. \A k \in 0..n : k = 0 \/ k \in 1..n
    BY <1>1
  <2>2. \A k \in 0..n : w[k] = IF k = 0 THEN T ELSE On(k, w[k - 1])
    BY <1>1, <1>6, <2>1
  <2> QED
    BY <1>6, <2>2
<1>8. \A u : IsRun(u) => u[n] = w[n]
  <2> SUFFICES ASSUME NEW u, IsRun(u) PROVE u[n] = w[n]
    OBVIOUS
  <2>1. u[0] = T /\ \A k \in 1..n : u[k] = On(k, u[k - 1])
    BY <1>1
  <2> HIDE DEF IsRun
  <2>2. \A k \in 0..n : u[k] = w[k]
    BY <1>4, <1>5, <2>1 DEF Only
  <2> QED
    BY <1>1, <2>2
<1>9. (CHOOSE u : IsRun(u))[n] = w[n]
  <2> HIDE DEF IsRun
  <2> QED
    BY <1>7, <1>8
<1>10. Rounds = w[n] /\ n \in 0..n
  BY <1>1, <1>2, <1>9
<1> QED
  BY <1>6, <1>10 DEF X

LEMMA NoPathFrom ==
  ASSUME NEW I, Separate(I), NEW T \in Aside(I), NEW f \in I
  PROVE  PathsFrom(T, f) = {} /\ T[f] = LocalResult(f)
<1>1. \A h \in Fns \ I : \A p \in T[h].paths : Head(p) # f
  BY DEF Aside
<1>2. \A h \in I : T[h].paths = {<<h>>}
  <2>1. \A h : LocalResult(h).paths = {<<h>>}
    BY DEF LocalResult
  <2>2. \A h \in I : T[h] = LocalResult(h)
    BY DEF Aside
  <2> QED
    BY <2>1, <2>2
<1>3. \A h \in Fns : {q \in T[h].paths : Len(q) > 1 /\ Head(q) = f} = {}
  <2>1. \A h : ~(Len(<<h>>) > 1)
    OBVIOUS
  <2> QED
    BY <1>1, <1>2, <2>1, ZenonT(40)
<1> QED
  BY <1>3 DEF PathsFrom, Aside

-----------------------------------------------------------------------------
(* What the two functions taint of their own is the same: the walk of g    *)
(* passes the check first.                                                 *)

LEMMA WalkIs ==
  ASSUME NEW f
  PROVE  /\ LocalUpTo(f, 0) = Seed(f)
         /\ \A i \in Nat : LocalUpTo(f, i + 1) = Step(LocalUpTo(f, i), Body(f)[i + 1])
<1> DEFINE X == SUBSET Values
           On(k, t) == Step(t, Body(f)[k])
           F(n) == [x \in (1..n) \X X |-> On(x[1], x[2])]
           IsRun(u, n) == u = [k \in 0..n |-> IF k = 0 THEN Seed(f) ELSE On(k, u[k - 1])]
           a == Seed(f)
<1>1. a \in X
  BY DEF Seed, Values
<1>2. \A k : \A t \in X : On(k, t) \in X
  <2>1. ASSUME NEW t \in X, NEW e PROVE Step(t, e) \in X
    <3>1. t \cup {"ret"} \in X /\ t \cup {"local"} \in X
      BY DEF Values
    <3> HIDE DEF X
    <3>2. CASE e.op = "external"
      BY <3>1, <3>2 DEF Step
    <3>3. CASE e.op = "assign"
      BY <3>1, <3>3 DEF Step
    <3>4. CASE e.op \notin {"external", "assign"}
      BY <3>4 DEF Step
    <3> QED
      BY <3>2, <3>3, <3>4
  <2> HIDE DEF X
  <2> QED
    BY <2>1
<1>3. \A n : LocalUpTo(f, n) = (CHOOSE u : IsRun(u, n))[n]
  BY DEF LocalUpTo
<1> HIDE DEF X, On, a
<1>4. \A n \in Nat : /\ F(n) \in [(1..n) \X X -> X]
                     /\ \A k \in 1..n, t \in X : F(n)[<<k, t>>] = On(k, t)
  BY <1>2
<1> HIDE DEF F
<1>5. ASSUME NEW n \in Nat, NEW w, Unrolled(w, X, a, n, F(n)), NEW j \in 0..n
      PROVE  LocalUpTo(f, j) = w[j]
  <2>1. j \in Nat
    OBVIOUS
  <2>2. PICK r : Unrolled(r, X, a, j, F(j)) /\ Only(r, X, a, j, F(j))
    BY <1>1, <1>4, <2>1, Unrolls
  <2> DEFINE v == [k \in 0..j |-> w[k]]
  <2>3. w[0] = a /\ \A k \in 1..j : k \in 1..n /\ k - 1 \in 0..n /\ w[k - 1] \in X /\ w[k] = On(k, w[k - 1])
    <3>1. \A k \in 1..j : k \in 1..n /\ k - 1 \in 0..n
      OBVIOUS
    <3> QED
      BY <1>4, <1>5, <3>1 DEF Unrolled
  <2>4. \A k \in 0..j : v[k] = w[k] /\ (k = 0 \/ (k \in 1..j /\ k - 1 \in 0..j))
    BY <2>1
  <2>5. v = [k \in 0..j |-> IF k = 0 THEN a ELSE On(k, v[k - 1])]
    <3>1. \A k \in 0..j : v[k] = IF k = 0 THEN a ELSE On(k, v[k - 1])
      <4> HIDE DEF v
      <4> QED
        BY <2>3, <2>4
    <3> QED
      BY <3>1
  <2> HIDE DEF v
  <2>6. IsRun(v, j)
    BY <2>5 DEF a
  <2>7. \A u : IsRun(u, j) => u[j] = r[j]
    <3> SUFFICES ASSUME NEW u, IsRun(u, j) PROVE u[j] = r[j]
      OBVIOUS
    <3>1. u[0] = a /\ \A k \in 1..j : u[k] = On(k, u[k - 1])
      BY <2>1 DEF a
    <3> HIDE DEF IsRun
    <3>2. \A k \in 0..j : u[k] = r[k]
      BY <1>4, <2>1, <2>2, <3>1 DEF Only
    <3> QED
      BY <2>1, <3>2
  <2>8. (CHOOSE u : IsRun(u, j))[j] = r[j] /\ v[j] = r[j]
    <3> HIDE DEF IsRun
    <3> QED
      BY <2>6, <2>7
  <2> QED
    BY <1>3, <2>1, <2>4, <2>8
<1>6. \A n \in Nat : \E w : Unrolled(w, X, a, n, F(n))
  BY <1>1, <1>4, Unrolls
<1>7. LocalUpTo(f, 0) = a
  <2>1. PICK w : Unrolled(w, X, a, 0, F(0))
    BY <1>6
  <2>2. 0 \in Nat /\ 0 \in 0..0
    OBVIOUS
  <2> QED
    BY <1>5, <2>1, <2>2 DEF Unrolled
<1>8. ASSUME NEW i \in Nat PROVE LocalUpTo(f, i + 1) = On(i + 1, LocalUpTo(f, i))
  <2> DEFINE n == i + 1
  <2>1. n \in Nat /\ i \in 0..n /\ n \in 0..n /\ n \in 1..n /\ n - 1 = i
    OBVIOUS
  <2> HIDE DEF n
  <2>2. PICK w : Unrolled(w, X, a, n, F(n))
    BY <1>6, <2>1
  <2>3. LocalUpTo(f, i) = w[i] /\ LocalUpTo(f, n) = w[n]
    BY <1>5, <2>1, <2>2
  <2>4. w[i] \in X /\ w[n] = F(n)[<<n, w[i]>>]
    BY <2>1, <2>2 DEF Unrolled
  <2> QED
    BY <1>4, <2>1, <2>3, <2>4 DEF n
<1> QED
  BY <1>7, <1>8 DEF a, On

LEMMA TwinWalk ==
  ASSUME NEW f, NEW g, Pair(f, g)
  PROVE  /\ \A i \in 0..Len(Body(f)) : LocalUpTo(g, i + 1) = LocalUpTo(f, i)
         /\ LocalTaint(g) = LocalTaint(f)
<1>1. Later(f, g)
  BY TwinBodies
<1> DEFINE n == Len(Body(f))
           S == {i \in Nat : i <= n => LocalUpTo(g, i + 1) = LocalUpTo(f, i)}
<1>2. 0 \in S
  <2>1. Seed(g) = Seed(f)
    BY TwinSource DEF Seed
  <2>2. LocalUpTo(g, 0 + 1) = Step(Seed(g), Body(g)[0 + 1]) /\ LocalUpTo(f, 0) = Seed(f)
    BY WalkIs
  <2>3. Body(g)[0 + 1] = [op |-> "require", what |-> "sender"]
    BY <1>1 DEF Later
  <2>4. \A t : Step(t, Body(g)[0 + 1]) = t
    BY <2>3 DEF Step
  <2> QED
    BY <2>1, <2>2, <2>4
<1>3. ASSUME NEW i \in S PROVE i + 1 \in S
  <2> SUFFICES ASSUME i + 1 <= n PROVE LocalUpTo(g, (i + 1) + 1) = LocalUpTo(f, i + 1)
    OBVIOUS
  <2>1. n \in Nat /\ i \in Nat /\ i <= n /\ i + 1 \in 1..n /\ i + 1 \in Nat
    BY <1>1 DEF Later
  <2>2. LocalUpTo(g, i + 1) = LocalUpTo(f, i)
    BY <2>1
  <2>3. Body(g)[(i + 1) + 1] = Body(f)[i + 1]
    BY <1>1, <2>1 DEF Later
  <2> HIDE DEF S, n
  <2> QED
    BY <2>1, <2>2, <2>3, WalkIs
<1> HIDE DEF S
<1>4. S = Nat
  <2>1. S \subseteq Nat
    BY DEF S
  <2> QED
    BY <1>2, <1>3, <2>1, NatSet
<1>5. \A i \in 0..n : LocalUpTo(g, i + 1) = LocalUpTo(f, i)
  BY <1>4 DEF S
<1>6. n \in Nat /\ Len(Body(g)) = n + 1
  <2>1. n \in Nat /\ DOMAIN Body(g) = 1..(n + 1)
    BY <1>1 DEF Later
  <2>2. Body(g) \in Seq(ToSet(Body(g)))
    BY ProgramAssumption DEF Pair, WellFormed, WellPlaced, IsList, Body, Src, Fns
  <2> HIDE DEF n
  <2>3. Len(Body(g)) \in Nat /\ DOMAIN Body(g) = 1..Len(Body(g))
    BY <2>2
  <2> QED
    BY <2>1, <2>3
<1> QED
  BY <1>5, <1>6 DEF LocalTaint

LEMMA TwinLocals ==
  ASSUME NEW f, NEW g, Pair(f, g)
  PROVE  /\ LocalWrites(g) = LocalWrites(f) /\ LocalSources(g) = LocalSources(f)
         /\ LocalMaths(g) <=> LocalMaths(f)
         /\ Unchecked(g) <=> Unchecked(f)
<1>1. /\ Later(f, g)
      /\ \A i \in DOMAIN Body(f) : i \in Nat /\ i - 1 \in 0..Len(Body(f)) /\ i \in 0..Len(Body(f))
                                   /\ (i + 1) - 1 = i /\ (i - 1) + 1 = i
  <2>1. Later(f, g)
    BY TwinBodies
  <2> QED
    BY <2>1 DEF Later
<1>2. \A i \in DOMAIN Body(f) : LocalUpTo(g, i + 1) = LocalUpTo(f, i)
                                /\ LocalUpTo(g, (i + 1) - 1) = LocalUpTo(f, i - 1)
  <2>1. \A i \in 0..Len(Body(f)) : LocalUpTo(g, i + 1) = LocalUpTo(f, i)
    BY TwinWalk
  <2>2. \A i \in DOMAIN Body(f) : LocalUpTo(g, i) = LocalUpTo(f, i - 1)
    BY <1>1, <2>1
  <2> QED
    BY <1>1, <2>1, <2>2
<1>3. \A op : \A i \in At(f, op) : i \in DOMAIN Body(f)
  BY DEF At
<1>4. ASSUME NEW op, op # "require"
      PROVE  /\ \A i \in At(f, op) : i + 1 \in At(g, op) /\ Body(g)[i + 1] = Body(f)[i]
             /\ \A j \in At(g, op) : /\ j - 1 \in At(f, op) /\ Body(g)[j] = Body(f)[j - 1]
                                     /\ (j - 1) + 1 = j
  BY <1>4, TwinEventsAt
<1>5. LocalWrites(g) = LocalWrites(f)
  <2> DEFINE Laden(h) == {j \in At(h, "write") : Carries(Body(h)[j], LocalUpTo(h, j))}
  <2>1. \A i \in Laden(f) : i + 1 \in Laden(g) /\ Body(g)[i + 1] = Body(f)[i]
    BY <1>2, <1>3, <1>4
  <2>2. \A j \in Laden(g) : j - 1 \in Laden(f) /\ Body(g)[j] = Body(f)[j - 1]
    <3>1. \A j \in At(g, "write") : /\ j - 1 \in At(f, "write") /\ Body(g)[j] = Body(f)[j - 1]
                                    /\ LocalUpTo(g, j) = LocalUpTo(f, j - 1)
      BY <1>2, <1>3, <1>4
    <3> QED
      BY <3>1
  <2>3. \A h : LocalWrites(h) = {Body(h)[i].var : i \in Laden(h)}
    BY DEF LocalWrites
  <2> HIDE DEF Laden
  <2>4. \A x : x \in LocalWrites(g) <=> x \in LocalWrites(f)
    BY <2>1, <2>2, <2>3
  <2> QED
    BY <2>3, <2>4
<1>6. LocalMaths(g) <=> LocalMaths(f)
  <2>1. \A i \in At(f, "assign") : /\ i + 1 \in At(g, "assign") /\ Body(g)[i + 1] = Body(f)[i]
                                   /\ LocalUpTo(g, (i + 1) - 1) = LocalUpTo(f, i - 1)
    BY <1>2, <1>3, <1>4
  <2>2. \A j \in At(g, "assign") : /\ j - 1 \in At(f, "assign") /\ Body(g)[j] = Body(f)[j - 1]
                                   /\ LocalUpTo(g, j - 1) = LocalUpTo(f, (j - 1) - 1)
    BY <1>1, <1>2, <1>3, <1>4
  <2> QED
    BY <2>1, <2>2 DEF LocalMaths
<1>7. Unchecked(g) <=> Unchecked(f)
  <2>1. \A i \in DOMAIN Body(f) :
           (\A j \in Checks(g, "ret") : j < i + 1) <=> (\A j \in Checks(f, "ret") : j < i)
    BY TwinChecks
  <2>2. \A i \in Externals(f) :
           /\ i + 1 \in Externals(g) /\ Body(g)[i + 1] = Body(f)[i]
           /\ (\A j \in Checks(g, "ret") : j < i + 1) <=> (\A j \in Checks(f, "ret") : j < i)
    BY <1>3, <1>4, <2>1 DEF Externals
  <2>3. \A k \in Externals(g) :
           /\ k - 1 \in Externals(f) /\ Body(g)[k] = Body(f)[k - 1]
           /\ (\A j \in Checks(g, "ret") : j < k) <=> (\A j \in Checks(f, "ret") : j < k - 1)
    BY <1>3, <1>4, <2>1 DEF Externals
  <2> QED
    BY <2>2, <2>3 DEF Unchecked
<1>8. LocalSources(g) = LocalSources(f)
  <2> DEFINE Ext(h) == {"ext_return" : i \in {j \in Externals(h) : Body(h)[j].kind \notin {"transfer", "send"}}}
             Own(h) == {"msg.sender" : i \in {j \in At(h, "assign") : Body(h)[j].from = "sender"}}
  <2>1. \A i \in Externals(f) : i + 1 \in Externals(g) /\ Body(g)[i + 1] = Body(f)[i]
    BY <1>4 DEF Externals
  <2>2. \A j \in Externals(g) : j - 1 \in Externals(f) /\ Body(g)[j] = Body(f)[j - 1]
    BY <1>4 DEF Externals
  <2>3. Ext(g) = Ext(f)
    BY <2>1, <2>2
  <2>4. Own(g) = Own(f)
    BY <1>4
  <2>5. Seed(g) = Seed(f)
    BY TwinSource DEF Seed
  <2> QED
    BY <2>3, <2>4, <2>5 DEF LocalSources
<1> QED
  BY <1>5, <1>6, <1>7, <1>8

LEMMA TwinIsSeparate ==
  ASSUME NEW f, NEW g, Pair(f, g)
  PROVE  Separate({f, g})
BY TwinSets DEF Pair, Separate

(* So the taint pass gives both the same.                                  *)
LEMMA TwinTaint ==
  ASSUME NEW f, NEW g, Pair(f, g), \A h \in Fns : Callees(h) = CallEdges(h)
  PROVE  /\ Rounds[g].writes = Rounds[f].writes /\ Rounds[g].cross = Rounds[f].cross
         /\ RiskOf(Rounds, g) = RiskOf(Rounds, f)
         /\ PathsFrom(Rounds, g) = {} /\ PathsFrom(Rounds, f) = {}
         /\ Rounds[f].writes = LocalWrites(f)
<1> DEFINE T == Rounds
<1>1. Separate({f, g}) /\ prog \in Programs
  BY TwinIsSeparate DEF Pair
<1>2. T \in Aside({f, g})
  BY <1>1, RoundsAside
<1>3. /\ PathsFrom(T, f) = {} /\ T[f] = LocalResult(f)
      /\ PathsFrom(T, g) = {} /\ T[g] = LocalResult(g)
  BY <1>1, <1>2, NoPathFrom
<1>4. /\ LocalWrites(g) = LocalWrites(f)
      /\ LocalMaths(g) <=> LocalMaths(f)
      /\ Unchecked(g) <=> Unchecked(f)
  BY TwinLocals
<1> HIDE DEF T
<1>5. T[g].writes = T[f].writes /\ T[g].cross = T[f].cross /\ T[f].writes = LocalWrites(f)
  BY <1>3, <1>4 DEF LocalResult
<1>6. RiskOf(T, g) = RiskOf(T, f)
  <2> DEFINE tags(h) == TagsOf(T[h].writes) \cup UNION {TagsOf(T[x[2]].writes) : x \in PathsFrom(T, h)}
             crit(h) == {"CRITICAL_PATH" : t \in tags(h)} \cup {"CRITICAL_PATH" : x \in PathsFrom(T, h)}
             math(h) == IF LocalMaths(h) THEN {"MATH"} ELSE {}
             loose(h) == IF Unchecked(h) THEN {"UNCHECKED"} ELSE {}
  <2>1. \A h : RiskOf(T, h) = tags(h) \cup {"CRITICAL_PATH" : t \in tags(h)}
                                \cup {"CRITICAL_PATH" : x \in PathsFrom(T, h)} \cup math(h) \cup loose(h)
    BY DEF RiskOf
  <2>2. tags(g) = tags(f)
    BY <1>3, <1>5
  <2>3. math(g) = math(f) /\ loose(g) = loose(f)
    BY <1>4
  <2>4. crit(g) = crit(f)
    BY <1>3, <2>2
  <2> HIDE DEF tags, math, loose
  <2> QED
    BY <1>3, <2>1, <2>2, <2>3
<1> QED
  BY <1>3, <1>5, <1>6 DEF T

-----------------------------------------------------------------------------
(* What no pass can tell apart in the two functions.                       *)

AlikeNames ==
  {"direct", "propagated", "hasAC", "acMods", "cei", "ceiReentrant", "flash", "reentrancy",
   "ceiOnly", "readOnly", "lengthMutation", "delegateRisk", "reGuard", "sources",
   "taintedWrites", "unchecked", "taintRisks", "taintScore", "crossPaths", "extScore",
   "sensitiveStore"}

Alike(f, g) == \A a \in AlikeNames : fn[g][a] = fn[f][a]

\* No other function shares them with a call, and no call leads to them.
Alone(f) ==
    /\ pass > 4 => (fn[f].entries # {} <=> Entry(f))
    /\ \A h \in Fns : rel[f][h] # "EXTERNAL_CALL"

LEMMA NoCalls ==
  ASSUME prog \in Programs, NEW f \in Fns, CallEdges(f) = {}
  PROVE  \A V : Exact(f, V) => V = WriteEdges(f)
<1>1. CalledFrom(f) = {}
  <2>1. {} \in SUBSET Fns /\ CallEdges(f) \subseteq {} /\ \A g \in {} : CallEdges(g) \subseteq {}
    OBVIOUS
  <2>2. CalledFrom(f) \subseteq {}
    BY <2>1, CalledClosed
  <2> QED
    BY <2>2
<1>2. AllWrites(f) = WriteEdges(f)
  BY <1>1 DEF AllWrites, Reach
<1> QED
  BY <1>2 DEF Exact

LEMMA NotVisited ==
  ASSUME prog \in Programs, \A h \in Fns : Callees(h) = CallEdges(h),
         NEW f \in Fns, \A h \in Fns : f \notin CallEdges(h), NEW e \in Fns \ {f}
  PROVE  f \notin Visited(e)
<1> DEFINE next == [h \in Fns |-> Callees(h)]
           U == Fns \ {f}
           n == Len(prog.fun)
           S == {e}
<1>1. \A u \in U : next[u] \in SUBSET U
  BY CallsOfProgram
<1>2. n \in Nat /\ S \in SUBSET U
  BY FunctionList
<1>3. Visited(e) = Within(S, next)[n] /\ f \notin U
  BY DEF Visited, Calling
<1> HIDE DEF next, n, S, U
<1>4. Within(S, next)[n] \subseteq U
  BY <1>1, <1>2, Included
<1> QED
  BY <1>3, <1>4

LEMMA AlikeSets ==
  /\ AlikeNames \subseteq FnAttributes
  /\ \A k \in 1..38 \ {1, 2, 3, 5, 6, 8, 11, 12, 17, 18, 20, 29, 34, 35} : AlikeNames \cap FnSet[k] = {}
  /\ AlikeNames \cap FnSet[2] = {"direct"} /\ AlikeNames \cap FnSet[3] = {"propagated"}
  /\ AlikeNames \cap FnSet[5] = {"hasAC", "acMods"}
  /\ AlikeNames \cap FnSet[6] = {"cei", "ceiReentrant"}
  /\ AlikeNames \cap FnSet[8] = {"flash"} /\ AlikeNames \cap FnSet[11] = {"reentrancy", "ceiOnly"}
  /\ AlikeNames \cap FnSet[12] = {"readOnly"} /\ AlikeNames \cap FnSet[17] = {"lengthMutation"}
  /\ AlikeNames \cap FnSet[18] = {"delegateRisk"} /\ AlikeNames \cap FnSet[20] = {"reGuard"}
  /\ AlikeNames \cap FnSet[29] =
        {"sources", "taintedWrites", "unchecked", "taintRisks", "taintScore", "crossPaths"}
  /\ AlikeNames \cap FnSet[34] = {"extScore"} /\ AlikeNames \cap FnSet[35] = {"sensitiveStore"}
<1>1. AlikeNames \subseteq FnAttributes
  BY DEF AlikeNames, FnAttributes
<1>2. \A k \in 1..38 \ {1, 2, 3, 5, 6, 8, 11, 12, 17, 18, 20, 29, 34, 35} :
         \A a \in AlikeNames : a \notin FnSet[k]
  <2> SUFFICES ASSUME NEW k \in 1..38 \ {1, 2, 3, 5, 6, 8, 11, 12, 17, 18, 20, 29, 34, 35}
               PROVE  \A a \in AlikeNames : a \notin FnSet[k]
    OBVIOUS
  <2>1. FnSet[k] \cap AlikeNames = {}
    <3>1. CASE k \in {4, 7, 9, 10, 13, 14, 15, 16}
      BY <3>1 DEF FnSet, AlikeNames
    <3>2. CASE k \in {19, 21, 22, 23, 24, 25, 26, 27, 28}
      BY <3>2 DEF FnSet, AlikeNames
    <3>3. CASE k \in {30, 31, 32, 33, 36, 37, 38}
      BY <3>3 DEF FnSet, AlikeNames
    <3> QED
      BY <3>1, <3>2, <3>3
  <2> QED
    BY <2>1
<1>3. AlikeNames \cap FnSet[2] = {"direct"} /\ AlikeNames \cap FnSet[3] = {"propagated"}
  BY DEF FnSet, AlikeNames
<1>4. AlikeNames \cap FnSet[5] = {"hasAC", "acMods"} /\ AlikeNames \cap FnSet[6] = {"cei", "ceiReentrant"}
  BY DEF FnSet, AlikeNames
<1>5. AlikeNames \cap FnSet[8] = {"flash"} /\ AlikeNames \cap FnSet[11] = {"reentrancy", "ceiOnly"}
  BY DEF FnSet, AlikeNames
<1>6. AlikeNames \cap FnSet[12] = {"readOnly"} /\ AlikeNames \cap FnSet[17] = {"lengthMutation"}
  BY DEF FnSet, AlikeNames
<1>7. AlikeNames \cap FnSet[18] = {"delegateRisk"} /\ AlikeNames \cap FnSet[20] = {"reGuard"}
  BY DEF FnSet, AlikeNames
<1>8. AlikeNames \cap FnSet[29] =
        {"sources", "taintedWrites", "unchecked", "taintRisks", "taintScore", "crossPaths"}
  BY DEF FnSet, AlikeNames
<1>9. AlikeNames \cap FnSet[34] = {"extScore"} /\ AlikeNames \cap FnSet[35] = {"sensitiveStore"}
  BY DEF FnSet, AlikeNames
<1> QED
  BY <1>1, <1>2, <1>3, <1>4, <1>5, <1>6, <1>7, <1>8, <1>9

(* A pass leaves the two alike when what it sets of both is the same.      *)
LEMMA AlikeFrame ==
  ASSUME Shape, Next, NEW f \in Fns, NEW g \in Fns, Alike(f, g),
         \A a \in AlikeNames \cap FnSet[pass] : fn'[g][a] = fn'[f][a]
  PROVE  Alike(f, g)'
<1>1. FnOnly(FnSet[pass])
  BY Frame DEF Sets
<1>2. \A a \in AlikeNames : fn'[g][a] = fn'[f][a]
  BY <1>1, AlikeSets DEF FnOnly, Alike
<1> QED
  BY <1>2 DEF Alike

(* What the invariants say of a function that no call joins to others.     *)
LEMMA AloneFacts ==
  ASSUME GuardInv, Propagation, NEW f \in Fns, Alone(f), CallEdges(f) = {}
  PROVE  /\ pass > 3 => fn[f].propagated = WriteEdges(f)
         /\ pass > 4 => (Reachable(f) <=> Entry(f))
         /\ pass > 2 => fn[f].direct = WriteEdges(f)
<1>1. pass > 3 => fn[f].propagated = WriteEdges(f)
  BY NoCalls DEF GuardInv, Propagation
<1>2. pass > 2 => fn[f].direct = WriteEdges(f)
  BY DEF GuardInv, GuardFacts
<1> QED
  BY <1>1, <1>2 DEF Alone, Reachable

LEMMA PairEdges ==
  ASSUME NEW f, NEW g, Pair(f, g), GuardInv, pass > 6
  PROVE  /\ ExtEdges(f) = Calls(f) /\ ExtEdges(g) = Calls(g)
         /\ \A e \in ExtEdges(f) : Moved(e) \in ExtEdges(g)
         /\ \A e \in ExtEdges(g) : \E d \in ExtEdges(f) : e = Moved(d)
         /\ \A e : Moved(e)[1] = e[1] /\ Moved(e)[3] = e[3]
         /\ MakesCall(g) <=> MakesCall(f)
         /\ HasReentrantEdge(g) <=> HasReentrantEdge(f)
<1>1. fn[f].extEdges = Calls(f) /\ fn[g].extEdges = Calls(g)
  BY DEF GuardInv, GuardFacts, Pair
<1>2. /\ \A e \in Calls(f) : Moved(e) \in Calls(g)
      /\ \A e \in Calls(g) : \E d \in Calls(f) : e = Moved(d)
      /\ \A e \in Calls(f) \cup Calls(g) : e[1] = 1 => e[3].to = 0
  BY TwinCalls
<1>3. ExtEdges(f) = Calls(f) /\ ExtEdges(g) = Calls(g)
  BY <1>1, <1>2 DEF ExtEdges
<1>4. \A e : Moved(e)[1] = e[1] /\ Moved(e)[3] = e[3]
  BY MovedKeeps
<1>5. MakesCall(g) <=> MakesCall(f)
  BY <1>2 DEF MakesCall
<1>6. HasReentrantEdge(g) <=> HasReentrantEdge(f)
  BY <1>2, <1>3, <1>4 DEF HasReentrantEdge
<1> QED
  BY <1>2, <1>3, <1>4, <1>5, <1>6

LEMMA NewAlike == \A f, g : \A a \in AlikeNames : NewFn(g)[a] = NewFn(f)[a]
<1>1. \A h : /\ NewFn(h).direct = {} /\ NewFn(h).propagated = {} /\ NewFn(h).hasAC = FALSE
             /\ NewFn(h).acMods = {} /\ NewFn(h).cei = FALSE /\ NewFn(h).ceiReentrant = FALSE
             /\ NewFn(h).flash = 0 /\ NewFn(h).reentrancy = FALSE /\ NewFn(h).ceiOnly = FALSE
             /\ NewFn(h).readOnly = FALSE /\ NewFn(h).lengthMutation = FALSE
             /\ NewFn(h).delegateRisk = FALSE /\ NewFn(h).reGuard = FALSE
             /\ NewFn(h).sources = {} /\ NewFn(h).taintedWrites = {} /\ NewFn(h).unchecked = FALSE
             /\ NewFn(h).taintRisks = {} /\ NewFn(h).taintScore = 0 /\ NewFn(h).crossPaths = {}
             /\ NewFn(h).extScore = 0 /\ NewFn(h).sensitiveStore = FALSE
  BY DEF NewFn
<1> QED
  BY <1>1, ZenonT(40) DEF AlikeNames

LEMMA AlikeEarly ==
  ASSUME GuardInv, Propagation, Next, NEW f, NEW g, Pair(f, g), Alike(f, g), pass \in 1..6
  PROVE  Alike(f, g)'
<1>1. /\ prog' = prog /\ pass' = pass + 1 /\ prog \in Programs /\ Shape /\ f \in Fns /\ g \in Fns
      /\ \A h \in Fns : DOMAIN fn[h] = FnAttributes
  BY Unassigned DEF GuardInv, Pair, Shape
<1>2. \A h \in {f, g} : h \in Fns /\ CallEdges(h) = {}
  BY <1>1, TwinSets
<1>3. WriteEdges(g) = WriteEdges(f)
  BY TwinSets
<1>4. CASE pass = 1
  <2>1. \A h \in Fns : fn'[h] = NewFn(h)
    BY <1>4, Acts DEF AddNodes
  <2> QED
    BY <1>1, <2>1, NewAlike DEF Alike
<1>5. CASE pass = 2
  <2>1. \A h \in Fns : fn'[h].direct = WriteEdges(h)
    BY <1>1, <1>5, Acts, Attributes DEF StorageMutations, FnPass
  <2> QED
    BY <1>1, <1>3, <1>5, <2>1, AlikeFrame, AlikeSets
<1>6. CASE pass = 3
  <2>1. Propagation'
    BY PropagationInductive
  <2>2. \A h \in Fns : Exact(h, fn'[h].propagated)
    <3>1. \A h \in Fns : Exact(h, fn[h].propagated)'
      BY <1>1, <1>6, <2>1, SameProgram DEF Propagation
    <3>2. \A h, V : Exact(h, V)' <=> Exact(h, V')
      BY <1>1, SameReach
    <3> QED
      BY <3>1, <3>2
  <2>3. \A h \in {f, g} : fn'[h].propagated = WriteEdges(h)
    BY <1>1, <1>2, <2>2, NoCalls
  <2> QED
    BY <1>1, <1>3, <1>6, <2>3, AlikeFrame, AlikeSets
<1>7. CASE pass = 4
  BY <1>1, <1>7, AlikeFrame, AlikeSets
<1>8. CASE pass = 5
  <2>1. ASSUME NEW h \in Fns
        PROVE  fn'[h].hasAC = (Guarding(h) # {}) /\ fn'[h].acMods = Guarding(h)
    <3>1. AccessControl
      BY <1>8, Acts
    <3>2. fn'[h] = [fn[h] EXCEPT !.hasAC = Guarding(h) # {}, !.acMods = Guarding(h),
                                 !.inline = InlineCheck(h),
                                 !.protected = @ \/ Guarding(h) # {} \/ InlineCheck(h),
                                 !.conf = Max({@, IF Guarding(h) = {} THEN 0
                                                  ELSE IF \E n \in Guarding(h) : IsLocal(h, n)
                                                       THEN 1000 ELSE 900,
                                               IF InlineCheck(h) THEN 950 ELSE 0})]
      BY <3>1 DEF AccessControl, FnPass
    <3>3. "hasAC" \in DOMAIN fn[h] /\ "acMods" \in DOMAIN fn[h]
      BY <1>1 DEF FnAttributes
    <3> QED
      BY <3>2, <3>3
  <2>2. Guarding(g) = Guarding(f)
    BY TwinSource
  <2> QED
    BY <1>1, <1>8, <2>1, <2>2, AlikeFrame, AlikeSets
<1>9. CASE pass = 6
  <2> DEFINE All(h) == SomeWriteAfter(h, Calls(h))
             S(h) == {c \in Calls(h) : Reentrant(c[3].kind)}
             Re(h) == SomeWriteAfter(h, S(h))
  <2>1. \A h \in Fns : fn'[h].cei = All(h) /\ fn'[h].ceiReentrant = Re(h)
    <3>1. ExternalCalls
      BY <1>9, Acts
    <3> QED
      BY <1>1, <3>1, Attributes DEF ExternalCalls
  <2>2. /\ \A e \in Calls(f) : Moved(e) \in Calls(g)
        /\ \A e \in Calls(g) : \E d \in Calls(f) : e = Moved(d)
        /\ \A A, B : /\ A \subseteq Calls(f) /\ B \subseteq Calls(g)
                     /\ \A e \in A : Moved(e) \in B
                     /\ \A e \in B : \E d \in A : e = Moved(d)
                     => (SomeWriteAfter(g, B) <=> SomeWriteAfter(f, A))
    BY TwinCalls
  <2>3. All(g) <=> All(f)
    BY <2>2
  <2>4. Re(g) <=> Re(f)
    <3>1. \A e : Moved(e)[3] = e[3]
      BY MovedKeeps
    <3>2. \A e \in S(f) : Moved(e) \in S(g)
      BY <2>2, <3>1
    <3>3. \A e \in S(g) : \E d \in S(f) : e = Moved(d)
      BY <2>2, <3>1
    <3>4. S(f) \subseteq Calls(f) /\ S(g) \subseteq Calls(g)
      OBVIOUS
    <3> HIDE DEF S
    <3> QED
      BY <2>2, <3>2, <3>3, <3>4
  <2>5. All(g) = All(f) /\ Re(g) = Re(f)
    BY <2>3, <2>4 DEF SomeWriteAfter
  <2> HIDE DEF All, Re
  <2>6. fn'[g].cei = fn'[f].cei /\ fn'[g].ceiReentrant = fn'[f].ceiReentrant
    BY <1>1, <2>1, <2>5
  <2> QED
    BY <1>1, <1>9, <2>6, AlikeFrame, AlikeSets
<1> QED
  BY <1>4, <1>5, <1>6, <1>7, <1>8, <1>9

(* Every call of a function of the program is of none or of another one.   *)
LEMMA CallsPlaced ==
  ASSUME prog \in Programs, NEW f \in Fns, NEW e \in Calls(f)
  PROVE  e[3].to \in {0} \cup Fns
<1>1. Len(ModSeq(f)) \in Nat /\ ModSeq(f) \in [1..Len(ModSeq(f)) -> Mods]
  BY ModifiersAround
<1> DEFINE Placeable(q) == \A i \in DOMAIN q : q[i].op = "external" => q[i].to \in {0} \cup Fns
           back == Reverse(ModSeq(f))
<1>2. /\ Placeable(Body(f))
      /\ \A m \in Mods : Placeable(prog.mod[m].pre) /\ Placeable(prog.mod[m].post)
  BY ProgramAssumption DEF WellFormed, WellPlaced, Fns, Mods, Body, Src
<1>3. \A k \in DOMAIN back : back[k] \in Mods
  <2>1. \A k \in 1..Len(ModSeq(f)) : (Len(ModSeq(f)) - k) + 1 \in 1..Len(ModSeq(f))
    BY <1>1
  <2> QED
    BY <1>1, <2>1 DEF Reverse
<1> HIDE DEF Placeable, back
<1>4. \A q, p, k : Placeable(q) =>
         \A x \in Placed(q, p, k) : x[3].op = "external" => x[3].to \in {0} \cup Fns
  BY DEF Placeable, Placed
<1>5. e \in Events(f) /\ e[3].op = "external"
  BY DEF Calls
<1>6. CASE e \in Placed(Body(f), 1, 1)
  BY <1>2, <1>4, <1>5, <1>6
<1>7. CASE e \in Preludes(ModSeq(f))
  <2>1. PICK k \in DOMAIN ModSeq(f) : e \in Placed(prog.mod[ModSeq(f)[k]].pre, 0, k)
    BY <1>7 DEF Preludes
  <2>2. ModSeq(f)[k] \in Mods
    BY <1>1
  <2> QED
    BY <1>2, <1>4, <1>5, <2>1, <2>2
<1>8. CASE e \in Postludes(back)
  <2>1. PICK k \in DOMAIN back : e \in Placed(prog.mod[back[k]].post, 2, k)
    BY <1>8 DEF Postludes
  <2> QED
    BY <1>2, <1>3, <1>4, <1>5, <2>1
<1> QED
  BY <1>5, <1>6, <1>7, <1>8 DEF Events, back

(* What an attribute was, is, and what the passes make of it.              *)
LEMMA AlikeIs ==
  ASSUME NEW f, NEW g, Alike(f, g)
  PROVE  /\ fn[g].direct = fn[f].direct /\ fn[g].propagated = fn[f].propagated
         /\ fn[g].hasAC = fn[f].hasAC /\ fn[g].acMods = fn[f].acMods
         /\ fn[g].cei = fn[f].cei /\ fn[g].ceiReentrant = fn[f].ceiReentrant
         /\ fn[g].flash = fn[f].flash /\ fn[g].reentrancy = fn[f].reentrancy
         /\ fn[g].ceiOnly = fn[f].ceiOnly /\ fn[g].readOnly = fn[f].readOnly
         /\ fn[g].lengthMutation = fn[f].lengthMutation
         /\ fn[g].delegateRisk = fn[f].delegateRisk /\ fn[g].reGuard = fn[f].reGuard
         /\ fn[g].sources = fn[f].sources /\ fn[g].taintedWrites = fn[f].taintedWrites
         /\ fn[g].unchecked = fn[f].unchecked /\ fn[g].taintRisks = fn[f].taintRisks
         /\ fn[g].taintScore = fn[f].taintScore /\ fn[g].crossPaths = fn[f].crossPaths
         /\ fn[g].extScore = fn[f].extScore /\ fn[g].sensitiveStore = fn[f].sensitiveStore
         /\ HasTaintRisk(g) <=> HasTaintRisk(f)
         /\ Tainted(g) <=> Tainted(f)
         /\ Mutates(g) <=> Mutates(f)
<1>1. /\ fn[g].direct = fn[f].direct /\ fn[g].propagated = fn[f].propagated
      /\ fn[g].hasAC = fn[f].hasAC /\ fn[g].acMods = fn[f].acMods
      /\ fn[g].cei = fn[f].cei /\ fn[g].ceiReentrant = fn[f].ceiReentrant
      /\ fn[g].flash = fn[f].flash /\ fn[g].reentrancy = fn[f].reentrancy
      /\ fn[g].ceiOnly = fn[f].ceiOnly /\ fn[g].readOnly = fn[f].readOnly
      /\ fn[g].lengthMutation = fn[f].lengthMutation
      /\ fn[g].delegateRisk = fn[f].delegateRisk /\ fn[g].reGuard = fn[f].reGuard
      /\ fn[g].sources = fn[f].sources /\ fn[g].taintedWrites = fn[f].taintedWrites
      /\ fn[g].unchecked = fn[f].unchecked /\ fn[g].taintRisks = fn[f].taintRisks
      /\ fn[g].taintScore = fn[f].taintScore /\ fn[g].crossPaths = fn[f].crossPaths
      /\ fn[g].extScore = fn[f].extScore /\ fn[g].sensitiveStore = fn[f].sensitiveStore
  BY DEF Alike, AlikeNames
<1>2. HasTaintRisk(g) <=> HasTaintRisk(f)
  BY <1>1 DEF HasTaintRisk
<1>3. Tainted(g) <=> Tainted(f)
  BY <1>1, <1>2 DEF Tainted
<1>4. Mutates(g) <=> Mutates(f)
  BY <1>1 DEF Mutates
<1> QED
  BY <1>1, <1>2, <1>3, <1>4

LEMMA AlikeMiddle ==
  ASSUME GuardInv, Propagation, Next, NEW f, NEW g, Pair(f, g), Alike(f, g),
         Alone(f), Alone(g), pass \in 7..20
  PROVE  Alike(f, g)'
<1>1. /\ prog \in Programs /\ Shape /\ f \in Fns /\ g \in Fns
      /\ \A h \in Fns : DOMAIN fn[h] = FnAttributes
  BY DEF GuardInv, Pair, Shape
<1>2. /\ WriteEdges(g) = WriteEdges(f) /\ CallEdges(f) = {} /\ CallEdges(g) = {}
      /\ PopsArray(g) <=> PopsArray(f)
  BY TwinSets
<1>3. /\ Src(g).contract = Src(f).contract /\ Categories(g) = Categories(f)
      /\ \A h : Says(g, h) <=> Says(f, h)
      /\ Entry(g) <=> Entry(f)
  BY TwinSource
<1>4. /\ fn[g].propagated = fn[f].propagated /\ fn[g].taintedWrites = fn[f].taintedWrites
      /\ fn[g].cei = fn[f].cei /\ fn[g].ceiReentrant = fn[f].ceiReentrant
      /\ HasTaintRisk(g) <=> HasTaintRisk(f)
      /\ Mutates(g) <=> Mutates(f)
  BY AlikeIs
<1>5. Reachable(g) <=> Reachable(f)
  BY <1>1, <1>2, <1>3, AloneFacts
<1>6. /\ \A e \in ExtEdges(f) : Moved(e) \in ExtEdges(g)
      /\ \A e \in ExtEdges(g) : \E d \in ExtEdges(f) : e = Moved(d)
      /\ \A e : Moved(e)[3] = e[3]
      /\ MakesCall(g) <=> MakesCall(f)
      /\ HasReentrantEdge(g) <=> HasReentrantEdge(f)
  BY PairEdges
<1>7. CASE pass \in {7, 9, 10, 13, 14, 15, 16, 19}
  BY <1>1, <1>7, AlikeFrame, AlikeSets
<1>8. CASE pass = 8
  <2>1. \A h \in Fns : fn'[h].flash = FlashScore(h)
    BY <1>1, <1>8, Acts DEF FlashLoan, FnPass, FnAttributes
  <2>2. FlashFactors(g) = FlashFactors(f)
    <3>1. \A x : x \in FlashFactors(g) <=> x \in FlashFactors(f)
      BY <1>3, <1>4, <1>6 DEF FlashFactors
    <3> QED
      BY <3>1
  <2>3. FlashScore(g) = FlashScore(f)
    BY <2>2 DEF FlashScore
  <2> QED
    BY <1>1, <1>8, <2>1, <2>3, AlikeFrame, AlikeSets
<1>9. CASE pass = 11
  <2> DEFINE Only2(h) == /\ fn[h].cei /\ fn[h].propagated # {} /\ MakesCall(h)
                         /\ ~ReentrancyRisk(h)
  <2>1. ASSUME NEW h \in Fns
        PROVE  fn'[h].reentrancy = ReentrancyRisk(h) /\ fn'[h].ceiOnly = Only2(h)
    <3>1. fn'[h] = [fn[h] EXCEPT !.reentrancy = ReentrancyRisk(h), !.ceiOnly = Only2(h)]
      BY <1>9, Acts DEF ReentrancyRisks, FnPass
    <3> HIDE DEF Only2
    <3> QED
      BY <1>1, <3>1, Attributes
  <2>2. ReentrancyRisk(g) <=> ReentrancyRisk(f)
    BY <1>4, <1>5, <1>6 DEF ReentrancyRisk
  <2>3. Only2(g) <=> Only2(f)
    BY <1>4, <1>6, <2>2
  <2>4. ReentrancyRisk(g) = ReentrancyRisk(f) /\ Only2(g) = Only2(f)
    BY <2>2, <2>3, Zenon DEF ReentrancyRisk
  <2> HIDE DEF Only2
  <2>5. fn'[g].reentrancy = fn'[f].reentrancy /\ fn'[g].ceiOnly = fn'[f].ceiOnly
    BY <1>1, <2>1, <2>4
  <2> QED
    BY <1>1, <1>9, <2>5, AlikeFrame, AlikeSets
<1>10. CASE pass = 12
  <2> DEFINE Reads2(h) == ReadsOutside(h) /\ WritesSensitive(h)
  <2>1. ASSUME NEW h \in Fns PROVE fn'[h].readOnly = Reads2(h)
    <3>1. fn'[h] = [fn[h] EXCEPT !.readOnly = Reads2(h)]
      BY <1>10, Acts DEF ReadOnlyReentrancy, FnPass
    <3>2. "readOnly" \in DOMAIN fn[h]
      BY <1>1 DEF FnAttributes
    <3> HIDE DEF Reads2
    <3> QED
      BY <3>1, <3>2
  <2>2. ReadsOutside(g) <=> ReadsOutside(f)
    BY <1>6 DEF ReadsOutside
  <2>3. WritesSensitive(g) <=> WritesSensitive(f)
    BY <1>2, <1>3, <1>4 DEF WritesSensitive
  <2>4. Reads2(g) = Reads2(f)
    BY <2>2, <2>3, Zenon
  <2> HIDE DEF Reads2
  <2>5. fn'[g].readOnly = fn'[f].readOnly
    BY <1>1, <2>1, <2>4
  <2> QED
    BY <1>1, <1>10, <2>5, AlikeFrame, AlikeSets
<1>11. CASE pass = 17
  <2>1. \A h \in Fns : fn'[h].lengthMutation = PopsArray(h)
    BY <1>1, <1>11, Acts, Attributes DEF StateTransitions, FnPass
  <2>2. PopsArray(g) = PopsArray(f)
    BY <1>2, Zenon DEF PopsArray
  <2> QED
    BY <1>1, <1>11, <2>1, <2>2, AlikeFrame, AlikeSets
<1>12. CASE pass = 18
  <2>1. \A h \in Fns : fn'[h].delegateRisk = DelegateRisk(h)
    BY <1>1, <1>12, Acts, Attributes DEF DelegatecallRisk, FnPass
  <2>2. /\ \A e \in Delegates(f) : Moved(e) \in Delegates(g)
        /\ \A e \in Delegates(g) : \E d \in Delegates(f) : e = Moved(d)
    BY <1>6 DEF Delegates
  <2>3. DelegateRisk(g) <=> DelegateRisk(f)
    BY <1>3, <1>4, <1>6, <2>2 DEF DelegateRisk
  <2>4. DelegateRisk(g) = DelegateRisk(f)
    BY <2>3, Zenon DEF DelegateRisk
  <2> QED
    BY <1>1, <1>12, <2>1, <2>4, AlikeFrame, AlikeSets
<1>13. CASE pass = 20
  <2>1. ASSUME NEW h \in Fns PROVE fn'[h].reGuard = ("reentrancy_guard" \in Categories(h))
    <3>1. fn'[h] = [fn[h] EXCEPT !.reGuard = "reentrancy_guard" \in Categories(h),
                                 !.initMod = "initializer" \in Categories(h)]
      BY <1>13, Acts DEF ModifierEquivalence, FnPass
    <3>2. "reGuard" \in DOMAIN fn[h]
      BY <1>1 DEF FnAttributes
    <3> QED
      BY <3>1, <3>2
  <2>2. fn'[g].reGuard = fn'[f].reGuard
    BY <1>1, <1>3, <2>1
  <2> QED
    BY <1>1, <1>13, <2>2, AlikeFrame, AlikeSets
<1> QED
  BY <1>7, <1>8, <1>9, <1>10, <1>11, <1>12, <1>13

(* The calls of the two are as risky, and as often unchecked.              *)
LEMMA TwinCallRisks ==
  ASSUME NEW f, NEW g, Pair(f, g), GuardInv, pass > 6, Alike(f, g), Alone(f), Alone(g)
  PROVE  /\ \A e \in Calls(f) : RiskyCall(g, Moved(e)) <=> RiskyCall(f, e)
         /\ \A e \in Calls(f) : UncheckedCall(g, Moved(e)) <=> UncheckedCall(f, e)
         /\ ExternalTags(g) = ExternalTags(f)
<1>1. /\ prog \in Programs /\ f \in Fns /\ g \in Fns /\ 0 \notin Fns
  BY FunctionList DEF Pair
<1>2. /\ ExtEdges(f) = Calls(f) /\ ExtEdges(g) = Calls(g)
      /\ \A e \in Calls(f) : Moved(e) \in Calls(g)
      /\ \A e \in Calls(g) : \E d \in Calls(f) : e = Moved(d)
      /\ \A e : Moved(e)[1] = e[1] /\ Moved(e)[3] = e[3]
  BY PairEdges
<1>3. /\ fn[g].reentrancy = fn[f].reentrancy /\ fn[g].unchecked = fn[f].unchecked
      /\ Tainted(g) <=> Tainted(f)
  BY AlikeIs
<1> DEFINE Class(e) == IF e[3].about = "this" THEN "SELF_CALL"
                       ELSE IF e[3].kind = "delegatecall" THEN "DELEGATECALL"
                       ELSE IF e[3].kind = "transfer" \/ e[3].about = "token" THEN "TOKEN_TRANSFER"
                       ELSE IF e[3].about = "oracle" THEN "ORACLE" ELSE "UNTRUSTED_CONTRACT"
<1>4. ASSUME NEW h \in {f, g}, NEW e \in Calls(h) PROVE CallClass(h, e) = Class(e)
  <2>1. e[3].to \in {0} \cup Fns
    BY <1>1, CallsPlaced
  <2>2. ~(e[3].to # 0 /\ rel[h][e[3].to] = "EXTERNAL_CALL" /\ Src(e[3].to).contract = Src(h).contract)
    BY <1>1, <2>1 DEF Alone
  <2> QED
    BY <2>2 DEF CallClass
<1>5. \A e \in Calls(f) : CallClass(g, Moved(e)) = CallClass(f, e)
  BY <1>2, <1>4
<1>6. \A e \in Calls(f) : RiskyCall(g, Moved(e)) <=> RiskyCall(f, e)
  BY <1>3, <1>5 DEF RiskyCall
<1>7. ASSUME NEW e \in Calls(f) PROVE UncheckedCall(g, Moved(e)) <=> UncheckedCall(f, e)
  <2>1. CASE e[1] # 1
    BY <1>2, <2>1 DEF UncheckedCall
  <2>2. CASE e[1] = 1
    <3>1. e[2] \in DOMAIN Body(f)
      BY <2>2, TwinCalls
    <3>2. Moved(e)[2] = e[2] + 1
      BY <2>2, MovedKeeps
    <3>3. Body(g)[e[2] + 1] = Body(f)[e[2]]
      BY <3>1, TwinBodies DEF Later
    <3>4. (\E j \in Checks(g, "ret") : j > e[2] + 1) <=> (\E j \in Checks(f, "ret") : j > e[2])
      BY <3>1, TwinChecks
    <3>5. ReturnChecked(g, e[2] + 1) <=> ReturnChecked(f, e[2])
      BY <3>3, <3>4 DEF ReturnChecked
    <3> QED
      BY <1>2, <3>2, <3>5 DEF UncheckedCall
  <2> QED
    BY <2>1, <2>2
<1>8. ExternalTags(g) = ExternalTags(f)
  <2> DEFINE risky(h) == {e \in Calls(h) : RiskyCall(h, e)}
             loose(h) == \E e \in risky(h) : UncheckedCall(h, e)
  <2>1. \A h \in {f, g} : ExternalTags(h) =
           (IF fn[h].reentrancy THEN {"REENTRANCY_RISK"} ELSE {})
           \cup (IF fn[h].unchecked \/ loose(h) THEN {"UNCHECKED_RETURN"} ELSE {})
           \cup (IF risky(h) # {} THEN {"EXTERNAL_DEPENDENCY_RISK"} ELSE {})
    BY <1>2 DEF ExternalTags
  <2>2. \A e \in risky(f) : Moved(e) \in risky(g)
    BY <1>2, <1>6
  <2>3. \A e \in risky(g) : \E d \in risky(f) : e = Moved(d)
    BY <1>2, <1>6
  <2>4. risky(g) # {} <=> risky(f) # {}
    BY <2>2, <2>3
  <2>5. loose(g) <=> loose(f)
    BY <1>7, <2>2, <2>3
  <2> HIDE DEF risky, loose
  <2> QED
    BY <1>3, <2>1, <2>4, <2>5
<1> QED
  BY <1>6, <1>7, <1>8

LEMMA AlikeLate ==
  ASSUME GuardInv, Next, NEW f, NEW g, Pair(f, g), Alike(f, g),
         Alone(f), Alone(g), pass \in 21..38
  PROVE  Alike(f, g)'
<1>1. /\ prog \in Programs /\ Shape /\ f \in Fns /\ g \in Fns
      /\ \A h \in Fns : DOMAIN fn[h] = FnAttributes
  BY DEF GuardInv, Pair, Shape
<1>2. CASE pass \notin {29, 34, 35}
  BY <1>1, <1>2, AlikeFrame, AlikeSets
<1>3. CASE pass = 29
  <2> DEFINE T == Rounds
             crossed(h) == IF T[h].cross THEN {"cross"} ELSE {}
             paths(h) == PathsFrom(T, h)
             risks(h) == RiskOf(T, h)
  <2>1. \A h \in Fns : Callees(h) = CallEdges(h)
    BY <1>1, <1>3, CalleesOf DEF GuardInv
  <2>2. /\ T[g].writes = T[f].writes /\ T[g].cross = T[f].cross
        /\ risks(g) = risks(f) /\ paths(g) = {} /\ paths(f) = {}
    BY <2>1, TwinTaint
  <2>3. LocalSources(g) = LocalSources(f) /\ Unchecked(g) = Unchecked(f)
    <3>1. Unchecked(g) <=> Unchecked(f)
      BY TwinLocals
    <3>2. Unchecked(g) = Unchecked(f)
      BY <3>1, Zenon DEF Unchecked
    <3> QED
      BY <3>2, TwinLocals
  <2>4. ASSUME NEW h \in Fns
        PROVE  /\ fn'[h].sources = LocalSources(h) \cup crossed(h)
               /\ fn'[h].taintedWrites = T[h].writes /\ fn'[h].unchecked = Unchecked(h)
               /\ fn'[h].taintRisks = risks(h) /\ fn'[h].taintScore = TaintScore(risks(h))
               /\ fn'[h].crossPaths = {x[1] : x \in paths(h)}
    <3>1. Taint
      BY <1>3, Acts
    <3>2. fn'[h] = [fn[h] EXCEPT
                      !.sources = LocalSources(h) \cup crossed(h),
                      !.tainted = T[h].tainted, !.taintedWrites = T[h].writes,
                      !.taintMath = LocalMaths(h), !.unchecked = Unchecked(h),
                      !.taintRisks = risks(h), !.taintScore = TaintScore(risks(h)),
                      !.crossPaths = {x[1] : x \in paths(h)}]
      BY <3>1 DEF Taint
    <3>3. {"sources", "taintedWrites", "unchecked", "taintRisks", "taintScore", "crossPaths"}
             \subseteq DOMAIN fn[h]
      BY <1>1 DEF FnAttributes
    <3> HIDE DEF T, crossed, paths, risks
    <3> QED
      BY <3>2, <3>3
  <2>5. crossed(g) = crossed(f)
    BY <2>2
  <2> HIDE DEF T, crossed, paths, risks
  <2>6. \A a \in {"sources", "taintedWrites", "unchecked", "taintRisks", "taintScore", "crossPaths"} :
           fn'[g][a] = fn'[f][a]
    BY <1>1, <2>2, <2>3, <2>4, <2>5
  <2> QED
    BY <1>1, <1>3, <2>6, AlikeFrame, AlikeSets
<1>4. CASE pass = 34
  <2>1. ASSUME NEW h \in Fns PROVE fn'[h].extScore = ExternalScore(h)
    <3>1. fn'[h] = [fn[h] EXCEPT !.extTags = ExternalTags(h), !.extScore = ExternalScore(h)]
      BY <1>4, Acts DEF ExternalCallRisks, FnPass
    <3>2. "extScore" \in DOMAIN fn[h]
      BY <1>1 DEF FnAttributes
    <3> QED
      BY <3>1, <3>2
  <2>2. ExternalScore(g) = ExternalScore(f)
    BY <1>4, TwinCallRisks DEF ExternalScore
  <2> QED
    BY <1>1, <1>4, <2>1, <2>2, AlikeFrame, AlikeSets
<1>5. CASE pass = 35
  <2>1. ASSUME NEW h \in Fns PROVE fn'[h].sensitiveStore = SensitiveStore(h)
    <3>1. fn'[h] = [fn[h] EXCEPT !.sensitiveStore = SensitiveStore(h),
                                 !.strict = fn[h].acType \in StrictTypes, !.safety = Safety(h)]
      BY <1>5, Acts DEF NegativeSafety, FnPass
    <3>2. "sensitiveStore" \in DOMAIN fn[h]
      BY <1>1 DEF FnAttributes
    <3> QED
      BY <3>1, <3>2
  <2>2. SensitiveStore(g) = SensitiveStore(f)
    <3>1. fn[g].propagated = fn[f].propagated /\ fn[g].taintedWrites = fn[f].taintedWrites
      BY AlikeIs
    <3> QED
      BY <3>1, Zenon DEF SensitiveStore
  <2> QED
    BY <1>1, <1>5, <2>1, <2>2, AlikeFrame, AlikeSets
<1> QED
  BY <1>2, <1>3, <1>4, <1>5

LEMMA AloneStep ==
  ASSUME GuardInv, Next, NEW f, NEW g, Pair(f, g), NEW h \in {f, g}, Alone(h)
  PROVE  Alone(h)'
<1>1. /\ prog' = prog /\ pass \in 1..38 /\ pass' = pass + 1 /\ Fns' = Fns /\ prog \in Programs
      /\ Shape /\ h \in Fns /\ \A x \in Fns : h \notin CallEdges(x)
      /\ \A i \in Externals(h) : Body(h)[i].to = 0
      /\ 0 \notin Fns
      /\ pass \notin {1, 6, 30} => rel' = rel
  BY Unassigned, UnassignedLater, SameProgram, FunctionList, TwinSets DEF GuardInv, Pair
<1>2. Entry(h)' <=> Entry(h)
  BY <1>1 DEF Entry, Public, Src
<1>3. pass' > 4 => (fn'[h].entries # {} <=> Entry(h))
  <2>1. CASE pass = 4
    <3>1. fn'[h] = [fn[h] EXCEPT !.entries = {e \in Fns : Entry(e) /\ h \in Visited(e)}]
      BY <1>1, <2>1, Acts DEF Reachability, FnPass
    <3>2. fn'[h].entries = {e \in Fns : Entry(e) /\ h \in Visited(e)}
      BY <1>1, <3>1, Attributes DEF Shape
    <3>3. \A x \in Fns : Callees(x) = CallEdges(x)
      BY <1>1, <2>1, CalleesOf DEF GuardInv
    <3>4. \A e \in Fns \ {h} : h \notin Visited(e)
      BY <1>1, <3>3, NotVisited
    <3>5. h \in Visited(h)
      BY <1>1, VisitsItself
    <3> QED
      BY <1>1, <3>2, <3>4, <3>5
  <2>2. CASE pass > 4
    <3>1. fn'[h].entries = fn[h].entries
      BY <1>1, <2>2, Unassigned
    <3> QED
      BY <2>2, <3>1 DEF Alone
  <2> QED
    BY <1>1, <2>1, <2>2
<1>4. \A x \in Fns : rel'[h][x] # "EXTERNAL_CALL"
  <2>1. CASE pass = 1
    <3>1. rel' = [a \in Fns |-> [b \in Fns |-> FirstLabel(a, b)]]
      BY <2>1, Acts DEF AddNodes
    <3>2. \A x : FirstLabel(h, x) # "EXTERNAL_CALL"
      BY DEF FirstLabel
    <3> QED
      BY <1>1, <3>1, <3>2
  <2>2. CASE pass = 6
    <3>1. ExternalCalls
      BY <2>2, Acts
    <3>2. \A x \in Fns : rel'[h][x] = IF \E i \in Externals(h) : Body(h)[i].to = x /\ Resolves(h, i)
                                      THEN "EXTERNAL_CALL" ELSE rel[h][x]
      BY <1>1, <3>1 DEF ExternalCalls
    <3>3. \A x \in Fns : ~\E i \in Externals(h) : Body(h)[i].to = x
      BY <1>1
    <3> QED
      BY <3>2, <3>3 DEF Alone
  <2>3. CASE pass = 30
    <3>1. Dependencies
      BY <2>3, Acts
    <3>2. \A x \in Fns : rel'[h][x] = IF Depends(h, x) THEN "STATE_DEPENDENCY" ELSE rel[h][x]
      BY <1>1, <3>1 DEF Dependencies
    <3> QED
      BY <3>2 DEF Alone
  <2>4. CASE pass \notin {1, 6, 30}
    BY <1>1, <2>4 DEF Alone
  <2> QED
    BY <2>1, <2>2, <2>3, <2>4
<1> QED
  BY <1>1, <1>2, <1>3, <1>4 DEF Alone

-----------------------------------------------------------------------------
(* What a guard makes of the protection and of the confidence.  Of one     *)
(* function: no confidence without protection, and enough of it with a     *)
(* kind of guard, until a contract whose modifiers cannot be read takes    *)
(* three tenths away.                                                      *)

Confident(f) ==
    /\ fn[f].conf \in 0..1000
    /\ ~fn[f].protected => fn[f].conf = 0
    /\ pass > 22 /\ fn[f].acType # "none" => fn[f].protected
    /\ pass \in 6..25 /\ ~Bare(f) => fn[f].protected /\ fn[f].conf >= 900
    /\ pass \in 23..25 /\ fn[f].acType # "none" => fn[f].conf >= 800

(* Of the two: the one with the check of its caller is never the weaker.   *)
Stronger(f, g) ==
    /\ pass > 5 => fn[g].protected
    /\ fn[g].unprotected = FALSE /\ fn[g].escalate = FALSE
    /\ fn[f].conf <= fn[g].conf
    /\ pass > 22 => /\ fn[g].acType \in {"require-based", "both"}
                    /\ fn[f].acType \notin {"none", "require-based"} => fn[g].acType = "both"
                    /\ fn[f].acType # "none" /\ fn[g].conf >= 800 => fn[f].conf >= 800
    /\ pass > 26 /\ fn[f].design => fn[g].design

(* What the passes make of the protection of a function.                   *)
OwnConfidence(f) ==
    IF Guarding(f) = {} THEN 0 ELSE IF \E n \in Guarding(f) : IsLocal(f, n) THEN 1000 ELSE 900
InlineConfidence(f) == IF InlineCheck(f) THEN 950 ELSE 0

Second(type, was) == IF was = "none" THEN type ELSE IF was = type THEN was ELSE "both"

LEMMA ProtectionIs ==
  ASSUME GuardInv, Next, NEW f \in Fns, fn[f].conf \in Int
  PROVE  /\ pass = 5 => /\ fn'[f].protected <=> ~Bare(f)
                        /\ fn'[f].conf \in {0, OwnConfidence(f), InlineConfidence(f)}
                        /\ fn'[f].conf >= OwnConfidence(f) /\ fn'[f].conf >= InlineConfidence(f)
         /\ pass = 21 => (fn'[f].protected <=> fn[f].protected \/ ChecksInit(f))
         /\ pass = 22 => /\ fn'[f].protected <=> fn[f].protected \/ RequireAC(f)
                         /\ fn'[f].acType = IF Guarding(f) # {}
                                            THEN IF RequireAC(f) THEN "both" ELSE "modifier"
                                            ELSE IF RequireAC(f) THEN "require-based" ELSE "none"
         /\ pass = 23 => IF HasGuard(f)
                         THEN /\ fn'[f].protected = TRUE
                              /\ fn'[f].conf = IF fn[f].conf >= 850 THEN fn[f].conf ELSE 850
                              /\ fn'[f].acType = Second("internal-guard", fn[f].acType)
                         ELSE fn'[f] = fn[f]
         /\ pass = 24 => IF AsksRole(f)
                         THEN /\ fn'[f].protected = TRUE
                              /\ fn'[f].conf = IF fn[f].conf >= 800 THEN fn[f].conf ELSE 800
                              /\ fn'[f].acType = Second("external-role", fn[f].acType)
                         ELSE fn'[f] = fn[f]
         /\ pass = 25 => fn'[f].conf = IF SsaFailed(Src(f).contract) THEN (fn[f].conf * 7) \div 10
                                       ELSE fn[f].conf
<1>1. /\ GuardFacts(f) /\ Labels /\ prog \in Programs /\ DOMAIN fn[f] = FnAttributes
  BY DEF GuardInv, Shape
<1>2. pass \in 2..30 => Callees(f) = CallEdges(f)
  BY <1>1, CalleesOf
<1>3. {"protected", "conf", "acType", "guardCall", "roleGuard", "hasAC", "initGuard"} \subseteq DOMAIN fn[f]
  BY <1>1, Attributes
<1>4. CASE pass = 5
  <2> DEFINE three == {fn[f].conf, OwnConfidence(f), InlineConfidence(f)}
  <2>1. fn[f].conf = 0 /\ fn[f].protected = FALSE
    BY <1>1, <1>4 DEF GuardFacts
  <2>2. AccessControl
    BY <1>4, Acts
  <2>3. fn'[f] = [fn[f] EXCEPT !.hasAC = Guarding(f) # {}, !.acMods = Guarding(f),
                               !.inline = InlineCheck(f),
                               !.protected = @ \/ Guarding(f) # {} \/ InlineCheck(f),
                               !.conf = Max({@, OwnConfidence(f), InlineConfidence(f)})]
    BY <2>2 DEF AccessControl, FnPass, OwnConfidence, InlineConfidence
  <2>4. fn'[f].conf = Max(three)
    BY <1>3, <2>3
  <2>5. fn'[f].protected = (fn[f].protected \/ Guarding(f) # {} \/ InlineCheck(f))
    BY <1>3, <2>3
  <2>6. fn'[f].protected <=> ~Bare(f)
    BY <2>1, <2>5 DEF Bare
  <2>7. OwnConfidence(f) \in Int /\ InlineConfidence(f) \in Int
    BY DEF OwnConfidence, InlineConfidence
  <2>8. three \subseteq Int /\ IsFiniteSet(three) /\ three # {}
    BY <2>7, Few
  <2>9. OwnConfidence(f) \in three /\ InlineConfidence(f) \in three
    OBVIOUS
  <2>10. \A x \in three : x \in {0, OwnConfidence(f), InlineConfidence(f)}
    BY <2>1
  <2> HIDE DEF three
  <2>11. Max(three) \in three /\ \A y \in three : Max(three) >= y
    BY <2>8, Greatest
  <2> QED
    BY <1>4, <2>4, <2>6, <2>9, <2>10, <2>11
<1>5. CASE pass = 21
  <2> DEFINE a == [fn[f] EXCEPT !.initGuard = InitGuard(f),
                                !.safeInit = InitGuard(f) /\ (fn[f].protected \/ fn[f].initMod)]
  <2>1. fn'[f] = IF InitGuard(f) THEN Clear([a EXCEPT !.protected = TRUE]) ELSE a
    BY <1>5, Acts DEF Initializer, FnPass
  <2>2. a.protected = fn[f].protected /\ "protected" \in DOMAIN a
    BY <1>3
  <2> HIDE DEF a
  <2>3. Clear([a EXCEPT !.protected = TRUE]).protected = TRUE
    BY <2>2 DEF Clear
  <2>4. InitGuard(f) <=> ChecksInit(f)
    BY <1>2, <1>5 DEF InitGuard, ChecksInit
  <2>5. CASE InitGuard(f)
    BY <1>5, <2>1, <2>3, <2>4, <2>5
  <2>6. CASE ~InitGuard(f)
    BY <1>5, <2>1, <2>2, <2>4, <2>6
  <2> QED
    BY <2>5, <2>6
<1>6. CASE pass = 22
  <2>1. RequireAccess
    BY <1>6, Acts
  <2>2. fn'[f].protected = (fn[f].protected \/ RequireAC(f))
    BY <1>3, <2>1 DEF RequireAccess, FnPass
  <2>3. fn'[f].acType = CASE fn[f].hasAC /\ RequireAC(f) -> "both"
                          [] fn[f].hasAC /\ ~RequireAC(f) -> "modifier"
                          [] ~fn[f].hasAC /\ RequireAC(f) -> "require-based"
                          [] ~fn[f].hasAC /\ ~RequireAC(f) -> "none"
    BY <1>3, <2>1 DEF RequireAccess, FnPass
  <2>4. fn[f].hasAC <=> Guarding(f) # {}
    BY <1>1, <1>6 DEF GuardFacts
  <2>5. fn'[f].protected <=> fn[f].protected \/ RequireAC(f)
    BY <2>2
  <2>6. fn'[f].acType = IF Guarding(f) # {} THEN IF RequireAC(f) THEN "both" ELSE "modifier"
                                           ELSE IF RequireAC(f) THEN "require-based" ELSE "none"
    <3>1. CASE Guarding(f) # {} /\ RequireAC(f)
      BY <2>3, <2>4, <3>1
    <3>2. CASE Guarding(f) # {} /\ ~RequireAC(f)
      BY <2>3, <2>4, <3>2
    <3>3. CASE Guarding(f) = {} /\ RequireAC(f)
      BY <2>3, <2>4, <3>3
    <3>4. CASE Guarding(f) = {} /\ ~RequireAC(f)
      BY <2>3, <2>4, <3>4
    <3> QED
      BY <3>1, <3>2, <3>3, <3>4
  <2> QED
    BY <1>6, <2>5, <2>6
<1>7. CASE pass = 23
  <2> DEFINE u == Update(fn[f], 850, "internal-guard")
  <2>1. fn'[f] = IF CallsGuard(f) THEN [u EXCEPT !.guardCall = TRUE] ELSE fn[f]
    BY <1>7, Acts DEF GuardCalls, FnPass
  <2>2. CallsGuard(f) <=> HasGuard(f)
    BY <1>2, <1>7 DEF CallsGuard, HasGuard
  <2>a. {"protected", "conf", "acType"} \subseteq DOMAIN fn[f] /\ 850 \in Int
    BY <1>3
  <2>3. /\ u.protected = TRUE /\ u.conf = IF fn[f].conf >= 850 THEN fn[f].conf ELSE 850
        /\ u.acType = Second("internal-guard", fn[f].acType)
    <3> DEFINE a == fn[f]
    <3>1. {"protected", "conf", "acType"} \subseteq DOMAIN a /\ a.conf \in Int
      BY <2>a
    <3> HIDE DEF a
    <3>2. Update(a, 850, "internal-guard").protected = TRUE
      BY <3>1 DEF Update
    <3>3. Update(a, 850, "internal-guard").conf = Max({a.conf, 850})
      BY <3>1 DEF Update
    <3>4. Max({a.conf, 850}) = IF a.conf >= 850 THEN a.conf ELSE 850
      BY <3>1, GreaterOf
    <3>5. Update(a, 850, "internal-guard").acType = Second("internal-guard", a.acType)
      BY <3>1 DEF Update, Second
    <3> QED
      BY <3>2, <3>3, <3>4, <3>5 DEF a
  <2>b. {"protected", "conf", "acType"} \subseteq DOMAIN u
    BY <2>a DEF Update
  <2> HIDE DEF u
  <2>4. [u EXCEPT !.guardCall = TRUE].protected = u.protected
        /\ [u EXCEPT !.guardCall = TRUE].conf = u.conf
        /\ [u EXCEPT !.guardCall = TRUE].acType = u.acType
    BY <2>b
  <2> QED
    BY <1>7, <2>1, <2>2, <2>3, <2>4
<1>8. CASE pass = 24
  <2> DEFINE u == Update(fn[f], 800, "external-role")
  <2>1. fn'[f] = IF AsksRegistry(f) THEN [u EXCEPT !.roleGuard = TRUE] ELSE fn[f]
    BY <1>8, Acts DEF RoleRegistry, FnPass
  <2>2. AsksRegistry(f) <=> AsksRole(f)
    BY <1>1, <1>8 DEF AsksRegistry, AsksRole, GuardFacts
  <2>a. {"protected", "conf", "acType"} \subseteq DOMAIN fn[f] /\ 800 \in Int
    BY <1>3
  <2>3. /\ u.protected = TRUE /\ u.conf = IF fn[f].conf >= 800 THEN fn[f].conf ELSE 800
        /\ u.acType = Second("external-role", fn[f].acType)
    <3> DEFINE a == fn[f]
    <3>1. {"protected", "conf", "acType"} \subseteq DOMAIN a /\ a.conf \in Int
      BY <2>a
    <3> HIDE DEF a
    <3>2. Update(a, 800, "external-role").protected = TRUE
      BY <3>1 DEF Update
    <3>3. Update(a, 800, "external-role").conf = Max({a.conf, 800})
      BY <3>1 DEF Update
    <3>4. Max({a.conf, 800}) = IF a.conf >= 800 THEN a.conf ELSE 800
      BY <3>1, GreaterOf
    <3>5. Update(a, 800, "external-role").acType = Second("external-role", a.acType)
      BY <3>1 DEF Update, Second
    <3> QED
      BY <3>2, <3>3, <3>4, <3>5 DEF a
  <2>b. {"protected", "conf", "acType"} \subseteq DOMAIN u
    BY <2>a DEF Update
  <2> HIDE DEF u
  <2>4. [u EXCEPT !.roleGuard = TRUE].protected = u.protected
        /\ [u EXCEPT !.roleGuard = TRUE].conf = u.conf
        /\ [u EXCEPT !.roleGuard = TRUE].acType = u.acType
    BY <2>b
  <2> QED
    BY <1>8, <2>1, <2>2, <2>3, <2>4
<1>9. CASE pass = 25
  <2>1. SsaDampening
    BY <1>9, Acts
  <2> QED
    BY <1>3, <1>9, <2>1 DEF SsaDampening
<1> QED
  BY <1>4, <1>5, <1>6, <1>7, <1>8, <1>9

LEMMA Fresh ==
  ASSUME Next, pass = 1, NEW f \in Fns
  PROVE  /\ fn'[f].conf = 0 /\ fn'[f].protected = FALSE /\ fn'[f].acType = "none"
         /\ fn'[f].unprotected = FALSE /\ fn'[f].escalate = FALSE /\ fn'[f].design = FALSE
<1>1. AddNodes
  BY Acts
<1>2. fn'[f] = NewFn(f)
  BY <1>1 DEF AddNodes
<1> QED
  BY <1>2 DEF NewFn

LEMMA ConfidentStep ==
  ASSUME GuardInv, Next, NEW f \in Fns, Confident(f)
  PROVE  Confident(f)'
<1>1. /\ prog' = prog /\ pass \in 1..38 /\ pass' = pass + 1 /\ Shape
      /\ Bare(f)' <=> Bare(f)
  BY Unassigned, SameProgram DEF GuardInv
<1>2. fn[f].conf \in 0..1000 /\ fn[f].conf \in Int
  <2>1. fn[f].conf \in 0..1000
    BY ZenonT(40) DEF Confident
  <2> QED
    BY <2>1
<1>3. CASE pass \notin {1, 5, 21, 22, 23, 24, 25}
  <2>1. fn'[f].conf = fn[f].conf /\ fn'[f].protected = fn[f].protected /\ fn'[f].acType = fn[f].acType
    BY <1>1, <1>3, Unassigned
  <2> QED
    BY <1>1, <1>3, <2>1 DEF Confident
<1>4. CASE pass = 1
  <2>1. pass' \notin 6..25 /\ pass' \notin 23..25 /\ ~(pass' > 22)
    BY <1>1, <1>4
  <2>2. fn'[f].conf = 0
    BY <1>4, Fresh
  <2>3. fn'[f].conf \in 0..1000
    BY <2>2
  <2> QED
    BY <2>1, <2>2, <2>3, Zenon DEF Confident
<1>5. CASE pass = 5
  <2>1. /\ fn'[f].protected <=> ~Bare(f)
        /\ fn'[f].conf \in {0, OwnConfidence(f), InlineConfidence(f)}
        /\ fn'[f].conf >= OwnConfidence(f) /\ fn'[f].conf >= InlineConfidence(f)
    BY <1>2, <1>5, ProtectionIs
  <2>2. CASE Bare(f)
    <3>1. OwnConfidence(f) = 0 /\ InlineConfidence(f) = 0
      BY <2>2 DEF OwnConfidence, InlineConfidence, Bare
    <3>2. fn'[f].conf = 0
      BY <2>1, <3>1
    <3> QED
      BY <1>1, <1>5, <2>1, <2>2, <3>2 DEF Confident
  <2>3. CASE ~Bare(f)
    <3>1. /\ OwnConfidence(f) \in {0, 900, 1000} /\ InlineConfidence(f) \in {0, 950}
          /\ OwnConfidence(f) # 0 \/ InlineConfidence(f) # 0
      BY <2>3 DEF OwnConfidence, InlineConfidence, Bare
    <3>2. fn'[f].conf >= 900 /\ fn'[f].conf \in 0..1000
      BY <2>1, <3>1
    <3> QED
      BY <1>1, <1>5, <2>1, <2>3, <3>2 DEF Confident
  <2> QED
    BY <2>2, <2>3
<1>6. CASE pass = 21
  <2>1. fn'[f].protected <=> fn[f].protected \/ ChecksInit(f)
    BY <1>2, <1>6, ProtectionIs
  <2>2. fn'[f].conf = fn[f].conf
    BY <1>1, <1>6, Unassigned
  <2> QED
    BY <1>1, <1>6, <2>1, <2>2 DEF Confident
<1>7. CASE pass = 22
  <2>1. /\ fn'[f].protected <=> fn[f].protected \/ RequireAC(f)
        /\ fn'[f].acType = IF Guarding(f) # {}
                           THEN IF RequireAC(f) THEN "both" ELSE "modifier"
                           ELSE IF RequireAC(f) THEN "require-based" ELSE "none"
    BY <1>2, <1>7, ProtectionIs
  <2>2. fn'[f].conf = fn[f].conf
    BY <1>1, <1>7, Unassigned
  <2>3. RequireAC(f) => InlineCheck(f)
    BY DEF RequireAC, InlineCheck
  <2>4. fn'[f].acType # "none" => ~Bare(f)
    BY <2>1, <2>3 DEF Bare
  <2>5. ~Bare(f) => fn[f].protected /\ fn[f].conf >= 900
    BY <1>7 DEF Confident
  <2> QED
    BY <1>1, <1>2, <1>7, <2>1, <2>2, <2>4, <2>5 DEF Confident
<1>8. CASE pass = 23
  <2>1. IF HasGuard(f)
        THEN /\ fn'[f].protected = TRUE
             /\ fn'[f].conf = IF fn[f].conf >= 850 THEN fn[f].conf ELSE 850
             /\ fn'[f].acType = Second("internal-guard", fn[f].acType)
        ELSE fn'[f] = fn[f]
    BY <1>2, <1>8, ProtectionIs
  <2>2. CASE HasGuard(f)
    <3>1. fn'[f].protected /\ fn'[f].conf \in 850..1000 /\ fn'[f].conf >= fn[f].conf
      BY <1>2, <2>1, <2>2, SMTT(30)
    <3> QED
      BY <1>1, <1>2, <1>8, <3>1 DEF Confident
  <2>3. CASE ~HasGuard(f)
    BY <1>1, <1>8, <2>1, <2>3 DEF Confident
  <2> QED
    BY <2>2, <2>3
<1>9. CASE pass = 24
  <2>1. IF AsksRole(f)
        THEN /\ fn'[f].protected = TRUE
             /\ fn'[f].conf = IF fn[f].conf >= 800 THEN fn[f].conf ELSE 800
             /\ fn'[f].acType = Second("external-role", fn[f].acType)
        ELSE fn'[f] = fn[f]
    BY <1>2, <1>9, ProtectionIs
  <2>2. CASE AsksRole(f)
    <3>1. fn'[f].protected /\ fn'[f].conf \in 800..1000 /\ fn'[f].conf >= fn[f].conf
      BY <1>2, <2>1, <2>2, SMTT(30)
    <3> QED
      BY <1>1, <1>2, <1>9, <3>1 DEF Confident
  <2>3. CASE ~AsksRole(f)
    BY <1>1, <1>9, <2>1, <2>3 DEF Confident
  <2> QED
    BY <2>2, <2>3
<1>10. CASE pass = 25
  <2>1. fn'[f].conf = IF SsaFailed(Src(f).contract) THEN (fn[f].conf * 7) \div 10 ELSE fn[f].conf
    BY <1>2, <1>10, ProtectionIs, SMTT(30)
  <2>2. fn'[f].conf \in 0..1000 /\ (fn[f].conf = 0 => fn'[f].conf = 0)
    <3>1. \A n \in 0..1000 : (n * 7) \div 10 \in 0..1000 /\ (n = 0 => (n * 7) \div 10 = 0)
      OBVIOUS
    <3> QED
      BY <1>2, <2>1, <3>1, SMTT(30)
  <2>3. fn'[f].protected = fn[f].protected /\ fn'[f].acType = fn[f].acType
    BY <1>1, <1>10, Unassigned
  <2> QED
    BY <1>1, <1>10, <2>2, <2>3 DEF Confident
<1> QED
  BY <1>3, <1>4, <1>5, <1>6, <1>7, <1>8, <1>9, <1>10

LEMMA PairProtection ==
  ASSUME NEW f, NEW g, Pair(f, g)
  PROVE  /\ OwnConfidence(g) = OwnConfidence(f)
         /\ InlineConfidence(g) = 950 /\ InlineConfidence(f) <= 950
         /\ HasGuard(g) <=> HasGuard(f)
         /\ AsksRole(f) => AsksRole(g)
         /\ WritesAccess(f) /\ Alike(f, g) => WritesAccess(g)
         /\ RequireAC(g) /\ ~Bare(g)
         /\ Guarding(g) = Guarding(f) /\ Src(g).contract = Src(f).contract
<1>1. /\ Guarding(g) = Guarding(f) /\ Src(g).contract = Src(f).contract
      /\ \A n : IsLocal(g, n) <=> IsLocal(f, n)
      /\ \A h : Says(g, h) <=> Says(f, h)
  BY TwinSource
<1>2. InlineCheck(g) /\ RequireAC(g) /\ At(g, "require") # {} /\ ~Bare(g)
  BY TwinChecks
<1>3. CallEdges(f) = {} /\ CallEdges(g) = {} /\ WriteEdges(g) = WriteEdges(f)
  BY TwinSets
<1>4. OwnConfidence(g) = OwnConfidence(f)
  BY <1>1 DEF OwnConfidence
<1>5. InlineConfidence(g) = 950 /\ InlineConfidence(f) <= 950
  BY <1>2 DEF InlineConfidence
<1>6. HasGuard(g) <=> HasGuard(f)
  BY <1>1, <1>3 DEF HasGuard
<1>7. AsksRole(f) => AsksRole(g)
  <2>1. \A e \in Calls(f) : Moved(e) \in Calls(g) /\ Moved(e)[3] = e[3]
    BY TwinCalls, MovedKeeps
  <2> QED
    BY <1>2, <2>1 DEF AsksRole
<1>8. WritesAccess(f) /\ Alike(f, g) => WritesAccess(g)
  BY <1>3, AlikeIs DEF WritesAccess
<1> QED
  BY <1>1, <1>2, <1>4, <1>5, <1>6, <1>7, <1>8

(* The kind of guard that the first pass for it finds, and that the later  *)
(* ones add to.                                                            *)
LEMMA StrongerType ==
  ASSUME GuardInv, Next, NEW f, NEW g, Pair(f, g), Confident(f), Confident(g), Stronger(f, g)
  PROVE  pass' > 22 => /\ fn'[g].acType \in {"require-based", "both"}
                       /\ fn'[f].acType \notin {"none", "require-based"} => fn'[g].acType = "both"
<1>1. /\ pass \in 1..38 /\ pass' = pass + 1 /\ f \in Fns /\ g \in Fns
      /\ pass \notin {1, 22, 23, 24} =>
            fn'[f].acType = fn[f].acType /\ fn'[g].acType = fn[g].acType
  BY Unassigned DEF GuardInv, Pair
<1>2. fn[f].conf \in Int /\ fn[g].conf \in Int
  <2>1. fn[f].conf \in 0..1000 /\ fn[g].conf \in 0..1000
    BY ZenonT(40) DEF Confident
  <2>2. \A n \in 0..1000 : n \in Int /\ n <= 1000
    OBVIOUS
  <2> QED
    BY <2>1, <2>2, ZenonT(40)
<1>3. pass > 22 => /\ fn[g].acType \in {"require-based", "both"}
                   /\ fn[f].acType \notin {"none", "require-based"} => fn[g].acType = "both"
  BY DEF Stronger
<1>4. \A t \in {"require-based", "both"} : Second("internal-guard", t) = "both"
                                           /\ Second("external-role", t) = "both"
  BY DEF Second
<1>5. CASE pass = 22
  <2>1. \A h \in {f, g} :
           fn'[h].acType = IF Guarding(h) # {} THEN IF RequireAC(h) THEN "both" ELSE "modifier"
                           ELSE IF RequireAC(h) THEN "require-based" ELSE "none"
    BY <1>1, <1>2, <1>5, ProtectionIs
  <2>2. RequireAC(g) /\ Guarding(g) = Guarding(f)
    BY PairProtection
  <2> QED
    BY <2>1, <2>2
<1>6. CASE pass = 23
  <2>1. \A h \in {f, g} : IF HasGuard(h)
                          THEN fn'[h].acType = Second("internal-guard", fn[h].acType)
                          ELSE fn'[h] = fn[h]
    BY <1>1, <1>2, <1>6, ProtectionIs
  <2>2. HasGuard(g) <=> HasGuard(f)
    BY PairProtection
  <2> QED
    BY <1>3, <1>4, <1>6, <2>1, <2>2
<1>7. CASE pass = 24
  <2>1. \A h \in {f, g} : IF AsksRole(h)
                          THEN fn'[h].acType = Second("external-role", fn[h].acType)
                          ELSE fn'[h] = fn[h]
    BY <1>1, <1>2, <1>7, ProtectionIs
  <2>2. AsksRole(f) => AsksRole(g)
    BY PairProtection
  <2> QED
    BY <1>3, <1>4, <1>7, <2>1, <2>2
<1>8. CASE pass \notin {1, 22, 23, 24}
  BY <1>1, <1>3, <1>8
<1> QED
  BY <1>1, <1>5, <1>6, <1>7, <1>8

LEMMA StrongerConfidence ==
  ASSUME GuardInv, Next, NEW f, NEW g, Pair(f, g), Confident(f), Confident(g), Stronger(f, g)
  PROVE  /\ fn'[f].conf <= fn'[g].conf
         /\ pass' > 22 /\ fn'[f].acType # "none" /\ fn'[g].conf >= 800 => fn'[f].conf >= 800
<1>1. /\ pass \in 1..38 /\ pass' = pass + 1 /\ f \in Fns /\ g \in Fns
      /\ pass \notin {1, 5, 23, 24, 25} => fn'[f].conf = fn[f].conf /\ fn'[g].conf = fn[g].conf
      /\ pass \notin {1, 22, 23, 24} => fn'[f].acType = fn[f].acType
  BY Unassigned DEF GuardInv, Pair
<1>2. /\ fn[f].conf \in Int /\ fn[g].conf \in Int
      /\ fn[f].conf <= 1000 /\ fn[g].conf <= 1000
  <2> DEFINE m == fn[f].conf
             n == fn[g].conf
  <2>1. m \in 0..1000 /\ n \in 0..1000
    BY ZenonT(40) DEF Confident
  <2> HIDE DEF m, n
  <2>2. m \in Int /\ n \in Int /\ m <= 1000 /\ n <= 1000
    BY <2>1
  <2> QED
    BY <2>2 DEF m, n
<1>3. /\ fn[f].conf <= fn[g].conf
      /\ pass > 22 /\ fn[f].acType # "none" /\ fn[g].conf >= 800 => fn[f].conf >= 800
  BY DEF Stronger
<1>4. pass' \in 23..25 /\ fn'[f].acType # "none" => fn'[f].conf >= 800
  <2>1. Confident(f)'
    BY <1>1, ConfidentStep
  <2> QED
    BY <2>1 DEF Confident
<1>5. CASE pass = 1
  <2>1. fn'[f].conf = 0 /\ fn'[g].conf = 0
    BY <1>1, <1>5, Fresh
  <2> QED
    BY <1>1, <1>5, <2>1
<1>6. CASE pass = 5
  <2>1. /\ fn'[f].conf \in {0, OwnConfidence(f), InlineConfidence(f)}
        /\ fn'[g].conf >= OwnConfidence(g) /\ fn'[g].conf >= InlineConfidence(g)
        /\ fn'[g].conf \in {0, OwnConfidence(g), InlineConfidence(g)}
    BY <1>1, <1>2, <1>6, ProtectionIs
  <2>2. /\ OwnConfidence(g) = OwnConfidence(f)
        /\ InlineConfidence(g) = 950 /\ InlineConfidence(f) <= 950
    BY PairProtection
  <2>3. InlineConfidence(f) \in {0, 950} /\ OwnConfidence(f) \in {0, 900, 1000}
    BY DEF InlineConfidence, OwnConfidence
  <2> QED
    BY <1>1, <1>6, <2>1, <2>2, <2>3
<1>7. CASE pass = 23
  <2>1. ASSUME NEW h \in {f, g}
        PROVE  IF HasGuard(h) THEN fn'[h].conf = IF fn[h].conf >= 850 THEN fn[h].conf ELSE 850
               ELSE fn'[h] = fn[h]
    <3>1. h \in Fns /\ fn[h].conf \in Int
      BY <1>1, <1>2
    <3> QED
      BY <3>1, <1>7, ProtectionIs, ZenonT(40)
  <2>2. HasGuard(g) <=> HasGuard(f)
    BY PairProtection
  <2> QED
    BY <1>1, <1>2, <1>3, <1>4, <1>7, <2>1, <2>2
<1>8. CASE pass = 24
  <2>1. ASSUME NEW h \in {f, g}
        PROVE  IF AsksRole(h) THEN fn'[h].conf = IF fn[h].conf >= 800 THEN fn[h].conf ELSE 800
               ELSE fn'[h] = fn[h]
    <3>1. h \in Fns /\ fn[h].conf \in Int
      BY <1>1, <1>2
    <3> QED
      BY <3>1, <1>8, ProtectionIs, ZenonT(40)
  <2>2. AsksRole(f) => AsksRole(g)
    BY PairProtection
  <2> QED
    BY <1>1, <1>2, <1>3, <1>4, <1>8, <2>1, <2>2
<1>9. CASE pass = 25
  <2>1. \A h \in {f, g} : fn'[h].conf = IF SsaFailed(Src(h).contract) THEN (fn[h].conf * 7) \div 10
                                        ELSE fn[h].conf
    BY <1>1, <1>2, <1>9, ProtectionIs
  <2>2. Src(g).contract = Src(f).contract
    BY PairProtection
  <2>3. \A n, m \in Int : n <= m => (n * 7) \div 10 <= (m * 7) \div 10
    OBVIOUS
  <2>4. \A n \in Int : n <= 1000 => (n * 7) \div 10 < 800
    OBVIOUS
  <2> QED
    BY <1>1, <1>2, <1>3, <1>9, <2>1, <2>2, <2>3, <2>4
<1>10. CASE pass = 22
  BY <1>1, <1>3, <1>4, <1>10
<1>11. CASE pass \notin {1, 5, 22, 23, 24, 25}
  BY <1>1, <1>3, <1>11
<1> QED
  BY <1>5, <1>6, <1>7, <1>8, <1>9, <1>10, <1>11

LEMMA StrongerMarks ==
  ASSUME GuardInv, Next, NEW f, NEW g, Pair(f, g), Confident(f), Confident(g),
         Stronger(f, g), Alike(f, g)
  PROVE  /\ pass' > 5 => fn'[g].protected
         /\ fn'[g].unprotected = FALSE /\ fn'[g].escalate = FALSE
         /\ pass' > 26 /\ fn'[f].design => fn'[g].design
<1>1. /\ pass \in 1..38 /\ pass' = pass + 1 /\ f \in Fns /\ g \in Fns /\ Shape
      /\ pass \notin {1, 5, 21, 22, 23, 24} => fn'[g].protected = fn[g].protected
      /\ pass \notin {1, 14, 21, 27} => fn'[g].unprotected = fn[g].unprotected
      /\ pass \notin {1, 16} => fn'[g].escalate = fn[g].escalate
      /\ DOMAIN fn[g] = FnAttributes /\ DOMAIN fn[f] = FnAttributes
  BY Unassigned DEF GuardInv, Pair, Shape
<1>2. fn[g].conf \in Int
  <2>1. fn[g].conf \in 0..1000
    BY ZenonT(40) DEF Confident
  <2> QED
    BY <2>1
<1>3. /\ pass > 5 => fn[g].protected
      /\ fn[g].unprotected = FALSE /\ fn[g].escalate = FALSE
      /\ pass > 26 /\ fn[f].design => fn[g].design
  BY DEF Stronger
<1>4. {"protected", "unprotected", "escalate", "design", "level"} \subseteq FnAttributes
  BY DEF FnAttributes
<1>5. pass' > 5 => fn'[g].protected
  <2>1. CASE pass = 5
    BY <1>1, <1>2, <2>1, ProtectionIs, PairProtection
  <2>2. CASE pass \in {21, 22}
    <3>1. \/ fn'[g].protected <=> fn[g].protected \/ ChecksInit(g)
          \/ fn'[g].protected <=> fn[g].protected \/ RequireAC(g)
      BY <1>1, <1>2, <2>2, ProtectionIs
    <3> QED
      BY <1>3, <2>2, <3>1
  <2>3. CASE pass \in {23, 24}
    <3>1. fn'[g].protected = TRUE \/ fn'[g] = fn[g]
      BY <1>1, <1>2, <2>3, ProtectionIs
    <3> QED
      BY <1>3, <2>3, <3>1
  <2>4. CASE pass \notin {1, 5, 21, 22, 23, 24}
    BY <1>1, <1>3, <2>4
  <2>5. CASE pass = 1
    BY <1>1, <2>5
  <2> QED
    BY <2>1, <2>2, <2>3, <2>4, <2>5
<1>6. fn'[g].unprotected = FALSE
  <2>1. CASE pass = 1
    BY <1>1, <2>1, Fresh
  <2>2. CASE pass = 14
    <3>1. UnprotectedMutators
      BY <2>2, Acts
    <3>a. fn'[g] = [fn[g] EXCEPT !.unprotected = Exposed(g),
                                 !.level = IF ~Exposed(g) THEN "NONE"
                                           ELSE IF Src(g).payable THEN "HIGH" ELSE "MEDIUM"]
      BY <1>1, <3>1 DEF UnprotectedMutators, FnPass
    <3>b. fn'[g].unprotected = Exposed(g)
      BY <1>1, <1>4, <3>a
    <3>2. Exposed(g) = FALSE
      BY <1>3, <2>2 DEF Exposed
    <3> QED
      BY <3>b, <3>2
  <2>3. CASE pass = 21
    <3> DEFINE a == [fn[g] EXCEPT !.initGuard = InitGuard(g),
                                  !.safeInit = InitGuard(g) /\ (fn[g].protected \/ fn[g].initMod)]
               b == [a EXCEPT !.protected = TRUE]
    <3>1. fn'[g] = IF InitGuard(g) THEN Clear(b) ELSE a
      BY <1>1, <2>3, Acts DEF Initializer, FnPass
    <3>2. a.unprotected = fn[g].unprotected /\ DOMAIN a = DOMAIN fn[g]
      BY <1>1, <1>4
    <3> HIDE DEF a
    <3>3. b.unprotected = a.unprotected /\ DOMAIN b = DOMAIN a
      BY <1>1, <1>4, <3>2
    <3> HIDE DEF b
    <3>4. Clear(b).unprotected = FALSE
      BY <1>1, <1>4, <3>2, <3>3 DEF Clear
    <3> QED
      BY <1>3, <3>1, <3>2, <3>4
  <2>4. CASE pass = 27
    <3>1. fn'[g] = IF fn[g].unprotected /\ EffectivelyProtected(g) THEN Clear(fn[g]) ELSE fn[g]
      BY <1>1, <2>4, Acts DEF RecomputeUnprotected, FnPass
    <3> QED
      BY <1>3, <3>1
  <2>5. CASE pass \notin {1, 14, 21, 27}
    BY <1>1, <1>3, <2>5
  <2> QED
    BY <2>1, <2>2, <2>3, <2>4, <2>5
<1>7. fn'[g].escalate = FALSE
  <2>1. CASE pass = 1
    BY <1>1, <2>1, Fresh
  <2>2. CASE pass = 16
    <3>1. fn'[g].escalate = \E v \in Svs : g \in Risky(v)
      BY <1>1, <1>4, <2>2, Acts DEF Escalation
    <3>2. \A v : g \notin Risky(v)
      BY <1>3 DEF Risky
    <3>3. (\E v \in Svs : g \in Risky(v)) = FALSE
      BY <3>2
    <3> QED
      BY <3>1, <3>3
  <2>3. CASE pass \notin {1, 16}
    BY <1>1, <1>3, <2>3
  <2> QED
    BY <2>1, <2>2, <2>3
<1>8. pass' > 26 /\ fn'[f].design => fn'[g].design
  <2>1. CASE pass = 26
    <3> DEFINE some == \E c \in Contracts : prog.con[c].gov
               D(h) == /\ some
                       /\ prog.con[Src(h).contract].gov \/ fn[h].acType \in StrictTypes
                       /\ WritesAccess(h)
                       /\ fn[h].conf >= 800
    <3>1. fn'[f].design = D(f) /\ fn'[g].design = D(g)
      BY <1>1, <1>4, <2>1, Acts, ZenonT(40) DEF Governance
    <3>2. fn[g].acType \in StrictTypes
      BY <2>1 DEF Stronger, StrictTypes
    <3>3. WritesAccess(f) => WritesAccess(g)
      BY PairProtection
    <3>4. fn[f].conf >= 800 => fn[g].conf >= 800
      <4>1. fn[f].conf <= fn[g].conf /\ fn[f].conf \in Int
        <5>1. fn[f].conf \in Int
          <6>1. fn[f].conf \in 0..1000
            BY ZenonT(40) DEF Confident
          <6> QED
            BY <6>1
        <5> QED
          BY <5>1 DEF Stronger
      <4> QED
        BY <1>2, <4>1
    <3>5. D(f) => D(g)
      BY <3>2, <3>3, <3>4
    <3> QED
      BY <3>1, <3>5, ZenonT(40)
  <2>2. CASE pass > 26
    <3>1. /\ fn'[f].design = fn[f].design /\ fn'[g].design = fn[g].design
      <4>1. FnOnly(FnSet[pass])
        BY <1>1, Frame DEF Sets
      <4>2. "design" \notin FnSet[pass]
        BY <1>1, <2>2 DEF FnSet
      <4> QED
        BY <1>1, <1>4, <4>1, <4>2 DEF FnOnly
    <3> QED
      BY <1>3, <2>2, <3>1
  <2> QED
    BY <1>1, <2>1, <2>2
<1> QED
  BY <1>5, <1>6, <1>7, <1>8

LEMMA StrongerStep ==
  ASSUME GuardInv, Next, NEW f, NEW g, Pair(f, g), Confident(f), Confident(g),
         Stronger(f, g), Alike(f, g)
  PROVE  Stronger(f, g)'
BY StrongerMarks, StrongerType, StrongerConfidence, ZenonT(60) DEF Stronger

-----------------------------------------------------------------------------
(* Sequences and chains, where no state of the two leads to other          *)
(* functions: the only step from one is to the other.                      *)

LEMMA PairState ==
  ASSUME NEW f, NEW g, Pair(f, g), GuardInv, Propagation, Alone(f), Alone(g), pass > 3
  PROVE  /\ StateWrites(f) = WriteEdges(f) /\ StateWrites(g) = WriteEdges(f)
         /\ StateReads(g) = StateReads(f) /\ StateReads(f) \cap WriteEdges(f) = {}
         /\ Shared(f, g) = WriteEdges(f) /\ Shared(g, f) = WriteEdges(f)
         /\ DepType(f, g) = "write_write" /\ DepType(g, f) = "write_write"
         /\ Depends(f, g) <=> Depends(g, f)
         /\ Apart(f, g) => \A h \in Fns \ {f, g} : ~Depends(g, h)
<1>1. f \in Fns /\ g \in Fns /\ f # g /\ Src(g).contract = Src(f).contract
  BY TwinBodies, TwinSource DEF Pair
<1>2. /\ WriteEdges(g) = WriteEdges(f) /\ ReadEdges(g) = ReadEdges(f)
      /\ CallEdges(f) = {} /\ CallEdges(g) = {}
  BY TwinSets
<1>3. fn[f].propagated = WriteEdges(f) /\ fn[g].propagated = WriteEdges(g)
  BY <1>1, <1>2, AloneFacts
<1>4. StateWrites(f) = WriteEdges(f) /\ StateWrites(g) = WriteEdges(f)
  BY <1>2, <1>3 DEF StateWrites
<1>5. StateReads(g) = StateReads(f) /\ StateReads(f) \cap WriteEdges(f) = {}
  BY <1>2 DEF StateReads, ReadEdges
<1>6. Shared(f, g) = WriteEdges(f) /\ Shared(g, f) = WriteEdges(f)
  BY <1>4, <1>5 DEF Shared
<1>7. DepType(f, g) = "write_write" /\ DepType(g, f) = "write_write"
  BY <1>4, <1>5 DEF DepType
<1>8. Depends(f, g) <=> Depends(g, f)
  BY <1>1, <1>6 DEF Depends
<1>9. \A h : Shared(g, h) = Shared(f, h)
  BY <1>4 DEF Shared
<1>10. Apart(f, g) => \A h \in Fns \ {f, g} : ~Depends(g, h)
  BY <1>1, <1>9 DEF Apart, Depends
<1> QED
  BY <1>4, <1>5, <1>6, <1>7, <1>8, <1>10

LEMMA PairDangers ==
  ASSUME NEW f, NEW g, Pair(f, g), GuardInv, Propagation, Alone(f), Alone(g), pass > 3,
         fn[g].protected
  PROVE  /\ Dangers(g, f) \subseteq Dangers(f, g)
         /\ "ACCOUNTING_MANIPULATION" \notin Dangers(g, f)
         /\ Entry(f) => (Dangers(f, g) = {} <=> Dangers(g, f) = {})
<1> DEFINE tags == TagsOf(WriteEdges(f))
           bare == ~fn[f].protected
           A(c) == {"ACCOUNTING_MANIPULATION" : t \in {x \in tags : x = "ACCOUNTING" /\ c}}
           P == {"PRIVILEGE_CHAIN" : t \in tags \cap {"ACCESS"}}
           R == {"REWARD_INFLATION" : t \in tags \cap {"REWARD"}}
           C == {"CAP_BYPASS_SEQUENCE" : t \in tags \cap {"CAP"}}
           I == IF Entry(f) /\ bare THEN {"INVARIANT_BREAK"} ELSE {}
           rest == P \cup R \cup C \cup I
<1>1. /\ Shared(f, g) = WriteEdges(f) /\ Shared(g, f) = WriteEdges(f)
      /\ DepType(f, g) = "write_write" /\ DepType(g, f) = "write_write"
  BY PairState
<1>2. Entry(g) <=> Entry(f)
  BY TwinSource
<1>3. /\ DepType(f, g) # "write_read" /\ Entry(f) /\ Entry(g) /\ ~(fn[f].protected /\ fn[g].protected)
         <=> Entry(f) /\ bare
      /\ DepType(g, f) # "write_read" /\ Entry(g) /\ Entry(f) /\ ~(fn[g].protected /\ fn[f].protected)
         <=> Entry(f) /\ bare
  BY <1>1, <1>2
<1>4. {x \in tags : x = "ACCOUNTING" /\ (bare \/ (DepType(f, g) = "write_read" /\ ~fn[g].protected))}
         = {x \in tags : x = "ACCOUNTING" /\ bare}
  BY <1>1
<1>5. {x \in tags : x = "ACCOUNTING" /\ (~fn[g].protected
                                          \/ (DepType(g, f) = "write_read" /\ ~fn[f].protected))} = {}
  BY <1>1
<1>6. Dangers(f, g) = IF A(bare) \cup rest = {} /\ bare /\ tags # {} THEN {"UNGUARDED_STATE_INFLUENCE"}
                      ELSE A(bare) \cup rest
  <2> HIDE DEF tags
  <2> QED
    BY <1>1, <1>3, <1>4 DEF Dangers, tags
<1>7. Dangers(g, f) = rest
  BY <1>1, <1>3, <1>5 DEF Dangers
<1>8. "ACCOUNTING_MANIPULATION" \notin rest
  OBVIOUS
<1>9. Entry(f) /\ bare => rest # {}
  OBVIOUS
<1>10. ~bare => A(bare) = {}
  OBVIOUS
<1> HIDE DEF rest, A, tags
<1> QED
  BY <1>6, <1>7, <1>8, <1>9, <1>10

LEMMA CountTwo ==
  ASSUME NEW S, S \subseteq {1, 2}
  PROVE  Cardinality(S) = (IF 1 \in S THEN 1 ELSE 0) + (IF 2 \in S THEN 1 ELSE 0)
<1>1. Cardinality({1}) = 1 /\ Cardinality({2}) = 1 /\ Cardinality({}) = 0
  BY FS_Singleton, FS_EmptySet
<1>2. Cardinality({1, 2}) = 2
  <2>1. IsFiniteSet({1})
    BY FS_Singleton
  <2>a. 2 \notin {1}
    OBVIOUS
  <2>2. Cardinality({1} \cup {2}) = Cardinality({1}) + 1
    BY <2>1, <2>a, FS_AddElement
  <2>3. {1} \cup {2} = {1, 2}
    OBVIOUS
  <2> QED
    BY <1>1, <2>2, <2>3
<1>3. CASE 1 \in S /\ 2 \in S
  <2>1. S = {1, 2}
    BY <1>3
  <2> QED
    BY <1>2, <1>3, <2>1
<1>4. CASE 1 \in S /\ 2 \notin S
  <2>1. S = {1}
    BY <1>4
  <2> QED
    BY <1>1, <1>4, <2>1
<1>5. CASE 1 \notin S /\ 2 \in S
  <2>1. S = {2}
    BY <1>5
  <2> QED
    BY <1>1, <1>5, <2>1
<1>6. CASE 1 \notin S /\ 2 \notin S
  <2>1. S = {}
    BY <1>6
  <2> QED
    BY <1>1, <1>6, <2>1
<1> QED
  BY <1>3, <1>4, <1>5, <1>6

(* What bars the way along two functions.                                  *)
LEMMA TwoSteps ==
  ASSUME NEW a, NEW b
  PROVE  /\ DOMAIN <<a, b>> = {1, 2} /\ Len(<<a, b>>) = 2
         /\ Cardinality(Barred(<<a, b>>)) = If(Guarded(a), 1) + If(Guarded(b) /\ ~Mutated(a), 1)
         /\ (\E i \in Barred(<<a, b>>) : fn[<<a, b>>[i]].acType \in StrictTypes)
               <=> \/ Guarded(a) /\ fn[a].acType \in StrictTypes
                   \/ Guarded(b) /\ ~Mutated(a) /\ fn[b].acType \in StrictTypes
         /\ Cardinality(Untouched(<<a, b>>))
               = If(fn[a].conf >= 800 /\ Targets(a) # {}, 1)
                   + If(fn[b].conf >= 800 /\ Targets(b) # {} /\ WriteEdges(a) \cap Targets(b) = {}, 1)
         /\ {i \in 2..Len(<<a, b>>) : Says(<<a, b>>[i], "constant_require")}
               = IF Says(b, "constant_require") THEN {2} ELSE {}
<1> DEFINE c == <<a, b>>
<1>1. DOMAIN c = {1, 2} /\ Len(c) = 2 /\ c[1] = a /\ c[2] = b
  OBVIOUS
<1>2. 1..(1 - 1) = {} /\ 1..(2 - 1) = {1} /\ 2..2 = {2}
  OBVIOUS
<1> HIDE DEF c
<1>3. /\ Barred(c) \subseteq {1, 2}
      /\ 1 \in Barred(c) <=> Guarded(a)
      /\ 2 \in Barred(c) <=> Guarded(b) /\ ~Mutated(a)
  BY <1>1, <1>2 DEF Barred
<1>4. /\ Untouched(c) \subseteq {1, 2}
      /\ 1 \in Untouched(c) <=> fn[a].conf >= 800 /\ Targets(a) # {}
      /\ 2 \in Untouched(c) <=> fn[b].conf >= 800 /\ Targets(b) # {}
                                /\ WriteEdges(a) \cap Targets(b) = {}
  BY <1>1, <1>2 DEF Untouched
<1>5. Cardinality(Barred(c)) = If(Guarded(a), 1) + If(Guarded(b) /\ ~Mutated(a), 1)
  BY <1>3, CountTwo DEF If
<1>6. Cardinality(Untouched(c))
         = If(fn[a].conf >= 800 /\ Targets(a) # {}, 1)
             + If(fn[b].conf >= 800 /\ Targets(b) # {} /\ WriteEdges(a) \cap Targets(b) = {}, 1)
  BY <1>4, CountTwo DEF If
<1>7. (\E i \in Barred(c) : fn[c[i]].acType \in StrictTypes)
         <=> \/ Guarded(a) /\ fn[a].acType \in StrictTypes
             \/ Guarded(b) /\ ~Mutated(a) /\ fn[b].acType \in StrictTypes
  BY <1>1, <1>3
<1>8. {i \in 2..Len(c) : Says(c[i], "constant_require")} = IF Says(b, "constant_require") THEN {2} ELSE {}
  BY <1>1, <1>2
<1> QED
  BY <1>1, <1>5, <1>6, <1>7, <1>8 DEF c

LEMMA PairFeasibility ==
  ASSUME NEW f, NEW g, fn[g].protected, fn[g].acType \in StrictTypes, ~fn[g].escalate,
         fn[f].conf >= 800 => fn[g].conf >= 800,
         fn[g].sensitiveStore = fn[f].sensitiveStore, fn[g].acMods = fn[f].acMods,
         WriteEdges(g) = WriteEdges(f), \A h : Says(g, h) <=> Says(f, h)
  PROVE  /\ Feasibility(<<g, f>>) \in Int /\ Feasibility(<<f, g>>) \in Int
         /\ Feasibility(<<g, f>>) <= Feasibility(<<f, g>>)
<1> DEFINE n(a, b) == 100 - 50 * (If(Guarded(a), 1) + If(Guarded(b) /\ ~Mutated(a), 1))
                        - 20 * (IF Says(b, "constant_require") THEN 1 ELSE 0)
                        - 30 * (If(fn[a].conf >= 800 /\ Targets(a) # {}, 1)
                                + If(fn[b].conf >= 800 /\ Targets(b) # {}
                                     /\ WriteEdges(a) \cap Targets(b) = {}, 1))
                        - (IF Says(a, "block_time") \/ Says(b, "block_time") THEN 15 ELSE 0)
           none(a, b) == \/ ~CanAttack(a) /\ ~CanAttack(b)
                         \/ /\ \/ Guarded(a) /\ fn[a].acType \in StrictTypes
                               \/ Guarded(b) /\ ~Mutated(a) /\ fn[b].acType \in StrictTypes
                            /\ ~Mutated(a) /\ ~Mutated(b)
<1>1. ASSUME NEW a, NEW b
      PROVE  Feasibility(<<a, b>>) = IF none(a, b) THEN 0 ELSE Max({0, n(a, b)})
  <2> DEFINE c == <<a, b>>
  <2>1. DOMAIN c = {1, 2} /\ c[1] = a /\ c[2] = b
    OBVIOUS
  <2>2. Cardinality(IF Says(b, "constant_require") THEN {2} ELSE {})
           = IF Says(b, "constant_require") THEN 1 ELSE 0
    BY FS_Singleton, FS_EmptySet
  <2>3. /\ Cardinality(Barred(c)) = If(Guarded(a), 1) + If(Guarded(b) /\ ~Mutated(a), 1)
        /\ (\E i \in Barred(c) : fn[c[i]].acType \in StrictTypes)
              <=> \/ Guarded(a) /\ fn[a].acType \in StrictTypes
                  \/ Guarded(b) /\ ~Mutated(a) /\ fn[b].acType \in StrictTypes
        /\ Cardinality(Untouched(c))
               = If(fn[a].conf >= 800 /\ Targets(a) # {}, 1)
                   + If(fn[b].conf >= 800 /\ Targets(b) # {} /\ WriteEdges(a) \cap Targets(b) = {}, 1)
        /\ {i \in 2..Len(c) : Says(c[i], "constant_require")}
              = IF Says(b, "constant_require") THEN {2} ELSE {}
    BY TwoSteps
  <2> HIDE DEF c
  <2>4. /\ (\A i \in DOMAIN c : ~CanAttack(c[i])) <=> ~CanAttack(a) /\ ~CanAttack(b)
        /\ (\A i \in DOMAIN c : ~Mutated(c[i])) <=> ~Mutated(a) /\ ~Mutated(b)
        /\ (\E i \in DOMAIN c : Says(c[i], "block_time")) <=> Says(a, "block_time") \/ Says(b, "block_time")
    BY <2>1
  <2>5. Feasibility(c) = IF none(a, b) THEN 0 ELSE Max({0, n(a, b)})
    BY <2>2, <2>3, <2>4, ZenonT(40) DEF Feasibility
  <2> QED
    BY <2>5 DEF c
<1>2. Targets(g) = Targets(f)
  BY DEF Targets
<1>3. Guarded(g) /\ (Mutated(g) => Mutated(f))
  BY DEF Guarded, Mutated
<1>4. none(f, g) => none(g, f)
  BY <1>3
<1>5. If(Guarded(f), 1) + If(Guarded(g) /\ ~Mutated(f), 1)
         <= If(Guarded(g), 1) + If(Guarded(f) /\ ~Mutated(g), 1)
  BY <1>3 DEF If
<1>6. If(fn[f].conf >= 800 /\ Targets(f) # {}, 1)
         + If(fn[g].conf >= 800 /\ Targets(g) # {} /\ WriteEdges(f) \cap Targets(g) = {}, 1)
      <= If(fn[g].conf >= 800 /\ Targets(g) # {}, 1)
         + If(fn[f].conf >= 800 /\ Targets(f) # {} /\ WriteEdges(g) \cap Targets(f) = {}, 1)
  BY <1>2 DEF If
<1>7. \A c : If(c, 1) \in Int
  BY DEF If
<1>8. n(f, g) \in Int /\ n(g, f) \in Int /\ n(g, f) <= n(f, g)
  BY <1>5, <1>6, <1>7
<1> HIDE DEF n, none
<1>9. /\ Max({0, n(f, g)}) = IF 0 >= n(f, g) THEN 0 ELSE n(f, g)
      /\ Max({0, n(g, f)}) = IF 0 >= n(g, f) THEN 0 ELSE n(g, f)
  BY <1>8, GreaterOf
<1> QED
  BY <1>1, <1>4, <1>8, <1>9

LEMMA WeightsGrow ==
  ASSUME NEW w, Weighing(w), NEW B \in SUBSET DOMAIN w, NEW A \in SUBSET B
  PROVE  Total(w, A) <= Total(w, B) /\ Total(w, A) \in Nat /\ Total(w, B) \in Nat
<1>1. IsFiniteSet(B) /\ \A k \in B : w[k] \in Nat
  BY FS_Subset DEF Weighing
<1> QED
  BY <1>1, TotalGrows

(* What the pass finds from a to b.                                        *)
Found(a, b) ==
    [reader |-> b, shared |-> Shared(a, b), tags |-> TagsOf(Shared(a, b)),
     dangers |-> Dangers(a, b), score |-> DangerScore(a, b)]
WorstScore(f) == Max({0} \cup {s.score : s \in SequencesFrom(f)})

LEMMA FoundBetween ==
  ASSUME NEW a, NEW b, Out(a, "STATE_DEPENDENCY") \subseteq {b}
  PROVE  /\ SequencesFrom(a) = IF /\ b \in Out(a, "STATE_DEPENDENCY")
                                  /\ Reachable(a) /\ Reachable(b) /\ Dangers(a, b) # {}
                               THEN {Found(a, b)} ELSE {}
         /\ WorstScore(a) = IF SequencesFrom(a) = {} THEN 0 ELSE Max({0, DangerScore(a, b)})
<1> DEFINE D == {h \in Out(a, "STATE_DEPENDENCY") : Reachable(a) /\ Reachable(h) /\ Dangers(a, h) # {}}
<1>1. SequencesFrom(a) = {Found(a, h) : h \in D}
  BY DEF SequencesFrom, Found
<1>2. D = IF /\ b \in Out(a, "STATE_DEPENDENCY")
             /\ Reachable(a) /\ Reachable(b) /\ Dangers(a, b) # {}
          THEN {b} ELSE {}
  OBVIOUS
<1> HIDE DEF D
<1>3. SequencesFrom(a) = IF /\ b \in Out(a, "STATE_DEPENDENCY")
                            /\ Reachable(a) /\ Reachable(b) /\ Dangers(a, b) # {}
                         THEN {Found(a, b)} ELSE {}
  BY <1>1, <1>2
<1>4. Found(a, b).score = DangerScore(a, b)
  BY DEF Found
<1>5. CASE SequencesFrom(a) = {}
  <2>1. {0} \cup {s.score : s \in SequencesFrom(a)} = {0, 0}
    BY <1>5
  <2>2. Max({0, 0}) = 0
    BY GreaterOf
  <2> QED
    BY <1>3, <1>5, <2>1, <2>2 DEF WorstScore
<1>6. CASE SequencesFrom(a) # {}
  <2>1. SequencesFrom(a) = {Found(a, b)}
    BY <1>3, <1>6
  <2>2. {0} \cup {s.score : s \in SequencesFrom(a)} = {0, DangerScore(a, b)}
    BY <1>4, <2>1
  <2> QED
    BY <1>3, <1>6, <2>2 DEF WorstScore
<1> QED
  BY <1>5, <1>6

LEMMA PairOut ==
  ASSUME NEW f, NEW g, Pair(f, g), Apart(f, g), GuardInv, Propagation, Depended,
         Alone(f), Alone(g), pass > 30
  PROVE  /\ Out(f, "STATE_DEPENDENCY") \subseteq {g} /\ Out(g, "STATE_DEPENDENCY") \subseteq {f}
         /\ g \in Out(f, "STATE_DEPENDENCY") <=> f \in Out(g, "STATE_DEPENDENCY")
         /\ Reachable(f) <=> Entry(f)
         /\ Reachable(g) <=> Entry(f)
<1>0. pass > 3 /\ pass > 4
  BY DEF GuardInv
<1>1. f \in Fns /\ g \in Fns /\ (Entry(g) <=> Entry(f))
  BY TwinSource DEF Pair
<1>2. \A a \in Fns, b \in Fns : b \in Out(a, "STATE_DEPENDENCY") <=> Depends(a, b)
  BY DEF Depended, Out
<1>3. \A a, b : Depends(a, b) => a # b
  BY DEF Depends
<1>4. Depends(f, g) <=> Depends(g, f)
  BY <1>0, PairState
<1>5. \A h \in Fns \ {f, g} : ~Depends(f, h) /\ ~Depends(g, h)
  BY <1>0, PairState DEF Apart
<1>6. \A a : Out(a, "STATE_DEPENDENCY") \subseteq Fns
  BY DEF Out
<1>7. Out(f, "STATE_DEPENDENCY") \subseteq {g} /\ Out(g, "STATE_DEPENDENCY") \subseteq {f}
  BY <1>1, <1>2, <1>3, <1>5, <1>6
<1>8. g \in Out(f, "STATE_DEPENDENCY") <=> f \in Out(g, "STATE_DEPENDENCY")
  BY <1>1, <1>2, <1>4
<1>9. (Reachable(f) <=> Entry(f)) /\ (Reachable(g) <=> Entry(f))
  BY <1>0, <1>1 DEF Alone, Reachable
<1> QED
  BY <1>7, <1>8, <1>9

LEMMA PairSequences ==
  ASSUME NEW f, NEW g, Pair(f, g), Apart(f, g), GuardInv, Propagation, Depended,
         Alone(f), Alone(g), pass > 30, fn[g].protected
  PROVE  /\ SequencesFrom(f) \in {{}, {Found(f, g)}} /\ SequencesFrom(g) \in {{}, {Found(g, f)}}
         /\ SequencesFrom(g) = {} <=> SequencesFrom(f) = {}
         /\ WorstScore(g) <= WorstScore(f)
         /\ Dangers(g, f) \subseteq Dangers(f, g)
         /\ "ACCOUNTING_MANIPULATION" \notin Dangers(g, f)
<1>1. /\ Out(f, "STATE_DEPENDENCY") \subseteq {g} /\ Out(g, "STATE_DEPENDENCY") \subseteq {f}
      /\ g \in Out(f, "STATE_DEPENDENCY") <=> f \in Out(g, "STATE_DEPENDENCY")
      /\ Reachable(f) <=> Entry(f)
      /\ Reachable(g) <=> Entry(f)
  BY PairOut
<1>2. /\ Dangers(g, f) \subseteq Dangers(f, g)
      /\ "ACCOUNTING_MANIPULATION" \notin Dangers(g, f)
      /\ Entry(f) => (Dangers(f, g) = {} <=> Dangers(g, f) = {})
  <2>1. pass > 3
    BY DEF GuardInv
  <2> QED
    BY <2>1, PairDangers
<1>3. /\ SequencesFrom(f) = IF /\ g \in Out(f, "STATE_DEPENDENCY")
                               /\ Reachable(f) /\ Reachable(g) /\ Dangers(f, g) # {}
                            THEN {Found(f, g)} ELSE {}
      /\ WorstScore(f) = IF SequencesFrom(f) = {} THEN 0 ELSE Max({0, DangerScore(f, g)})
  BY <1>1, FoundBetween
<1>4. /\ SequencesFrom(g) = IF /\ f \in Out(g, "STATE_DEPENDENCY")
                               /\ Reachable(g) /\ Reachable(f) /\ Dangers(g, f) # {}
                            THEN {Found(g, f)} ELSE {}
      /\ WorstScore(g) = IF SequencesFrom(g) = {} THEN 0 ELSE Max({0, DangerScore(g, f)})
  BY <1>1, FoundBetween
<1>5. SequencesFrom(g) = {} <=> SequencesFrom(f) = {}
  BY <1>1, <1>2, <1>3, <1>4
<1>6. /\ DangerScore(g, f) <= DangerScore(f, g)
      /\ DangerScore(g, f) \in Nat /\ DangerScore(f, g) \in Nat
  <2>1. Dangers(f, g) \in SUBSET DOMAIN DangerWeights /\ Weighing(DangerWeights)
    BY NamesWeighed, AllWeighing
  <2> QED
    BY <1>2, <2>1, WeightsGrow DEF DangerScore
<1>7. /\ Max({0, DangerScore(f, g)}) = IF 0 >= DangerScore(f, g) THEN 0 ELSE DangerScore(f, g)
      /\ Max({0, DangerScore(g, f)}) = IF 0 >= DangerScore(g, f) THEN 0 ELSE DangerScore(g, f)
  BY <1>6, GreaterOf
<1>8. WorstScore(g) <= WorstScore(f)
  BY <1>3, <1>4, <1>5, <1>6, <1>7
<1>9. SequencesFrom(f) \in {{}, {Found(f, g)}} /\ SequencesFrom(g) \in {{}, {Found(g, f)}}
  BY <1>3, <1>4
<1> QED
  BY <1>2, <1>5, <1>8, <1>9

(* From the pass for sequences on: each has one at most, to the other, and *)
(* g's is no more dangerous.                                               *)
OneTo(f, g) ==
    /\ \A s \in fn[f].sequences : {"reader", "dangers"} \subseteq DOMAIN s /\ s.reader = g
    /\ \A s \in fn[f].sequences, t \in fn[f].sequences : s = t

InSequence(f, g) ==
    /\ OneTo(f, g) /\ OneTo(g, f)
    /\ fn[g].sequences = {} <=> fn[f].sequences = {}
    /\ \A s \in fn[g].sequences :
          /\ "ACCOUNTING_MANIPULATION" \notin s.dangers
          /\ "PRIVILEGE_CHAIN" \in s.dangers =>
                \A t \in fn[f].sequences : "PRIVILEGE_CHAIN" \in t.dangers
    /\ fn[g].seqScore <= fn[f].seqScore

(* From the pass for chains on: each has one at most, of the two alone.    *)
InChain(f, g) ==
    /\ fn[g].longest = fn[f].longest /\ fn[f].longest \in {0, 2}
    /\ fn[g].chainEntry <=> fn[f].chainEntry
    /\ fn[f].chains # {} => fn[f].chainEntry
    /\ fn[g].chains = {} <=> fn[f].chains = {}
    /\ \A c \in fn[f].chains : c.steps = <<f, g>> /\ c.feasibility \in Int
    /\ \A c \in fn[g].chains : c.steps = <<g, f>> /\ c.feasibility \in Int
    /\ \A c \in fn[g].chains, d \in fn[f].chains : c.feasibility <= d.feasibility
    /\ \A c \in fn[f].chains, d \in fn[f].chains : c = d
    /\ \A c \in fn[g].chains, d \in fn[g].chains : c = d

LEMMA LastSetters ==
  /\ \A k \in 1..38 \ {1, 31} : "seqScore" \notin FnSet[k]
  /\ \A k \in 1..38 \ {1, 32} : "longest" \notin FnSet[k] /\ "chainEntry" \notin FnSet[k]
  /\ \A k \in 1..38 \ {1, 33} : "issues" \notin FnSet[k] /\ "accounting" \notin FnSet[k]
  /\ \A k \in 1..38 \ {1, 35} : "safety" \notin FnSet[k]
  /\ \A k \in 1..38 \ {1, 37} : "target" \notin FnSet[k]
<1>1. \A k \in 1..38 \ {1, 31} : "seqScore" \notin FnSet[k]
  BY DEF FnSet
<1>2. \A k \in 1..38 \ {1, 32} : "longest" \notin FnSet[k]
  BY DEF FnSet
<1>3. \A k \in 1..38 \ {1, 32} : "chainEntry" \notin FnSet[k]
  BY DEF FnSet
<1>4. \A k \in 1..38 \ {1, 33} : "issues" \notin FnSet[k]
  BY DEF FnSet
<1>5. \A k \in 1..38 \ {1, 33} : "accounting" \notin FnSet[k]
  BY DEF FnSet
<1>6. \A k \in 1..38 \ {1, 35} : "safety" \notin FnSet[k]
  BY DEF FnSet
<1>7. \A k \in 1..38 \ {1, 37} : "target" \notin FnSet[k]
  BY DEF FnSet
<1> QED
  BY <1>1, <1>2, <1>3, <1>4, <1>5, <1>6, <1>7

LEMMA UnassignedLast ==
  ASSUME Shape, Next, NEW f \in Fns
  PROVE  /\ pass \notin {1, 31} => fn'[f].seqScore = fn[f].seqScore
         /\ pass \notin {1, 32} => fn'[f].longest = fn[f].longest /\ fn'[f].chainEntry = fn[f].chainEntry
         /\ pass \notin {1, 33} => fn'[f].issues = fn[f].issues /\ fn'[f].accounting = fn[f].accounting
         /\ pass \notin {1, 35} => fn'[f].safety = fn[f].safety
         /\ pass \notin {1, 37} => fn'[f].target = fn[f].target
<1>1. pass \in 1..38 /\ FnOnly(FnSet[pass])
  BY Frame DEF Sets
<1>2. {"seqScore", "longest", "chainEntry", "issues", "accounting", "safety", "target"} \subseteq FnAttributes
  BY DEF FnAttributes
<1>3. \A a \in FnAttributes : a \notin FnSet[pass] => fn'[f][a] = fn[f][a]
  BY <1>1 DEF FnOnly
<1>4. pass \notin {1, 31} => fn'[f].seqScore = fn[f].seqScore
  BY <1>1, <1>2, <1>3, LastSetters
<1>5. pass \notin {1, 32} => fn'[f].longest = fn[f].longest /\ fn'[f].chainEntry = fn[f].chainEntry
  BY <1>1, <1>2, <1>3, LastSetters
<1>6. pass \notin {1, 33} => fn'[f].issues = fn[f].issues /\ fn'[f].accounting = fn[f].accounting
  BY <1>1, <1>2, <1>3, LastSetters
<1>7. pass \notin {1, 35} => fn'[f].safety = fn[f].safety
  BY <1>1, <1>2, <1>3, LastSetters
<1>8. pass \notin {1, 37} => fn'[f].target = fn[f].target
  BY <1>1, <1>2, <1>3, LastSetters
<1> QED
  BY <1>4, <1>5, <1>6, <1>7, <1>8

LEMMA TemptedKeeps ==
  ASSUME NEW f, NEW s, {"reader", "dangers"} \subseteq DOMAIN s
  PROVE  /\ DOMAIN Tempted(f, s) = DOMAIN s /\ Tempted(f, s).reader = s.reader
         /\ \A d \in {"PRIVILEGE_CHAIN", "ACCOUNTING_MANIPULATION"} :
               d \in Tempted(f, s).dangers <=> d \in s.dangers
<1> DEFINE more == s.dangers \cup {"TEMPORAL_TAINT_EXPLOIT"}
           t == [s EXCEPT !.dangers = more, !.score = @ + 50]
<1>1. Tempted(f, s) = s \/ Tempted(f, s) = t
  BY DEF Tempted
<1>2. DOMAIN t = DOMAIN s /\ t.reader = s.reader /\ t.dangers = more
  OBVIOUS
<1>3. \A d \in {"PRIVILEGE_CHAIN", "ACCOUNTING_MANIPULATION"} : d \in more <=> d \in s.dangers
  OBVIOUS
<1> HIDE DEF t, more
<1> QED
  BY <1>1, <1>2, <1>3

LEMMA SequencesOfPair ==
  ASSUME NEW f, NEW g, Pair(f, g), Apart(f, g), GuardInv, Propagation, Depended, Next,
         Alone(f), Alone(g), pass > 30, fn[g].protected, pass > 31 => InSequence(f, g)
  PROVE  InSequence(f, g)'
<1>1. pass \in 1..38 /\ f \in Fns /\ g \in Fns /\ Shape
  BY Unassigned DEF GuardInv, Pair
<1>2. \A h \in {f, g} : {"sequences", "seqScore"} \subseteq DOMAIN fn[h]
  BY <1>1 DEF Shape, FnAttributes
<1>3. CASE pass = 31
  <2>1. DangerousSequences
    BY <1>3, Acts
  <2>2. \A h \in {f, g} : fn'[h] = [fn[h] EXCEPT !.sequences = SequencesFrom(h), !.seqScore = WorstScore(h)]
    BY <1>1, <2>1 DEF DangerousSequences, FnPass, WorstScore
  <2>3. \A h \in {f, g} : fn'[h].sequences = SequencesFrom(h) /\ fn'[h].seqScore = WorstScore(h)
    BY <1>2, <2>2
  <2>4. /\ SequencesFrom(f) \in {{}, {Found(f, g)}} /\ SequencesFrom(g) \in {{}, {Found(g, f)}}
        /\ SequencesFrom(g) = {} <=> SequencesFrom(f) = {}
        /\ WorstScore(g) <= WorstScore(f)
        /\ Dangers(g, f) \subseteq Dangers(f, g)
        /\ "ACCOUNTING_MANIPULATION" \notin Dangers(g, f)
    BY PairSequences
  <2>5. \A a, b : {"reader", "dangers"} \subseteq DOMAIN Found(a, b) /\ Found(a, b).reader = b
                  /\ Found(a, b).dangers = Dangers(a, b)
    BY DEF Found
  <2>6. \A s \in fn'[f].sequences : s = Found(f, g)
    BY <2>3, <2>4
  <2>7. \A s \in fn'[g].sequences : s = Found(g, f)
    BY <2>3, <2>4
  <2>8. OneTo(f, g)' /\ OneTo(g, f)'
    BY <2>5, <2>6, <2>7 DEF OneTo
  <2>9. \A s \in fn'[g].sequences :
           /\ "ACCOUNTING_MANIPULATION" \notin s.dangers
           /\ "PRIVILEGE_CHAIN" \in s.dangers =>
                \A t \in fn'[f].sequences : "PRIVILEGE_CHAIN" \in t.dangers
    BY <2>4, <2>5, <2>6, <2>7
  <2>10. (fn'[g].sequences = {} <=> fn'[f].sequences = {}) /\ fn'[g].seqScore <= fn'[f].seqScore
    BY <2>3, <2>4
  <2> QED
    BY <2>8, <2>9, <2>10 DEF InSequence
<1>4. CASE pass = 32
  <2>1. ExploitChains
    BY <1>4, Acts
  <2>2. \A h \in {f, g} : fn'[h].sequences = {Tempted(h, s) : s \in fn[h].sequences}
    BY <1>1, <1>2, <2>1 DEF ExploitChains, FnPass
  <2>3. \A h \in {f, g} : fn'[h].seqScore = fn[h].seqScore
    BY <1>1, <1>4, UnassignedLast
  <2>4. InSequence(f, g)
    BY <1>4
  <2>5. \A h \in {f, g} : \A s \in fn[h].sequences : {"reader", "dangers"} \subseteq DOMAIN s
    BY <2>4 DEF InSequence, OneTo
  <2>6. \A h \in {f, g} : \A s \in fn[h].sequences :
           /\ DOMAIN Tempted(h, s) = DOMAIN s /\ Tempted(h, s).reader = s.reader
           /\ \A d \in {"PRIVILEGE_CHAIN", "ACCOUNTING_MANIPULATION"} :
                 d \in Tempted(h, s).dangers <=> d \in s.dangers
    BY <2>5, TemptedKeeps
  <2>7. OneTo(f, g)' /\ OneTo(g, f)'
    BY <2>2, <2>4, <2>6 DEF OneTo, InSequence
  <2>8. \A s \in fn'[g].sequences :
           /\ "ACCOUNTING_MANIPULATION" \notin s.dangers
           /\ "PRIVILEGE_CHAIN" \in s.dangers =>
                \A t \in fn'[f].sequences : "PRIVILEGE_CHAIN" \in t.dangers
    BY <2>2, <2>4, <2>6 DEF InSequence
  <2>9. (fn'[g].sequences = {} <=> fn'[f].sequences = {}) /\ fn'[g].seqScore <= fn'[f].seqScore
    BY <2>2, <2>3, <2>4 DEF InSequence
  <2> QED
    BY <2>7, <2>8, <2>9 DEF InSequence
<1>5. CASE pass > 32
  <2>1. \A h \in {f, g} : fn'[h].sequences = fn[h].sequences /\ fn'[h].seqScore = fn[h].seqScore
    BY <1>1, <1>5, Unassigned, UnassignedLast
  <2>2. InSequence(f, g)
    BY <1>1, <1>5
  <2> QED
    BY <2>1, <2>2 DEF InSequence, OneTo
<1> QED
  BY <1>1, <1>3, <1>4, <1>5

(* The chain that a sequence from a to b starts, where b leads nowhere but *)
(* to a.                                                                   *)
LEMMA ChainBetween ==
  ASSUME NEW a, NEW b, Out(b, "STATE_DEPENDENCY") \subseteq {a}, OneTo(a, b),
         \A s \in fn[a].sequences : Reachable(a)
  PROVE  /\ fn[a].sequences = {} => ChainsFrom(a) = {} /\ Best(a, ChainsFrom(a)) = {}
         /\ fn[a].sequences # {} =>
               \E c : /\ ChainsFrom(a) = {c} /\ Best(a, ChainsFrom(a)) = {c}
                      /\ c.steps = <<a, b>> /\ c.feasibility = Feasibility(<<a, b>>)
<1>1. Extend(a, b) = <<a, b>>
  <2>1. Follows(b) \ {a, b} = {}
    BY DEF Follows
  <2> QED
    BY <2>1 DEF Extend
<1>2. CASE fn[a].sequences = {}
  <2>1. ChainsFrom(a) = {}
    BY <1>2 DEF ChainsFrom
  <2> QED
    BY <1>2, <2>1 DEF Best
<1>3. CASE fn[a].sequences # {}
  <2>1. PICK s \in fn[a].sequences : TRUE
    BY <1>3
  <2>2. fn[a].sequences = {s} /\ s.reader = b
    BY <2>1 DEF OneTo
  <2> DEFINE c == ChainOf(a, s)
  <2>3. ChainsFrom(a) = {c}
    BY <2>1, <2>2 DEF ChainsFrom
  <2>4. c.steps = <<a, b>> /\ c.feasibility = Feasibility(<<a, b>>)
    BY <1>1, <2>2 DEF ChainOf
  <2> HIDE DEF c
  <2>5. {d \in {c} : Better(a, d, c)} = {} \/ {d \in {c} : Better(a, d, c)} = {c}
    OBVIOUS
  <2>6. Cardinality({}) = 0 /\ Cardinality({c}) = 1
    BY FS_EmptySet, FS_Singleton
  <2>7. Cardinality({d \in {c} : Better(a, d, c)}) < Kept
    BY <2>5, <2>6 DEF Kept
  <2>8. \A x \in {c} : x = c
    OBVIOUS
  <2>9. Best(a, {c}) = {c}
    BY <2>7, <2>8 DEF Best
  <2> QED
    BY <1>3, <2>3, <2>4, <2>9
<1> QED
  BY <1>2, <1>3

LEMMA ChainsOfPair ==
  ASSUME NEW f, NEW g, Pair(f, g), Apart(f, g), AnswerInv, Propagation, Next,
         Alike(f, g), Alone(f), Alone(g), Confident(f), Confident(g), Stronger(f, g),
         pass > 31, InSequence(f, g),
         pass > 32 => InChain(f, g)
  PROVE  InChain(f, g)'
<1>1. /\ pass \in 1..38 /\ f \in Fns /\ g \in Fns /\ Shape /\ GuardInv /\ Depended
      /\ pass > 30 /\ pass > 5 /\ pass > 22
  BY Unassigned DEF AnswerInv, GuardInv, Pair
<1>2. \A h \in {f, g} : {"chains", "chainEntry", "longest"} \subseteq DOMAIN fn[h]
  BY <1>1 DEF Shape, FnAttributes
<1>3. CASE pass = 32
  <2>1. ExploitChains
    BY <1>3, Acts
  <2>2. \A h \in {f, g} : /\ fn'[h].chains = Best(h, ChainsFrom(h))
                           /\ fn'[h].chainEntry = (ChainsFrom(h) # {})
                           /\ fn'[h].longest = Max({0} \cup {Len(c.steps) : c \in ChainsFrom(h)})
    BY <1>1, <1>2, <2>1 DEF ExploitChains, FnPass
  <2>3. /\ Out(f, "STATE_DEPENDENCY") \subseteq {g} /\ Out(g, "STATE_DEPENDENCY") \subseteq {f}
        /\ Reachable(f) <=> Entry(f)
        /\ Reachable(g) <=> Entry(f)
    BY <1>1, PairOut
  <2>4. \A h \in {f, g} : fn[h].sequences # {} => Reachable(f) /\ Reachable(g)
    <3>1. \A h \in Fns : \A s \in fn[h].sequences : Follow(h, s)
      BY <1>3 DEF AnswerInv, FnAnswers
    <3>2. OneTo(f, g) /\ OneTo(g, f)
      BY DEF InSequence
    <3>3. \A s \in fn[f].sequences : Reachable(g)
      BY <1>1, <3>1, <3>2 DEF Follow, Linked, OneTo, Reachable
    <3>4. \A s \in fn[g].sequences : Reachable(f)
      BY <1>1, <3>1, <3>2 DEF Follow, Linked, OneTo, Reachable
    <3> QED
      BY <2>3, <3>3, <3>4
  <2>5. /\ fn[f].sequences = {} => ChainsFrom(f) = {} /\ Best(f, ChainsFrom(f)) = {}
        /\ fn[f].sequences # {} =>
               \E c : /\ ChainsFrom(f) = {c} /\ Best(f, ChainsFrom(f)) = {c}
                      /\ c.steps = <<f, g>> /\ c.feasibility = Feasibility(<<f, g>>)
    BY <2>3, <2>4, ChainBetween DEF InSequence
  <2>6. /\ fn[g].sequences = {} => ChainsFrom(g) = {} /\ Best(g, ChainsFrom(g)) = {}
        /\ fn[g].sequences # {} =>
               \E c : /\ ChainsFrom(g) = {c} /\ Best(g, ChainsFrom(g)) = {c}
                      /\ c.steps = <<g, f>> /\ c.feasibility = Feasibility(<<g, f>>)
    BY <2>3, <2>4, ChainBetween DEF InSequence
  <2>7. fn[g].sequences = {} <=> fn[f].sequences = {}
    BY DEF InSequence
  <2>8. /\ Feasibility(<<g, f>>) \in Int /\ Feasibility(<<f, g>>) \in Int
        /\ Feasibility(<<g, f>>) <= Feasibility(<<f, g>>)
    <3>1. /\ fn[g].protected /\ ~fn[g].escalate /\ fn[g].acType \in StrictTypes
          /\ fn[f].conf <= fn[g].conf
      BY <1>1 DEF Stronger, StrictTypes
    <3>2. fn[g].sensitiveStore = fn[f].sensitiveStore /\ fn[g].acMods = fn[f].acMods
      BY AlikeIs
    <3>3. WriteEdges(g) = WriteEdges(f) /\ \A h : Says(g, h) <=> Says(f, h)
      BY TwinSets, TwinSource
    <3>4. fn[f].conf >= 800 => fn[g].conf >= 800
      <4>1. fn[f].conf \in 0..1000 /\ fn[g].conf \in 0..1000
        BY ZenonT(40) DEF Confident
      <4>2. \A m \in 0..1000, n \in 0..1000 : m <= n /\ m >= 800 => n >= 800
        OBVIOUS
      <4> QED
        BY <3>1, <4>1, <4>2, ZenonT(40)
    <3> QED
      BY <3>1, <3>2, <3>3, <3>4, PairFeasibility
  <2>9. \A h \in {f, g} : \A c : ChainsFrom(h) = {c} /\ Len(c.steps) = 2 => fn'[h].longest = 2
    <3> SUFFICES ASSUME NEW h \in {f, g}, NEW c, ChainsFrom(h) = {c}, Len(c.steps) = 2
                 PROVE  fn'[h].longest = 2
      OBVIOUS
    <3> DEFINE S == ChainsFrom(h)
    <3>a. S = {c} /\ {Len(d.steps) : d \in {c}} = {Len(c.steps)}
      OBVIOUS
    <3> HIDE DEF S
    <3>b. {Len(d.steps) : d \in S} = {2}
      BY <3>a
    <3>1. {0} \cup {Len(d.steps) : d \in S} = {0, 2}
      BY <3>b
    <3> USE DEF S
    <3>2. Max({0, 2}) = 2
      BY GreaterOf
    <3> QED
      BY <2>2, <3>1, <3>2
  <2>10. Len(<<f, g>>) = 2 /\ Len(<<g, f>>) = 2
    OBVIOUS
  <2>11. CASE fn[f].sequences = {}
    <3>1. \A h \in {f, g} : ChainsFrom(h) = {} /\ fn'[h].chains = {}
      BY <2>2, <2>5, <2>6, <2>7, <2>11
    <3>2. fn'[f].longest = 0 /\ fn'[g].longest = 0
      <4>1. Max({0, 0}) = 0 /\ {0} \cup {Len(c.steps) : c \in {}} = {0, 0}
        BY GreaterOf
      <4> QED
        BY <2>2, <3>1, <4>1
    <3>3. fn'[f].chainEntry = FALSE /\ fn'[g].chainEntry = FALSE
      BY <2>2, <3>1
    <3> QED
      BY <3>1, <3>2, <3>3 DEF InChain
  <2>12. CASE fn[f].sequences # {}
    <3>1. PICK c : /\ ChainsFrom(f) = {c} /\ Best(f, ChainsFrom(f)) = {c}
                   /\ c.steps = <<f, g>> /\ c.feasibility = Feasibility(<<f, g>>)
      BY <2>5, <2>12
    <3>2. PICK d : /\ ChainsFrom(g) = {d} /\ Best(g, ChainsFrom(g)) = {d}
                   /\ d.steps = <<g, f>> /\ d.feasibility = Feasibility(<<g, f>>)
      BY <2>6, <2>7, <2>12
    <3>3. fn'[f].chains = {c} /\ fn'[g].chains = {d}
      BY <2>2, <3>1, <3>2
    <3>4. fn'[f].longest = 2 /\ fn'[g].longest = 2
      BY <2>9, <2>10, <3>1, <3>2
    <3>5. fn'[f].chainEntry = TRUE /\ fn'[g].chainEntry = TRUE
      BY <2>2, <3>1, <3>2
    <3> QED
      BY <2>8, <3>1, <3>2, <3>3, <3>4, <3>5 DEF InChain
  <2> QED
    BY <2>11, <2>12
<1>4. CASE pass > 32
  <2>1. \A h \in {f, g} : /\ fn'[h].chains = fn[h].chains /\ fn'[h].longest = fn[h].longest
                           /\ fn'[h].chainEntry = fn[h].chainEntry
    BY <1>1, <1>4, Unassigned, UnassignedLast
  <2>2. InChain(f, g)
    BY <1>4
  <2> QED
    BY <2>1, <2>2 DEF InChain
<1> QED
  BY <1>1, <1>3, <1>4

-----------------------------------------------------------------------------
(* The scores: no term of g's is the higher one, but for one that the      *)
(* safety score outweighs.                                                 *)

LEMMA PairFlags ==
  ASSUME NEW f, NEW g, Pair(f, g), GuardInv, Propagation, Alone(f), Alone(g), pass > 3,
         fn[g].protected, NEW r
  PROVE  /\ SupplyFlags(r, g) = SupplyFlags(r, f) /\ CapFlags(r, g) = CapFlags(r, f)
         /\ Flags(r, g) \subseteq Flags(r, f) /\ Violations(r, g) \subseteq Violations(r, f)
<1>1. /\ Src(g).contract = Src(f).contract /\ Src(g).view = Src(f).view
      /\ \A h : Says(g, h) <=> Says(f, h)
      /\ Entry(g) <=> Entry(f)
  BY TwinSource
<1>2. StateWrites(g) = StateWrites(f) /\ StateReads(g) = StateReads(f)
  BY PairState
<1>3. SupplyFlags(r, g) = SupplyFlags(r, f)
  BY <1>1, <1>2 DEF SupplyFlags
<1>4. CapFlags(r, g) = CapFlags(r, f)
  BY <1>1, <1>2 DEF CapFlags
<1>5. RewardFlags(r, g) \subseteq RewardFlags(r, f)
  BY <1>1, <1>2 DEF RewardFlags
<1>6. MonotonicFlags(r, g) \subseteq MonotonicFlags(r, f)
  BY <1>1, <1>2 DEF MonotonicFlags
<1>7. Flags(r, g) \subseteq Flags(r, f)
  BY <1>3, <1>4, <1>5, <1>6 DEF Flags
<1>8. \A role : InContract(r, g, role) = InContract(r, f, role)
  BY <1>1 DEF InContract
<1>9. \A h : SomeSays(g, h) <=> SomeSays(f, h)
  BY <1>1 DEF SomeSays
<1>10. Violations(r, g) \subseteq Violations(r, f)
  <2> DEFINE supply  == InContract(r, f, "SUPPLY")
             balance == InContract(r, f, "BALANCE")
             index   == InContract(r, f, "INDEX")
             w       == StateWrites(f)
             pays    == w \cap balance # {} /\ Entry(f)
             desync  == IF supply # {} /\ pays /\ ~Of(r, w, "SUPPLY") THEN {"SUPPLY_BALANCE_DESYNC"} ELSE {}
             mint(h) == IF Says(f, "mint") /\ ~SomeSays(f, "burn") /\ Entry(f) /\ ~fn[h].protected
                        THEN {"MINT_BURN_ASYMMETRY"} ELSE {}
             price   == IF /\ \E a, b \in supply : prog.var[a].assets /\ ~prog.var[b].assets
                           /\ w \cap supply # {} /\ Entry(f) /\ Says(f, "donation") /\ ~Says(f, "loss")
                        THEN {"SHARE_PRICE_MANIPULATION"} ELSE {}
             missing == IF index # {} /\ pays /\ StateReads(f) \cap index = {}
                        THEN {"INDEX_UPDATE_MISSING"} ELSE {}
  <2>1. Violations(r, f) = IF Src(f).view THEN {} ELSE desync \cup mint(f) \cup price \cup missing
    BY DEF Violations
  <2>2. Violations(r, g) = IF Src(f).view THEN {} ELSE desync \cup mint(g) \cup price \cup missing
    BY <1>1, <1>2, <1>8, <1>9 DEF Violations
  <2>3. mint(g) = {}
    OBVIOUS
  <2> HIDE DEF desync, mint, price, missing
  <2> QED
    BY <2>1, <2>2, <2>3
<1> QED
  BY <1>3, <1>4, <1>7, <1>10

AccountingScore(r, f) == Min({60, FlagScore(r, f)}) + Min({80, Total(Severity, Violations(r, f))})

LEMMA PairAccounting ==
  ASSUME NEW f, NEW g, Pair(f, g), GuardInv, Propagation, Alone(f), Alone(g), pass > 3,
         fn[g].protected, NEW r
  PROVE  AccountingScore(r, g) <= AccountingScore(r, f)
<1>1. /\ SupplyFlags(r, g) = SupplyFlags(r, f) /\ CapFlags(r, g) = CapFlags(r, f)
      /\ Flags(r, g) \subseteq Flags(r, f) /\ Violations(r, g) \subseteq Violations(r, f)
  BY PairFlags
<1>2. /\ Flags(r, f) \subseteq DOMAIN FlagWeights /\ Violations(r, f) \subseteq DOMAIN Severity
      /\ Weighing(FlagWeights) /\ Weighing(Severity)
  BY NamesWeighed, AllWeighing
<1> DEFINE p(h) == Total(FlagWeights, Flags(r, h))
           v(h) == Total(Severity, Violations(r, h))
           s(h) == IF ~fn[h].protected /\ SupplyFlags(r, h) # {} THEN 10 ELSE 0
           c(h) == IF ~fn[h].protected /\ CapFlags(r, h) # {} THEN 15 ELSE 0
<1>3. p(g) <= p(f) /\ p(g) \in Nat /\ p(f) \in Nat
  BY <1>1, <1>2, WeightsGrow
<1>4. v(g) <= v(f) /\ v(g) \in Nat /\ v(f) \in Nat
  BY <1>1, <1>2, WeightsGrow
<1>5. s(g) = 0 /\ c(g) = 0 /\ s(f) \in Nat /\ c(f) \in Nat
  OBVIOUS
<1>6. \A h : FlagScore(r, h) = p(h) + s(h) + c(h)
  BY DEF FlagScore
<1> HIDE DEF p, s, c
<1>7. FlagScore(r, g) <= FlagScore(r, f) /\ FlagScore(r, g) \in Nat /\ FlagScore(r, f) \in Nat
  BY <1>3, <1>5, <1>6
<1>8. \A m \in Nat, n \in Nat : m <= n => Min({60, m}) <= Min({60, n}) /\ Min({80, m}) <= Min({80, n})
                                          /\ Min({60, m}) \in Int /\ Min({80, m}) \in Int
                                          /\ Min({60, n}) \in Int /\ Min({80, n}) \in Int
  BY LesserOf
<1>9. Min({60, FlagScore(r, g)}) <= Min({60, FlagScore(r, f)})
      /\ Min({60, FlagScore(r, g)}) \in Int /\ Min({60, FlagScore(r, f)}) \in Int
  BY <1>7, <1>8
<1>10. Min({80, v(g)}) <= Min({80, v(f)}) /\ Min({80, v(g)}) \in Int /\ Min({80, v(f)}) \in Int
  <2> HIDE DEF v
  <2> QED
    BY <1>4, <1>8
<1> QED
  BY <1>9, <1>10 DEF AccountingScore

LEMMA PairSafety ==
  ASSUME NEW f, NEW g, Pair(f, g), GuardInv, pass > 6, Alike(f, g), fn[g].acType \in StrictTypes
  PROVE  /\ Safety(g) \in Int /\ Safety(f) \in Int /\ Safety(g) >= Safety(f)
         /\ fn[f].acType \notin StrictTypes => Safety(g) >= Safety(f) + 12
<1>1. /\ MakesCall(g) <=> MakesCall(f)
      /\ Mutates(g) <=> Mutates(f)
      /\ Untainted(g) <=> Untainted(f)
      /\ SensitiveStore(g) <=> SensitiveStore(f)
  BY PairEdges, AlikeIs DEF Untainted, SensitiveStore
<1> DEFINE rest(h) == (IF ~MakesCall(h) THEN {"no_call"} ELSE {})
                      \cup (IF ~Mutates(h) THEN {"no_mutation"} ELSE {})
                      \cup (IF Untainted(h) THEN {"no_taint"} ELSE {})
                      \cup (IF ~SensitiveStore(h) THEN {"no_critical"} ELSE {})
           a == rest(f)
           b == rest(f) \cup {"role"}
<1>2. rest(g) = rest(f) /\ "role" \notin a
  BY <1>1
<1>3. SafetySigns(g) = b
  BY <1>2 DEF SafetySigns
<1>4. SafetySigns(f) = IF fn[f].acType \in StrictTypes THEN b ELSE a
  BY DEF SafetySigns
<1>5. b \subseteq DOMAIN SafetyWeights /\ Weighing(SafetyWeights)
  BY <1>3, NamesWeighed, AllWeighing
<1>6. "role" \in b /\ b \ {"role"} = a
  BY <1>2
<1> HIDE DEF a, b, rest
<1>7. IsFiniteSet(b) /\ \A k \in b : SafetyWeights[k] \in Nat
  BY <1>5, FS_Subset DEF Weighing
<1>8. Total(SafetyWeights, b) = SafetyWeights["role"] + Total(SafetyWeights, a)
  BY <1>6, <1>7, TotalAdds
<1>9. SafetyWeights["role"] = 12
  BY DEF SafetyWeights
<1>10. Total(SafetyWeights, a) \in Nat
  BY <1>5, <1>6, TotalOfWeights
<1>11. Cardinality(a) <= 4 /\ Cardinality(a) \in Nat
  <2> DEFINE one   == {} \cup {"no_call"}
             two   == one \cup {"no_mutation"}
             three == two \cup {"no_taint"}
             four  == three \cup {"no_critical"}
  <2>1. a \subseteq four
    BY DEF a, rest
  <2>2. IsFiniteSet({}) /\ Cardinality({}) = 0
    BY FS_EmptySet
  <2>3. \A S, x : IsFiniteSet(S) /\ Cardinality(S) \in Nat =>
                     IsFiniteSet(S \cup {x}) /\ Cardinality(S \cup {x}) \in Nat
                       /\ Cardinality(S \cup {x}) <= Cardinality(S) + 1
    <3> SUFFICES ASSUME NEW S, NEW x, IsFiniteSet(S), Cardinality(S) \in Nat
                 PROVE  IsFiniteSet(S \cup {x}) /\ Cardinality(S \cup {x}) \in Nat
                          /\ Cardinality(S \cup {x}) <= Cardinality(S) + 1
      OBVIOUS
    <3>1. /\ IsFiniteSet(S \cup {x})
          /\ Cardinality(S \cup {x}) = IF x \in S THEN Cardinality(S) ELSE Cardinality(S) + 1
      BY FS_AddElement
    <3> QED
      BY <3>1
  <2>4. IsFiniteSet(one) /\ Cardinality(one) \in Nat /\ Cardinality(one) <= 1
    <3>1. 0 \in Nat /\ 0 + 1 = 1
      OBVIOUS
    <3> QED
      BY <2>2, <2>3, <3>1
  <2> HIDE DEF one
  <2>5. IsFiniteSet(two) /\ Cardinality(two) \in Nat /\ Cardinality(two) <= 2
    <3>1. /\ IsFiniteSet(two) /\ Cardinality(two) \in Nat
          /\ Cardinality(two) <= Cardinality(one) + 1
      BY <2>3, <2>4, Zenon
    <3> QED
      BY <2>4, <3>1
  <2> HIDE DEF two
  <2>6. IsFiniteSet(three) /\ Cardinality(three) \in Nat /\ Cardinality(three) <= 3
    <3>1. /\ IsFiniteSet(three) /\ Cardinality(three) \in Nat
          /\ Cardinality(three) <= Cardinality(two) + 1
      BY <2>3, <2>5, Zenon
    <3> QED
      BY <2>5, <3>1
  <2> HIDE DEF three
  <2>7. IsFiniteSet(four) /\ Cardinality(four) \in Nat /\ Cardinality(four) <= 4
    <3>1. /\ IsFiniteSet(four) /\ Cardinality(four) \in Nat
          /\ Cardinality(four) <= Cardinality(three) + 1
      BY <2>3, <2>6, Zenon
    <3> QED
      BY <2>6, <3>1
  <2> HIDE DEF four
  <2>8. IsFiniteSet(a) /\ Cardinality(a) <= Cardinality(four)
    BY <2>1, <2>7, FS_Subset
  <2>9. Cardinality(a) \in Nat
    BY <2>8, FS_CardinalityType
  <2> QED
    BY <2>7, <2>8, <2>9
<1>12. Safety(g) = Total(SafetyWeights, b) + (IF Cardinality(b) = 5 THEN 30 ELSE 0)
  BY <1>3 DEF Safety
<1>13. Safety(f) = IF fn[f].acType \in StrictTypes
                   THEN Total(SafetyWeights, b) + (IF Cardinality(b) = 5 THEN 30 ELSE 0)
                   ELSE Total(SafetyWeights, a) + (IF Cardinality(a) = 5 THEN 30 ELSE 0)
  BY <1>4 DEF Safety
<1> QED
  BY <1>8, <1>9, <1>10, <1>11, <1>12, <1>13

(* Rounding keeps an order.                                                *)
Near(n, d) ==
    /\ Rounded(n, d) \in Int
    /\ 2 * n - d <= 2 * d * Rounded(n, d) /\ 2 * d * Rounded(n, d) <= 2 * n + d

LEMMA RoundedNear ==
  ASSUME NEW d \in {10, 100, 100000}, NEW n \in Int
  PROVE  Near(n, d)
<1>1. CASE d = 10
  <2> DEFINE q == n \div 10
             r == n % 10
  <2>1. q \in Int /\ r \in Int /\ n = 10 * q + r /\ 0 <= r /\ r < 10
    OBVIOUS
  <2>2. Rounded(n, 10) = IF 2 * r < 10 \/ (2 * r = 10 /\ q % 2 = 0) THEN q ELSE q + 1
    BY DEF Rounded
  <2> HIDE DEF q, r
  <2> QED
    BY <1>1, <2>1, <2>2 DEF Near
<1>2. CASE d = 100
  <2> DEFINE q == n \div 100
             r == n % 100
  <2>1. q \in Int /\ r \in Int /\ n = 100 * q + r /\ 0 <= r /\ r < 100
    OBVIOUS
  <2>2. Rounded(n, 100) = IF 2 * r < 100 \/ (2 * r = 100 /\ q % 2 = 0) THEN q ELSE q + 1
    BY DEF Rounded
  <2> HIDE DEF q, r
  <2> QED
    BY <1>2, <2>1, <2>2 DEF Near
<1>3. CASE d = 100000
  <2> DEFINE q == n \div 100000
             r == n % 100000
  <2>1. q \in Int /\ r \in Int /\ n = 100000 * q + r /\ 0 <= r /\ r < 100000
    OBVIOUS
  <2>2. Rounded(n, 100000) = IF 2 * r < 100000 \/ (2 * r = 100000 /\ q % 2 = 0) THEN q ELSE q + 1
    BY DEF Rounded
  <2> HIDE DEF q, r
  <2> QED
    BY <1>3, <2>1, <2>2 DEF Near
<1> QED
  BY <1>1, <1>2, <1>3

LEMMA RoundedGrows ==
  ASSUME NEW d \in {10, 100, 100000}, NEW n \in Int, NEW m \in Int
  PROVE  /\ Rounded(n, d) \in Int /\ Rounded(m, d) \in Int
         /\ m <= n => Rounded(m, d) <= Rounded(n, d)
         /\ m <= 0 => Rounded(m, d) <= 0
         /\ m <= n + 175 => Rounded(m, 100) <= Rounded(n, 100) + 2
<1> DEFINE R(a, b) == Rounded(a, b)
<1>1. Near(n, d) /\ Near(m, d) /\ Near(n, 100) /\ Near(m, 100)
  BY RoundedNear
<1>2. m = n => R(m, d) = R(n, d)
  OBVIOUS
<1> HIDE DEF R
<1>3. m <= n => R(m, d) <= R(n, d)
  <2>1. CASE d = 10
    BY <1>1, <1>2, <2>1 DEF Near, R
  <2>2. CASE d = 100
    BY <1>1, <1>2, <2>2 DEF Near, R
  <2>3. CASE d = 100000
    BY <1>1, <1>2, <2>3 DEF Near, R
  <2> QED
    BY <2>1, <2>2, <2>3
<1>4. m <= 0 => R(m, d) <= 0
  <2>1. CASE d = 10
    BY <1>1, <2>1 DEF Near, R
  <2>2. CASE d = 100
    BY <1>1, <2>2 DEF Near, R
  <2>3. CASE d = 100000
    BY <1>1, <2>3 DEF Near, R
  <2> QED
    BY <2>1, <2>2, <2>3
<1>5. m <= n + 175 => R(m, 100) <= R(n, 100) + 2
  BY <1>1 DEF Near, R
<1>6. R(n, d) \in Int /\ R(m, d) \in Int
  BY <1>1 DEF Near, R
<1> QED
  BY <1>3, <1>4, <1>5, <1>6 DEF R

(* A bound leaves the order of two numbers.                                *)
LEMMA BoundsGrow ==
  ASSUME NEW k \in Int, NEW m \in Int, NEW n \in Int, m <= n
  PROVE  /\ Min({m, k}) <= Min({n, k}) /\ Min({k, m}) <= Min({k, n}) /\ Max({k, m}) <= Max({k, n})
         /\ Min({m, k}) \in Int /\ Min({n, k}) \in Int
         /\ Min({k, m}) \in Int /\ Min({k, n}) \in Int
         /\ Max({k, m}) \in Int /\ Max({k, n}) \in Int
<1>1. \A x \in {m, n} : Min({x, k}) = (IF x <= k THEN x ELSE k) /\ Min({k, x}) = (IF k <= x THEN k ELSE x)
  BY LesserOf
<1>2. \A x \in {m, n} : Max({k, x}) = IF k >= x THEN k ELSE x
  BY GreaterOf
<1> QED
  BY <1>1, <1>2

LEMMA WeighedIs ==
  ASSUME NEW f, fn[f].conf \in 0..1000
  PROVE  /\ \A n \in {10, 15, 20, 40} : Weighed(n, f) \in Nat
         /\ fn[f].conf = 0 => Weighed(15, f) = 15
<1> DEFINE c == fn[f].conf
<1>1. c \in Int /\ 0 <= c /\ c <= 1000
  BY Zenon, SMT
<1>2. \A n : Weighed(n, f) = (n * (1000 - c)) \div 1000
  BY DEF Weighed
<1> HIDE DEF c
<1>3. /\ (10 * (1000 - c)) \div 1000 \in Nat /\ (15 * (1000 - c)) \div 1000 \in Nat
      /\ (20 * (1000 - c)) \div 1000 \in Nat /\ (40 * (1000 - c)) \div 1000 \in Nat
  BY <1>1
<1>4. c = 0 => (15 * (1000 - c)) \div 1000 = 15
  OBVIOUS
<1> QED
  BY <1>2, <1>3, <1>4 DEF c

LEMMA PairStructural ==
  ASSUME NEW f, NEW g, Alike(f, g), Confident(f), Stronger(f, g), pass > 26,
         Numbers(f), Numbers(g), fn[g].seqScore <= fn[f].seqScore,
         fn[g].accounting <= fn[f].accounting
  PROVE  Structural(g) <= Structural(f)
<1> DEFINE strict(h) == fn[h].acType \in StrictTypes
           asked(h)  == fn[h].acType \in {"require-based", "both"} \/ fn[h].conf >= 800
           t1(h) == If(fn[h].reentrancy, IF fn[h].reGuard THEN 10 ELSE 50)
           t2(h) == If(fn[h].escalate, IF fn[h].safeInit \/ strict(h) THEN 10 ELSE 50)
           t3(h) == If(fn[h].unprotected, IF asked(h) THEN 10 ELSE Weighed(40, h))
           t4(h) == If(fn[h].ceiOnly \/ (fn[h].cei /\ ~fn[h].reentrancy), 15)
           t5(h) == If(fn[h].lengthMutation, 40)
           t6(h) == If(fn[h].delegateRisk, 50)
           t7(h) == Min({fn[h].taintScore, 60})
           t8(h) == Min({fn[h].seqScore, 50})
           t9(h) == Min({fn[h].accounting, 100})
           ta(h) == Min({fn[h].extScore, 45})
           tb(h) == If(fn[h].readOnly, 35)
           tc(h) == Min({fn[h].flash, 70})
           td(h) == If(fn[h].design, 30)
<1> DEFINE sum(h) == (t1(h) + t2(h) + t3(h) + t4(h) + t5(h) + t6(h) + t7(h) + t8(h)
                        + t9(h) + ta(h) + tb(h) + tc(h)) - td(h)
<1>1. \A h \in {f, g} : Structural(h) = Max({0, sum(h)})
  <2>1. \A h : StructuralOf(h) = t1(h) + t2(h) + t3(h) + t4(h) + t5(h) + t6(h) + t7(h) + t8(h)
                                    + t9(h) + ta(h) + tb(h) + tc(h)
    BY DEF StructuralOf
  <2> HIDE DEF t1, t2, t3, t4, t5, t6, t7, t8, t9, ta, tb, tc
  <2>2. \A h : sum(h) = StructuralOf(h) - If(fn[h].design, 30)
    BY <2>1, Zenon
  <2> HIDE DEF sum
  <2> QED
    BY <2>2, Zenon DEF Structural
<1>2. /\ t1(g) = t1(f) /\ t4(g) = t4(f) /\ t5(g) = t5(f) /\ t6(g) = t6(f) /\ t7(g) = t7(f)
      /\ ta(g) = ta(f) /\ tb(g) = tb(f) /\ tc(g) = tc(f)
  BY AlikeIs
<1>3. t2(g) = 0 /\ t3(g) = 0
  BY DEF Stronger, If
<1>4. t2(f) \in Nat
  BY DEF If
<1>5. t3(f) \in Nat
  <2>1. Weighed(40, f) \in Nat
    BY WeighedIs DEF Confident
  <2> QED
    BY <2>1 DEF If
<1>6. td(f) <= td(g) /\ td(f) \in Nat /\ td(g) \in Nat
  BY DEF Stronger, If
<1>7. /\ fn[f].seqScore \in Int /\ fn[g].seqScore \in Int
      /\ fn[f].accounting \in Int /\ fn[g].accounting \in Int
  BY DEF Numbers, ScoreNames
<1>8. /\ t8(g) <= t8(f) /\ t8(g) \in Int /\ t8(f) \in Int
      /\ t9(g) <= t9(f) /\ t9(g) \in Int /\ t9(f) \in Int
  BY <1>7, BoundsGrow
<1>9. t1(f) \in Int /\ t4(f) \in Int /\ t5(f) \in Int /\ t6(f) \in Int /\ tb(f) \in Int
  BY DEF If
<1>10. t7(f) \in Int /\ ta(f) \in Int /\ tc(f) \in Int
  <2>1. fn[f].taintScore \in Int /\ fn[f].extScore \in Int /\ fn[f].flash \in Int
    BY DEF Numbers, ScoreNames
  <2> QED
    BY <2>1, Clipped, Zenon
<1> HIDE DEF t1, t2, t3, t4, t5, t6, t7, t8, t9, ta, tb, tc, td
<1>11. sum(g) <= sum(f) /\ sum(g) \in Int /\ sum(f) \in Int
  BY <1>2, <1>3, <1>4, <1>5, <1>6, <1>8, <1>9, <1>10
<1>12. Structural(g) = Max({0, sum(g)}) /\ Structural(f) = Max({0, sum(f)})
  BY <1>1
<1> HIDE DEF sum
<1>13. Max({0, sum(g)}) <= Max({0, sum(f)})
  <2> DEFINE m == sum(g)
             n == sum(f)
  <2>1. m \in Int /\ n \in Int /\ m <= n /\ 0 \in Int
    BY <1>11
  <2> HIDE DEF m, n
  <2>2. Max({0, m}) <= Max({0, n})
    BY <2>1, BoundsGrow
  <2> QED
    BY <2>2 DEF m, n
<1> QED
  BY <1>12, <1>13

LEMMA PairExploitability ==
  ASSUME NEW f, NEW g, Pair(f, g), GuardInv, pass > 26, Alike(f, g), Alone(f), Alone(g),
         Confident(f), Stronger(f, g), Numbers(f), Numbers(g),
         fn[g].longest = fn[f].longest, fn[g].chainEntry <=> fn[f].chainEntry
  PROVE  /\ Exploitability(g) <= Exploitability(f) + 5
         /\ fn[f].acType # "none" => Exploitability(g) <= Exploitability(f)
<1>1. pass \in Int /\ pass > 6 /\ pass > 4
  BY DEF GuardInv
<1>2. /\ Src(g).view = Src(f).view
      /\ Entry(g) <=> Entry(f)
      /\ AttackerInput(g) <=> AttackerInput(f)
  BY TwinSource, TwinSets
<1>3. HasReentrantEdge(g) <=> HasReentrantEdge(f)
  BY <1>1, PairEdges
<1>4. Reachable(g) <=> Reachable(f)
  BY <1>1, <1>2 DEF Alone, Reachable
<1> DEFINE a(h) == If(Reachable(h), 30)
           b(h) == If(HasReentrantEdge(h), 30)
           c(h) == If(Entry(h), 10)
           d(h) == If(fn[h].chainEntry /\ fn[h].longest >= 3, 15)
           e(h) == If(AttackerInput(h), 15)
           asked(h) == If(fn[h].acType = "require-based" \/ fn[h].conf >= 800, 5)
           own(h) == IF ~fn[h].protected /\ ~Src(h).view THEN Weighed(15, h) ELSE asked(h)
<1>5. \A h : Exploitability(h) = a(h) + b(h) + c(h) + own(h) + d(h) + e(h)
  BY Zenon DEF Exploitability
<1>6. a(g) = a(f) /\ b(g) = b(f) /\ c(g) = c(f) /\ d(g) = d(f) /\ e(g) = e(f)
  BY <1>2, <1>3, <1>4 DEF If
<1>7. a(f) \in Int /\ b(f) \in Int /\ c(f) \in Int /\ d(f) \in Int /\ e(f) \in Int
  BY DEF If
<1>8. own(g) = asked(g) /\ asked(g) \in {0, 5} /\ asked(f) \in {0, 5}
  BY <1>1 DEF Stronger, If
<1>9. own(f) \in Nat
  <2>1. Weighed(15, f) \in Nat
    BY WeighedIs DEF Confident
  <2> QED
    BY <1>8, <2>1
<1>10. fn[f].acType # "none" => own(g) <= own(f)
  <2> SUFFICES ASSUME fn[f].acType # "none" PROVE own(g) <= own(f)
    OBVIOUS
  <2>1. pass > 22 /\ pass > 5
    BY <1>1
  <2>2. own(f) = asked(f)
    BY <2>1 DEF Confident
  <2>3. \/ fn[f].acType = "require-based"
        \/ fn[g].acType = "both"
    BY <2>1 DEF Stronger
  <2>4. fn[g].conf >= 800 => fn[f].conf >= 800
    BY <2>1 DEF Stronger
  <2>5. asked(g) <= asked(f)
    BY <2>3, <2>4 DEF If
  <2> QED
    BY <1>8, <2>2, <2>5
<1> HIDE DEF a, b, c, d, e, own, asked
<1> QED
  BY <1>5, <1>6, <1>7, <1>8, <1>9, <1>10

LEMMA PairBoost ==
  ASSUME NEW f, NEW g \in Nat, InSequence(f, g)
  PROVE  /\ SequenceBoost(g) <= SequenceBoost(f)
         /\ SequenceBoost(g) \in Nat /\ SequenceBoost(f) \in Nat
<1> DEFINE two == {"PRIVILEGE_CHAIN", "ACCOUNTING_MANIPULATION"}
           either(h) == {s \in fn[h].sequences : s.dangers \cap two # {}}
           first(h)  == FirstEdge(h, {s.reader : s \in either(h)})
           worse(h)  == \E s \in either(h) : s.reader = first(h) /\ "PRIVILEGE_CHAIN" \in s.dangers
<1>1. \A h : SequenceBoost(h) = IF either(h) = {} THEN 0 ELSE IF worse(h) THEN 20 ELSE 15
  BY DEF SequenceBoost
<1>2. ASSUME either(g) # {} PROVE either(f) # {} /\ worse(f)
  <2>1. PICK t \in fn[g].sequences : t.dangers \cap two # {}
    BY <1>2
  <2>2. \A s \in fn[f].sequences : "PRIVILEGE_CHAIN" \in s.dangers
    BY <2>1 DEF InSequence
  <2>3. PICK s \in fn[f].sequences : TRUE
    BY <2>1 DEF InSequence
  <2>4. either(f) = fn[f].sequences
    BY <2>2
  <2>5. {q.reader : q \in either(f)} = {g}
    BY <2>3, <2>4 DEF InSequence, OneTo
  <2>6. FirstEdge(f, {g}) \in {g}
    <3>1. {g} \in SUBSET Nat /\ {g} # {}
      OBVIOUS
    <3> QED
      BY <3>1, OneOfTheEdges
  <2>7. s.reader = first(f)
    BY <2>3, <2>5, <2>6 DEF InSequence, OneTo
  <2> QED
    BY <2>2, <2>3, <2>4, <2>7
<1> HIDE DEF either, worse
<1> QED
  BY <1>1, <1>2

LEMMA PairImpact ==
  ASSUME NEW f, NEW g, Pair(f, g), Alike(f, g), Confident(f), Stronger(f, g), InSequence(f, g),
         Cardinality(fn[f].propagated) \in Nat
  PROVE  Impact(g) <= Impact(f)
<1> DEFINE tags(h) == IF HasTaintRisk(h) THEN TagsOf(fn[h].taintedWrites) ELSE {}
           tier(h) == ct[Src(h).contract].tier
           high(h) == IF fn[h].level = "HIGH" THEN 20 ELSE 10
           a(h) == Min({30, 5 * Cardinality(fn[h].propagated)})
           b(h) == If(Src(h).payable, 20)
           c(h) == If(fn[h].escalate, 30)
           d(h) == If(fn[h].unprotected, Weighed(high(h), h))
           e(h) == SequenceBoost(h)
           s(h) == If("ACCOUNTING" \in tags(h), 25)
           t(h) == If("CAP" \in tags(h), 20)
           u(h) == If("ACCESS" \in tags(h), 30)
           v(h) == If(tier(h) = "CORE", 20)
           w(h) == If(tier(h) = "FACTORY", 25)
           sum(h) == a(h) + b(h) + c(h) + d(h) + e(h) + s(h) + t(h) + u(h) + v(h) - w(h)
<1>1. \A h : Impact(h) = Max({0, sum(h)})
  BY DEF Impact
<1>2. Src(g).contract = Src(f).contract /\ Src(g).payable = Src(f).payable
  BY TwinSource
<1>3. tags(g) = tags(f)
  BY AlikeIs
<1>4. a(g) = a(f)
  BY AlikeIs, ZenonT(40)
<1>5. a(f) \in Int
  <2>1. 5 * Cardinality(fn[f].propagated) \in Int
    OBVIOUS
  <2> QED
    BY <2>1, Clipped, Zenon
<1> HIDE DEF tags
<1>6. b(g) = b(f) /\ s(g) = s(f) /\ t(g) = t(f) /\ u(g) = u(f) /\ v(g) = v(f) /\ w(g) = w(f)
  BY <1>2, <1>3
<1>7. b(f) \in Int /\ s(f) \in Int /\ t(f) \in Int /\ u(f) \in Int /\ v(f) \in Int /\ w(f) \in Int
  BY DEF If
<1>8. c(g) = 0 /\ d(g) = 0 /\ c(f) \in Nat
  BY DEF Stronger, If
<1>9. d(f) \in Nat
  <2>1. Weighed(20, f) \in Nat /\ Weighed(10, f) \in Nat
    BY WeighedIs DEF Confident
  <2> QED
    BY <2>1 DEF If
<1>10. e(g) <= e(f) /\ e(g) \in Nat /\ e(f) \in Nat
  <2>1. g \in Nat
    BY FunctionList DEF Pair
  <2> QED
    BY <2>1, PairBoost
<1> HIDE DEF a, b, c, d, e, s, t, u, v, w
<1>11. sum(g) <= sum(f) /\ sum(g) \in Int /\ sum(f) \in Int
  BY <1>4, <1>5, <1>6, <1>7, <1>8, <1>9, <1>10
<1> DEFINE m == sum(g)
           n == sum(f)
<1>12. Impact(g) = Max({0, m}) /\ Impact(f) = Max({0, n})
  BY <1>1
<1>13. m \in Int /\ n \in Int /\ m <= n /\ 0 \in Int
  BY <1>11
<1> HIDE DEF m, n
<1>14. Max({0, m}) <= Max({0, n})
  BY <1>13, BoundsGrow
<1> QED
  BY <1>12, <1>14

(* From the pass for the accounting on: no score of g's is the higher.     *)
Outcome(f, g) ==
    /\ pass > 33 => fn[g].issues \subseteq fn[f].issues /\ fn[g].accounting <= fn[f].accounting
    /\ pass > 35 => /\ fn[g].safety >= fn[f].safety
                    /\ fn[f].acType \notin StrictTypes => fn[g].safety >= fn[f].safety + 12
    /\ pass > 36 => fn[g].final <= fn[f].final
    /\ pass > 37 => fn[g].target <= fn[f].target

LEMMA PairFinal ==
  ASSUME NEW f, NEW g, Pair(f, g), GuardInv, pass = 36, Alike(f, g), Alone(f), Alone(g),
         Confident(f), Stronger(f, g), InSequence(f, g), InChain(f, g), Outcome(f, g),
         Numbers(f), Numbers(g), Cardinality(fn[f].propagated) \in Nat
  PROVE  Final(g) <= Final(f)
<1>1. /\ fn[g].seqScore <= fn[f].seqScore /\ fn[g].accounting <= fn[f].accounting
      /\ fn[g].longest = fn[f].longest
      /\ fn[g].chainEntry <=> fn[f].chainEntry
  BY DEF InSequence, InChain, Outcome
<1>2. fn[g].safety \in Int /\ fn[f].safety \in Int
  BY DEF Numbers, ScoreNames
<1>3. Structural(g) <= Structural(f) /\ Structural(g) \in Int /\ Structural(f) \in Int
  BY <1>1, PairStructural, StructuralIsNumber
<1>4. /\ Exploitability(g) <= Exploitability(f) + 5
      /\ fn[f].acType # "none" => Exploitability(g) <= Exploitability(f)
  BY <1>1, PairExploitability
<1>5. Exploitability(g) \in Int /\ Exploitability(f) \in Int
  BY ExploitabilityIsNumber
<1>6. Cardinality(fn[g].propagated) \in Nat
  BY AlikeIs
<1>7. Impact(g) <= Impact(f) /\ Impact(g) \in Int /\ Impact(f) \in Int
  BY <1>6, PairImpact, ImpactIsNumber
<1>8. Evidence(g) <=> Evidence(f)
  BY AlikeIs DEF Evidence
<1> DEFINE raw(h) == 40 * Structural(h) + 35 * Exploitability(h) + 25 * Impact(h)
           cut(h) == IF Evidence(h) THEN raw(h) ELSE Min({raw(h), 5500})
<1>9. \A h : Base(h) = Rounded(cut(h), 100)
  BY DEF Base
<1>10. /\ raw(g) \in Int /\ raw(f) \in Int /\ raw(g) <= raw(f) + 175
       /\ fn[f].acType # "none" => raw(g) <= raw(f)
  BY <1>3, <1>4, <1>5, <1>7
<1> HIDE DEF raw
<1>11. /\ cut(g) \in Int /\ cut(f) \in Int /\ cut(g) <= cut(f) + 175
       /\ fn[f].acType # "none" => cut(g) <= cut(f)
  <2>1. \A h \in {f, g} : Min({raw(h), 5500}) = IF raw(h) <= 5500 THEN raw(h) ELSE 5500
    BY <1>10, LesserOf
  <2> QED
    BY <1>8, <1>10, <2>1
<1> HIDE DEF cut
<1>12. /\ Base(g) \in Int /\ Base(f) \in Int /\ Base(g) <= Base(f) + 2
       /\ fn[f].acType # "none" => Base(g) <= Base(f)
  BY <1>9, <1>11, RoundedGrows
<1>13. /\ fn[g].safety >= fn[f].safety
       /\ fn[f].acType = "none" => fn[g].safety >= fn[f].safety + 12
  BY DEF Outcome, StrictTypes
<1> DEFINE m == Base(g) - fn[g].safety
           n == Base(f) - fn[f].safety
<1>14. m \in Int /\ n \in Int /\ m <= n /\ 0 \in Int
  BY <1>2, <1>12, <1>13
<1>15. Final(g) = Max({0, m}) /\ Final(f) = Max({0, n})
  BY DEF Final
<1> HIDE DEF m, n
<1>16. Max({0, m}) <= Max({0, n})
  BY <1>14, BoundsGrow
<1> QED
  BY <1>15, <1>16

(* What the target score counts is finite.                                 *)
Measured(f) ==
    /\ IsFiniteSet(fn[f].sources) /\ fn[f].crossPaths = {} /\ fn[f].taintedWrites \subseteq Svs
    /\ pass > 28 => \A v \in Svs : IsFiniteSet(sv[v].tags)

LEMMA TaintSetters ==
  /\ \A k \in 1..38 \ {1, 29} :
        "sources" \notin FnSet[k] /\ "crossPaths" \notin FnSet[k] /\ "taintedWrites" \notin FnSet[k]
  /\ \A f : /\ NewFn(f).sources = {} /\ NewFn(f).crossPaths = {} /\ NewFn(f).taintedWrites = {}
<1>1. \A k \in 1..38 \ {1, 29} : "sources" \notin FnSet[k]
  BY DEF FnSet
<1>2. \A k \in 1..38 \ {1, 29} : "crossPaths" \notin FnSet[k]
  BY DEF FnSet
<1>3. \A k \in 1..38 \ {1, 29} : "taintedWrites" \notin FnSet[k]
  BY DEF FnSet
<1>4. \A f : /\ NewFn(f).sources = {} /\ NewFn(f).crossPaths = {} /\ NewFn(f).taintedWrites = {}
  BY DEF NewFn
<1> QED
  BY <1>1, <1>2, <1>3, <1>4

LEMMA MeasuredStep ==
  ASSUME GuardInv, Next, NEW f, NEW g, Pair(f, g), Measured(f)
  PROVE  Measured(f)'
<1>1. /\ Shape /\ prog \in Programs /\ f \in Fns /\ pass \in 1..38 /\ pass' = pass + 1
      /\ Svs' = Svs /\ prog' = prog
  BY Unassigned, SameProgram DEF GuardInv, Pair
<1>2. /\ IsFiniteSet(fn'[f].sources) /\ fn'[f].crossPaths = {} /\ fn'[f].taintedWrites \subseteq Svs
  <2>1. CASE pass = 1
    <3>1. fn'[f] = NewFn(f)
      BY <1>1, <2>1, Acts DEF AddNodes
    <3>2. IsFiniteSet({})
      BY FS_EmptySet
    <3> QED
      BY <3>1, <3>2, TaintSetters
  <2>2. CASE pass = 29
    <3> DEFINE T == Rounds
               crossed == IF T[f].cross THEN {"cross"} ELSE {}
               paths == PathsFrom(T, f)
               risks == RiskOf(T, f)
    <3>1. \A h \in Fns : Callees(h) = CallEdges(h)
      BY <1>1, <2>2, CalleesOf DEF GuardInv
    <3>2. T[f].writes = LocalWrites(f) /\ paths = {}
      BY <3>1, TwinTaint
    <3>3. Taint
      BY <2>2, Acts
    <3>4. fn'[f] = [fn[f] EXCEPT
                      !.sources = LocalSources(f) \cup crossed,
                      !.tainted = T[f].tainted, !.taintedWrites = T[f].writes,
                      !.taintMath = LocalMaths(f), !.unchecked = Unchecked(f),
                      !.taintRisks = risks, !.taintScore = TaintScore(risks),
                      !.crossPaths = {x[1] : x \in paths}]
      BY <1>1, <3>3 DEF Taint
    <3>5. {"sources", "taintedWrites", "crossPaths"} \subseteq DOMAIN fn[f]
      BY <1>1 DEF Shape, FnAttributes
    <3>6. LocalSources(f) \cup crossed \subseteq {"param", "ext_return", "msg.sender"} \cup {"cross"}
      BY DEF LocalSources, Seed
    <3>7. LocalWrites(f) \subseteq Svs
      <4>1. LocalWrites(f) \subseteq WriteEdges(f)
        BY DEF LocalWrites, WriteEdges
      <4> QED
        BY <1>1, <4>1, CallsOfProgram
    <3> HIDE DEF T, crossed, paths, risks
    <3>8. /\ fn'[f].sources = LocalSources(f) \cup crossed /\ fn'[f].taintedWrites = T[f].writes
          /\ fn'[f].crossPaths = {x[1] : x \in paths}
      BY <3>4, <3>5
    <3>9. IsFiniteSet({"param", "ext_return", "msg.sender"} \cup {"cross"})
      BY Few, FS_Singleton, FS_Union
    <3>10. IsFiniteSet(fn'[f].sources)
      BY <3>6, <3>8, <3>9, FS_Subset
    <3> QED
      BY <3>2, <3>7, <3>8, <3>10
  <2>3. CASE pass \notin {1, 29}
    <3>1. FnOnly(FnSet[pass])
      BY <1>1, Frame DEF Sets
    <3>2. {"sources", "taintedWrites", "crossPaths"} \subseteq FnAttributes
      BY DEF FnAttributes
    <3>3. /\ fn'[f].sources = fn[f].sources /\ fn'[f].taintedWrites = fn[f].taintedWrites
          /\ fn'[f].crossPaths = fn[f].crossPaths
      BY <1>1, <2>3, <3>1, <3>2, TaintSetters DEF FnOnly
    <3> QED
      BY <3>3 DEF Measured
  <2> QED
    BY <2>1, <2>2, <2>3
<1>3. ASSUME pass' > 28, NEW v \in Svs PROVE IsFiniteSet(sv'[v].tags)
  <2>1. CASE pass = 28
    <3>1. Sensitivity
      BY <2>1, Acts
    <3>2. sv'[v] = [sv[v] EXCEPT !.tags = prog.var[v].tags] /\ "tags" \in DOMAIN sv[v]
      BY <1>1, <3>1 DEF Sensitivity, SvPass, Shape, SvAttributes
    <3>3. sv'[v].tags = prog.var[v].tags
      BY <3>2
    <3> QED
      BY <1>1, <3>3, ProgramAssumption DEF WellFormed, Svs
  <2>2. CASE pass > 28
    <3>1. sv'[v].tags = sv[v].tags
      BY <1>1, <2>2, Unassigned
    <3> QED
      BY <2>2, <3>1 DEF Measured
  <2> QED
    BY <1>1, <1>3, <2>1, <2>2
<1> QED
  BY <1>1, <1>2, <1>3 DEF Measured

LEMMA TagsAreFinite ==
  ASSUME prog \in Programs, NEW f, Measured(f), pass > 28
  PROVE  IsFiniteSet(fn[f].taintedWrites) /\ IsFiniteSet(TagsOf(fn[f].taintedWrites))
<1> DEFINE V == fn[f].taintedWrites
           W == {sv[v].tags : v \in V}
<1>1. IsFiniteSet(Svs)
  BY ProgramAssumption DEF WellFormed, Svs
<1>2. IsFiniteSet(V) /\ \A v \in V : IsFiniteSet(sv[v].tags)
  BY <1>1, FS_Subset DEF Measured
<1>3. IsFiniteSet(W) /\ \A T \in W : IsFiniteSet(T)
  <2> DEFINE tags == [v \in V |-> sv[v].tags]
  <2>1. tags \in [V -> W] /\ \A T \in W : \E v \in V : tags[v] = T
    OBVIOUS
  <2>2. \A T \in W : IsFiniteSet(T)
    BY <1>2
  <2> HIDE DEF V, W, tags
  <2>3. tags \in Surjection(V, W)
    BY <2>1 DEF Surjection
  <2> QED
    BY <1>2, <2>2, <2>3, FS_Surjection
<1>4. TagsOf(V) = UNION W
  BY DEF TagsOf
<1> HIDE DEF V, W
<1>5. IsFiniteSet(UNION W)
  BY <1>3, FS_UNION
<1> QED
  BY <1>2, <1>4, <1>5 DEF V

LEMMA PairRawTarget ==
  ASSUME NEW f, NEW g, Pair(f, g), GuardInv, pass = 37, Alike(f, g), Stronger(f, g),
         InChain(f, g), Outcome(f, g), Measured(f), Numbers(f)
  PROVE  RawTarget(g) \in Int /\ RawTarget(f) \in Int /\ RawTarget(g) <= RawTarget(f)
<1> DEFINE taint(h) == Tainted(h) \/ fn[h].crossPaths # {} \/ fn[h].taintedWrites # {}
           sensitive(h) == fn[h].sensitiveStore \/ TagsOf(fn[h].taintedWrites) # {}
           x1(h) == 10 * Min({3, Cardinality(fn[h].sources) \div 2 + Cardinality(fn[h].crossPaths)})
           x2(h) == Min({25, 8 * Cardinality(TagsOf(fn[h].taintedWrites))})
           x3(h) == If(MakesCall(h), 10)
           x4(h) == Min({20, fn[h].extScore \div 2})
           x5(h) == IF fn[h].unprotected THEN 15 ELSE If(~fn[h].protected /\ ~Src(h).view, 10)
           x6(h) == If(fn[h].longest >= 2, 10 * fn[h].longest)
           x7(h) == If(taint(h), 20)
           x8(h) == If(sensitive(h), 20)
           x9(h) == If("MISSING_CAP_ENFORCEMENT" \in fn[h].issues, 15)
           xa(h) == If(fn[h].escalate, 20)
           y1(h) == If(fn[h].protected, 20)
           y2(h) == If(Src(h).view, 50)
           y3(h) == If(~Entry(h), 30)
           y4(h) == If(~taint(h), 20)
<1>1. \A h : RawTarget(h) = x1(h) + x2(h) + x3(h) + x4(h) + x5(h) + x6(h) + x7(h) + x8(h) + x9(h)
                              + xa(h) - y1(h) - y2(h) - y3(h) - y4(h)
  BY Zenon DEF RawTarget
<1>2. pass > 6 /\ prog \in Programs
  BY DEF GuardInv
<1>3. MakesCall(g) <=> MakesCall(f)
  BY <1>2, PairEdges
<1>4. Src(g).view = Src(f).view /\ (Entry(g) <=> Entry(f))
  BY TwinSource
<1>5. taint(g) <=> taint(f)
  BY AlikeIs
<1>6. x1(g) = x1(f) /\ x2(g) = x2(f) /\ x4(g) = x4(f) /\ x8(g) = x8(f)
  <2>1. /\ fn[g].sources = fn[f].sources /\ fn[g].crossPaths = fn[f].crossPaths
        /\ fn[g].taintedWrites = fn[f].taintedWrites /\ fn[g].extScore = fn[f].extScore
        /\ fn[g].sensitiveStore = fn[f].sensitiveStore
    BY AlikeIs
  <2>2. x1(g) = x1(f)
    BY <2>1
  <2>3. x2(g) = x2(f)
    BY <2>1
  <2>4. x4(g) = x4(f)
    BY <2>1
  <2>5. x8(g) = x8(f)
    BY <2>1
  <2> QED
    BY <2>2, <2>3, <2>4, <2>5
<1>7. x1(f) \in Int
  <2>1. Cardinality(fn[f].sources) \in Nat
    BY FS_CardinalityType DEF Measured
  <2>2. Cardinality(fn[f].crossPaths) = 0
    BY FS_EmptySet DEF Measured
  <2>3. Cardinality(fn[f].sources) \div 2 + Cardinality(fn[f].crossPaths) \in Int /\ 3 \in Int
    BY <2>1, <2>2
  <2>4. Min({3, Cardinality(fn[f].sources) \div 2 + Cardinality(fn[f].crossPaths)}) \in Int
    BY <2>3, Numeric, Zenon
  <2> QED
    BY <2>4
<1>8. x2(f) \in Int
  <2>1. Cardinality(TagsOf(fn[f].taintedWrites)) \in Nat
    BY <1>2, TagsAreFinite, FS_CardinalityType
  <2>2. 8 * Cardinality(TagsOf(fn[f].taintedWrites)) \in Int /\ 25 \in Int
    BY <2>1
  <2> QED
    BY <2>2, Numeric, Zenon
<1>9. x4(f) \in Int
  <2>1. fn[f].extScore \in Int
    BY DEF Numbers, ScoreNames
  <2>2. fn[f].extScore \div 2 \in Int /\ 20 \in Int
    BY <2>1
  <2> QED
    BY <2>2, Numeric, Zenon
<1> HIDE DEF x1, x2, x4, taint, sensitive
<1>10. x3(g) = x3(f) /\ x6(g) = x6(f) /\ x7(g) = x7(f) /\ y2(g) = y2(f) /\ y3(g) = y3(f) /\ y4(g) = y4(f)
  BY <1>3, <1>4, <1>5 DEF InChain, If
<1>11. x5(g) = 0 /\ x5(f) \in Nat /\ xa(g) = 0 /\ xa(f) \in Nat
  BY <1>2 DEF Stronger, If
<1>12. x9(g) <= x9(f) /\ x9(g) \in Int /\ x9(f) \in Int
  BY DEF Outcome, If
<1>13. y1(g) = 20 /\ y1(f) \in {0, 20}
  BY <1>2 DEF Stronger, If
<1>14. /\ x3(f) \in Int /\ x7(f) \in Int /\ x8(f) \in Int
       /\ y2(f) \in Int /\ y3(f) \in Int /\ y4(f) \in Int
  BY DEF If
<1>15. x6(f) \in Int
  BY DEF If, InChain
<1> HIDE DEF x3, x5, x6, x7, x8, x9, xa, y1, y2, y3, y4
<1>16. /\ RawTarget(g) = x1(f) + x2(f) + x3(f) + x4(f) + 0 + x6(f) + x7(f) + x8(f) + x9(g)
                              + 0 - 20 - y2(f) - y3(f) - y4(f)
       /\ RawTarget(f) = x1(f) + x2(f) + x3(f) + x4(f) + x5(f) + x6(f) + x7(f) + x8(f) + x9(f)
                              + xa(f) - y1(f) - y2(f) - y3(f) - y4(f)
  BY <1>1, <1>6, <1>10, <1>11, <1>13
<1> QED
  BY <1>7, <1>8, <1>9, <1>11, <1>12, <1>13, <1>14, <1>15, <1>16

LEMMA ImpactOfTwo ==
  ASSUME NEW a, NEW b
  PROVE  EconomicImpact(<<a, b>>) = EconomicImpact(<<b, a>>) /\ EconomicImpact(<<a, b>>) \in 10..15
<1>1. \A h : Distortion(h) \in Nat
  BY DEF Distortion, If
<1>2. ASSUME NEW p, NEW q
      PROVE  EconomicImpact(<<p, q>>) = Min({15, 10 + (Distortion(p) + Distortion(q))})
  <2> DEFINE w == [i \in {1, 2} |-> Distortion(<<p, q>>[i])]
  <2>1. DOMAIN <<p, q>> = {1, 2}
    BY TwoSteps
  <2>2. w[1] = Distortion(p) /\ w[2] = Distortion(q)
    OBVIOUS
  <2>3. EconomicImpact(<<p, q>>) = Min({15, 10 + Total(w, {1, 2})})
    BY <2>1 DEF EconomicImpact
  <2> HIDE DEF w
  <2>4. Total(w, {1, 2}) = w[1] + w[2]
    BY <1>1, <2>2, PairTotal
  <2> QED
    BY <2>2, <2>3, <2>4
<1> DEFINE m == 10 + (Distortion(a) + Distortion(b))
<1>3. m = 10 + (Distortion(b) + Distortion(a)) /\ m \in Int /\ m >= 10
  BY <1>1
<1>4. EconomicImpact(<<a, b>>) = Min({15, m})
  BY <1>2, Zenon
<1>5. EconomicImpact(<<b, a>>) = Min({15, m})
  BY <1>2, <1>3
<1> HIDE DEF m
<1>6. Min({15, m}) = IF 15 <= m THEN 15 ELSE m
  BY <1>3, LesserOf
<1>7. Min({15, m}) \in 10..15
  BY <1>3, <1>6
<1> QED
  BY <1>4, <1>5, <1>7

\* The score of a target within its bounds.
WithinBounds(n, f) == Max({0, Min({100, IF Evidence(f) THEN n ELSE Min({n, Threshold - 1})})})

LEMMA BoundedGrows ==
  ASSUME NEW f, NEW g, Evidence(g) <=> Evidence(f), NEW m \in Int, NEW n \in Int, m <= n \/ m <= 0
  PROVE  WithinBounds(m, g) <= WithinBounds(n, f)
<1> DEFINE cut(x) == IF Evidence(f) THEN x ELSE Min({x, 74})
<1>1. \A x \in {m, n} : Min({x, 74}) = IF x <= 74 THEN x ELSE 74
  BY LesserOf
<1>2. \A x \in {m, n} : cut(x) \in Int /\ cut(x) <= x
  BY <1>1
<1>3. m <= n => cut(m) <= cut(n)
  BY <1>1
<1>4. WithinBounds(m, g) = Max({0, Min({100, cut(m)})}) /\ WithinBounds(n, f) = Max({0, Min({100, cut(n)})})
  <2>1. Threshold - 1 = 74
    BY DEF Threshold
  <2> QED
    BY <2>1 DEF WithinBounds
<1> HIDE DEF cut
<1>5. \A x \in {m, n} : Min({100, cut(x)}) = IF 100 <= cut(x) THEN 100 ELSE cut(x)
  BY <1>2, LesserOf
<1>6. \A x \in {m, n} : Min({100, cut(x)}) \in Int
  BY <1>2, <1>5
<1>7. \A x \in {m, n} : Max({0, Min({100, cut(x)})})
                          = IF 0 >= Min({100, cut(x)}) THEN 0 ELSE Min({100, cut(x)})
  BY <1>6, GreaterOf
<1> QED
  BY <1>2, <1>3, <1>4, <1>5, <1>6, <1>7

LEMMA ProductsGrow ==
  ASSUME NEW a \in Int, NEW b \in Int, NEW m \in Int, NEW n \in Int, NEW e \in Nat,
         a <= b, 0 < m, m <= n
  PROVE  /\ a * (4000 + 60 * m) * e \in Int /\ b * (4000 + 60 * n) * e \in Int
         /\ a <= 0 => a * (4000 + 60 * m) * e <= 0
         /\ a > 0 => a * (4000 + 60 * m) * e <= b * (4000 + 60 * n) * e
<1> DEFINE p == 4000 + 60 * m
           q == 4000 + 60 * n
<1>1. p \in Nat /\ q \in Nat /\ p <= q
  OBVIOUS
<1> HIDE DEF p, q
<1>2. \A x \in Int, y \in Int, z \in Nat : x <= y => x * z <= y * z
  OBVIOUS
<1>3. \A x \in Int, y \in Int : x * y \in Int
  OBVIOUS
<1>4. a * p \in Int /\ b * p \in Int /\ b * q \in Int /\ a * p <= b * p
  BY <1>1, <1>2, <1>3
<1>5. a * p * e \in Int /\ b * q * e \in Int
  BY <1>3, <1>4
<1>6. ASSUME a <= 0 PROVE a * p * e <= 0
  <2>1. a * p <= 0 * p /\ 0 * p = 0
    BY <1>1, <1>2, <1>6
  <2>2. a * p * e <= 0 * e /\ 0 * e = 0
    BY <1>2, <1>4, <2>1
  <2> QED
    BY <2>2
<1>7. ASSUME a > 0 PROVE a * p * e <= b * q * e
  <2>1. b \in Nat /\ p * b <= q * b
    BY <1>1, <1>2, <1>7
  <2>2. p * b = b * p /\ q * b = b * q
    BY <1>1
  <2>3. a * p <= b * q
    BY <1>4, <2>1, <2>2
  <2> QED
    BY <1>2, <1>4, <2>3
<1> QED
  BY <1>5, <1>6, <1>7 DEF p, q

\* The scores of a chain and of a function without one.
Blend(f) == Rounded(7 * RawTarget(f) + 3 * Min({100, fn[f].final}), 10)
Scored(f) ==
    IF Impossible(f) THEN 0
    ELSE IF Valid(f) = {} THEN Blend(f)
    ELSE Rounded(Blend(f) * (4000 + 60 * Max({c.feasibility : c \in Valid(f)}))
                          * Max({EconomicImpact(c.steps) : c \in Valid(f)}), 100000)

LEMMA TargetIsBounded ==
  ASSUME NEW f
  PROVE  TargetScore(f) = WithinBounds(Scored(f), f)
<1> DEFINE best == Max({c.feasibility : c \in Valid(f)})
           econ == Max({EconomicImpact(c.steps) : c \in Valid(f)})
           score == IF Impossible(f) THEN 0
                    ELSE IF Valid(f) = {} THEN Blend(f)
                    ELSE Rounded(Blend(f) * (4000 + 60 * best) * econ, 100000)
<1>1. TargetScore(f) = Max({0, Min({100, IF Evidence(f) THEN score ELSE Min({score, Threshold - 1})})})
  BY DEF TargetScore, Blend
<1>2. score = Scored(f)
  BY DEF Scored
<1> HIDE DEF score
<1> QED
  BY <1>1, <1>2, Zenon DEF WithinBounds

LEMMA OneChain ==
  ASSUME NEW f, NEW c, Valid(f) = {c}, c.feasibility \in Int, EconomicImpact(c.steps) \in Int
  PROVE  /\ ~Impossible(f)
         /\ Scored(f) = Rounded(Blend(f) * (4000 + 60 * c.feasibility)
                                         * EconomicImpact(c.steps), 100000)
<1>1. \A x \in Int : Max({x}) = x
  <2> SUFFICES ASSUME NEW x \in Int PROVE Max({x}) = x
    OBVIOUS
  <2>1. Max({x, x}) = x
    BY GreaterOf
  <2>2. {x, x} = {x}
    OBVIOUS
  <2> QED
    BY <2>1, <2>2
<1>2. {d.feasibility : d \in {c}} = {c.feasibility}
  OBVIOUS
<1>3. {EconomicImpact(d.steps) : d \in {c}} = {EconomicImpact(c.steps)}
  OBVIOUS
<1>4. Max({d.feasibility : d \in Valid(f)}) = c.feasibility
  BY <1>1, <1>2
<1>5. Max({EconomicImpact(d.steps) : d \in Valid(f)}) = EconomicImpact(c.steps)
  BY <1>1, <1>3
<1>6. Valid(f) # {} /\ ~Impossible(f)
  BY DEF Impossible
<1> QED
  BY <1>4, <1>5, <1>6 DEF Scored

LEMMA PairTarget ==
  ASSUME NEW f, NEW g, Pair(f, g), GuardInv, pass = 37, Alike(f, g), Stronger(f, g),
         InChain(f, g), Outcome(f, g), Measured(f), Numbers(f), Numbers(g)
  PROVE  TargetScore(g) <= TargetScore(f)
<1>1. Evidence(g) <=> Evidence(f)
  BY AlikeIs DEF Evidence
<1>2. RawTarget(g) \in Int /\ RawTarget(f) \in Int /\ RawTarget(g) <= RawTarget(f)
  BY PairRawTarget
<1>3. fn[g].final \in Int /\ fn[f].final \in Int /\ fn[g].final <= fn[f].final
  BY DEF Numbers, ScoreNames, Outcome
<1>4. Blend(g) \in Int /\ Blend(f) \in Int /\ Blend(g) <= Blend(f)
  <2> DEFINE k(h) == Min({100, fn[h].final})
             m == 7 * RawTarget(g) + 3 * k(g)
             n == 7 * RawTarget(f) + 3 * k(f)
  <2>1. k(g) \in Int /\ k(f) \in Int /\ k(g) <= k(f)
    <3>1. 100 \in Int
      OBVIOUS
    <3> QED
      BY <1>3, <3>1, BoundsGrow
  <2>2. Blend(g) = Rounded(m, 10) /\ Blend(f) = Rounded(n, 10)
    BY DEF Blend
  <2> HIDE DEF k
  <2>3. m \in Int /\ n \in Int /\ m <= n
    BY <1>2, <2>1
  <2> HIDE DEF m, n
  <2> QED
    BY <2>2, <2>3, RoundedGrows
<1>5. \A h : Valid(h) = {c \in fn[h].chains : c.feasibility > 0}
  BY DEF Valid
<1>6. ASSUME NEW a \in Int, NEW b \in Int, Scored(g) = a, Scored(f) = b, a <= b \/ a <= 0
      PROVE  TargetScore(g) <= TargetScore(f)
  <2>1. WithinBounds(a, g) <= WithinBounds(b, f)
    BY <1>1, <1>6, BoundedGrows
  <2> QED
    BY <1>6, <2>1, TargetIsBounded
<1>7. CASE Valid(f) = {}
  <2>1. Valid(g) = {}
    <3> SUFFICES ASSUME NEW c \in Valid(g) PROVE FALSE
      OBVIOUS
    <3>1. c \in fn[g].chains /\ c.feasibility > 0 /\ c.feasibility \in Int
      BY <1>5 DEF InChain
    <3>2. PICK d \in fn[f].chains : TRUE
      BY <3>1 DEF InChain
    <3>3. c.feasibility <= d.feasibility /\ d.feasibility \in Int
      BY <3>1, <3>2 DEF InChain
    <3>4. d \in Valid(f)
      BY <1>5, <3>1, <3>2, <3>3
    <3> QED
      BY <1>7, <3>4
  <2>2. Impossible(g) <=> Impossible(f)
    BY <1>7, <2>1 DEF Impossible, InChain
  <2>3. Scored(g) = (IF Impossible(f) THEN 0 ELSE Blend(g))
        /\ Scored(f) = (IF Impossible(f) THEN 0 ELSE Blend(f))
    BY <1>7, <2>1, <2>2 DEF Scored
  <2> QED
    BY <1>4, <1>6, <2>3
<1>8. CASE Valid(f) # {}
  <2>1. PICK d : d \in Valid(f)
    BY <1>8
  <2>2. /\ d \in fn[f].chains /\ d.feasibility > 0 /\ d.feasibility \in Int
        /\ d.steps = <<f, g>> /\ fn[g].chains # {} /\ fn[g].chainEntry
    BY <1>5, <2>1 DEF InChain
  <2>3. Valid(f) = {d}
    <3>1. \A c \in fn[f].chains : c = d
      BY <2>2 DEF InChain
    <3> QED
      BY <1>5, <2>1, <3>1
  <2> DEFINE e == EconomicImpact(<<f, g>>)
  <2>4. e \in Nat /\ e \in Int /\ EconomicImpact(<<g, f>>) = e
    <3>1. EconomicImpact(<<f, g>>) = EconomicImpact(<<g, f>>) /\ EconomicImpact(<<f, g>>) \in 10..15
      BY ImpactOfTwo
    <3> QED
      BY <3>1
  <2> HIDE DEF e
  <2>5. Scored(f) = Rounded(Blend(f) * (4000 + 60 * d.feasibility) * e, 100000)
    <3>1. EconomicImpact(d.steps) = e
      BY <2>2 DEF e
    <3> QED
      BY <2>2, <2>3, <2>4, <3>1, OneChain
  <2>6. CASE Valid(g) = {}
    <3>1. Impossible(g)
      BY <2>2, <2>6 DEF Impossible
    <3>2. Scored(g) = 0
      BY <3>1 DEF Scored
    <3> DEFINE n == Blend(f) * (4000 + 60 * d.feasibility) * e
    <3>3. n \in Int
      BY <1>4, <2>2, <2>4, ProductsGrow
    <3>4. Scored(f) \in Int
      <4>1. Scored(f) = Rounded(n, 100000)
        BY <2>5
      <4> HIDE DEF n
      <4> QED
        BY <3>3, <4>1, RoundedGrows
    <3> QED
      BY <1>6, <3>2, <3>4
  <2>7. CASE Valid(g) # {}
    <3>1. PICK c : c \in Valid(g)
      BY <2>7
    <3>2. /\ c \in fn[g].chains /\ c.feasibility > 0 /\ c.feasibility \in Int
          /\ c.steps = <<g, f>> /\ c.feasibility <= d.feasibility
      BY <1>5, <2>2, <3>1 DEF InChain
    <3>3. Valid(g) = {c}
      <4>1. \A b \in fn[g].chains : b = c
        BY <3>2 DEF InChain
      <4> QED
        BY <1>5, <3>1, <4>1
    <3>4. Scored(g) = Rounded(Blend(g) * (4000 + 60 * c.feasibility) * e, 100000)
      <4>1. EconomicImpact(c.steps) = e
        BY <2>4, <3>2
      <4> QED
        BY <2>4, <3>2, <3>3, <4>1, OneChain
    <3> DEFINE m == Blend(g) * (4000 + 60 * c.feasibility) * e
               n == Blend(f) * (4000 + 60 * d.feasibility) * e
    <3>5. m \in Int /\ n \in Int /\ (m <= 0 \/ m <= n)
      <4>1. /\ m \in Int /\ n \in Int
            /\ Blend(g) <= 0 => m <= 0
            /\ Blend(g) > 0 => m <= n
        BY <1>4, <2>2, <2>4, <3>2, ProductsGrow
      <4> QED
        BY <1>4, <4>1
    <3>6. Scored(g) = Rounded(m, 100000) /\ Scored(f) = Rounded(n, 100000)
      BY <2>5, <3>4
    <3> HIDE DEF m, n
    <3>7. /\ Scored(g) \in Int /\ Scored(f) \in Int
          /\ Scored(g) <= 0 \/ Scored(g) <= Scored(f)
      BY <3>5, <3>6, RoundedGrows
    <3> QED
      BY <1>6, <3>7
  <2> QED
    BY <2>6, <2>7
<1> QED
  BY <1>7, <1>8

LEMMA OutcomeStep ==
  ASSUME NEW f, NEW g, Pair(f, g), GuardInv, Propagation, Next, Alike(f, g), Alone(f), Alone(g),
         Confident(f), Stronger(f, g), Measured(f), Numbers(f), Numbers(g),
         pass > 31 => InSequence(f, g), pass > 32 => InChain(f, g), Outcome(f, g)
  PROVE  Outcome(f, g)'
<1>1. /\ pass \in 1..38 /\ pass' = pass + 1 /\ f \in Fns /\ g \in Fns /\ Shape /\ prog \in Programs
  BY Unassigned DEF GuardInv, Pair
<1>2. \A h \in {f, g} : {"issues", "violations", "accounting", "safety", "final", "target"}
                           \subseteq DOMAIN fn[h]
  BY <1>1 DEF Shape, FnAttributes
<1>3. ASSUME pass' > 33
      PROVE  fn'[g].issues \subseteq fn'[f].issues /\ fn'[g].accounting <= fn'[f].accounting
  <2>1. CASE pass = 33
    <3> DEFINE r == Roles
    <3>1. Accounting
      BY <2>1, Acts
    <3>2. \A h \in {f, g} : fn'[h].issues = Flags(r, h) /\ fn'[h].accounting = AccountingScore(r, h)
      BY <1>1, <1>2, <3>1 DEF Accounting, AccountingScore
    <3>3. fn[g].protected /\ pass > 3
      BY <2>1 DEF Stronger
    <3> HIDE DEF r
    <3>4. Flags(r, g) \subseteq Flags(r, f)
      BY <3>3, PairFlags
    <3>5. AccountingScore(r, g) <= AccountingScore(r, f)
      BY <3>3, PairAccounting
    <3> QED
      BY <3>2, <3>4, <3>5
  <2>2. CASE pass > 33
    <3>1. \A h \in {f, g} : fn'[h].issues = fn[h].issues /\ fn'[h].accounting = fn[h].accounting
      BY <1>1, <2>2, UnassignedLast
    <3> QED
      BY <2>2, <3>1 DEF Outcome
  <2> QED
    BY <1>1, <1>3, <2>1, <2>2
<1>4. ASSUME pass' > 35
      PROVE  /\ fn'[g].safety >= fn'[f].safety
             /\ fn'[f].acType \notin StrictTypes => fn'[g].safety >= fn'[f].safety + 12
  <2>1. fn'[f].acType = fn[f].acType
    BY <1>1, <1>4, Unassigned
  <2>2. CASE pass = 35
    <3>1. NegativeSafety
      BY <2>2, Acts
    <3>2. \A h \in {f, g} : fn'[h].safety = Safety(h)
      BY <1>1, <1>2, <3>1 DEF NegativeSafety, FnPass
    <3>3. pass > 6 /\ fn[g].acType \in StrictTypes
      BY <2>2 DEF Stronger, StrictTypes
    <3>4. /\ Safety(g) >= Safety(f)
          /\ fn[f].acType \notin StrictTypes => Safety(g) >= Safety(f) + 12
      BY <3>3, PairSafety
    <3> QED
      BY <2>1, <3>2, <3>4
  <2>3. CASE pass > 35
    <3>1. \A h \in {f, g} : fn'[h].safety = fn[h].safety
      BY <1>1, <2>3, UnassignedLast
    <3> QED
      BY <2>1, <2>3, <3>1 DEF Outcome
  <2> QED
    BY <1>1, <1>4, <2>2, <2>3
<1>5. ASSUME pass' > 36 PROVE fn'[g].final <= fn'[f].final
  <2>1. CASE pass = 36
    <3>1. RiskScores
      BY <2>1, Acts
    <3>2. \A h \in {f, g} : fn'[h].final = Final(h)
      BY <1>1, <1>2, <3>1 DEF RiskScores, FnPass
    <3>3. Cardinality(fn[f].propagated) \in Nat
      <4>1. fn[f].propagated \subseteq AllWrites(f)
        BY <1>1, <2>1 DEF Propagation, Exact
      <4>2. AllWrites(f) \subseteq Svs
        BY <1>1, WritesOfParts
      <4>3. IsFiniteSet(Svs)
        BY <1>1, ProgramAssumption DEF WellFormed, Svs
      <4> QED
        BY <4>1, <4>2, <4>3, FS_Subset, FS_CardinalityType
    <3>4. InSequence(f, g) /\ InChain(f, g)
      BY <2>1
    <3>5. Final(g) <= Final(f)
      BY <2>1, <3>3, <3>4, PairFinal
    <3> QED
      BY <3>2, <3>5
  <2>2. CASE pass > 36
    <3>1. \A h \in {f, g} : fn'[h].final = fn[h].final
      BY <1>1, <2>2, UnassignedLater
    <3> QED
      BY <2>2, <3>1 DEF Outcome
  <2> QED
    BY <1>1, <1>5, <2>1, <2>2
<1>6. ASSUME pass' > 37 PROVE fn'[g].target <= fn'[f].target
  <2>1. CASE pass = 37
    <3>1. ExploitTargets
      BY <2>1, Acts
    <3>2. \A h \in {f, g} : fn'[h].target = TargetScore(h)
      BY <1>1, <1>2, <3>1 DEF ExploitTargets, FnPass
    <3>3. InChain(f, g)
      BY <2>1
    <3>4. TargetScore(g) <= TargetScore(f)
      BY <2>1, <3>3, PairTarget
    <3> QED
      BY <3>2, <3>4
  <2>2. CASE pass > 37
    <3>1. \A h \in {f, g} : fn'[h].target = fn[h].target
      BY <1>1, <2>2, UnassignedLast
    <3> QED
      BY <2>2, <3>1 DEF Outcome
  <2> QED
    BY <1>1, <1>6, <2>1, <2>2
<1> QED
  BY <1>3, <1>4, <1>5, <1>6 DEF Outcome

-----------------------------------------------------------------------------
(* All of it, of every two such functions.                                 *)

Compared(f, g) ==
    /\ Alike(f, g) /\ Alone(f) /\ Alone(g) /\ Confident(f) /\ Confident(g)
    /\ Stronger(f, g) /\ Measured(f)
Ranked(f, g) ==
    /\ pass > 31 => InSequence(f, g)
    /\ pass > 32 => InChain(f, g)
    /\ Outcome(f, g)

TwinInv == \A f, g \in Fns : Pair(f, g) => Compared(f, g) /\ (Apart(f, g) => Ranked(f, g))

LEMMA TwinInvInit == Init => TwinInv
<1> SUFFICES ASSUME Init, NEW f \in Fns, NEW g \in Fns, Pair(f, g)
             PROVE  Compared(f, g) /\ Ranked(f, g)
  BY DEF TwinInv
<1>1. /\ pass = 1 /\ \A h \in Fns : fn[h] = NewFn(h)
      /\ \A h \in Fns, k \in Fns : rel[h][k] = "none"
  BY DEF Init
<1>2. Alike(f, g)
  BY <1>1, NewAlike DEF Alike
<1>3. Alone(f) /\ Alone(g)
  BY <1>1 DEF Alone
<1>4. \A h \in {f, g} : /\ fn[h].conf = 0 /\ fn[h].protected = FALSE /\ fn[h].unprotected = FALSE
                        /\ fn[h].escalate = FALSE
  <2>1. \A h : /\ NewFn(h).conf = 0 /\ NewFn(h).protected = FALSE
               /\ NewFn(h).unprotected = FALSE /\ NewFn(h).escalate = FALSE
    BY DEF NewFn
  <2> QED
    BY <1>1, <2>1
<1>5. \A h \in {f, g} : Confident(h)
  BY <1>1, <1>4 DEF Confident
<1>6. Stronger(f, g)
  BY <1>1, <1>4 DEF Stronger
<1>7. Measured(f)
  <2>1. /\ fn[f].sources = {} /\ fn[f].crossPaths = {} /\ fn[f].taintedWrites = {}
        /\ IsFiniteSet({}) /\ ~(pass > 28)
    BY <1>1, TaintSetters, FS_EmptySet
  <2> QED
    BY <2>1 DEF Measured
<1>8. Ranked(f, g)
  BY <1>1 DEF Ranked, Outcome
<1> QED
  BY <1>2, <1>3, <1>5, <1>6, <1>7, <1>8 DEF Compared

LEMMA ComparedStep ==
  ASSUME GuardInv, Propagation, Next, NEW f, NEW g, Pair(f, g), Compared(f, g)
  PROVE  Compared(f, g)'
<1>1. pass \in 1..38
  BY Unassigned DEF GuardInv
<1>2. /\ Alike(f, g) /\ Alone(f) /\ Alone(g) /\ Confident(f) /\ Confident(g)
      /\ Stronger(f, g) /\ Measured(f) /\ f \in Fns /\ g \in Fns
  BY DEF Compared, Pair
<1>3. Alike(f, g)'
  <2>1. CASE pass \in 1..6
    BY <1>2, <2>1, AlikeEarly
  <2>2. CASE pass \in 7..20
    BY <1>2, <2>2, AlikeMiddle
  <2>3. CASE pass \in 21..38
    BY <1>2, <2>3, AlikeLate
  <2> QED
    BY <1>1, <2>1, <2>2, <2>3
<1>4. Alone(f)' /\ Alone(g)'
  BY <1>2, AloneStep
<1>5. Confident(f)' /\ Confident(g)'
  BY <1>2, ConfidentStep
<1>6. Stronger(f, g)'
  BY <1>2, StrongerStep
<1>7. Measured(f)'
  BY <1>2, MeasuredStep
<1> QED
  BY <1>3, <1>4, <1>5, <1>6, <1>7 DEF Compared

LEMMA RankedStep ==
  ASSUME AnswerInv, Propagation, ScoreInv, Next, NEW f, NEW g, Pair(f, g), Apart(f, g),
         Compared(f, g), Ranked(f, g), pass > 3
  PROVE  Ranked(f, g)'
<1>1. GuardInv /\ Depended /\ pass \in 1..38 /\ pass' = pass + 1 /\ f \in Fns /\ g \in Fns
  BY Unassigned DEF AnswerInv, GuardInv, Pair
<1>2. /\ Alike(f, g) /\ Alone(f) /\ Alone(g) /\ Confident(f) /\ Confident(g)
      /\ Stronger(f, g) /\ Measured(f)
  BY DEF Compared
<1>3. /\ pass > 31 => InSequence(f, g)
      /\ pass > 32 => InChain(f, g)
      /\ Outcome(f, g)
  BY DEF Ranked
<1>4. Numbers(f) /\ Numbers(g)
  BY <1>1 DEF ScoreInv
<1>5. ASSUME pass' > 31 PROVE InSequence(f, g)'
  <2>1. pass > 30 /\ pass > 5
    BY <1>1, <1>5
  <2>2. fn[g].protected
    BY <1>2, <2>1 DEF Stronger
  <2> QED
    BY <1>1, <1>2, <1>3, <2>1, <2>2, SequencesOfPair
<1>6. ASSUME pass' > 32 PROVE InChain(f, g)'
  <2>1. pass > 31
    BY <1>1, <1>6
  <2>2. InSequence(f, g)
    BY <1>3, <2>1
  <2> QED
    BY <1>2, <1>3, <2>1, <2>2, ChainsOfPair
<1>7. Outcome(f, g)'
  BY <1>1, <1>2, <1>3, <1>4, OutcomeStep
<1> QED
  BY <1>5, <1>6, <1>7 DEF Ranked

LEMMA PairStays ==
  ASSUME prog' = prog
  PROVE  /\ \A f, g : Pair(f, g)' <=> Pair(f, g)
         /\ Fns' = Fns
<1>1. Fns' = Fns /\ Svs' = Svs
  BY SameProgram
<1>2. \A f : CallTargets(f)' = CallTargets(f) /\ Body(f)' = Body(f) /\ Src(f)' = Src(f)
  BY <1>1 DEF CallTargets, Internal, Externals, At, Body, Src
<1>3. \A f, g : Likewise(f, g)' <=> Likewise(f, g)
  BY <1>1, <1>2 DEF Likewise
<1> QED
  BY <1>1, <1>3 DEF Pair

LEMMA TwinInvStutters ==
  ASSUME GuardInv, TwinInv, UNCHANGED <<vars, hotspots>>
  PROVE  TwinInv'
<1>1. prog' = prog /\ fn' = fn /\ pass' = pass /\ rel' = rel /\ sv' = sv
  BY DEF vars
<1>2. /\ Fns' = Fns /\ Svs' = Svs
      /\ \A f, g : Pair(f, g)' <=> Pair(f, g)
  BY <1>1, PairStays, SameProgram
<1>3. \A f, g : Alike(f, g)' <=> Alike(f, g)
  BY <1>1 DEF Alike
<1>4. \A f : Alone(f)' <=> Alone(f)
  <2>1. \A f : Entry(f)' <=> Entry(f)
    BY <1>1 DEF Entry, Public, Src
  <2> QED
    BY <1>1, <1>2, <2>1 DEF Alone
<1>5. \A f : Confident(f)' <=> Confident(f)
  BY <1>1, SameProgram DEF Confident
<1>6. \A f, g : Stronger(f, g)' <=> Stronger(f, g)
  BY <1>1 DEF Stronger
<1>7. \A f : Measured(f)' <=> Measured(f)
  BY <1>1, <1>2 DEF Measured
<1>8. \A f, g : InSequence(f, g)' <=> InSequence(f, g)
  BY <1>1 DEF InSequence, OneTo
<1>9. \A f, g : InChain(f, g)' <=> InChain(f, g)
  BY <1>1 DEF InChain
<1>10. \A f, g : Outcome(f, g)' <=> Outcome(f, g)
  BY <1>1 DEF Outcome
<1>11. \A f, g : Apart(f, g)' <=> Apart(f, g)
  <2>1. \A f : WriteEdges(f)' = WriteEdges(f) /\ ReadEdges(f)' = ReadEdges(f)
    BY <1>1 DEF WriteEdges, ReadEdges, At, Body, Src
  <2>2. \A f : StateWrites(f)' = StateWrites(f) /\ StateReads(f)' = StateReads(f)
    BY <1>1, <2>1 DEF StateWrites, StateReads
  <2>3. \A f, g : Depends(f, g)' <=> Depends(f, g)
    BY <1>1, <2>2 DEF Depends, Shared, Src
  <2> QED
    BY <1>2, <2>3 DEF Apart
<1>12. \A f, g : Compared(f, g)' <=> Compared(f, g)
  BY <1>3, <1>4, <1>5, <1>6, <1>7 DEF Compared
<1>13. \A f, g : Ranked(f, g)' <=> Ranked(f, g)
  BY <1>1, <1>8, <1>9, <1>10 DEF Ranked
<1> QED
  BY <1>2, <1>11, <1>12, <1>13 DEF TwinInv

LEMMA TwinInvInductive ==
  /\ Init => TwinInv
  /\ AnswerInv /\ Propagation /\ ScoreInv /\ TwinInv /\ [Next]_<<vars, hotspots>> => TwinInv'
<1>1. ASSUME AnswerInv, Propagation, ScoreInv, TwinInv, Next PROVE TwinInv'
  <2>1. GuardInv /\ prog' = prog /\ pass \in 1..38 /\ pass' = pass + 1
    BY <1>1, Unassigned DEF AnswerInv, GuardInv
  <2>2. Fns' = Fns /\ \A f, g : Pair(f, g)' <=> Pair(f, g)
    BY <2>1, PairStays
  <2> SUFFICES ASSUME NEW f \in Fns, NEW g \in Fns, Pair(f, g)
               PROVE  Compared(f, g)' /\ (Apart(f, g)' => Ranked(f, g)')
    BY <2>2 DEF TwinInv
  <2>3. Compared(f, g) /\ (Apart(f, g) => Ranked(f, g))
    BY <1>1 DEF TwinInv
  <2>4. Compared(f, g)'
    BY <1>1, <2>1, <2>3, ComparedStep
  <2>5. CASE pass > 3
    <3>1. Apart(f, g)' <=> Apart(f, g)
      BY <1>1, <2>1, <2>2, <2>5, SameDepends DEF Apart
    <3>2. Apart(f, g) => Ranked(f, g)'
      BY <1>1, <2>3, <2>5, RankedStep
    <3> QED
      BY <2>4, <3>1, <3>2
  <2>6. CASE pass \in 1..3
    <3>1. ~(pass' > 31) /\ ~(pass' > 32) /\ ~(pass' > 33) /\ ~(pass' > 35) /\ ~(pass' > 36) /\ ~(pass' > 37)
      BY <2>1, <2>6
    <3>2. Ranked(f, g)'
      BY <3>1 DEF Ranked, Outcome
    <3> QED
      BY <2>4, <3>2
  <2> QED
    BY <2>1, <2>5, <2>6
<1>2. ASSUME AnswerInv, TwinInv, UNCHANGED <<vars, hotspots>> PROVE TwinInv'
  BY <1>2, TwinInvStutters DEF AnswerInv
<1> QED
  BY <1>1, <1>2, TwinInvInit

(* A check of the caller never makes a function look worse: whatever the   *)
(* program, of two functions that differ in it alone, and that no call and *)
(* no state joins to others, the one with the check has neither the higher *)
(* risk nor the higher target score.                                       *)
THEOREM GuardNeverRaises == Spec => []GuardNeverRaisesScore
<1>1. Init => AnswerInv /\ Propagation /\ ScoreInv /\ TwinInv
  BY AnswerInvInductive, PropagationInductive, ScoreInvInductive, TwinInvInductive
<1>2. AnswerInv /\ Propagation /\ ScoreInv /\ TwinInv /\ [Next]_<<vars, hotspots>>
         => (AnswerInv /\ Propagation /\ ScoreInv /\ TwinInv)'
  <2>1. AnswerInv => GuardInv
    BY DEF AnswerInv
  <2> QED
    BY <2>1, AnswerInvInductive, PropagationInductive, ScoreInvInductive, TwinInvInductive
<1>3. AnswerInv /\ Propagation /\ ScoreInv /\ TwinInv => GuardNeverRaisesScore
  <2> SUFFICES ASSUME AnswerInv, TwinInv, Done, NEW f \in Fns, NEW g \in Fns, Twin(f, g)
               PROVE  fn[g].final <= fn[f].final /\ fn[g].target <= fn[f].target
    BY DEF GuardNeverRaisesScore
  <2>1. pass = 39 /\ prog \in Programs
    BY Through DEF AnswerInv, GuardInv
  <2>2. Pair(f, g) /\ Apart(f, g)
    BY <2>1, TwinIsPair
  <2>3. Outcome(f, g)
    BY <2>2 DEF TwinInv, Ranked
  <2> QED
    BY <2>1, <2>3 DEF Outcome
<1> QED
  BY <1>1, <1>2, <1>3, PTL DEF Spec
=============================================================================
