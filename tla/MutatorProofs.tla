---------------------------- MODULE MutatorProofs ----------------------------
(***************************************************************************)
(* Proofs about class Mutator, for every grammar: about IRLibrary, which   *)
(* it takes its replacements from, and about Mutation, which makes the     *)
(* mutants of one test case.                                               *)
(*                                                                         *)
(* The invariants of the library do not mention why a stored hash is still *)
(* the hash of its IR.  The inductive invariant LibraryInv does: every     *)
(* stored IR and every IR still to be saved has been extracted, and no     *)
(* children are off while SaveIRRecursive runs.                            *)
(*                                                                         *)
(* For Mutation, MInv says that the test case, the mutants, the variants   *)
(* and the copies under way are roots of one forest, outside the library.  *)
(* Roots that differ have no node in common, so each of deep_copy,         *)
(* replace, ExtractStructure and the freeing of nodes, described once for  *)
(* any forest, leaves every other tree as it was.  PInv, SInv and HInv add *)
(* productions, values and hashes to it.                                   *)
(***************************************************************************)
EXTENDS IRLibrary, Mutation, SequenceTheorems, FiniteSetTheorems, NaturalsInduction,
        WellFoundedInduction, TLAPS

Pos(v) == 1..Len(v)

\* What is stored, or will be, has been extracted, with everything below it.
Extraction ==
  /\ \A t \in IRTYPE : \A i \in Pos(ir_library_[t]) : ir_library_[t][i] \in extracted
  /\ \A k \in Pos(calls) : calls[k] \in extracted
  /\ \A x \in extracted : ChildIRs(x) \subseteq extracted

\* Children are off only while a strategy copies an IR, and only that IR's.
Borrowing ==
  /\ calls # <<>> => borrowed = Nil
  /\ borrowed = Nil => detached = {}
  /\ detached \subseteq {borrowed}

\* The stored hashes are the texts of the stored IRs, each text once.
TextsKept ==
  \A t \in IRTYPE :
    /\ ir_library_hash_[t] = {Text[ir_library_[t][i]] : i \in Pos(ir_library_[t])}
    /\ \A i, j \in Pos(ir_library_[t]) :
         Text[ir_library_[t][i]] = Text[ir_library_[t][j]] => i = j

\* A child of a stored IR has a type the library serves, or is still to come.
ChildPending ==
  \A t \in IRTYPE : \A i \in Pos(ir_library_[t]) :
    \A c \in ChildIRs(ir_library_[t][i]) :
      ir_library_[Type[c]] # <<>> \/ \E k \in Pos(calls) : calls[k] = c

\* As many hashes as IRs.
Counted ==
  \A t \in IRTYPE :
    /\ IsFiniteSet(ir_library_hash_[t])
    /\ Cardinality(ir_library_hash_[t]) = Len(ir_library_[t])

LibraryInv ==
  /\ TypeOK
  /\ Extraction
  /\ Borrowing
  /\ TextsKept
  /\ PoolsBounded
  /\ ChildPending
  /\ Counted

-----------------------------------------------------------------------------
(***************************************************************************)
(* hash(ir) of an extracted IR is the hash of its text, if no children are *)
(* off.                                                                    *)
(***************************************************************************)
LEMMA HashIsText ==
  ASSUME detached = {}, NEW x \in extracted
  PROVE  HashOf(x) = Text[x]
  BY DEF HashOf

\* The calls SaveIRRecursive makes are those for the children.
LEMMA ChildCallsType ==
  ASSUME NEW x \in IRNode
  PROVE  /\ ChildCalls(x) \in Seq(IRNode)
         /\ \A k \in Pos(ChildCalls(x)) : ChildCalls(x)[k] \in ChildIRs(x)
         /\ \A c \in ChildIRs(x) : \E k \in Pos(ChildCalls(x)) : ChildCalls(x)[k] = c
         /\ ChildIRs(x) \subseteq IRNode
  <1>1. Left[x] \in IRNode \cup {Nil} /\ Right[x] \in IRNode \cup {Nil}
    BY LibraryAssumption
  <1>2. CASE Left[x] = Nil /\ Right[x] = Nil
    BY <1>1, <1>2 DEF ChildCalls, ChildIRs, Pos
  <1>3. CASE Left[x] # Nil /\ Right[x] = Nil
    <2>1. ChildCalls(x) = <<Left[x]>> BY <1>1, <1>3 DEF ChildCalls
    <2> QED BY <1>1, <1>3, <2>1 DEF ChildIRs, Pos
  <1>4. CASE Left[x] = Nil /\ Right[x] # Nil
    <2>1. ChildCalls(x) = <<Right[x]>> BY <1>1, <1>4 DEF ChildCalls
    <2> QED BY <1>1, <1>4, <2>1 DEF ChildIRs, Pos
  <1>5. CASE Left[x] # Nil /\ Right[x] # Nil
    <2> DEFINE h == <<Left[x]>> \o <<Right[x]>>
    <2>1. ChildCalls(x) = h BY <1>5 DEF ChildCalls
    <2>2. <<Left[x]>> \in Seq(IRNode) /\ <<Right[x]>> \in Seq(IRNode) BY <1>1, <1>5
    <2>3. h \in Seq(IRNode) /\ Len(h) = 2 /\ h[1] = Left[x] /\ h[2] = Right[x]
      BY <2>2, ConcatProperties
    <2> HIDE DEF h
    <2> QED BY <1>1, <1>5, <2>1, <2>3 DEF ChildIRs, Pos
  <1> QED BY <1>2, <1>3, <1>4, <1>5

\* What is in the sequence ns of calls after s[1] has been saved.
CallsFollow(s, ns) ==
  /\ ns \in Seq(IRNode)
  /\ \A k \in Pos(ns) : ns[k] \in ChildIRs(s[1]) \/ \E j \in Pos(s) : ns[k] = s[j]
  /\ \A c \in ChildIRs(s[1]) : \E k \in Pos(ns) : ns[k] = c
  /\ \A j \in Pos(s) : s[j] = s[1] \/ \E k \in Pos(ns) : ns[k] = s[j]

LEMMA CallsAfter ==
  ASSUME NEW s \in Seq(IRNode), s # <<>>
  PROVE  CallsFollow(s, ChildCalls(s[1]) \o Tail(s))
  <1> DEFINE ns == ChildCalls(s[1]) \o Tail(s)
             h == ChildCalls(s[1])
             tl == Tail(s)
             a == Len(h)
             b == Len(tl)
  <1>1. s[1] \in IRNode BY ElementOfSeq
  <1>2. /\ h \in Seq(IRNode)
        /\ \A k \in 1..a : h[k] \in ChildIRs(s[1])
        /\ \A c \in ChildIRs(s[1]) : \E k \in 1..a : h[k] = c
    BY <1>1, ChildCallsType DEF Pos
  <1>3. /\ tl \in Seq(IRNode)
        /\ Len(s) \in Nat /\ Len(s) = b + 1
        /\ \A k \in 1..b : tl[k] = s[k + 1]
    BY HeadTailProperties
  <1>4. a \in Nat /\ b \in Nat BY <1>2, <1>3
  <1>5. /\ ns \in Seq(IRNode)
        /\ Len(ns) = a + b
        /\ \A k \in 1..a + b : ns[k] = IF k <= a THEN h[k] ELSE tl[k - a]
    BY <1>2, <1>3, ConcatProperties
  <1> HIDE DEF h, tl, a, b, ns
  <1>6. ASSUME NEW k \in Pos(ns)
        PROVE ns[k] \in ChildIRs(s[1]) \/ \E j \in Pos(s) : ns[k] = s[j]
    <2>1. CASE k <= a
      <3>1. k \in 1..a + b /\ k \in 1..a BY <2>1, <1>4, <1>5 DEF Pos
      <3>2. ns[k] = h[k] BY <3>1, <2>1, <1>5
      <3> QED BY <3>1, <3>2, <1>2
    <2>2. CASE k > a
      <3>1. k - a \in 1..b /\ ns[k] = s[k - a + 1]
        <4>1. k \in 1..a + b /\ ~(k <= a) BY <2>2, <1>4, <1>5 DEF Pos
        <4>2. k - a \in 1..b BY <4>1, <1>4
        <4>3. ns[k] = tl[k - a] BY <4>1, <1>5
        <4> QED BY <4>2, <4>3, <1>3
      <3>2. k - a + 1 \in Pos(s) BY <3>1, <1>3, <1>4 DEF Pos
      <3> QED BY <3>1, <3>2
    <2> QED BY <2>1, <2>2, <1>4 DEF Pos
  <1>7. ASSUME NEW c \in ChildIRs(s[1]) PROVE \E k \in Pos(ns) : ns[k] = c
    <2>1. PICK k \in 1..a : h[k] = c BY <1>2
    <2>2. k \in 1..a + b /\ k <= a BY <1>4
    <2>3. k \in Pos(ns) /\ ns[k] = c BY <2>1, <2>2, <1>5 DEF Pos
    <2> QED BY <2>3
  <1>8. ASSUME NEW j \in Pos(s), s[j] # s[1]
        PROVE \E k \in Pos(ns) : ns[k] = s[j]
    <2>1. j - 1 \in 1..b /\ tl[j - 1] = s[j] BY <1>3, <1>4, <1>8 DEF Pos
    <2> DEFINE m == j - 1 + a
    <2>2. m \in 1..a + b /\ ~(m <= a) /\ m - a = j - 1 BY <2>1, <1>4
    <2> HIDE DEF m
    <2>3. m \in Pos(ns) /\ ns[m] = s[j] BY <2>1, <2>2, <1>5 DEF Pos
    <2> QED BY <2>3
  <1>9. CallsFollow(s, ns) BY <1>5, <1>6, <1>7, <1>8 DEF CallsFollow
  <1> QED BY <1>9 DEF ns

\* A vector after push_back, and after an eviction.
LEMMA Appended ==
  ASSUME NEW v \in Seq(IRNode), NEW x \in IRNode, NEW w, w = Append(v, x)
  PROVE  /\ w \in Seq(IRNode)
         /\ Len(w) = Len(v) + 1
         /\ w[Len(v) + 1] = x
         /\ \A i \in Pos(v) : w[i] = v[i]
  BY AppendProperties DEF Pos

LEMMA EvictedVector ==
  ASSUME NEW v \in Seq(IRNode), NEW x \in IRNode, NEW i \in Pos(v),
         NEW w, w = Evicted(v, i, x)
  PROVE  /\ w \in Seq(IRNode)
         /\ Len(w) = Len(v)
         /\ w[Len(v)] = x
         /\ \A j \in Pos(v) : j # Len(v) => w[j] = IF j = i THEN v[Len(v)] ELSE v[j]
  BY DEF Evicted, Pos

\* The number of hashes after insert and erase.
LEMMA SetInsert ==
  ASSUME NEW S, NEW x, x \notin S, IsFiniteSet(S)
  PROVE  IsFiniteSet(S \cup {x}) /\ Cardinality(S \cup {x}) = Cardinality(S) + 1
  BY FS_AddElement, Zenon

LEMMA SetErase ==
  ASSUME NEW S, NEW x, x \in S, IsFiniteSet(S)
  PROVE  IsFiniteSet(S \ {x}) /\ Cardinality(S \ {x}) = Cardinality(S) - 1
  BY FS_RemoveElement, Zenon

-----------------------------------------------------------------------------
\* A vector w, with its hashes H, that may take the place of vector v of type t
\* when x is saved: it holds x, IRs of v and nothing else, each text once.
GoodPool(v, w, H, x, t) ==
  /\ w \in Seq(IRNode)
  /\ w # <<>>
  /\ Len(w) <= kMaxIRNumForOneType
  /\ \A i \in Pos(w) : w[i] = x \/ \E j \in Pos(v) : w[i] = v[j]
  /\ H = {Text[w[i]] : i \in Pos(w)}
  /\ \A i, j \in Pos(w) : Text[w[i]] = Text[w[j]] => i = j
  /\ IsFiniteSet(H)
  /\ Cardinality(H) = Len(w)

\* The facts about the IR that SaveIRRecursive is called with.
LEMMA CurrentCall ==
  ASSUME LibraryInv, calls # <<>>
  PROVE  /\ calls[1] \in IRNode
         /\ calls[1] \in extracted
         /\ Type[calls[1]] \in IRTYPE
         /\ borrowed = Nil
         /\ detached = {}
         /\ HashOf(calls[1]) = Text[calls[1]]
         /\ Text[calls[1]] \in Texts
  <1>1. calls[1] \in IRNode /\ 1 \in Pos(calls)
    BY ElementOfSeq, EmptySeq DEF LibraryInv, TypeOK, Pos
  <1>2. calls[1] \in extracted BY <1>1 DEF LibraryInv, Extraction
  <1>3. borrowed = Nil /\ detached = {} BY DEF LibraryInv, Borrowing
  <1> QED BY <1>1, <1>2, <1>3, HashIsText, LibraryAssumption DEF Texts

\* The facts about one vector and its hashes.
LEMMA OnePool ==
  ASSUME LibraryInv, NEW t \in IRTYPE
  PROVE  /\ ir_library_[t] \in Seq(IRNode)
         /\ Len(ir_library_[t]) \in Nat
         /\ ir_library_hash_[t] \in SUBSET Texts
         /\ ir_library_hash_[t] = {Text[ir_library_[t][i]] : i \in Pos(ir_library_[t])}
         /\ \A i, j \in Pos(ir_library_[t]) :
              Text[ir_library_[t][i]] = Text[ir_library_[t][j]] => i = j
         /\ Len(ir_library_[t]) <= kMaxIRNumForOneType
         /\ \A i \in Pos(ir_library_[t]) :
              /\ ir_library_[t][i] \in IRNode
              /\ ir_library_[t][i] \in extracted
              /\ Type[ir_library_[t][i]] = t
         /\ IsFiniteSet(ir_library_hash_[t])
         /\ Cardinality(ir_library_hash_[t]) = Len(ir_library_[t])
  <1>1. ir_library_[t] \in Seq(IRNode) /\ ir_library_hash_[t] \in SUBSET Texts
    BY DEF LibraryInv, TypeOK
  <1>2. \A i \in Pos(ir_library_[t]) : ir_library_[t][i] \in IRNode
    BY <1>1, ElementOfSeq DEF Pos
  <1>3. \A i \in Pos(ir_library_[t]) : ir_library_[t][i] \in extracted
    BY DEF LibraryInv, Extraction
  <1>4. /\ Len(ir_library_[t]) <= kMaxIRNumForOneType
        /\ \A i \in Pos(ir_library_[t]) : Type[ir_library_[t][i]] = t
    BY DEF LibraryInv, PoolsBounded, Pos
  <1>5. /\ ir_library_hash_[t] = {Text[ir_library_[t][i]] : i \in Pos(ir_library_[t])}
        /\ \A i, j \in Pos(ir_library_[t]) :
             Text[ir_library_[t][i]] = Text[ir_library_[t][j]] => i = j
    BY DEF LibraryInv, TextsKept
  <1>6. /\ IsFiniteSet(ir_library_hash_[t])
        /\ Cardinality(ir_library_hash_[t]) = Len(ir_library_[t])
    BY DEF LibraryInv, Counted
  <1> QED BY <1>1, <1>2, <1>3, <1>4, <1>5, <1>6

\* Appending a new text gives a good vector.
LEMMA AppendIsGood ==
  ASSUME LibraryInv, NEW t \in IRTYPE, NEW x \in IRNode, Type[x] = t,
         Text[x] \notin ir_library_hash_[t],
         Len(ir_library_[t]) < kMaxIRNumForOneType
  PROVE  GoodPool(ir_library_[t], Append(ir_library_[t], x),
                  ir_library_hash_[t] \cup {Text[x]}, x, t)
  <1> DEFINE v == ir_library_[t]
             H == ir_library_hash_[t]
             w == Append(v, x)
             n == Len(v)
             G == H \cup {Text[x]}
  <1>1. /\ v \in Seq(IRNode) /\ n \in Nat /\ kMaxIRNumForOneType \in Nat
        /\ n < kMaxIRNumForOneType
        /\ H = {Text[v[i]] : i \in 1..n}
        /\ \A i, j \in 1..n : Text[v[i]] = Text[v[j]] => i = j
        /\ IsFiniteSet(H) /\ Cardinality(H) = n
        /\ Text[x] \notin H
    BY OnePool, LibraryAssumption DEF Pos
  <1>2. /\ w \in Seq(IRNode) /\ Len(w) = n + 1 /\ w[n + 1] = x
        /\ \A i \in 1..n : w[i] = v[i]
    BY <1>1, Appended DEF Pos
  <1>3. IsFiniteSet(G) /\ Cardinality(G) = n + 1
    BY <1>1, SetInsert, ZenonT(30)
  <1> HIDE DEF v, H, w, n
  <1>4. \A i \in 1..n + 1 : i = n + 1 \/ i \in 1..n BY <1>1
  <1>5. 1..n \subseteq 1..n + 1 /\ n + 1 \in 1..n + 1 BY <1>1
  <1>6. \A i \in 1..n : Text[v[i]] \in H BY <1>1
  <1>7. \A i, j \in 1..n + 1 : Text[w[i]] = Text[w[j]] => i = j
    BY <1>1, <1>2, <1>4, <1>6
  <1>8. \A h \in G : \E i \in 1..n + 1 : h = Text[w[i]]
    BY <1>1, <1>2, <1>5
  <1>9. \A i \in 1..n + 1 : Text[w[i]] \in G
    BY <1>2, <1>4, <1>6
  <1>10. G = {Text[w[i]] : i \in 1..n + 1} BY <1>8, <1>9
  <1>11. w # <<>> /\ n + 1 <= kMaxIRNumForOneType BY <1>1, <1>2, EmptySeq
  <1>12. \A i \in 1..n + 1 : w[i] = x \/ \E j \in 1..n : w[i] = v[j] BY <1>2, <1>4
  <1>13. Pos(w) = 1..n + 1 /\ Pos(v) = 1..n BY <1>2 DEF Pos, n
  <1>14. GoodPool(v, w, G, x, t)
    BY <1>2, <1>3, <1>7, <1>10, <1>11, <1>12, <1>13 DEF GoodPool
  <1> QED BY <1>14 DEF v, H, w

\* So does an eviction.
LEMMA EvictionIsGood ==
  ASSUME LibraryInv, NEW t \in IRTYPE, NEW x \in IRNode, Type[x] = t,
         Text[x] \notin ir_library_hash_[t],
         NEW k \in Pos(ir_library_[t])
  PROVE  GoodPool(ir_library_[t], Evicted(ir_library_[t], k, x),
                  (ir_library_hash_[t] \ {Text[ir_library_[t][k]]}) \cup {Text[x]}, x, t)
  <1> DEFINE v == ir_library_[t]
             H == ir_library_hash_[t]
             w == Evicted(v, k, x)
             n == Len(v)
             D == H \ {Text[v[k]]}
             G == D \cup {Text[x]}
  <1>1. /\ v \in Seq(IRNode) /\ n \in Nat
        /\ n <= kMaxIRNumForOneType
        /\ H = {Text[v[i]] : i \in 1..n}
        /\ \A i, j \in 1..n : Text[v[i]] = Text[v[j]] => i = j
        /\ IsFiniteSet(H) /\ Cardinality(H) = n
        /\ Text[x] \notin H
        /\ k \in 1..n
    BY OnePool DEF Pos
  <1>2. /\ w \in Seq(IRNode) /\ Len(w) = n /\ w[n] = x
        /\ \A j \in 1..n : j # n => w[j] = IF j = k THEN v[n] ELSE v[j]
    BY <1>1, EvictedVector DEF Pos
  <1>3. /\ IsFiniteSet(D) /\ Cardinality(D) = n - 1
    <2>1. Text[v[k]] \in H BY <1>1
    <2> HIDE DEF n, v, H
    <2> QED BY <2>1, <1>1, SetErase, Zenon
  <1>4. Text[x] \notin D BY <1>1
  <1>5. IsFiniteSet(G) /\ Cardinality(G) = n
    <2>1. IsFiniteSet(G) /\ Cardinality(G) = Cardinality(D) + 1
      BY <1>3, <1>4, SetInsert, Zenon
    <2> DEFINE d == Cardinality(D)
               g == Cardinality(G)
    <2>2. d = n - 1 /\ g = d + 1 BY <2>1, <1>3, Zenon
    <2> HIDE DEF d, g, n
    <2>3. g = n BY <2>2, <1>1
    <2> QED BY <2>1, <2>3, Zenon DEF g
  <1> HIDE DEF v, H, w, n
  <1>6. n \in 1..n BY <1>1
  <1>7. \A i \in 1..n : Text[v[i]] \in H BY <1>1
  <1>8. \A i, j \in 1..n : Text[w[i]] = Text[w[j]] => i = j
    BY <1>1, <1>2, <1>6, <1>7
  <1>9. \A h \in G : \E i \in 1..n : h = Text[w[i]]
    <2>1. ASSUME NEW i \in 1..n, i # k PROVE \E j \in 1..n : v[i] = w[j]
      BY <2>1, <1>1, <1>2, <1>6
    <2> QED BY <2>1, <1>1, <1>2, <1>6
  <1>10. \A i \in 1..n : Text[w[i]] \in G
    BY <1>1, <1>2, <1>6, <1>7
  <1>11. G = {Text[w[i]] : i \in 1..n} BY <1>9, <1>10
  <1>12. w # <<>> BY <1>1, <1>2, EmptySeq
  <1>13. \A i \in 1..n : w[i] = x \/ \E j \in 1..n : w[i] = v[j] BY <1>2, <1>6
  <1>14. Pos(w) = 1..n /\ Pos(v) = 1..n BY <1>2 DEF Pos, n
  <1>15. GoodPool(v, w, G, x, t)
    BY <1>1, <1>2, <1>5, <1>8, <1>11, <1>12, <1>13, <1>14 DEF GoodPool
  <1> QED BY <1>15 DEF v, H, w

-----------------------------------------------------------------------------
\* The common part of SaveNew and SaveEvict: calls[1] goes into its vector.
Saved(t, w, H) ==
  /\ ir_library_' = [ir_library_ EXCEPT ![t] = w]
  /\ ir_library_hash_' = [ir_library_hash_ EXCEPT ![t] = H]
  /\ calls' = ChildCalls(calls[1]) \o Tail(calls)
  /\ UNCHANGED <<extracted, detached, borrowed>>

(***************************************************************************)
(* Saving an IR with a good vector preserves the invariant.                *)
(***************************************************************************)
LEMMA SavedStep ==
  ASSUME LibraryInv, calls # <<>>, NEW t, t = Type[calls[1]], NEW w, NEW H,
         GoodPool(ir_library_[t], w, H, calls[1], t),
         Saved(t, w, H)
  PROVE  LibraryInv'
  <1> DEFINE x == calls[1]
             v == ir_library_[t]
  <1>1. x \in IRNode /\ x \in extracted /\ t \in IRTYPE /\ Type[x] = t
        /\ borrowed = Nil /\ detached = {} /\ Text[x] \in Texts
    BY CurrentCall
  <1>2. /\ w \in Seq(IRNode) /\ w # <<>> /\ Len(w) <= kMaxIRNumForOneType
        /\ \A i \in Pos(w) : w[i] = x \/ \E j \in Pos(v) : w[i] = v[j]
        /\ H = {Text[w[i]] : i \in Pos(w)}
        /\ \A i, j \in Pos(w) : Text[w[i]] = Text[w[j]] => i = j
        /\ IsFiniteSet(H) /\ Cardinality(H) = Len(w)
    BY DEF GoodPool
  <1>3. /\ ir_library_ \in [IRTYPE -> Seq(IRNode)]
        /\ ir_library_hash_ \in [IRTYPE -> SUBSET Texts]
        /\ calls \in Seq(IRNode) /\ extracted \subseteq IRNode
        /\ detached \subseteq IRNode /\ borrowed \in IRNode \cup {Nil}
    BY DEF LibraryInv, TypeOK
  <1>4. /\ ir_library_' = [ir_library_ EXCEPT ![t] = w]
        /\ ir_library_hash_' = [ir_library_hash_ EXCEPT ![t] = H]
        /\ calls' = ChildCalls(x) \o Tail(calls)
        /\ extracted' = extracted /\ detached' = detached /\ borrowed' = borrowed
    BY DEF Saved
  <1>5. /\ ir_library_'[t] = w /\ ir_library_hash_'[t] = H
        /\ \A u \in IRTYPE : u # t => /\ ir_library_'[u] = ir_library_[u]
                                      /\ ir_library_hash_'[u] = ir_library_hash_[u]
    BY <1>1, <1>3, <1>4
  <1>6. /\ calls' \in Seq(IRNode)
        /\ \A k \in Pos(calls') : calls'[k] \in ChildIRs(x) \/ \E j \in Pos(calls) : calls'[k] = calls[j]
        /\ \A c \in ChildIRs(x) : \E k \in Pos(calls') : calls'[k] = c
        /\ \A j \in Pos(calls) : calls[j] = x \/ \E k \in Pos(calls') : calls'[k] = calls[j]
    <2>1. CallsFollow(calls, ChildCalls(calls[1]) \o Tail(calls)) BY <1>3, CallsAfter, Zenon
    <2>2. CallsFollow(calls, calls') BY <2>1, <1>4, Zenon
    <2> QED BY <2>2, Zenon DEF CallsFollow
  <1>7. \A i \in Pos(v) : v[i] \in IRNode /\ v[i] \in extracted /\ Type[v[i]] = t
    BY <1>1, OnePool
  <1>8. \A i \in Pos(w) : w[i] \in IRNode /\ w[i] \in extracted /\ Type[w[i]] = t
    BY <1>1, <1>2, <1>7, ZenonT(30)
  <1> HIDE DEF x, v
  <1>9. TypeOK'
    <2>1. H \subseteq Texts BY <1>2, <1>8 DEF Texts
    <2> QED BY <1>1, <1>2, <1>3, <1>4, <1>6, <2>1 DEF TypeOK
  <1>10. Extraction'
    <2>1. \A u \in IRTYPE : \A i \in Pos(ir_library_'[u]) : ir_library_'[u][i] \in extracted
      BY <1>5, <1>8 DEF LibraryInv, Extraction
    <2>2. /\ \A k \in Pos(calls) : calls[k] \in extracted
          /\ \A y \in extracted : ChildIRs(y) \subseteq extracted
      BY DEF LibraryInv, Extraction
    <2>3. \A k \in Pos(calls') : calls'[k] \in extracted
      BY <1>1, <1>6, <2>2
    <2> QED BY <1>4, <2>1, <2>2, <2>3 DEF Extraction
  <1>11. Borrowing'
    BY <1>1, <1>4 DEF LibraryInv, Borrowing
  <1>12. TextsKept'
    <2>1. ASSUME NEW u \in IRTYPE
          PROVE /\ ir_library_hash_'[u] = {Text[ir_library_'[u][i]] : i \in Pos(ir_library_'[u])}
                /\ \A i, j \in Pos(ir_library_'[u]) :
                     Text[ir_library_'[u][i]] = Text[ir_library_'[u][j]] => i = j
      <3>1. CASE u = t
        <4>1. ir_library_'[u] = w /\ ir_library_hash_'[u] = H BY <3>1, <1>5
        <4>2. H = {Text[w[i]] : i \in Pos(w)} BY <1>2
        <4>3. ir_library_hash_'[u] = {Text[ir_library_'[u][i]] : i \in Pos(ir_library_'[u])}
          BY <4>1, <4>2, Zenon
        <4> QED BY <4>1, <4>3, <1>2
      <3>2. CASE u # t BY <3>2, <1>5 DEF LibraryInv, TextsKept
      <3> QED BY <3>1, <3>2
    <2> QED BY <2>1 DEF TextsKept
  <1>13. PoolsBounded'
    <2>1. ASSUME NEW u \in IRTYPE
          PROVE /\ Len(ir_library_'[u]) <= kMaxIRNumForOneType
                /\ \A i \in Pos(ir_library_'[u]) : Type[ir_library_'[u][i]] = u
      <3>1. CASE u = t BY <3>1, <1>2, <1>5, <1>8
      <3>2. CASE u # t BY <3>2, <1>5 DEF LibraryInv, PoolsBounded, Pos
      <3> QED BY <3>1, <3>2
    <2> QED BY <2>1 DEF PoolsBounded, Pos
  <1>14. ChildPending'
    <2> SUFFICES ASSUME NEW u \in IRTYPE, NEW i \in Pos(ir_library_'[u]),
                        NEW c \in ChildIRs(ir_library_'[u][i])
                 PROVE  ir_library_'[Type[c]] # <<>> \/ \E k \in Pos(calls') : calls'[k] = c
      BY DEF ChildPending
    <2>1. CASE ir_library_'[u][i] = x BY <2>1, <1>6
    <2>2. CASE ir_library_'[u][i] # x
      <3>1. PICK j \in Pos(ir_library_[u]) : ir_library_[u][j] = ir_library_'[u][i]
        <4>1. CASE u = t
          <5>1. i \in Pos(w) /\ ir_library_'[u][i] = w[i] BY <4>1, <1>5
          <5>2. \E j \in Pos(v) : w[i] = v[j] BY <5>1, <2>2, <1>2
          <5> QED BY <4>1, <5>1, <5>2 DEF v
        <4>2. CASE u # t BY <4>2, <1>5
        <4> QED BY <4>1, <4>2
      <3>2. ir_library_[u][j] \in IRNode BY OnePool
      <3>3. c \in IRNode BY <3>1, <3>2, ChildCallsType
      <3>4. Type[c] \in IRTYPE BY <3>3, LibraryAssumption
      <3>5. ir_library_[Type[c]] # <<>> \/ \E k \in Pos(calls) : calls[k] = c
        BY <3>1 DEF LibraryInv, ChildPending
      <3>6. ir_library_[Type[c]] # <<>> => ir_library_'[Type[c]] # <<>>
        BY <3>4, <1>2, <1>5
      <3>7. c = x => ir_library_'[Type[c]] # <<>> BY <1>1, <1>2, <1>5
      <3> QED BY <3>5, <3>6, <3>7, <1>6
    <2> QED BY <2>1, <2>2
  <1>15. Counted'
    <2>1. ASSUME NEW u \in IRTYPE
          PROVE /\ IsFiniteSet(ir_library_hash_'[u])
                /\ Cardinality(ir_library_hash_'[u]) = Len(ir_library_'[u])
      <3>1. CASE u = t BY <3>1, <1>2, <1>5
      <3>2. CASE u # t BY <3>2, <1>5 DEF LibraryInv, Counted
      <3> QED BY <3>1, <3>2
    <2> QED BY <2>1 DEF Counted
  <1> QED BY <1>9, <1>10, <1>11, <1>12, <1>13, <1>14, <1>15 DEF LibraryInv

\* SaveNew and SaveEvict are such steps.
LEMMA SaveNewIsSaved ==
  ASSUME LibraryInv, SaveNew
  PROVE  \E w, H : /\ GoodPool(ir_library_[Type[calls[1]]], w, H, calls[1], Type[calls[1]])
                   /\ Len(w) = Len(ir_library_[Type[calls[1]]]) + 1
                   /\ H = ir_library_hash_[Type[calls[1]]] \cup {Text[calls[1]]}
                   /\ Saved(Type[calls[1]], w, H)
  <1> DEFINE x == calls[1]
             t == Type[x]
             w == Append(ir_library_[t], x)
             H == ir_library_hash_[t] \cup {Text[x]}
  <1>1. x \in IRNode /\ t \in IRTYPE /\ HashOf(x) = Text[x]
    BY CurrentCall DEF SaveNew
  <1>2. /\ HashOf(x) \notin ir_library_hash_[t]
        /\ ~Full(t)
        /\ ir_library_' = [ir_library_ EXCEPT ![t] = w]
        /\ ir_library_hash_' = [ir_library_hash_ EXCEPT ![t] = @ \cup {HashOf(x)}]
        /\ calls' = ChildCalls(x) \o Tail(calls)
        /\ UNCHANGED <<extracted, detached, borrowed>>
    BY Zenon DEF SaveNew
  <1>3. Saved(t, w, H) BY <1>1, <1>2, Zenon DEF Saved
  <1>4. GoodPool(ir_library_[t], w, H, x, t)
    <2>1. Len(ir_library_[t]) < kMaxIRNumForOneType
      BY <1>1, <1>2, OnePool, LibraryAssumption DEF Full
    <2> QED BY <1>1, <1>2, <2>1, AppendIsGood, Zenon
  <1>5. Len(w) = Len(ir_library_[t]) + 1 BY <1>1, OnePool, Appended
  <1> QED BY <1>3, <1>4, <1>5, Zenon

LEMMA SaveEvictIsSaved ==
  ASSUME LibraryInv, NEW k \in Slots, SaveEvict(k)
  PROVE  \E w, H : /\ GoodPool(ir_library_[Type[calls[1]]], w, H, calls[1], Type[calls[1]])
                   /\ Len(w) = Len(ir_library_[Type[calls[1]]])
                   /\ Len(w) = kMaxIRNumForOneType
                   /\ \E g \in ir_library_hash_[Type[calls[1]]] :
                        H = (ir_library_hash_[Type[calls[1]]] \ {g}) \cup {Text[calls[1]]}
                   /\ Saved(Type[calls[1]], w, H)
  <1> DEFINE x == calls[1]
             t == Type[x]
             v == ir_library_[t]
             w == Evicted(v, k, x)
             g == Text[v[k]]
             H == (ir_library_hash_[t] \ {g}) \cup {Text[x]}
  <1>1. x \in IRNode /\ t \in IRTYPE /\ HashOf(x) = Text[x] /\ detached = {}
    BY CurrentCall DEF SaveEvict
  <1>2. /\ HashOf(x) \notin ir_library_hash_[t]
        /\ Full(t)
        /\ k \in 1..Len(v)
        /\ ir_library_' = [ir_library_ EXCEPT ![t] = w]
        /\ ir_library_hash_' = [ir_library_hash_ EXCEPT ![t] = HashesLess(t, k) \cup {HashOf(x)}]
        /\ calls' = ChildCalls(x) \o Tail(calls)
        /\ UNCHANGED <<extracted, detached, borrowed>>
    BY Zenon DEF SaveEvict
  <1>3. k \in Pos(v) /\ v \in Seq(IRNode) /\ v[k] \in extracted
        /\ g \in ir_library_hash_[t] /\ Len(v) <= kMaxIRNumForOneType /\ Len(v) \in Nat
        /\ kMaxIRNumForOneType \in Nat
    BY <1>1, <1>2, OnePool, LibraryAssumption DEF Pos
  <1>4. HashesLess(t, k) = ir_library_hash_[t] \ {g}
    BY <1>1, <1>3, HashIsText DEF HashesLess
  <1>5. Saved(t, w, H) BY <1>1, <1>2, <1>4, Zenon DEF Saved
  <1>6. GoodPool(v, w, H, x, t) BY <1>1, <1>2, <1>3, EvictionIsGood, Zenon
  <1>7. Len(w) = Len(v) BY <1>1, <1>3, EvictedVector
  <1>8. Len(w) = kMaxIRNumForOneType BY <1>2, <1>3, <1>7 DEF Full
  <1> QED BY <1>3, <1>5, <1>6, <1>7, <1>8, Zenon

-----------------------------------------------------------------------------
LEMMA InitLibraryInv == LibraryInit => LibraryInv
  <1> SUFFICES ASSUME LibraryInit PROVE LibraryInv OBVIOUS
  <1> USE DEF LibraryInit
  <1>1. <<>> \in Seq(IRNode) /\ Len(<<>>) = 0 /\ Pos(<<>>) = {} BY DEF Pos
  <1>2. TypeOK BY <1>1 DEF TypeOK
  <1>3. Extraction BY <1>1 DEF Extraction
  <1>4. Borrowing BY DEF Borrowing
  <1>5. TextsKept BY <1>1 DEF TextsKept
  <1>6. PoolsBounded BY <1>1, LibraryAssumption DEF PoolsBounded
  <1>7. ChildPending BY <1>1 DEF ChildPending
  <1>8. Counted BY <1>1, FS_EmptySet DEF Counted
  <1> QED BY <1>2, <1>3, <1>4, <1>5, <1>6, <1>7, <1>8 DEF LibraryInv

\* One lemma per action that leaves the vectors alone.
LEMMA AddStep ==
  ASSUME LibraryInv, NEW r \in Root, AddIRToLibrary(r)
  PROVE  LibraryInv'
  <1>1. /\ extracted' = extracted \cup TreeOf[r]
        /\ calls = <<>> /\ calls' = <<r>> /\ borrowed = Nil
        /\ ir_library_' = ir_library_ /\ ir_library_hash_' = ir_library_hash_
        /\ detached' = detached /\ borrowed' = borrowed
    BY DEF AddIRToLibrary, Idle
  <1>2. r \in IRNode /\ TreeOf[r] \subseteq IRNode /\ r \in TreeOf[r]
        /\ \A y \in TreeOf[r] : ChildIRs(y) \subseteq TreeOf[r]
    BY LibraryAssumption
  <1>3. TypeOK' BY <1>1, <1>2 DEF LibraryInv, TypeOK
  <1>4. calls' \in Seq(IRNode) /\ Pos(calls') = {1} /\ calls'[1] = r
    BY <1>1, <1>2 DEF Pos
  <1>5. Extraction' BY <1>1, <1>2, <1>4 DEF LibraryInv, Extraction
  <1>6. Borrowing' BY <1>1 DEF LibraryInv, Borrowing
  <1>7. TextsKept' /\ PoolsBounded' /\ Counted'
    BY <1>1 DEF LibraryInv, TextsKept, PoolsBounded, Counted
  <1>8. ChildPending'
    <2>1. Pos(calls) = {} BY <1>1 DEF Pos
    <2> QED BY <1>1, <2>1 DEF LibraryInv, ChildPending
  <1> QED BY <1>3, <1>5, <1>6, <1>7, <1>8 DEF LibraryInv

LEMMA KnownStep ==
  ASSUME LibraryInv, SaveKnown
  PROVE  LibraryInv'
  <1> DEFINE x == calls[1]
             t == Type[x]
  <1>1. /\ calls # <<>> /\ HashOf(x) \in ir_library_hash_[t] /\ calls' = Tail(calls)
        /\ ir_library_' = ir_library_ /\ ir_library_hash_' = ir_library_hash_
        /\ extracted' = extracted /\ detached' = detached /\ borrowed' = borrowed
    BY DEF SaveKnown
  <1>2. x \in IRNode /\ t \in IRTYPE /\ HashOf(x) = Text[x] /\ borrowed = Nil
    BY <1>1, CurrentCall
  <1>3. ir_library_[t] # <<>>
    <2>1. \E i \in Pos(ir_library_[t]) : TRUE BY <1>1, <1>2, OnePool
    <2> QED BY <2>1 DEF Pos
  <1>4. /\ Tail(calls) \in Seq(IRNode)
        /\ Len(calls) \in Nat /\ Len(calls) = Len(Tail(calls)) + 1 /\ Len(Tail(calls)) \in Nat
        /\ \A k \in 1..Len(Tail(calls)) : Tail(calls)[k] = calls[k + 1]
    BY <1>1, HeadTailProperties DEF LibraryInv, TypeOK
  <1>5. \A k \in Pos(calls') : k + 1 \in Pos(calls) /\ calls'[k] = calls[k + 1]
    BY <1>1, <1>4 DEF Pos
  <1>6. \A k \in Pos(calls) : k = 1 \/ (k - 1 \in Pos(calls') /\ calls'[k - 1] = calls[k])
    BY <1>1, <1>4 DEF Pos
  <1>7. TypeOK' BY <1>1, <1>4 DEF LibraryInv, TypeOK
  <1>8. Extraction' BY <1>1, <1>5 DEF LibraryInv, Extraction
  <1>9. Borrowing' BY <1>1, <1>2 DEF LibraryInv, Borrowing
  <1>10. TextsKept' /\ PoolsBounded' /\ Counted'
    BY <1>1 DEF LibraryInv, TextsKept, PoolsBounded, Counted
  <1>11. ChildPending'
    <2> SUFFICES ASSUME NEW u \in IRTYPE, NEW i \in Pos(ir_library_[u]),
                        NEW c \in ChildIRs(ir_library_[u][i]), ir_library_[Type[c]] = <<>>
                 PROVE  \E k \in Pos(calls') : calls'[k] = c
      BY <1>1 DEF ChildPending
    <2>1. PICK k \in Pos(calls) : calls[k] = c BY DEF LibraryInv, ChildPending
    <2>2. k # 1 BY <2>1, <1>3
    <2> QED BY <2>1, <2>2, <1>6
  <1> QED BY <1>7, <1>8, <1>9, <1>10, <1>11 DEF LibraryInv

LEMMA DetachStep ==
  ASSUME LibraryInv, NEW t \in IRTYPE, NEW i \in Slots, DetachChildren(t, i)
  PROVE  LibraryInv'
  <1> DEFINE x == ir_library_[t][i]
  <1>1. /\ calls = <<>> /\ borrowed = Nil /\ i \in Pos(ir_library_[t]) /\ borrowed' = x
        /\ detached' \subseteq detached \cup {x}
        /\ ir_library_' = ir_library_ /\ ir_library_hash_' = ir_library_hash_
        /\ extracted' = extracted /\ calls' = calls
    BY DEF DetachChildren, Idle, Pos
  <1>2. x \in IRNode /\ detached = {} /\ x # Nil
    BY <1>1, OnePool, LibraryAssumption DEF LibraryInv, Borrowing
  <1> HIDE DEF x
  <1>3. TypeOK' BY <1>1, <1>2 DEF LibraryInv, TypeOK
  <1>4. Extraction' BY <1>1 DEF LibraryInv, Extraction
  <1>5. Borrowing' BY <1>1, <1>2 DEF Borrowing
  <1>6. TextsKept' /\ PoolsBounded' /\ Counted' /\ ChildPending'
    BY <1>1 DEF LibraryInv, TextsKept, PoolsBounded, Counted, ChildPending
  <1> QED BY <1>3, <1>4, <1>5, <1>6 DEF LibraryInv

LEMMA RestoreStep ==
  ASSUME LibraryInv, RestoreChildren
  PROVE  LibraryInv'
  <1>1. /\ borrowed # Nil /\ borrowed' = Nil /\ detached' = detached \ {borrowed}
        /\ ir_library_' = ir_library_ /\ ir_library_hash_' = ir_library_hash_
        /\ extracted' = extracted /\ calls' = calls
    BY DEF RestoreChildren
  <1>2. calls = <<>> /\ detached' = {} BY <1>1 DEF LibraryInv, Borrowing
  <1>3. TypeOK' BY <1>1, <1>2 DEF LibraryInv, TypeOK
  <1>4. Extraction' BY <1>1 DEF LibraryInv, Extraction
  <1>5. Borrowing' BY <1>1, <1>2 DEF Borrowing
  <1>6. TextsKept' /\ PoolsBounded' /\ Counted' /\ ChildPending'
    BY <1>1 DEF LibraryInv, TextsKept, PoolsBounded, Counted, ChildPending
  <1> QED BY <1>3, <1>4, <1>5, <1>6 DEF LibraryInv

LEMMA NextLibraryInv == LibraryInv /\ [LibraryNext]_library_vars => LibraryInv'
  <1> SUFFICES ASSUME LibraryInv, [LibraryNext]_library_vars PROVE LibraryInv' OBVIOUS
  <1>1. ASSUME NEW r \in Root, AddIRToLibrary(r) PROVE LibraryInv' BY <1>1, AddStep
  <1>2. CASE SaveKnown BY <1>2, KnownStep
  <1>3. CASE SaveNew
    <2>1. calls # <<>> BY <1>3 DEF SaveNew
    <2> QED BY <1>3, <2>1, SaveNewIsSaved, SavedStep
  <1>4. ASSUME NEW k \in Slots, SaveEvict(k) PROVE LibraryInv'
    <2>1. calls # <<>> BY <1>4 DEF SaveEvict
    <2> QED BY <1>4, <2>1, SaveEvictIsSaved, SavedStep
  <1>5. ASSUME NEW t \in IRTYPE, NEW i \in Slots, DetachChildren(t, i) PROVE LibraryInv'
    BY <1>5, DetachStep
  <1>6. CASE RestoreChildren BY <1>6, RestoreStep
  <1>7. CASE UNCHANGED library_vars
    BY <1>7 DEF library_vars, LibraryInv, TypeOK, Extraction, Borrowing, TextsKept,
                PoolsBounded, ChildPending, Counted
  <1> QED BY <1>1, <1>2, <1>3, <1>4, <1>5, <1>6, <1>7 DEF LibraryNext

(***************************************************************************)
(* The inductive invariant holds in every reachable state of the library.  *)
(***************************************************************************)
THEOREM LibraryInvariant == LibrarySpec => []LibraryInv
  BY InitLibraryInv, NextLibraryInv, PTL DEF LibrarySpec

(***************************************************************************)
(* Type correctness, for every set of programs.                            *)
(***************************************************************************)
THEOREM LibraryTypeOK == LibrarySpec => []TypeOK
  <1>1. LibraryInv => TypeOK BY DEF LibraryInv
  <1> QED BY <1>1, LibraryInvariant, PTL

(***************************************************************************)
(* The stored hashes are exactly the hashes the stored IRs have now, each  *)
(* once, whatever was evicted, known already or taken apart in between.    *)
(***************************************************************************)
THEOREM HashesAreOfContents == LibrarySpec => []HashesMatchContents
  <1>1. LibraryInv => HashesMatchContents
    <2> SUFFICES ASSUME LibraryInv, borrowed = Nil, NEW t \in IRTYPE
                 PROVE  LET v == ir_library_[t] IN
                        /\ ir_library_hash_[t] = {HashOf(v[i]) : i \in 1..Len(v)}
                        /\ \A i, j \in 1..Len(v) : HashOf(v[i]) = HashOf(v[j]) => i = j
      BY DEF HashesMatchContents
    <2> DEFINE v == ir_library_[t]
    <2>1. detached = {} BY DEF LibraryInv, Borrowing
    <2>2. \A i \in 1..Len(v) : v[i] \in extracted BY OnePool DEF Pos
    <2>3. \A i \in 1..Len(v) : HashOf(v[i]) = Text[v[i]] BY <2>1, <2>2, HashIsText
    <2>4. /\ ir_library_hash_[t] = {Text[v[i]] : i \in 1..Len(v)}
          /\ \A i, j \in 1..Len(v) : Text[v[i]] = Text[v[j]] => i = j
      BY OnePool DEF Pos
    <2>5. {Text[v[i]] : i \in 1..Len(v)} = {HashOf(v[i]) : i \in 1..Len(v)}
      BY <2>3
    <2> QED BY <2>3, <2>4, <2>5
  <1> QED BY <1>1, LibraryInvariant, PTL

(***************************************************************************)
(* A vector never holds more than kMaxIRNumForOneType IRs, all of its own  *)
(* type.                                                                   *)
(***************************************************************************)
THEOREM LibraryPoolsBounded == LibrarySpec => []PoolsBounded
  <1>1. LibraryInv => PoolsBounded BY DEF LibraryInv
  <1> QED BY <1>1, LibraryInvariant, PTL

(***************************************************************************)
(* Between two calls the library can serve a child of every IR it holds.   *)
(***************************************************************************)
THEOREM ChildTypesAreAvailable == LibrarySpec => []ChildTypesAvailable
  <1>1. LibraryInv => ChildTypesAvailable
    <2>1. calls = <<>> => Pos(calls) = {} BY DEF Pos
    <2> QED BY <2>1 DEF LibraryInv, ChildPending, ChildTypesAvailable, Pos
  <1> QED BY <1>1, LibraryInvariant, PTL

-----------------------------------------------------------------------------
\* The steps that leave the library alone.
LEMMA OtherSteps ==
  ASSUME \/ \E r \in Root : AddIRToLibrary(r)
         \/ SaveKnown
         \/ \E t \in IRTYPE, i \in Slots : DetachChildren(t, i)
         \/ RestoreChildren
         \/ UNCHANGED library_vars
  PROVE  ir_library_' = ir_library_ /\ ir_library_hash_' = ir_library_hash_
  BY DEF AddIRToLibrary, SaveKnown, DetachChildren, RestoreChildren, library_vars

\* A saving step changes one vector and its hashes.
LEMMA SavedChangesOne ==
  ASSUME LibraryInv, calls # <<>>, NEW w, NEW H, Saved(Type[calls[1]], w, H)
  PROVE  /\ Type[calls[1]] \in IRTYPE
         /\ ir_library_'[Type[calls[1]]] = w
         /\ \A u \in IRTYPE : u # Type[calls[1]] => ir_library_'[u] = ir_library_[u]
  <1>1. Type[calls[1]] \in IRTYPE BY CurrentCall
  <1>2. ir_library_ \in [IRTYPE -> Seq(IRNode)] BY DEF LibraryInv, TypeOK
  <1> QED BY <1>1, <1>2 DEF Saved

(***************************************************************************)
(* No step shrinks a vector: a type the library served once, it serves     *)
(* for ever.                                                               *)
(***************************************************************************)
THEOREM LibraryPoolsNeverShrink == LibrarySpec => PoolsNeverShrink
  <1> DEFINE NoShrink == \A t \in IRTYPE : Len(ir_library_'[t]) >= Len(ir_library_[t])
  <1>1. ASSUME LibraryInv, [LibraryNext]_library_vars PROVE [NoShrink]_library_vars
    <2>1. \A u \in IRTYPE : Len(ir_library_[u]) \in Nat BY <1>1, OnePool
    <2>2. CASE SaveNew
      <3>1. calls # <<>> BY <2>2 DEF SaveNew
      <3>2. PICK w, H : /\ Len(w) = Len(ir_library_[Type[calls[1]]]) + 1
                        /\ Saved(Type[calls[1]], w, H)
        BY <1>1, <2>2, SaveNewIsSaved
      <3> QED BY <1>1, <2>1, <3>1, <3>2, SavedChangesOne
    <2>3. ASSUME NEW k \in Slots, SaveEvict(k) PROVE NoShrink
      <3>1. calls # <<>> BY <2>3 DEF SaveEvict
      <3>2. PICK w, H : /\ Len(w) = Len(ir_library_[Type[calls[1]]])
                        /\ Saved(Type[calls[1]], w, H)
        BY <1>1, <2>3, SaveEvictIsSaved
      <3> QED BY <1>1, <2>1, <3>1, <3>2, SavedChangesOne
    <2>4. ASSUME ir_library_' = ir_library_ PROVE NoShrink BY <2>1, <2>4
    <2> QED BY <1>1, <2>2, <2>3, <2>4, OtherSteps DEF LibraryNext
  <1>2. LibrarySpec => [][NoShrink]_library_vars
    BY <1>1, LibraryInvariant, PTL DEF LibrarySpec
  <1> QED BY <1>2 DEF PoolsNeverShrink

\* IRPool counts with the same Cardinality.
LEMMA PoolCardinality == \A S : Pool!Cardinality(S) = Cardinality(S)
  BY Zenon DEF Cardinality, Pool!Cardinality

(***************************************************************************)
(* The library implements IRPool under the mapping that shows its hashes:  *)
(* the first states map to the empty pools and each step to an addition, a *)
(* replacement or a stutter.                                               *)
(***************************************************************************)
THEOREM LibraryRefinesPool == LibrarySpec => RefinesPool
  <1>1. LibraryInit => Pool!Init BY DEF LibraryInit, Pool!Init
  <1>2. ASSUME LibraryInv, [LibraryNext]_library_vars PROVE [Pool!Next]_ir_library_hash_
    <2> DEFINE x == calls[1]
               t == Type[x]
               P == ir_library_hash_[t]
    <2>1. CASE SaveNew
      <3>1. calls # <<>> BY <2>1 DEF SaveNew
      <3>2. /\ t \in IRTYPE /\ Text[x] \in Texts /\ HashOf(x) = Text[x]
        BY <1>2, <3>1, CurrentCall
      <3>3. /\ Text[x] \notin P
            /\ ~Full(t)
            /\ ir_library_hash_' = [ir_library_hash_ EXCEPT ![t] = @ \cup {Text[x]}]
        BY <2>1, <3>2, Zenon DEF SaveNew
      <3>4. Cardinality(P) < kMaxIRNumForOneType
        BY <1>2, <3>2, <3>3, OnePool, LibraryAssumption DEF Full
      <3>5. Pool!Add(t, Text[x]) BY <3>3, <3>4, PoolCardinality, Zenon DEF Pool!Add
      <3> QED BY <3>2, <3>5, Zenon DEF Pool!Next
    <2>2. ASSUME NEW k \in Slots, SaveEvict(k) PROVE Pool!Next
      <3>1. calls # <<>> BY <2>2 DEF SaveEvict
      <3>2. /\ t \in IRTYPE /\ Text[x] \in Texts /\ HashOf(x) = Text[x] /\ detached = {}
        BY <1>2, <3>1, CurrentCall
      <3> DEFINE g == Text[ir_library_[t][k]]
      <3>3. /\ Text[x] \notin P
            /\ k \in 1..Len(ir_library_[t])
            /\ Full(t)
            /\ ir_library_hash_' = [ir_library_hash_ EXCEPT
                 ![t] = HashesLess(t, k) \cup {Text[x]}]
        BY <2>2, <3>2, Zenon DEF SaveEvict
      <3>4. ir_library_[t][k] \in extracted /\ g \in P /\ g \in Texts
        BY <1>2, <3>2, <3>3, OnePool DEF Pos
      <3>5. HashesLess(t, k) = P \ {g} BY <3>2, <3>4, HashIsText DEF HashesLess
      <3>6. Cardinality(P) = kMaxIRNumForOneType
        BY <1>2, <3>2, <3>3, OnePool, LibraryAssumption DEF Full
      <3>7. Pool!Replace(t, g, Text[x])
        BY <3>3, <3>4, <3>5, <3>6, PoolCardinality, Zenon DEF Pool!Replace
      <3> QED BY <3>2, <3>4, <3>7, Zenon DEF Pool!Next
    <2>3. ASSUME ir_library_hash_' = ir_library_hash_ PROVE [Pool!Next]_ir_library_hash_
      BY <2>3
    <2> QED BY <1>2, <2>1, <2>2, <2>3, OtherSteps DEF LibraryNext
  <1> QED BY <1>1, <1>2, LibraryInvariant, PTL DEF LibrarySpec, RefinesPool, Pool!Spec
(***************************************************************************)
(* Heaps of trees.  A heap is plain when children are nodes and a rank     *)
(* that gets smaller downwards shows that it has no cycle; it is sound     *)
(* when besides no node is a child twice.                                  *)
(***************************************************************************)
IsNode(n) ==
  n = [type |-> n.type, op |-> n.op, data |-> n.data, dt |-> n.dt,
       left |-> n.left, right |-> n.right]

Descends(h, rank) == \A y \in DOMAIN h : \A c \in Kids(h, y) : rank[c] < rank[y]
Ranked(h, k) ==
  /\ DOMAIN h \subseteq 1..k
  /\ \E rank \in [DOMAIN h -> 0..k] : Descends(h, rank)
Plain(h) ==
  /\ h = [y \in DOMAIN h |-> h[y]]
  /\ \A y \in DOMAIN h : IsNode(h[y]) /\ Kids(h, y) \subseteq DOMAIN h
  /\ \E k \in Nat : Ranked(h, k)
Sound(h) == Plain(h) /\ OneParent(h)

\* A set of naturals that is not empty has a least element.
LEMMA LeastElement ==
  ASSUME NEW T, T \subseteq Nat, T # {}
  PROVE  \E x \in T : \A y \in T : x <= y
  <1>1. PICK x \in T : \A y \in T : ~(<<y, x>> \in OpToRel(<, Nat))
    BY NatLessThanWellFounded, WFMin
  <1>2. ASSUME NEW y \in T PROVE x <= y
    <2>1. x \in Nat /\ y \in Nat OBVIOUS
    <2>2. ~(y < x) BY <1>1, <2>1 DEF OpToRel
    <2> QED BY <2>1, <2>2
  <1> QED BY <1>2

\* Induction over the naturals, for a set.
LEMMA Climbing ==
  ASSUME NEW G, 0 \in G, \A n \in Nat : n \in G => n + 1 \in G
  PROVE  \A n \in Nat : n \in G
  <1> SUFFICES ASSUME NEW b \in Nat, b \notin G PROVE FALSE OBVIOUS
  <1> DEFINE T == {n \in Nat : n \notin G}
  <1>1. PICK x \in T : \A y \in T : x <= y
    <2>1. T \subseteq Nat /\ T # {} OBVIOUS
    <2> HIDE DEF T
    <2> QED BY <2>1, LeastElement
  <1>2. x # 0 /\ x \in Nat /\ x \notin G OBVIOUS
  <1>3. x - 1 \in Nat /\ (x - 1) + 1 = x BY <1>2
  <1>4. x - 1 \in G BY <1>1, <1>3
  <1> QED BY <1>2, <1>3, <1>4

\* Induction over the nodes of a heap: what holds of a node when it holds of its
\* children holds of all nodes.
LEMMA TreeInduction ==
  ASSUME NEW h, Plain(h), NEW G, \A y \in DOMAIN h : Kids(h, y) \subseteq G => y \in G
  PROVE  DOMAIN h \subseteq G
  <1> SUFFICES ASSUME NEW b \in DOMAIN h, b \notin G PROVE FALSE OBVIOUS
  <1>1. PICK k \in Nat : Ranked(h, k) BY DEF Plain
  <1>2. PICK rank \in [DOMAIN h -> 0..k] : Descends(h, rank) BY <1>1 DEF Ranked
  <1> DEFINE T == {rank[y] : y \in {z \in DOMAIN h : z \notin G}}
  <1>3. PICK x \in T : \A y \in T : x <= y
    <2>1. T \subseteq Nat /\ T # {} BY <1>2
    <2> HIDE DEF T
    <2> QED BY <2>1, LeastElement
  <1>4. PICK y \in DOMAIN h : y \notin G /\ x = rank[y] OBVIOUS
  <1>5. PICK c \in Kids(h, y) : c \notin G BY <1>4
  <1>6. c \in DOMAIN h BY <1>5 DEF Plain
  <1>7. rank[c] < rank[y] BY <1>2, <1>4, <1>5 DEF Descends
  <1>8. rank[c] \in T BY <1>5, <1>6
  <1>9. rank[c] \in Nat /\ rank[y] \in Nat BY <1>1, <1>2, <1>4, <1>6
  <1> HIDE DEF T
  <1>10. x <= rank[c] BY <1>3, <1>8
  <1> QED BY <1>4, <1>7, <1>9, <1>10

-----------------------------------------------------------------------------
(***************************************************************************)
(* The nodes below a node.  That a recursive function like the one in      *)
(* Under exists is shown for the nodes of ever greater rank.               *)
(***************************************************************************)
Reaches(h, K, f) == f = [y \in DOMAIN h |-> {y} \cup UNION {f[c] : c \in K[y]}]

LEMMA Reaching ==
  ASSUME NEW h, Plain(h), NEW K, \A y \in DOMAIN h : K[y] \subseteq Kids(h, y)
  PROVE  \E f : Reaches(h, K, f)
  <1>1. PICK k \in Nat : Ranked(h, k) BY DEF Plain
  <1>2. PICK rank \in [DOMAIN h -> 0..k] : Descends(h, rank) BY <1>1 DEF Ranked
  <1>0. \A y \in DOMAIN h : Kids(h, y) \subseteq DOMAIN h BY DEF Plain
  <1> DEFINE D(n) == {y \in DOMAIN h : rank[y] < n}
             F(n, f) == [y \in D(n) |-> {y} \cup UNION {f[c] : c \in K[y]}]
             G == {n \in Nat : \E f : f = F(n, f)}
  <1>3. 0 \in G
    <2>1. D(0) = {} BY <1>2
    <2> DEFINE e == [y \in {} |-> {}]
    <2>2. e = F(0, e) BY <2>1
    <2> QED BY <2>2
  <1>4. ASSUME NEW n \in Nat, n \in G PROVE n + 1 \in G
    <2>1. PICK f : f = F(n, f) BY <1>4
    <2> DEFINE g == F(n + 1, f)
    <2>2. \A y \in D(n + 1) : \A c \in K[y] : c \in D(n) /\ c \in D(n + 1)
      BY <1>0, <1>2 DEF Descends
    <2>3. \A c \in D(n) : c \in D(n + 1) BY <1>2
    <2>4. \A c \in D(n) : f[c] = {c} \cup UNION {f[d] : d \in K[c]} BY <2>1
    <2>5. \A c \in D(n + 1) : g[c] = {c} \cup UNION {f[d] : d \in K[c]} OBVIOUS
    <2>6. \A c \in D(n) : f[c] = g[c]
      <3> HIDE DEF D, g
      <3> QED BY <2>3, <2>4, <2>5
    <2>7. \A y \in D(n + 1) : UNION {f[d] : d \in K[y]} = UNION {g[d] : d \in K[y]}
      <3> HIDE DEF D, g
      <3> QED BY <2>2, <2>6
    <2>8. g = F(n + 1, g)
      <3> HIDE DEF D
      <3> QED BY <2>7
    <2> HIDE DEF g, F, D
    <2> QED BY <2>8
  <1>5. k + 1 \in G
    <2> HIDE DEF G
    <2> QED BY <1>1, <1>3, <1>4, Climbing
  <1>6. D(k + 1) = DOMAIN h
    <2>1. \A r \in 0..k : r < k + 1 BY <1>1
    <2>2. \A y \in DOMAIN h : rank[y] < k + 1 BY <1>2, <2>1
    <2> QED BY <2>2
  <1>7. PICK f : f = F(k + 1, f) BY <1>5
  <1>8. Reaches(h, K, f) BY <1>6, <1>7 DEF Reaches
  <1> QED BY <1>8

LEMMA UnderEquation ==
  ASSUME NEW h, Plain(h)
  PROVE  /\ Under(h, 0) = {}
         /\ \A x \in DOMAIN h : Under(h, x) = {x} \cup UNION {Under(h, c) : c \in Kids(h, x)}
  <1>0. \A y \in DOMAIN h : y # 0 /\ \A c \in Kids(h, y) : c # 0 BY DEF Plain, Ranked, Kids
  <1> DEFINE K == [y \in DOMAIN h |-> Kids(h, y)]
             E(f) == [y \in DOMAIN h |-> {y} \cup UNION {f[c] : c \in Kids(h, y)}]
             under == CHOOSE f : f = E(f)
  <1>1. PICK f : Reaches(h, K, f)
    <2>1. \A y \in DOMAIN h : K[y] \subseteq Kids(h, y) OBVIOUS
    <2> HIDE DEF K
    <2> QED BY <2>1, Reaching
  <1>2. f = E(f) BY <1>1 DEF Reaches
  <1>3. under = E(under)
    <2> HIDE DEF E
    <2> QED BY <1>2
  <1>4. \A x : Under(h, x) = IF x = 0 THEN {} ELSE under[x] BY DEF Under
  <1> HIDE DEF under
  <1>5. \A x \in DOMAIN h : under[x] = {x} \cup UNION {under[c] : c \in Kids(h, x)} BY <1>3
  <1>6. ASSUME NEW x \in DOMAIN h
        PROVE  UNION {under[c] : c \in Kids(h, x)} = UNION {Under(h, c) : c \in Kids(h, x)}
    BY <1>0, <1>4
  <1>7. ASSUME NEW x \in DOMAIN h
        PROVE  Under(h, x) = {x} \cup UNION {Under(h, c) : c \in Kids(h, x)}
    <2>1. Under(h, x) = under[x] BY <1>0, <1>4
    <2> QED BY <1>5, <1>6, <2>1
  <1> QED BY <1>4, <1>7

LEMMA UnderSelf ==
  ASSUME NEW h, Plain(h), NEW x \in DOMAIN h
  PROVE  /\ x \in Under(h, x)
         /\ \A c \in Kids(h, x) : Under(h, c) \subseteq Under(h, x) /\ c \in Under(h, x)
         /\ \A y \in Under(h, x) : y = x \/ \E c \in Kids(h, x) : y \in Under(h, c)
  <1>1. Under(h, x) = {x} \cup UNION {Under(h, c) : c \in Kids(h, x)} BY UnderEquation
  <1>2. ASSUME NEW c \in Kids(h, x) PROVE c \in Under(h, c)
    <2>1. c \in DOMAIN h BY DEF Plain
    <2> QED BY <2>1, UnderEquation
  <1> QED BY <1>1, <1>2

\* What holds x and, with a node, its children, holds what is below x.
LEMMA UnderLeast ==
  ASSUME NEW h, Plain(h), NEW x \in DOMAIN h, NEW T, x \in T,
         \A y \in DOMAIN h : y \in T => Kids(h, y) \subseteq T
  PROVE  Under(h, x) \subseteq T
  <1> DEFINE G == {y \in DOMAIN h : y \in T => Under(h, y) \subseteq T}
  <1>1. ASSUME NEW y \in DOMAIN h, Kids(h, y) \subseteq G PROVE y \in G
    <2> SUFFICES ASSUME y \in T, NEW z \in Under(h, y) PROVE z \in T OBVIOUS
    <2>1. CASE z = y BY <2>1
    <2>2. CASE z # y
      <3>1. PICK c \in Kids(h, y) : z \in Under(h, c) BY <2>2, UnderSelf
      <3>2. c \in T /\ c \in G BY <1>1
      <3> QED BY <3>1, <3>2
    <2> QED BY <2>1, <2>2
  <1>2. DOMAIN h \subseteq G
    <2> HIDE DEF G
    <2> QED BY <1>1, TreeInduction
  <1> QED BY <1>2

\* Below a node below x is only what is below x.
LEMMA UnderClosed ==
  ASSUME NEW h, Plain(h), NEW x \in DOMAIN h
  PROVE  /\ Under(h, x) \subseteq DOMAIN h
         /\ \A y \in Under(h, x) : Kids(h, y) \subseteq Under(h, x)
         /\ \A y \in Under(h, x) : Under(h, y) \subseteq Under(h, x)
  <1> DEFINE G == {z \in DOMAIN h : \A y \in Under(h, z) : Kids(h, y) \subseteq Under(h, z)}
  <1>1. ASSUME NEW z \in DOMAIN h, Kids(h, z) \subseteq G PROVE z \in G
    <2> SUFFICES ASSUME NEW y \in Under(h, z), NEW d \in Kids(h, y) PROVE d \in Under(h, z)
      OBVIOUS
    <2>1. CASE y = z BY <2>1, UnderSelf
    <2>2. CASE y # z
      <3>1. PICK c \in Kids(h, z) : y \in Under(h, c) BY <2>2, UnderSelf
      <3>2. d \in Under(h, c) BY <1>1, <3>1
      <3> QED BY <3>1, <3>2, UnderSelf
    <2> QED BY <2>1, <2>2
  <1>2. DOMAIN h \subseteq G
    <2> HIDE DEF G
    <2> QED BY <1>1, TreeInduction
  <1>3. \A y \in Under(h, x) : Kids(h, y) \subseteq Under(h, x) BY <1>2
  <1>4. Under(h, x) \subseteq DOMAIN h
    <2>1. \A y \in DOMAIN h : Kids(h, y) \subseteq DOMAIN h BY DEF Plain
    <2> QED BY <2>1, UnderLeast
  <1>5. ASSUME NEW y \in Under(h, x) PROVE Under(h, y) \subseteq Under(h, x)
    <2>1. y \in DOMAIN h BY <1>4
    <2> QED BY <1>3, <2>1, UnderLeast
  <1> QED BY <1>3, <1>4, <1>5

\* A node below x other than x has its parent below x.
LEMMA UnderParent ==
  ASSUME NEW h, Plain(h), NEW x \in DOMAIN h, NEW y \in Under(h, x), y # x
  PROVE  \E p \in Under(h, x) : y \in Kids(h, p)
  <1> DEFINE T == {z \in Under(h, x) : z = x \/ \E p \in Under(h, x) : z \in Kids(h, p)}
  <1>1. x \in T BY UnderSelf
  <1>2. \A z \in DOMAIN h : z \in T => Kids(h, z) \subseteq T BY UnderClosed
  <1>3. Under(h, x) \subseteq T
    <2> HIDE DEF T
    <2> QED BY <1>1, <1>2, UnderLeast
  <1> QED BY <1>3

\* No node is below its child.
LEMMA NoCycle ==
  ASSUME NEW h, Plain(h), NEW p \in DOMAIN h, NEW x \in Kids(h, p)
  PROVE  p \notin Under(h, x)
  <1>1. PICK k \in Nat : Ranked(h, k) BY DEF Plain
  <1>2. PICK rank \in [DOMAIN h -> 0..k] : Descends(h, rank) BY <1>1 DEF Ranked
  <1>3. x \in DOMAIN h BY DEF Plain
  <1> DEFINE T == {y \in DOMAIN h : rank[y] <= rank[x]}
  <1>4. \A y \in DOMAIN h : rank[y] \in Nat BY <1>1, <1>2
  <1>5. x \in T BY <1>3, <1>4
  <1>6. ASSUME NEW y \in DOMAIN h, y \in T PROVE Kids(h, y) \subseteq T
    <2> SUFFICES ASSUME NEW c \in Kids(h, y) PROVE c \in T OBVIOUS
    <2>1. c \in DOMAIN h BY DEF Plain
    <2>2. rank[c] < rank[y] BY <1>2 DEF Descends
    <2> QED BY <1>3, <1>4, <1>6, <2>1, <2>2
  <1>7. Under(h, x) \subseteq T
    <2> HIDE DEF T
    <2> QED BY <1>3, <1>5, <1>6, UnderLeast
  <1>8. rank[x] < rank[p] BY <1>2 DEF Descends
  <1> QED BY <1>3, <1>4, <1>7, <1>8

-----------------------------------------------------------------------------
(***************************************************************************)
(* Trees that have a node in common.                                       *)
(***************************************************************************)
IsRoot(h, r) == \A y \in DOMAIN h : r \notin Kids(h, y)

LEMMA KidOnce ==
  ASSUME NEW h, Sound(h), NEW y \in DOMAIN h, NEW z \in DOMAIN h, NEW c,
         c \in Kids(h, y), c \in Kids(h, z)
  PROVE  y = z
  BY DEF Sound, OneParent, Kids

\* Of two nodes with a node below both, one is below the other.
LEMMA Comparable ==
  ASSUME NEW h, Sound(h), NEW r \in DOMAIN h, NEW s \in DOMAIN h, NEW w,
         w \in Under(h, r), w \in Under(h, s)
  PROVE  s \in Under(h, r) \/ r \in Under(h, s)
  <1>0. Plain(h) BY DEF Sound
  <1> DEFINE T == {y \in Under(h, s) : y \in Under(h, r) => s \in Under(h, r) \/ r \in Under(h, s)}
  <1>1. s \in T BY <1>0, UnderSelf
  <1>2. ASSUME NEW y \in DOMAIN h, y \in T PROVE Kids(h, y) \subseteq T
    <2> SUFFICES ASSUME NEW c \in Kids(h, y) PROVE c \in T OBVIOUS
    <2>1. c \in Under(h, s) BY <1>0, <1>2, UnderClosed
    <2>2. ASSUME c \in Under(h, r), c # r PROVE s \in Under(h, r) \/ r \in Under(h, s)
      <3>1. PICK p \in Under(h, r) : c \in Kids(h, p) BY <1>0, <2>2, UnderParent
      <3>2. p \in DOMAIN h BY <1>0, <3>1, UnderClosed
      <3>3. p = y BY <3>1, <3>2, KidOnce
      <3> QED BY <1>2, <3>1, <3>3
    <2> QED BY <2>1, <2>2
  <1>3. Under(h, s) \subseteq T
    <2> HIDE DEF T
    <2> QED BY <1>0, <1>1, <1>2, UnderLeast
  <1> QED BY <1>3

LEMMA RootsApart ==
  ASSUME NEW h, Sound(h), NEW r \in DOMAIN h, IsRoot(h, r), NEW s \in DOMAIN h, IsRoot(h, s),
         r # s
  PROVE  Under(h, r) \cap Under(h, s) = {}
  <1>0. Plain(h) BY DEF Sound
  <1>1. ASSUME NEW a \in DOMAIN h, NEW b \in DOMAIN h, IsRoot(h, b), a # b
        PROVE  b \notin Under(h, a)
    <2> SUFFICES ASSUME b \in Under(h, a) PROVE FALSE OBVIOUS
    <2>1. PICK p \in Under(h, a) : b \in Kids(h, p) BY <1>0, <1>1, UnderParent
    <2>2. p \in DOMAIN h BY <1>0, <2>1, UnderClosed
    <2> QED BY <1>1, <2>1, <2>2 DEF IsRoot
  <1>2. r \notin Under(h, s) /\ s \notin Under(h, r) BY <1>1
  <1> QED BY <1>2, Comparable

LEMMA SiblingsApart ==
  ASSUME NEW h, Sound(h), NEW y \in DOMAIN h, NEW a \in Kids(h, y), NEW b \in Kids(h, y), a # b
  PROVE  Under(h, a) \cap Under(h, b) = {}
  <1>0. Plain(h) /\ a \in DOMAIN h /\ b \in DOMAIN h BY DEF Sound, Plain
  <1>1. ASSUME NEW c \in Kids(h, y), NEW d \in Kids(h, y), c # d PROVE d \notin Under(h, c)
    <2> SUFFICES ASSUME d \in Under(h, c) PROVE FALSE OBVIOUS
    <2>0. c \in DOMAIN h BY <1>0 DEF Plain
    <2>1. PICK p \in Under(h, c) : d \in Kids(h, p) BY <1>0, <1>1, <2>0, UnderParent
    <2>2. p \in DOMAIN h BY <1>0, <2>0, <2>1, UnderClosed
    <2>3. p = y BY <2>1, <2>2, KidOnce
    <2> QED BY <1>0, <2>1, <2>3, NoCycle
  <1>2. a \notin Under(h, b) /\ b \notin Under(h, a) BY <1>1
  <1> QED BY <1>0, <1>2, Comparable

\* What is below x depends on the nodes below x only.
LEMMA SameUnder ==
  ASSUME NEW h, Plain(h), NEW g, Plain(g), NEW x \in DOMAIN h, x \in DOMAIN g,
         \A y \in Under(h, x) : y \in DOMAIN g /\ Kids(g, y) = Kids(h, y)
  PROVE  Under(g, x) = Under(h, x)
  <1>1. Under(g, x) \subseteq Under(h, x)
    <2>1. x \in Under(h, x) BY UnderSelf
    <2>2. \A y \in DOMAIN g : y \in Under(h, x) => Kids(g, y) \subseteq Under(h, x)
      BY UnderClosed
    <2> QED BY <2>1, <2>2, UnderLeast
  <1>2. Under(h, x) \subseteq Under(g, x)
    <2>1. x \in Under(g, x) BY UnderSelf
    <2>2. \A y \in DOMAIN h : y \in Under(g, x) => Kids(h, y) \subseteq Under(g, x)
      BY <1>1, UnderClosed
    <2> QED BY <2>1, <2>2, UnderLeast
  <1> QED BY <1>1, <1>2

-----------------------------------------------------------------------------
(***************************************************************************)
(* deep_copy.  g is h with new nodes: f maps each node below x, and        *)
(* nullptr, to its copy.                                                   *)
(***************************************************************************)
Copies(h, x, g, f) ==
  /\ f \in [Under(h, x) \cup {0} -> Nat] /\ f[0] = 0
  /\ \A y \in Under(h, x) : f[y] # 0 /\ f[y] \notin DOMAIN h
  /\ \A y, z \in Under(h, x) : f[y] = f[z] => y = z
  /\ \E b \in Nat : \A y \in Under(h, x) : f[y] <= b
  /\ g = [z \in DOMAIN g |-> g[z]]
  /\ DOMAIN g = DOMAIN h \cup {f[y] : y \in Under(h, x)}
  /\ \A y \in DOMAIN h : g[y] = h[y]
  /\ \A y \in Under(h, x) :
       g[f[y]] = [type |-> h[y].type, op |-> h[y].op, data |-> h[y].data, dt |-> h[y].dt,
                  left |-> f[h[y].left], right |-> f[h[y].right]]

LEMMA MaxIs ==
  ASSUME NEW k \in Nat, NEW D \in SUBSET (1..k), D # {}
  PROVE  Max(D) \in D /\ \A y \in D : y <= Max(D)
  <1> DEFINE T == {b \in Nat : \A y \in D : y <= b}
  <1>1. PICK m \in T : \A b \in T : m <= b
    <2>1. T \subseteq Nat /\ k \in T OBVIOUS
    <2> HIDE DEF T
    <2> QED BY <2>1, LeastElement
  <1>2. m \in D
    <2> SUFFICES ASSUME m \notin D PROVE FALSE OBVIOUS
    <2>0. PICK d \in D : TRUE OBVIOUS
    <2>1. m \in Nat /\ m # 0
      <3>1. d \in 1..k /\ d <= m BY <1>1, <2>0
      <3> QED BY <1>1, <3>1
    <2>2. \A y \in D : y <= m - 1 BY <1>1
    <2>3. m - 1 \in T BY <2>1, <2>2
    <2> QED BY <1>1, <2>1, <2>3
  <1>3. m \in D /\ \A y \in D : m >= y BY <1>1, <1>2
  <1>4. Max(D) \in D /\ \A y \in D : Max(D) >= y BY <1>3 DEF Max
  <1> QED BY <1>4

\* Ranks of the elements of a set of nodes.
LEMMA RanksApart ==
  ASSUME NEW k \in Nat, NEW S \in SUBSET (1..k)
  PROVE  /\ \A y \in S : /\ Cardinality({z \in S : z <= y}) \in Nat \ {0}
                         /\ Cardinality({z \in S : z <= y}) <= k
         /\ \A y, w \in S : y # w => Cardinality({z \in S : z <= y}) # Cardinality({z \in S : z <= w})
  <1> DEFINE R(y) == {z \in S : z <= y}
  <1>1. IsFiniteSet(1..k) /\ Cardinality(1..k) = k BY FS_Interval
  <1>2. IsFiniteSet(S) /\ Cardinality(S) <= k BY <1>1, FS_Subset
  <1>3. ASSUME NEW y \in S
        PROVE  IsFiniteSet(R(y)) /\ Cardinality(R(y)) \in Nat \ {0} /\ Cardinality(R(y)) <= k
    <2>0. y \in Nat /\ y <= y OBVIOUS
    <2>1. R(y) \in SUBSET (1..k) /\ y \in R(y) BY <2>0
    <2> HIDE DEF R
    <2>2. IsFiniteSet(R(y)) /\ Cardinality(R(y)) <= k BY <1>1, <2>1, FS_Subset
    <2> QED BY <2>1, <2>2, FS_EmptySet, FS_CardinalityType
  <1>4. ASSUME NEW y \in S, NEW w \in S, y < w PROVE Cardinality(R(y)) # Cardinality(R(w))
    <2>0. y \in Nat /\ w \in Nat /\ w <= w /\ ~(w <= y) /\ \A z \in S : z \in Nat BY <1>4
    <2>1. \A z \in S : z <= y => z <= w BY <1>4, <2>0
    <2>2. w \in R(w) /\ w \notin R(y) BY <2>0
    <2>3. R(y) \in SUBSET R(w) BY <2>1
    <2> HIDE DEF R
    <2> QED BY <1>3, <2>2, <2>3, FS_Subset
  <1>5. ASSUME NEW y \in S, NEW w \in S, y # w PROVE Cardinality(R(y)) # Cardinality(R(w))
    <2>1. y < w \/ w < y BY <1>5
    <2> HIDE DEF R
    <2> QED BY <1>4, <2>1
  <1> QED BY <1>3, <1>5

LEMMA ExceptChildren ==
  ASSUME NEW n, IsNode(n), NEW a, NEW b
  PROVE  [n EXCEPT !.left = a, !.right = b]
           = [type |-> n.type, op |-> n.op, data |-> n.data, dt |-> n.dt, left |-> a, right |-> b]
  <1>1. DOMAIN n = {"type", "op", "data", "dt", "left", "right"} BY DEF IsNode
  <1> DEFINE m == [n EXCEPT !.left = a]
             k == [m EXCEPT !.right = b]
  <1>2. DOMAIN k = DOMAIN n /\ k = [f \in DOMAIN k |-> k[f]] OBVIOUS
  <1>3. /\ k.type = n.type /\ k.op = n.op /\ k.data = n.data /\ k.dt = n.dt
        /\ k.left = a /\ k.right = b
    BY <1>1
  <1>4. [n EXCEPT !.left = a, !.right = b] = k OBVIOUS
  <1> HIDE DEF k
  <1> QED BY <1>1, <1>2, <1>3, <1>4

IsCopy(h, x, c, f) ==
  Copies(h, x, c.heap, f) /\ c.at = f[x] /\ c.of = [y \in Under(h, x) |-> f[y]]

LEMMA CopiedIs ==
  ASSUME NEW h, Plain(h), NEW x \in DOMAIN h
  PROVE  \E f : IsCopy(h, x, Copied(h, x), f)
  <1> DEFINE S == Under(h, x)
             free == Max(DOMAIN h)
             R(y) == Cardinality({z \in S : z <= y})
             At(y) == IF y = 0 THEN 0 ELSE free + R(y)
             f == [y \in S \cup {0} |-> At(y)]
             Of(c) == CHOOSE z \in S : At(z) = c
             new == {At(y) : y \in S}
             Copy(c) == [h[Of(c)] EXCEPT !.left = At(@), !.right = At(@)]
             copies == [c \in new |-> Copy(c)]
             g == Allocate(h, copies)
  <1>1. Copied(h, x) = [heap |-> g, at |-> At(x), of |-> [y \in S |-> At(y)]] BY DEF Copied
  <1>2. PICK k \in Nat : DOMAIN h \subseteq 1..k BY DEF Plain, Ranked
  <1>3. S \subseteq DOMAIN h /\ x \in S BY UnderClosed, UnderSelf
  <1>4. free \in DOMAIN h /\ (\A y \in DOMAIN h : y <= free) BY <1>2, MaxIs
  <1>5. /\ \A y \in S : R(y) \in Nat \ {0} /\ R(y) <= k
        /\ \A y, w \in S : y # w => R(y) # R(w)
    <2>1. S \in SUBSET (1..k) BY <1>2, <1>3
    <2> HIDE DEF S
    <2> QED BY <2>1, RanksApart
  <1>6. 0 \notin S BY <1>2, <1>3
  <1> HIDE DEF R, free, S
  <1>7. free \in Nat \ {0} BY <1>2, <1>4
  <1>8. \A y \in S : At(y) = free + R(y) /\ At(y) \in Nat /\ At(y) > free /\ At(y) <= free + k
    BY <1>5, <1>6, <1>7
  <1>9. \A y, w \in S : At(y) = At(w) => y = w BY <1>5, <1>7, <1>8
  <1>10. At(0) = 0 OBVIOUS
  <1> HIDE DEF At
  <1>11. \A y \in S : At(y) \notin DOMAIN h
    <2>1. \A y \in DOMAIN h : y \in Nat BY <1>2
    <2> QED BY <1>4, <1>7, <1>8, <2>1
  <1>12. \A y \in S : Of(At(y)) = y BY <1>9
  <1>13. \A y \in S : h[y].left \in S \cup {0} /\ h[y].right \in S \cup {0}
    <2>1. \A y \in S : Kids(h, y) \subseteq S BY UnderClosed DEF S
    <2> QED BY <2>1 DEF Kids
  <1>14. \A y \in S : IsNode(h[y]) BY <1>3 DEF Plain
  <1>15. ASSUME NEW y \in S
         PROVE  copies[At(y)] = [type |-> h[y].type, op |-> h[y].op, data |-> h[y].data,
                                 dt |-> h[y].dt, left |-> f[h[y].left], right |-> f[h[y].right]]
    <2>1. copies[At(y)] = [h[y] EXCEPT !.left = At(@), !.right = At(@)]
      <3>1. At(y) \in new OBVIOUS
      <3> HIDE DEF Of, new
      <3> QED BY <1>12, <3>1
    <2>2. f[h[y].left] = At(h[y].left) /\ f[h[y].right] = At(h[y].right) BY <1>13
    <2> HIDE DEF f, copies
    <2>3. [h[y] EXCEPT !.left = At(@), !.right = At(@)]
            = [type |-> h[y].type, op |-> h[y].op, data |-> h[y].data, dt |-> h[y].dt,
               left |-> At(h[y].left), right |-> At(h[y].right)]
      BY <1>14, ExceptChildren
    <2> QED BY <2>1, <2>2, <2>3
  <1>16. /\ DOMAIN g = DOMAIN h \cup new
         /\ g = [z \in DOMAIN g |-> g[z]]
         /\ \A y \in DOMAIN h : g[y] = h[y]
         /\ \A c \in new : g[c] = copies[c]
    <2>1. DOMAIN copies = new OBVIOUS
    <2>2. new \cap DOMAIN h = {} BY <1>11
    <2> HIDE DEF copies, new
    <2>3. g = [z \in DOMAIN h \cup new |-> IF z \in DOMAIN h THEN h[z] ELSE copies[z]]
      BY <2>1 DEF Allocate
    <2> HIDE DEF g
    <2> QED BY <2>2, <2>3
  <1>17. Copies(h, x, g, f)
    <2>1. f \in [S \cup {0} -> Nat] /\ f[0] = 0 BY <1>8, <1>10
    <2>2. \A y \in S : f[y] = At(y) OBVIOUS
    <2>3. free + k \in Nat BY <1>2, <1>7
    <2>4. \A y \in S : At(y) # 0 BY <1>7, <1>8
    <2>5. \A y \in S : At(y) \in new OBVIOUS
    <2>6. \A y \in S : f[y] <= free + k BY <1>8, <2>2
    <2>7. new = {f[y] : y \in S} BY <2>2
    <2>8. \A y \in S : g[f[y]] = [type |-> h[y].type, op |-> h[y].op, data |-> h[y].data,
                                  dt |-> h[y].dt, left |-> f[h[y].left],
                                  right |-> f[h[y].right]]
      <3> HIDE DEF f, g, copies, new
      <3> QED BY <1>15, <1>16, <2>2, <2>5
    <2> HIDE DEF f, g, copies, new
    <2> QED BY <1>9, <1>11, <1>16, <2>1, <2>2, <2>3, <2>4, <2>6, <2>7, <2>8 DEF Copies, S
  <1>18. f[x] = At(x) /\ [y \in S |-> At(y)] = [y \in S |-> f[y]] BY <1>3
  <1> HIDE DEF f, g
  <1> QED BY <1>1, <1>17, <1>18 DEF S, IsCopy

\* The children of the copies are the copies of the children.
LEMMA CopyKids ==
  ASSUME NEW h, Plain(h), NEW x \in DOMAIN h, NEW g, NEW f, Copies(h, x, g, f)
  PROVE  /\ Under(h, x) \subseteq DOMAIN h /\ x \in Under(h, x) /\ 0 \notin DOMAIN h
         /\ \A y \in DOMAIN h : y \in DOMAIN g /\ Kids(g, y) = Kids(h, y)
         /\ \A y \in Under(h, x) :
              /\ f[y] \in DOMAIN g /\ f[y] \notin DOMAIN h
              /\ IsNode(g[f[y]]) /\ Kids(h, y) \subseteq Under(h, x)
              /\ g[f[y]].left = f[h[y].left] /\ g[f[y]].right = f[h[y].right]
              /\ \A c \in Kids(h, y) : f[c] \in Kids(g, f[y])
              /\ \A e \in Kids(g, f[y]) : \E c \in Kids(h, y) : e = f[c]
         /\ \A z \in DOMAIN g : z \notin DOMAIN h => \E y \in Under(h, x) : z = f[y]
         /\ \A y, z \in Under(h, x) \cup {0} : f[y] = f[z] => y = z
  <1> DEFINE S == Under(h, x)
  <1>1. S \subseteq DOMAIN h /\ x \in S BY UnderClosed, UnderSelf
  <1>2. 0 \notin DOMAIN h BY DEF Plain, Ranked
  <1>3. \A y \in S : Kids(h, y) \subseteq S BY UnderClosed
  <1>4. \A y \in DOMAIN h : y \in DOMAIN g /\ Kids(g, y) = Kids(h, y) BY DEF Copies, Kids
  <1>5. /\ f[0] = 0 /\ (\A y \in S : f[y] # 0 /\ f[y] \notin DOMAIN h)
        /\ \A y, z \in S : f[y] = f[z] => y = z
        /\ DOMAIN g = DOMAIN h \cup {f[y] : y \in S}
    BY DEF Copies
  <1>6. ASSUME NEW y \in S
        PROVE  /\ f[y] \in DOMAIN g
               /\ IsNode(g[f[y]]) /\ g[f[y]].left = f[h[y].left] /\ g[f[y]].right = f[h[y].right]
               /\ \A c \in Kids(h, y) : f[c] \in Kids(g, f[y])
               /\ \A e \in Kids(g, f[y]) : \E c \in Kids(h, y) : e = f[c]
    <2>1. f[y] \in DOMAIN g BY <1>5
    <2>2. g[f[y]] = [type |-> h[y].type, op |-> h[y].op, data |-> h[y].data, dt |-> h[y].dt,
                     left |-> f[h[y].left], right |-> f[h[y].right]]
      BY DEF Copies
    <2> DEFINE l == h[y].left
               r == h[y].right
    <2>3. IsNode(g[f[y]]) /\ g[f[y]].left = f[l] /\ g[f[y]].right = f[r]
      BY <2>2 DEF IsNode
    <2>4. (l \in S \/ l = 0) /\ (r \in S \/ r = 0)
      <3>1. Kids(h, y) \subseteq S BY <1>3
      <3> QED BY <3>1 DEF Kids
    <2>5. Kids(h, y) = {l, r} \ {0} /\ Kids(g, f[y]) = {f[l], f[r]} \ {0}
      BY <2>3 DEF Kids
    <2> HIDE DEF l, r, S
    <2>6. /\ \A c \in Kids(h, y) : f[c] \in Kids(g, f[y])
          /\ \A e \in Kids(g, f[y]) : \E c \in Kids(h, y) : e = f[c]
      <3>1. (f[l] = 0 <=> l = 0) /\ (f[r] = 0 <=> r = 0) BY <1>1, <1>2, <1>5, <2>4
      <3> QED BY <2>5, <3>1
    <2> QED BY <2>1, <2>3, <2>6 DEF l, r
  <1>7. \A y, z \in S \cup {0} : f[y] = f[z] => y = z BY <1>5
  <1> HIDE DEF S
  <1>8. \A z \in DOMAIN g : z \notin DOMAIN h => \E y \in S : z = f[y] BY <1>5
  <1> QED BY <1>1, <1>2, <1>3, <1>4, <1>5, <1>6, <1>7, <1>8 DEF S

LEMMA CopiedKid ==
  ASSUME NEW h, Plain(h), NEW x \in DOMAIN h, NEW g, NEW f, Copies(h, x, g, f),
         NEW y \in Under(h, x), NEW e \in Kids(g, f[y])
  PROVE  \E c \in Kids(h, y) : e = f[c]
  BY CopyKids

LEMMA CopyPlain ==
  ASSUME NEW h, Plain(h), NEW x \in DOMAIN h, NEW g, NEW f, Copies(h, x, g, f)
  PROVE  Plain(g)
  <1> DEFINE S == Under(h, x)
  <1>1. g = [z \in DOMAIN g |-> g[z]] BY DEF Copies
  <1>2. ASSUME NEW z \in DOMAIN g PROVE IsNode(g[z]) /\ Kids(g, z) \subseteq DOMAIN g
    <2>1. CASE z \in DOMAIN h
      <3>1. g[z] = h[z] /\ IsNode(h[z]) /\ Kids(h, z) \subseteq DOMAIN h
        BY <2>1 DEF Copies, Plain
      <3> QED BY <2>1, <3>1, CopyKids
    <2>2. CASE z \notin DOMAIN h
      <3>1. PICK y \in S : z = f[y] BY <2>2, CopyKids
      <3>2. /\ IsNode(g[z]) /\ Kids(h, y) \subseteq S
            /\ \A e \in Kids(g, z) : \E c \in Kids(h, y) : e = f[c]
        BY <3>1, CopyKids, SMTT(30)
      <3>3. \A c \in S : f[c] \in DOMAIN g BY CopyKids
      <3> QED BY <3>2, <3>3
    <2> QED BY <2>1, <2>2
  <1>3. PICK k \in Nat : Ranked(h, k) BY DEF Plain
  <1>4. PICK rank \in [DOMAIN h -> 0..k] : Descends(h, rank) BY <1>3 DEF Ranked
  <1>5. PICK b \in Nat : \A y \in S : f[y] <= b BY DEF Copies
  <1> DEFINE Of(z) == CHOOSE y \in S : f[y] = z
             old(z) == IF z \in DOMAIN h THEN z ELSE Of(z)
             up == [z \in DOMAIN g |-> rank[old(z)]]
  <1>6. \A y \in S : Of(f[y]) = y BY CopyKids
  <1>7. S \subseteq DOMAIN h BY CopyKids
  <1>8. \A z \in DOMAIN h : old(z) = z OBVIOUS
  <1>9. \A y \in S : old(f[y]) = y
    <2> HIDE DEF Of
    <2> QED BY <1>6, CopyKids
  <1>10. \A z \in DOMAIN g : old(z) \in DOMAIN h
    <2> HIDE DEF old
    <2> QED BY <1>7, <1>8, <1>9, CopyKids
  <1> HIDE DEF old
  <1>11. up \in [DOMAIN g -> 0..k] BY <1>4, <1>10
  <1>12. ASSUME NEW z \in DOMAIN g, NEW c \in Kids(g, z) PROVE up[c] < up[z]
    <2>0. c \in DOMAIN g BY <1>2
    <2>1. CASE z \in DOMAIN h
      <3>1. c \in Kids(h, z) /\ c \in DOMAIN h BY <2>1, CopyKids DEF Plain
      <3> QED BY <1>4, <1>8, <2>0, <2>1, <3>1 DEF Descends
    <2>2. CASE z \notin DOMAIN h
      <3>1. PICK y \in S : z = f[y] BY <2>2, CopyKids
      <3>2. PICK d \in Kids(h, y) : c = f[d] BY <3>1, CopiedKid
      <3>3. d \in S /\ y \in DOMAIN h BY <1>7, <3>1, <3>2, CopyKids
      <3>4. rank[d] < rank[y] BY <1>4, <3>2, <3>3 DEF Descends
      <3> QED BY <1>9, <2>0, <3>1, <3>2, <3>3, <3>4
    <2> QED BY <2>1, <2>2
  <1>13. \E m \in Nat : Ranked(g, m)
    <2>1. k + b \in Nat BY <1>3, <1>5
    <2>2. ASSUME NEW z \in DOMAIN g PROVE z \in 1..(k + b)
      <3>1. CASE z \in DOMAIN h
        <4>1. z \in 1..k BY <1>3, <3>1 DEF Ranked
        <4> QED BY <1>3, <1>5, <4>1
      <3>2. CASE z \notin DOMAIN h
        <4>1. PICK y \in S : z = f[y] BY <3>2, CopyKids
        <4>2. f[y] \in Nat /\ f[y] # 0 /\ f[y] <= b BY <1>5, <4>1 DEF Copies
        <4> QED BY <1>3, <1>5, <4>1, <4>2
      <3> QED BY <3>1, <3>2
    <2>3. up \in [DOMAIN g -> 0..(k + b)]
      <3>1. \A r \in 0..k : r \in 0..(k + b) BY <1>3, <1>5
      <3> HIDE DEF up
      <3> QED BY <1>11, <3>1
    <2>4. Descends(g, up)
      <3> HIDE DEF up
      <3> QED BY <1>12 DEF Descends
    <2> HIDE DEF up
    <2> QED BY <2>1, <2>2, <2>3, <2>4 DEF Ranked
  <1> QED BY <1>1, <1>2, <1>13 DEF Plain

LEMMA CopySound ==
  ASSUME NEW h, Sound(h), NEW x \in DOMAIN h, NEW g, NEW f, Copies(h, x, g, f)
  PROVE  /\ Sound(g) /\ Plain(g) /\ Plain(h)
         /\ f[x] \in DOMAIN g \ DOMAIN h /\ IsRoot(g, f[x])
         /\ \A r \in DOMAIN h : IsRoot(h, r) => IsRoot(g, r)
         /\ \A z \in DOMAIN g \ DOMAIN h : Kids(g, z) \cap DOMAIN h = {}
  <1> DEFINE S == Under(h, x)
  <1>1. Plain(h) /\ Plain(g) BY CopyPlain DEF Sound
  <1>2. \A z \in DOMAIN g \ DOMAIN h : Kids(g, z) \cap DOMAIN h = {}
    <2> SUFFICES ASSUME NEW z \in DOMAIN g \ DOMAIN h, NEW c \in Kids(g, z)
                 PROVE  c \notin DOMAIN h
      OBVIOUS
    <2>1. PICK y \in S : z = f[y] BY <1>1, CopyKids
    <2>2. PICK d \in Kids(h, y) : c = f[d]
      <3>1. \A e \in Kids(g, f[y]) : \E d \in Kids(h, y) : e = f[d] BY <1>1, CopyKids, SMTT(30)
      <3>2. c \in Kids(g, f[y]) BY <2>1
      <3> QED BY <3>1, <3>2
    <2>3. d \in S BY <1>1, <2>1, <2>2, CopyKids
    <2> QED BY <1>1, <2>2, <2>3, CopyKids
  <1>3. \A z \in DOMAIN h : Kids(g, z) = Kids(h, z) /\ Kids(h, z) \subseteq DOMAIN h
    BY <1>1, CopyKids DEF Plain
  <1>4. \A r \in DOMAIN h : IsRoot(h, r) => IsRoot(g, r) BY <1>2, <1>3 DEF IsRoot
  <1>5. f[x] \in DOMAIN g \ DOMAIN h BY <1>1, CopyKids
  <1>6. IsRoot(g, f[x])
    <2> SUFFICES ASSUME NEW z \in DOMAIN g, f[x] \in Kids(g, z) PROVE FALSE BY DEF IsRoot
    <2>1. z \notin DOMAIN h BY <1>3, <1>5
    <2>2. PICK y \in S : z = f[y] BY <1>1, <2>1, CopyKids
    <2>3. PICK d \in Kids(h, y) : f[x] = f[d] BY <1>1, <2>2, CopiedKid
    <2>4. d \in S /\ x \in S /\ y \in DOMAIN h BY <1>1, <2>2, <2>3, CopyKids
    <2>5. d = x BY <1>1, <2>3, <2>4, CopyKids
    <2> QED BY <1>1, <2>2, <2>3, <2>4, <2>5, NoCycle
  <1>7. ASSUME NEW y \in DOMAIN g, NEW z \in DOMAIN g
        PROVE  /\ g[y].left = g[z].left /\ g[y].left # 0 => y = z
               /\ g[y].right = g[z].right /\ g[y].right # 0 => y = z
               /\ g[y].left = g[z].right => g[y].left = 0
    <2>1. CASE y \in DOMAIN h /\ z \in DOMAIN h
      <3>1. g[y] = h[y] /\ g[z] = h[z] BY <2>1 DEF Copies
      <3> QED BY <2>1, <3>1 DEF Sound, OneParent
    <2>2. CASE ~(y \in DOMAIN h <=> z \in DOMAIN h)
      <3>1. Kids(g, y) \cap Kids(g, z) = {}
        <4>1. CASE y \in DOMAIN h BY <1>2, <1>3, <2>2, <4>1
        <4>2. CASE z \in DOMAIN h BY <1>2, <1>3, <2>2, <4>2
        <4> QED BY <2>2, <4>1, <4>2
      <3> QED BY <3>1 DEF Kids
    <2>3. CASE y \notin DOMAIN h /\ z \notin DOMAIN h
      <3>1. PICK a \in S : y = f[a] BY <1>1, <2>3, CopyKids
      <3>2. PICK b \in S : z = f[b] BY <1>1, <2>3, CopyKids
      <3>3. /\ g[y].left = f[h[a].left] /\ g[y].right = f[h[a].right]
            /\ g[z].left = f[h[b].left] /\ g[z].right = f[h[b].right]
        BY <1>1, <3>1, <3>2, CopyKids
      <3>4. /\ h[a].left \in S \cup {0} /\ h[a].right \in S \cup {0}
            /\ h[b].left \in S \cup {0} /\ h[b].right \in S \cup {0}
        <4>1. Kids(h, a) \subseteq S /\ Kids(h, b) \subseteq S BY <1>1, <3>1, <3>2, CopyKids
        <4> QED BY <4>1 DEF Kids
      <3>5. f[0] = 0 /\ \A u, v \in S \cup {0} : f[u] = f[v] => u = v
        BY <1>1, CopyKids DEF Copies
      <3>6. a \in DOMAIN h /\ b \in DOMAIN h BY <1>1, <3>1, <3>2, CopyKids
      <3>7. /\ h[a].left = h[b].left /\ h[a].left # 0 => a = b
            /\ h[a].right = h[b].right /\ h[a].right # 0 => a = b
            /\ h[a].left = h[b].right => h[a].left = 0
        BY <3>6 DEF Sound, OneParent
      <3> QED BY <3>1, <3>2, <3>3, <3>4, <3>5, <3>7
    <2> QED BY <2>1, <2>2, <2>3
  <1>8. OneParent(g) BY <1>7 DEF OneParent
  <1> QED BY <1>1, <1>2, <1>4, <1>5, <1>6, <1>8 DEF Sound

\* What is below a copy are the copies of what is below.
LEMMA CopyUnder ==
  ASSUME NEW h, Plain(h), NEW x \in DOMAIN h, NEW g, NEW f, Copies(h, x, g, f)
  PROVE  /\ \A y \in DOMAIN h : Under(g, y) = Under(h, y)
         /\ \A y \in Under(h, x) : Under(g, f[y]) = {f[z] : z \in Under(h, y)}
  <1>0. Plain(g) BY CopyPlain
  <1>1. ASSUME NEW y \in DOMAIN h PROVE Under(g, y) = Under(h, y)
    <2>1. Under(h, y) \subseteq DOMAIN h BY UnderClosed
    <2>2. y \in DOMAIN g /\ \A z \in Under(h, y) : z \in DOMAIN g /\ Kids(g, z) = Kids(h, z)
      BY <2>1, CopyKids
    <2> QED BY <1>0, <2>2, SameUnder
  <1>2. ASSUME NEW y \in Under(h, x) PROVE Under(g, f[y]) = {f[z] : z \in Under(h, y)}
    <2>0. y \in DOMAIN h /\ f[y] \in DOMAIN g BY CopyKids
    <2>1. Under(h, y) \subseteq Under(h, x) BY UnderClosed
    <2> DEFINE T == {f[z] : z \in Under(h, y)}
    <2>2. f[y] \in T BY <2>0, UnderSelf
    <2>3. ASSUME NEW z \in DOMAIN g, z \in T PROVE Kids(g, z) \subseteq T
      <3>1. PICK w \in Under(h, y) : z = f[w] BY <2>3
      <3>2. \A e \in Kids(g, z) : \E c \in Kids(h, w) : e = f[c] BY <2>1, <3>1, CopyKids
      <3>3. Kids(h, w) \subseteq Under(h, y) BY <2>0, <3>1, UnderClosed
      <3> QED BY <3>2, <3>3
    <2>4. Under(g, f[y]) \subseteq T
      <3> HIDE DEF T
      <3> QED BY <1>0, <2>0, <2>2, <2>3, UnderLeast
    <2> DEFINE V == {z \in Under(h, x) : f[z] \in Under(g, f[y])}
    <2>5. y \in V BY <1>0, <2>0, UnderSelf
    <2>6. ASSUME NEW z \in DOMAIN h, z \in V PROVE Kids(h, z) \subseteq V
      <3> SUFFICES ASSUME NEW c \in Kids(h, z) PROVE c \in V OBVIOUS
      <3>1. c \in Under(h, x) /\ f[c] \in Kids(g, f[z]) BY <2>6, CopyKids
      <3>2. f[z] \in Under(g, f[y]) BY <2>6
      <3> QED BY <1>0, <2>0, <3>1, <3>2, UnderClosed
    <2>7. Under(h, y) \subseteq V
      <3> HIDE DEF V
      <3> QED BY <2>0, <2>5, <2>6, UnderLeast
    <2> QED BY <2>4, <2>7
  <1> QED BY <1>1, <1>2

-----------------------------------------------------------------------------
(***************************************************************************)
(* The other changes of a heap: a child is exchanged, nodes are freed.     *)
(***************************************************************************)
Links(h, g, p, v) ==
  /\ g = [y \in DOMAIN h |-> g[y]]
  /\ \A y \in DOMAIN h : y # p => g[y] = h[y]
  /\ IsNode(g[p])
  /\ g[p].type = h[p].type /\ g[p].op = h[p].op /\ g[p].data = h[p].data /\ g[p].dt = h[p].dt
  /\ \/ g[p].left = v /\ g[p].right = h[p].right
     \/ g[p].right = v /\ g[p].left = h[p].left

IsLink(h, g, p, side, v) == g = [h EXCEPT ![p][side] = v]

LEMMA LinkIs ==
  ASSUME NEW h, Plain(h), NEW p \in DOMAIN h, NEW side \in {"left", "right"}, NEW v, NEW g,
         IsLink(h, g, p, side, v)
  PROVE  /\ Links(h, g, p, v) /\ g[p][side] = v
         /\ side = "left" => g[p].left = v /\ g[p].right = h[p].right
         /\ side = "right" => g[p].right = v /\ g[p].left = h[p].left
  <1> DEFINE m == [h[p] EXCEPT ![side] = v]
  <1>1. g = [h EXCEPT ![p] = m] BY DEF IsLink
  <1>2. IsNode(h[p]) BY DEF Plain
  <1>3. /\ IsNode(m) /\ m.type = h[p].type /\ m.op = h[p].op /\ m.data = h[p].data
        /\ m.dt = h[p].dt /\ m[side] = v
        /\ side = "left" => m.left = v /\ m.right = h[p].right
        /\ side = "right" => m.right = v /\ m.left = h[p].left
    <2> DEFINE n == h[p]
    <2>1. DOMAIN n = {"type", "op", "data", "dt", "left", "right"} BY <1>2 DEF IsNode
    <2>2. DOMAIN m = DOMAIN n /\ m = [f \in DOMAIN m |-> m[f]] OBVIOUS
    <2>3. m[side] = v /\ \A f \in DOMAIN n : f # side => m[f] = n[f] BY <2>1
    <2> HIDE DEF m
    <2>4. IsNode(m) BY <2>1, <2>2 DEF IsNode
    <2> QED BY <2>1, <2>3, <2>4
  <1> HIDE DEF m
  <1>4. g[p] = m /\ (\A y \in DOMAIN h : y # p => g[y] = h[y]) /\ DOMAIN g = DOMAIN h
    BY <1>1
  <1>5. g = [y \in DOMAIN h |-> g[y]] BY <1>1
  <1> QED BY <1>3, <1>4, <1>5 DEF Links

LEMMA LinkSound ==
  ASSUME NEW h, Sound(h), NEW p \in DOMAIN h, NEW v, NEW g, Links(h, g, p, v),
         v = 0 \/ (v \in DOMAIN h /\ IsRoot(h, v) /\ p \notin Under(h, v))
  PROVE  /\ Sound(g) /\ Plain(g) /\ DOMAIN g = DOMAIN h
         /\ \A r \in DOMAIN h : r # v /\ IsRoot(h, r) => IsRoot(g, r)
         /\ \A y \in DOMAIN h : p \notin Under(h, y) => Under(g, y) = Under(h, y)
         /\ \A y \in DOMAIN h : Under(g, y) \subseteq Under(h, y) \cup Under(h, v)
         /\ \A y \in DOMAIN h : Kids(g, y) \subseteq Kids(h, y) \cup {v}
  <1>1. Plain(h) BY DEF Sound
  <1>2. DOMAIN g = DOMAIN h BY DEF Links
  <1>3. /\ \A y \in DOMAIN h : y # p => g[y] = h[y] /\ Kids(g, y) = Kids(h, y)
        /\ Kids(g, p) \subseteq Kids(h, p) \cup {v}
    BY DEF Links, Kids
  <1>4. 0 \notin DOMAIN h BY <1>1 DEF Plain, Ranked
  <1>5. \A y \in DOMAIN h : IsNode(g[y]) /\ Kids(g, y) \subseteq DOMAIN h
    <2>1. \A y \in DOMAIN h : IsNode(h[y]) /\ Kids(h, y) \subseteq DOMAIN h BY <1>1 DEF Plain
    <2>2. \A y \in DOMAIN h : 0 \notin Kids(g, y) BY DEF Kids
    <2> QED BY <1>3, <2>1, <2>2 DEF Links
  <1>6. PICK k \in Nat : Ranked(h, k) BY <1>1 DEF Plain
  <1>7. PICK rank \in [DOMAIN h -> 0..k] : Descends(h, rank) BY <1>6 DEF Ranked
  <1> DEFINE more == IF v = 0 THEN 0 ELSE rank[v] + 1
             up == [y \in DOMAIN h |-> IF p \in Under(h, y) THEN rank[y] + more ELSE rank[y]]
  <1>8. more \in 0..(k + 1) BY <1>6, <1>7
  <1>9. up \in [DOMAIN h -> 0..(2 * k + 1)]
    <2>1. \A y \in DOMAIN h : rank[y] \in 0..k BY <1>7
    <2> HIDE DEF more
    <2>2. \A y \in DOMAIN h : rank[y] + more \in 0..(2 * k + 1) /\ rank[y] \in 0..(2 * k + 1)
      BY <1>6, <1>8, <2>1
    <2> QED BY <2>2
  <1>10. ASSUME NEW y \in DOMAIN h, NEW c \in Kids(g, y) PROVE up[c] < up[y]
    <2>0. c \in DOMAIN h /\ c # 0 BY <1>4, <1>5
    <2>1. rank[c] \in Nat /\ rank[y] \in Nat /\ more \in Nat BY <1>6, <1>7, <1>8, <2>0
    <2>2. CASE y # p
      <3>1. c \in Kids(h, y) BY <1>3, <2>2
      <3>2. rank[c] < rank[y] BY <1>7, <3>1 DEF Descends
      <3>3. p \in Under(h, c) => p \in Under(h, y) BY <1>1, <3>1, UnderSelf
      <3> HIDE DEF more
      <3> QED BY <2>0, <2>1, <3>2, <3>3
    <2>3. CASE y = p
      <3>1. p \in Under(h, y) BY <1>1, <2>3, UnderSelf
      <3>2. CASE c \in Kids(h, p)
        <4>1. rank[c] < rank[y] BY <1>7, <2>3, <3>2 DEF Descends
        <4>2. p \notin Under(h, c) BY <1>1, <3>2, NoCycle
        <4> HIDE DEF more
        <4> QED BY <2>0, <2>1, <3>1, <4>1, <4>2
      <3>3. CASE c \notin Kids(h, p)
        <4>1. c = v BY <1>3, <2>3, <3>3
        <4>2. p \notin Under(h, c) BY <2>0, <4>1
        <4>3. more = rank[c] + 1 BY <2>0, <4>1
        <4> HIDE DEF more
        <4> QED BY <2>0, <2>1, <3>1, <4>2, <4>3
      <3> QED BY <3>2, <3>3
    <2> QED BY <2>2, <2>3
  <1>11. Plain(g)
    <2>1. Ranked(g, 2 * k + 1)
      <3>1. DOMAIN g \subseteq 1..(2 * k + 1) BY <1>2, <1>6 DEF Ranked
      <3>2. Descends(g, up)
        <4> HIDE DEF up
        <4> QED BY <1>2, <1>10 DEF Descends
      <3> HIDE DEF up
      <3> QED BY <1>2, <1>9, <3>1, <3>2 DEF Ranked
    <2>2. 2 * k + 1 \in Nat BY <1>6
    <2>3. g = [y \in DOMAIN g |-> g[y]] BY <1>2 DEF Links
    <2> QED BY <1>2, <1>5, <2>1, <2>2, <2>3 DEF Plain
  <1>12. OneParent(g)
    <2>1. \A y \in DOMAIN h : v # 0 => v # h[y].left /\ v # h[y].right
      BY <1>4 DEF IsRoot, Kids
    <2>2. \A y, z \in DOMAIN h :
            /\ h[y].left = h[z].left /\ h[y].left # 0 => y = z
            /\ h[y].right = h[z].right /\ h[y].right # 0 => y = z
            /\ h[y].left = h[z].right => h[y].left = 0
      BY DEF Sound, OneParent
    <2>3. CASE g[p].left = v /\ g[p].right = h[p].right
      <3>1. \A y, z \in DOMAIN h :
              /\ g[y].left = g[z].left /\ g[y].left # 0 => y = z
              /\ g[y].right = g[z].right /\ g[y].right # 0 => y = z
              /\ g[y].left = g[z].right => g[y].left = 0
        BY <1>3, <2>1, <2>2, <2>3
      <3> QED BY <1>2, <3>1 DEF OneParent
    <2>4. CASE g[p].right = v /\ g[p].left = h[p].left
      <3>1. \A y, z \in DOMAIN h :
              /\ g[y].left = g[z].left /\ g[y].left # 0 => y = z
              /\ g[y].right = g[z].right /\ g[y].right # 0 => y = z
              /\ g[y].left = g[z].right => g[y].left = 0
        BY <1>3, <2>1, <2>2, <2>4
      <3> QED BY <1>2, <3>1 DEF OneParent
    <2> QED BY <2>3, <2>4 DEF Links
  <1>13. \A y \in DOMAIN h : Kids(g, y) \subseteq Kids(h, y) \cup {v} BY <1>3
  <1>14. \A r \in DOMAIN h : r # v /\ IsRoot(h, r) => IsRoot(g, r)
    BY <1>2, <1>13 DEF IsRoot
  <1>15. ASSUME NEW y \in DOMAIN h, p \notin Under(h, y) PROVE Under(g, y) = Under(h, y)
    <2>1. \A z \in Under(h, y) : z \in DOMAIN g /\ Kids(g, z) = Kids(h, z)
      BY <1>1, <1>2, <1>3, <1>15, UnderClosed
    <2> QED BY <1>1, <1>2, <1>11, <2>1, SameUnder
  <1>16. ASSUME NEW y \in DOMAIN h PROVE Under(g, y) \subseteq Under(h, y) \cup Under(h, v)
    <2> DEFINE T == Under(h, y) \cup Under(h, v)
    <2>1. y \in T BY <1>1, UnderSelf
    <2>2. ASSUME NEW z \in DOMAIN g, z \in T PROVE Kids(g, z) \subseteq T
      <3> SUFFICES ASSUME NEW c \in Kids(g, z) PROVE c \in T OBVIOUS
      <3>0. c \in DOMAIN h BY <1>2, <1>5
      <3>1. CASE c = v BY <1>1, <3>0, <3>1, UnderSelf
      <3>2. CASE c # v
        <4>1. c \in Kids(h, z) BY <1>2, <1>13, <3>2
        <4>2. CASE z \in Under(h, y) BY <1>1, <4>1, <4>2, UnderClosed
        <4>3. CASE z \in Under(h, v)
          <5>1. v \in DOMAIN h BY <1>1, <4>3, UnderEquation
          <5> QED BY <1>1, <4>1, <4>3, <5>1, UnderClosed
        <4> QED BY <2>2, <4>2, <4>3
      <3> QED BY <3>1, <3>2
    <2> HIDE DEF T
    <2>3. Under(g, y) \subseteq T BY <1>2, <1>11, <2>1, <2>2, UnderLeast
    <2> QED BY <2>3 DEF T
  <1> QED BY <1>2, <1>11, <1>12, <1>13, <1>14, <1>15, <1>16 DEF Sound

\* Only nodes nothing leads to are freed.
LEMMA FreeSound ==
  ASSUME NEW h, Sound(h), NEW N, N \subseteq DOMAIN h, \A y \in N : Kids(h, y) \subseteq N,
         NEW g, g = [y \in N |-> h[y]]
  PROVE  /\ Sound(g) /\ Plain(g) /\ DOMAIN g = N
         /\ \A y \in N : g[y] = h[y] /\ Kids(g, y) = Kids(h, y) /\ Under(g, y) = Under(h, y)
         /\ \A r \in N : IsRoot(h, r) => IsRoot(g, r)
  <1>1. Plain(h) BY DEF Sound
  <1>2. DOMAIN g = N /\ (\A y \in N : g[y] = h[y]) /\ g = [y \in DOMAIN g |-> g[y]] OBVIOUS
  <1>3. \A y \in N : Kids(g, y) = Kids(h, y) BY <1>2 DEF Kids
  <1>4. PICK k \in Nat : Ranked(h, k) BY <1>1 DEF Plain
  <1>5. PICK rank \in [DOMAIN h -> 0..k] : Descends(h, rank) BY <1>4 DEF Ranked
  <1> DEFINE up == [y \in N |-> rank[y]]
  <1>6. up \in [DOMAIN g -> 0..k] BY <1>2, <1>5
  <1>7. Descends(g, up) BY <1>2, <1>3, <1>5 DEF Descends
  <1>8. Plain(g)
    <2> HIDE DEF up
    <2>1. DOMAIN g \subseteq 1..k BY <1>2, <1>4 DEF Ranked
    <2>2. Ranked(g, k) BY <1>6, <1>7, <2>1 DEF Ranked
    <2>3. \A y \in DOMAIN g : IsNode(g[y]) /\ Kids(g, y) \subseteq DOMAIN g
      BY <1>1, <1>2, <1>3 DEF Plain
    <2> QED BY <1>2, <1>4, <2>2, <2>3 DEF Plain
  <1>9. OneParent(g) BY <1>2 DEF OneParent, Sound
  <1>10. \A r \in N : IsRoot(h, r) => IsRoot(g, r) BY <1>2, <1>3 DEF IsRoot
  <1>11. ASSUME NEW y \in N PROVE Under(g, y) = Under(h, y)
    <2>0. Under(h, y) \subseteq N BY <1>1, UnderLeast
    <2>1. \A z \in Under(h, y) : z \in DOMAIN g /\ Kids(g, z) = Kids(h, z) BY <1>2, <1>3, <2>0
    <2> QED BY <1>1, <1>2, <1>8, <2>1, SameUnder
  <1> QED BY <1>2, <1>3, <1>8, <1>9, <1>10, <1>11 DEF Sound

-----------------------------------------------------------------------------
(***************************************************************************)
(* CollectAllIRs has each node below x once.                               *)
(***************************************************************************)
LEMMA CollectEquation ==
  ASSUME NEW h, Plain(h)
  PROVE  /\ CollectAllIRs(h, 0) = <<>>
         /\ \A x \in DOMAIN h :
              CollectAllIRs(h, x) = CollectAllIRs(h, h[x].left) \o CollectAllIRs(h, h[x].right)
                                      \o <<x>>
  <1>1. PICK k \in Nat : Ranked(h, k) BY DEF Plain
  <1>2. PICK rank \in [DOMAIN h -> 0..k] : Descends(h, rank) BY <1>1 DEF Ranked
  <1>0. 0 \notin DOMAIN h /\ \A y \in DOMAIN h : Kids(h, y) \subseteq DOMAIN h
    BY <1>1 DEF Plain, Ranked
  <1> DEFINE D(n) == {0} \cup {y \in DOMAIN h : rank[y] < n}
             V(f, y) == IF y = 0 THEN <<>> ELSE f[h[y].left] \o f[h[y].right] \o <<y>>
             F(n, f) == [y \in D(n) |-> V(f, y)]
             G == {n \in Nat : \E f : f = F(n, f)}
  <1>3. 0 \in G
    <2>1. D(0) = {0} BY <1>2
    <2> DEFINE e == [y \in {0} |-> <<>>]
    <2>2. e = F(0, e) BY <2>1
    <2> QED BY <2>2
  <1>4. ASSUME NEW n \in Nat, n \in G PROVE n + 1 \in G
    <2>1. PICK f : f = F(n, f) BY <1>4
    <2> DEFINE g == F(n + 1, f)
    <2>2. \A y \in D(n + 1) : y # 0 => h[y].left \in D(n) /\ h[y].right \in D(n)
      <3> SUFFICES ASSUME NEW y \in D(n + 1), y # 0, NEW c \in {h[y].left, h[y].right}
                   PROVE  c \in D(n)
        OBVIOUS
      <3>1. c = 0 \/ c \in Kids(h, y) BY DEF Kids
      <3>2. c \in Kids(h, y) => c \in DOMAIN h /\ rank[c] < rank[y] /\ rank[y] < n + 1
        BY <1>0, <1>2 DEF Descends
      <3>3. c \in Kids(h, y) => rank[c] \in Nat /\ rank[y] \in Nat BY <1>1, <1>2, <3>2
      <3> QED BY <3>1, <3>2, <3>3
    <2>3. \A c \in D(n) : c \in D(n + 1) BY <1>2
    <2>4. \A c \in D(n) : f[c] = V(f, c) BY <2>1
    <2>5. \A c \in D(n + 1) : g[c] = V(f, c) OBVIOUS
    <2>6. \A c \in D(n) : f[c] = g[c]
      <3> HIDE DEF D, g, V
      <3> QED BY <2>3, <2>4, <2>5
    <2>7. \A y \in D(n + 1) : V(f, y) = V(g, y)
      <3> HIDE DEF D, g
      <3> QED BY <2>2, <2>6
    <2>8. g = F(n + 1, g)
      <3> HIDE DEF D, V
      <3> QED BY <2>7
    <2> HIDE DEF g, F, D
    <2> QED BY <2>8
  <1>5. k + 1 \in G
    <2> HIDE DEF G
    <2> QED BY <1>1, <1>3, <1>4, Climbing
  <1>6. D(k + 1) = DOMAIN h \cup {0} BY <1>1, <1>2
  <1> DEFINE E(f) == [y \in DOMAIN h \cup {0} |-> V(f, y)]
             all == CHOOSE f : f = E(f)
  <1>7. PICK f : f = F(k + 1, f) BY <1>5
  <1>8. f = E(f) BY <1>6, <1>7
  <1>9. all = E(all)
    <2> HIDE DEF E
    <2> QED BY <1>8
  <1>10. \A x : CollectAllIRs(h, x) = all[x] BY DEF CollectAllIRs
  <1> HIDE DEF all
  <1>11. \A x \in DOMAIN h \cup {0} : all[x] = V(all, x)
    <2> HIDE DEF V
    <2> QED BY <1>9
  <1>12. all[0] = <<>> BY <1>11
  <1>13. ASSUME NEW x \in DOMAIN h PROVE all[x] = all[h[x].left] \o all[h[x].right] \o <<x>>
    <2>1. all[x] = V(all, x) BY <1>11
    <2>2. V(all, x) = all[h[x].left] \o all[h[x].right] \o <<x>> BY <1>0
    <2> HIDE DEF V
    <2> QED BY <2>1, <2>2
  <1> QED BY <1>10, <1>12, <1>13

LEMMA CollectsOnce ==
  ASSUME NEW h, Sound(h), NEW x \in DOMAIN h
  PROVE  /\ CollectAllIRs(h, x) \in Seq(Under(h, x))
         /\ IsFiniteSet(Under(h, x))
         /\ Cardinality(Under(h, x)) = Len(CollectAllIRs(h, x))
  <1>0. Plain(h) BY DEF Sound
  <1> DEFINE C(y) == CollectAllIRs(h, y)
             Good(y) == /\ C(y) \in Seq(Under(h, y)) /\ IsFiniteSet(Under(h, y))
                        /\ Cardinality(Under(h, y)) = Len(C(y))
             G == {y \in DOMAIN h : Good(y)}
  <1>1. Good(0)
    <2>1. C(0) = <<>> /\ Under(h, 0) = {} BY <1>0, CollectEquation, UnderEquation
    <2>2. IsFiniteSet({}) /\ Cardinality({}) = 0 BY FS_EmptySet
    <2>3. <<>> \in Seq({}) /\ Len(<<>>) = 0 OBVIOUS
    <2> HIDE DEF C
    <2> QED BY <2>1, <2>2, <2>3
  <1>2. ASSUME NEW y \in DOMAIN h, Kids(h, y) \subseteq G PROVE y \in G
    <2> DEFINE l == h[y].left
               r == h[y].right
               L == Under(h, l)
               R == Under(h, r)
    <2>1. C(y) = C(l) \o C(r) \o <<y>> BY <1>0, CollectEquation
    <2>2. (l = 0 \/ l \in Kids(h, y)) /\ (r = 0 \/ r \in Kids(h, y)) BY DEF Kids
    <2>3. Good(l) /\ Good(r) BY <1>1, <1>2, <2>2
    <2>4. Under(h, y) = {y} \cup (L \cup R)
      <3>1. Under(h, y) = {y} \cup UNION {Under(h, c) : c \in Kids(h, y)}
        BY <1>0, UnderEquation
      <3>2. UNION {Under(h, c) : c \in Kids(h, y)} = L \cup R
        <4>1. Under(h, 0) = {} BY <1>0, UnderEquation
        <4> QED BY <4>1 DEF Kids
      <3> QED BY <3>1, <3>2
    <2>5. L \cap R = {}
      <3>1. CASE l = 0 \/ r = 0
        <4>1. Under(h, 0) = {} BY <1>0, UnderEquation
        <4> QED BY <3>1, <4>1
      <3>2. CASE l # 0 /\ r # 0
        <4>1. l # r BY <3>2 DEF Sound, OneParent
        <4> QED BY <2>2, <3>2, <4>1, SiblingsApart
      <3> QED BY <3>1, <3>2
    <2>6. y \notin L \cup R
      <3>1. Under(h, 0) = {} BY <1>0, UnderEquation
      <3> QED BY <1>0, <2>2, <3>1, NoCycle
    <2> HIDE DEF C, l, r, L, R
    <2>7. /\ C(l) \in Seq(L) /\ IsFiniteSet(L) /\ Cardinality(L) = Len(C(l))
          /\ C(r) \in Seq(R) /\ IsFiniteSet(R) /\ Cardinality(R) = Len(C(r))
      BY <2>3 DEF L, R
    <2>8. IsFiniteSet(L \cup R) /\ Cardinality(L \cup R) = Cardinality(L) + Cardinality(R)
      <3>1. Cardinality(L \cap R) = 0 BY <2>5, FS_EmptySet
      <3>2. /\ IsFiniteSet(L \cup R)
            /\ Cardinality(L \cup R) = Cardinality(L) + Cardinality(R) - Cardinality(L \cap R)
        BY <2>7, FS_Union
      <3>3. Cardinality(L) \in Nat /\ Cardinality(R) \in Nat BY <2>7, FS_CardinalityType
      <3> QED BY <3>1, <3>2, <3>3
    <2>9. /\ IsFiniteSet((L \cup R) \cup {y})
          /\ Cardinality((L \cup R) \cup {y}) = Cardinality(L \cup R) + 1
      BY <2>6, <2>8, FS_AddElement
    <2>10. {y} \cup (L \cup R) = (L \cup R) \cup {y} OBVIOUS
    <2>11. C(y) \in Seq({y} \cup (L \cup R)) /\ Len(C(y)) = Len(C(l)) + Len(C(r)) + 1
      <3> DEFINE U == {y} \cup (L \cup R)
      <3>1. C(l) \in Seq(U) /\ C(r) \in Seq(U) /\ <<y>> \in Seq(U) BY <2>7
      <3> HIDE DEF U
      <3>2. C(y) \in Seq(U) /\ Len(C(y)) = Len(C(l)) + Len(C(r)) + 1 BY <2>1, <3>1
      <3> QED BY <3>2 DEF U
    <2>12. /\ C(y) \in Seq(Under(h, y)) /\ IsFiniteSet(Under(h, y))
           /\ Cardinality(Under(h, y)) = Len(C(y))
      BY <2>4, <2>7, <2>8, <2>9, <2>10, <2>11
    <2> QED BY <2>12
  <1>3. DOMAIN h \subseteq G
    <2> HIDE DEF G
    <2> QED BY <1>0, <1>2, TreeInduction
  <1> QED BY <1>3

-----------------------------------------------------------------------------
(***************************************************************************)
(* ExtractStructure.  at maps the fix units below x to their FIXME leaves. *)
(***************************************************************************)
LEMMA VisitedEquation ==
  ASSUME NEW h, Plain(h), NEW x \in DOMAIN h
  PROVE  Visited(h, x) = {x} \cup UNION {Visited(h, c) : c \in {k \in Kids(h, x) : h[k].dt # kFixUnit}}
  <1> DEFINE Onward(y) == {k \in Kids(h, y) : h[k].dt # kFixUnit}
             K == [y \in DOMAIN h |-> Onward(y)]
             E(f) == [y \in DOMAIN h |-> {y} \cup UNION {f[c] : c \in Onward(y)}]
             seen == CHOOSE f : f = E(f)
  <1>1. PICK f : Reaches(h, K, f)
    <2>1. \A y \in DOMAIN h : K[y] \subseteq Kids(h, y) OBVIOUS
    <2> HIDE DEF K
    <2> QED BY <2>1, Reaching
  <1>2. f = E(f)
    <2> HIDE DEF Onward
    <2> QED BY <1>1 DEF Reaches
  <1>3. seen = E(seen)
    <2> HIDE DEF E
    <2> QED BY <1>2
  <1>4. \A y : Visited(h, y) = seen[y] BY DEF Visited
  <1> HIDE DEF seen
  <1>5. seen[x] = {x} \cup UNION {seen[c] : c \in Onward(x)}
    <2> HIDE DEF Onward
    <2> QED BY <1>3
  <1> QED BY <1>4, <1>5

LEMMA VisitedUnder ==
  ASSUME NEW h, Plain(h), NEW x \in DOMAIN h
  PROVE  Visited(h, x) \subseteq Under(h, x) /\ x \in Visited(h, x)
  <1> DEFINE G == {y \in DOMAIN h : Visited(h, y) \subseteq Under(h, y)}
  <1>1. ASSUME NEW y \in DOMAIN h, Kids(h, y) \subseteq G PROVE y \in G
    <2> SUFFICES ASSUME NEW z \in Visited(h, y) PROVE z \in Under(h, y) OBVIOUS
    <2>1. z = y \/ \E c \in Kids(h, y) : z \in Visited(h, c) BY VisitedEquation
    <2>2. CASE z = y BY <2>2, UnderSelf
    <2>3. ASSUME NEW c \in Kids(h, y), z \in Visited(h, c) PROVE z \in Under(h, y)
      <3>1. z \in Under(h, c) BY <1>1, <2>3
      <3> QED BY <3>1, UnderSelf
    <2> QED BY <2>1, <2>2, <2>3
  <1>2. DOMAIN h \subseteq G
    <2> HIDE DEF G
    <2> QED BY <1>1, TreeInduction
  <1> QED BY <1>2, VisitedEquation

Extracts(h, x, g, at) ==
  LET At(c) == IF c \in FixUnits(h, x) THEN at[c] ELSE c
  IN /\ g = [y \in DOMAIN g |-> g[y]]
     /\ DOMAIN g = DOMAIN h \cup {at[u] : u \in FixUnits(h, x)}
     /\ \A u \in FixUnits(h, x) :
          at[u] \in Nat \ {0} /\ at[u] \notin DOMAIN h /\ g[at[u]] = FixMe
     /\ \A u, v \in FixUnits(h, x) : at[u] = at[v] => u = v
     /\ \E b \in Nat : \A u \in FixUnits(h, x) : at[u] <= b
     /\ \A y \in DOMAIN h : y \notin Visited(h, x) => g[y] = h[y]
     /\ \A y \in Visited(h, x) :
          g[y] = [type |-> h[y].type, op |-> h[y].op,
                  data |-> IF Kids(h, y) = {} THEN Sample(h[y]) ELSE h[y].data,
                  dt |-> h[y].dt, left |-> At(h[y].left), right |-> At(h[y].right)]

LEMMA ExceptData ==
  ASSUME NEW n, IsNode(n), NEW d
  PROVE  [n EXCEPT !.data = d] = [type |-> n.type, op |-> n.op, data |-> d, dt |-> n.dt,
                                  left |-> n.left, right |-> n.right]
  <1> DEFINE m == [n EXCEPT !.data = d]
  <1>1. DOMAIN n = {"type", "op", "data", "dt", "left", "right"} BY DEF IsNode
  <1>2. DOMAIN m = DOMAIN n /\ m = [f \in DOMAIN m |-> m[f]] OBVIOUS
  <1>3. /\ m.type = n.type /\ m.op = n.op /\ m.data = d /\ m.dt = n.dt
        /\ m.left = n.left /\ m.right = n.right
    BY <1>1
  <1> HIDE DEF m
  <1>4. m = [type |-> n.type, op |-> n.op, data |-> d, dt |-> n.dt,
             left |-> n.left, right |-> n.right]
    BY <1>1, <1>2, <1>3
  <1> QED BY <1>4 DEF m

LEMMA ExtractIs ==
  ASSUME NEW h, Plain(h), NEW x \in DOMAIN h
  PROVE  \E at : Extracts(h, x, ExtractStructure(h, x), at)
  <1> DEFINE T == Visited(h, x)
             U == FixUnits(h, x)
             free == Max(DOMAIN h)
             R(c) == Cardinality({z \in U : z <= c})
             At(c) == IF c \in U THEN free + R(c) ELSE c
             at == [u \in U |-> At(u)]
             Extracted(y) == IF Kids(h, y) = {} THEN [h[y] EXCEPT !.data = Sample(h[y])]
                             ELSE [h[y] EXCEPT !.left = At(@), !.right = At(@)]
             old == [y \in DOMAIN h |-> IF y \in T THEN Extracted(y) ELSE h[y]]
             new == {At(u) : u \in U}
             fixme == [c \in new |-> FixMe]
             g == Allocate(old, fixme)
  <1>1. ExtractStructure(h, x) = g BY DEF ExtractStructure
  <1>2. PICK k \in Nat : DOMAIN h \subseteq 1..k BY DEF Plain, Ranked
  <1>3. T \subseteq DOMAIN h BY VisitedUnder, UnderClosed
  <1>4. U \subseteq DOMAIN h BY <1>3 DEF FixUnits, Plain
  <1>5. free \in DOMAIN h /\ (\A y \in DOMAIN h : y <= free) BY <1>2, MaxIs
  <1>6. /\ \A y \in U : R(y) \in Nat \ {0} /\ R(y) <= k
        /\ \A y, w \in U : y # w => R(y) # R(w)
    <2>1. U \in SUBSET (1..k) BY <1>2, <1>4
    <2> HIDE DEF U
    <2> QED BY <2>1, RanksApart
  <1> HIDE DEF R, free, U, T
  <1>7. free \in Nat \ {0} BY <1>2, <1>5
  <1>8. \A u \in U : At(u) = free + R(u) /\ At(u) \in Nat \ {0} /\ At(u) > free /\ At(u) <= free + k
    BY <1>2, <1>6, <1>7
  <1>9. \A u, v \in U : At(u) = At(v) => u = v BY <1>6, <1>7, <1>8
  <1>10. \A u \in U : At(u) \notin DOMAIN h
    <2>1. \A y \in DOMAIN h : y \in Nat BY <1>2
    <2> QED BY <1>5, <1>7, <1>8, <2>1
  <1>11. 0 \notin U BY <1>2, <1>4
  <1>12. \A c : At(c) = IF c \in U THEN at[c] ELSE c OBVIOUS
  <1>13. At(0) = 0 BY <1>11
  <1> HIDE DEF At
  <1>14. ASSUME NEW y \in T
         PROVE  Extracted(y) = [type |-> h[y].type, op |-> h[y].op,
                                data |-> IF Kids(h, y) = {} THEN Sample(h[y]) ELSE h[y].data,
                                dt |-> h[y].dt, left |-> At(h[y].left), right |-> At(h[y].right)]
    <2>0. IsNode(h[y]) BY <1>3 DEF Plain
    <2>1. CASE Kids(h, y) = {}
      <3>1. h[y].left = 0 /\ h[y].right = 0 BY <2>1 DEF Kids
      <3>2. Extracted(y) = [h[y] EXCEPT !.data = Sample(h[y])] BY <2>1
      <3>3. [h[y] EXCEPT !.data = Sample(h[y])]
              = [type |-> h[y].type, op |-> h[y].op, data |-> Sample(h[y]), dt |-> h[y].dt,
                 left |-> h[y].left, right |-> h[y].right]
        BY <2>0, ExceptData
      <3> HIDE DEF Extracted
      <3> QED BY <1>13, <2>1, <3>1, <3>2, <3>3
    <2>2. CASE Kids(h, y) # {}
      <3>2. Extracted(y) = [h[y] EXCEPT !.left = At(@), !.right = At(@)] BY <2>2
      <3>3. [h[y] EXCEPT !.left = At(@), !.right = At(@)]
              = [type |-> h[y].type, op |-> h[y].op, data |-> h[y].data, dt |-> h[y].dt,
                 left |-> At(h[y].left), right |-> At(h[y].right)]
        BY <2>0, ExceptChildren
      <3> HIDE DEF Extracted
      <3> QED BY <2>2, <3>2, <3>3
    <2> QED BY <2>1, <2>2
  <1> HIDE DEF Extracted
  <1>15. /\ DOMAIN g = DOMAIN h \cup new /\ g = [y \in DOMAIN g |-> g[y]]
         /\ \A y \in DOMAIN h : g[y] = IF y \in T THEN Extracted(y) ELSE h[y]
         /\ \A c \in new : g[c] = FixMe
    <2>1. DOMAIN old = DOMAIN h /\ DOMAIN fixme = new OBVIOUS
    <2>2. new \cap DOMAIN h = {} BY <1>10
    <2>3. /\ \A y \in DOMAIN h : old[y] = IF y \in T THEN Extracted(y) ELSE h[y]
          /\ \A c \in new : fixme[c] = FixMe
      OBVIOUS
    <2> HIDE DEF old, fixme, new
    <2>4. g = [y \in DOMAIN h \cup new |-> IF y \in DOMAIN h THEN old[y] ELSE fixme[y]]
      BY <2>1 DEF Allocate
    <2> HIDE DEF g
    <2> QED BY <2>2, <2>3, <2>4
  <1>16. new = {at[u] : u \in U} /\ (\A u \in U : at[u] = At(u) /\ at[u] \in new) OBVIOUS
  <1>17. free + k \in Nat BY <1>2, <1>7
  <1> HIDE DEF g, new, at
  <1>18. Extracts(h, x, g, at)
    <2>1. \A u \in U : at[u] \in Nat \ {0} /\ at[u] \notin DOMAIN h /\ g[at[u]] = FixMe
      BY <1>8, <1>10, <1>15, <1>16
    <2>2. \A u, v \in U : at[u] = at[v] => u = v BY <1>9, <1>16
    <2>3. \A u \in U : at[u] <= free + k BY <1>8, <1>16
    <2>4. \A y \in DOMAIN h : y \notin T => g[y] = h[y] BY <1>15
    <2>5. ASSUME NEW y \in T
          PROVE  g[y] = [type |-> h[y].type, op |-> h[y].op,
                         data |-> IF Kids(h, y) = {} THEN Sample(h[y]) ELSE h[y].data,
                         dt |-> h[y].dt,
                         left |-> IF h[y].left \in U THEN at[h[y].left] ELSE h[y].left,
                         right |-> IF h[y].right \in U THEN at[h[y].right] ELSE h[y].right]
      BY <1>3, <1>12, <1>14, <1>15
    <2> QED BY <1>15, <1>16, <1>17, <2>1, <2>2, <2>3, <2>4, <2>5 DEF Extracts, T, U
  <1> QED BY <1>1, <1>18

LEMMA ExtractSound ==
  ASSUME NEW h, Sound(h), NEW x \in DOMAIN h, NEW g, NEW at, Extracts(h, x, g, at)
  PROVE  /\ Sound(g) /\ Plain(g) /\ DOMAIN h \subseteq DOMAIN g
         /\ \A r \in DOMAIN h : IsRoot(h, r) => IsRoot(g, r)
         /\ \A y \in DOMAIN h : y \notin Under(h, x) => g[y] = h[y]
         /\ \A y \in DOMAIN h : Kids(g, y) \cap DOMAIN h \subseteq Kids(h, y)
         /\ \A y \in DOMAIN g : y \notin DOMAIN h => Kids(g, y) = {}
  <1> DEFINE T == Visited(h, x)
             U == FixUnits(h, x)
             At(c) == IF c \in U THEN at[c] ELSE c
  <1>1. Plain(h) BY DEF Sound
  <1>2. T \subseteq DOMAIN h BY <1>1, VisitedUnder, UnderClosed
  <1>3. U \subseteq DOMAIN h BY <1>1, <1>2 DEF FixUnits, Plain
  <1>4. 0 \notin DOMAIN h BY <1>1 DEF Plain, Ranked
  <1>5. /\ DOMAIN g = DOMAIN h \cup {at[u] : u \in U}
        /\ \A u \in U : at[u] \in Nat \ {0} /\ at[u] \notin DOMAIN h /\ g[at[u]] = FixMe
        /\ \A u, v \in U : at[u] = at[v] => u = v
        /\ \A y \in DOMAIN h : y \notin T => g[y] = h[y]
    BY DEF Extracts
  <1>6. \A y \in T : IsNode(g[y]) /\ g[y].left = At(h[y].left) /\ g[y].right = At(h[y].right)
    <2> SUFFICES ASSUME NEW y \in T
                 PROVE  IsNode(g[y]) /\ g[y].left = At(h[y].left) /\ g[y].right = At(h[y].right)
      OBVIOUS
    <2>1. g[y] = [type |-> h[y].type, op |-> h[y].op,
                  data |-> IF Kids(h, y) = {} THEN Sample(h[y]) ELSE h[y].data,
                  dt |-> h[y].dt, left |-> At(h[y].left), right |-> At(h[y].right)]
      BY DEF Extracts
    <2> HIDE DEF At
    <2> QED BY <2>1 DEF IsNode
  <1>7. IsNode(FixMe) /\ FixMe.left = 0 /\ FixMe.right = 0 BY DEF FixMe, IsNode
  <1>8. \A c \in DOMAIN h \cup {0} : /\ At(c) = 0 <=> c = 0
                                     /\ At(c) = c \/ (c \in U /\ At(c) \notin DOMAIN h)
                                     /\ At(c) \in DOMAIN g \cup {0}
    BY <1>3, <1>4, <1>5
  <1>9. \A c, d \in DOMAIN h \cup {0} : At(c) = At(d) => c = d
    <2>1. \A u \in U : at[u] # 0 BY <1>5
    <2> QED BY <1>3, <1>4, <1>5, <2>1
  <1>25. At(0) = 0 /\ \A c \in DOMAIN h \cup {0} : At(c) \in DOMAIN h \cup {0} => At(c) = c
    <2>1. \A u \in U : at[u] # 0 BY <1>5
    <2> QED BY <1>3, <1>4, <1>5, <2>1
  <1>26. \A c \in DOMAIN h \cup {0} : At(c) = 0 => c = 0
    <2>1. \A u \in U : at[u] # 0 BY <1>5
    <2> QED BY <1>3, <1>4, <1>5, <2>1
  <1>10. \A y \in DOMAIN h : IsNode(h[y]) /\ h[y].left \in DOMAIN h \cup {0}
                              /\ h[y].right \in DOMAIN h \cup {0}
    BY <1>1 DEF Plain, Kids
  <1> HIDE DEF At, U, T
  <1>11. ASSUME NEW y \in DOMAIN g
         PROVE  \/ y \in DOMAIN h /\ y \notin T /\ g[y] = h[y]
                \/ y \in DOMAIN h /\ y \in T
                \/ y \notin DOMAIN h /\ g[y] = FixMe
    BY <1>5
  <1>12. \A y \in DOMAIN g : IsNode(g[y]) /\ Kids(g, y) \subseteq DOMAIN g
    <2> SUFFICES ASSUME NEW y \in DOMAIN g PROVE IsNode(g[y]) /\ Kids(g, y) \subseteq DOMAIN g
      OBVIOUS
    <2>1. CASE y \in DOMAIN h /\ g[y] = h[y] BY <1>5, <1>10, <2>1 DEF Kids
    <2>2. CASE y \in DOMAIN h /\ y \in T BY <1>6, <1>8, <1>10, <2>2 DEF Kids
    <2>3. CASE g[y] = FixMe BY <1>7, <2>3 DEF Kids
    <2> QED BY <1>11, <2>1, <2>2, <2>3
  <1>13. \A y \in DOMAIN h : Kids(g, y) \cap DOMAIN h \subseteq Kids(h, y)
    BY <1>5, <1>6, <1>8, <1>10 DEF Kids
  <1>14. \A y \in DOMAIN g : y \notin DOMAIN h => Kids(g, y) = {} BY <1>7, <1>11 DEF Kids
  <1>15. \A y \in DOMAIN h : Kids(h, y) = {} => Kids(g, y) = {}
    <2> SUFFICES ASSUME NEW y \in DOMAIN h, Kids(h, y) = {} PROVE Kids(g, y) = {} OBVIOUS
    <2>1. h[y].left = 0 /\ h[y].right = 0 BY DEF Kids
    <2>2. g[y].left = 0 /\ g[y].right = 0 BY <1>5, <1>6, <1>25, <2>1
    <2> QED BY <2>2 DEF Kids
  <1>16. PICK k \in Nat : Ranked(h, k) BY <1>1 DEF Plain
  <1>17. PICK rank \in [DOMAIN h -> 0..k] : Descends(h, rank) BY <1>16 DEF Ranked
  <1>18. PICK b \in Nat : \A u \in U : at[u] <= b BY DEF Extracts, U
  <1> DEFINE up == [y \in DOMAIN g |-> IF y \in DOMAIN h THEN rank[y] ELSE 0]
  <1>19. up \in [DOMAIN g -> 0..(k + b)]
    <2>1. \A y \in DOMAIN h : rank[y] \in 0..(k + b) BY <1>16, <1>17, <1>18
    <2>2. 0 \in 0..(k + b) BY <1>16, <1>18
    <2> QED BY <2>1, <2>2
  <1>20. ASSUME NEW y \in DOMAIN g, NEW c \in Kids(g, y) PROVE up[c] < up[y]
    <2>1. y \in DOMAIN h /\ c \in DOMAIN g BY <1>12, <1>14
    <2>2. CASE c \in DOMAIN h
      <3>1. rank[c] < rank[y] BY <1>13, <1>17, <2>1, <2>2 DEF Descends
      <3> QED BY <2>1, <2>2, <3>1
    <2>3. CASE c \notin DOMAIN h
      <3>1. PICK d \in Kids(h, y) : TRUE BY <1>15, <2>1
      <3>2. d \in DOMAIN h BY <1>1, <2>1 DEF Plain
      <3>3. rank[d] < rank[y] BY <1>17, <2>1, <3>1 DEF Descends
      <3>4. rank[d] \in Nat /\ rank[y] \in Nat BY <1>16, <1>17, <2>1, <3>2
      <3> QED BY <2>1, <2>3, <3>3, <3>4
    <2> QED BY <2>2, <2>3
  <1>21. Plain(g)
    <2>0. k + b \in Nat BY <1>16, <1>18
    <2>1. DOMAIN g \subseteq 1..(k + b)
      <3>1. \A y \in DOMAIN h : y \in 1..(k + b) BY <1>16, <1>18 DEF Ranked
      <3>2. \A u \in U : at[u] \in 1..(k + b) BY <1>5, <1>16, <1>18
      <3> QED BY <1>5, <3>1, <3>2
    <2> HIDE DEF up
    <2>2. Descends(g, up) BY <1>20 DEF Descends
    <2>3. Ranked(g, k + b) BY <1>19, <2>1, <2>2 DEF Ranked
    <2>4. g = [y \in DOMAIN g |-> g[y]] BY DEF Extracts
    <2> QED BY <1>12, <2>0, <2>3, <2>4 DEF Plain
  <1>22. OneParent(g)
    <2>1. \A y, z \in DOMAIN h :
            /\ h[y].left = h[z].left /\ h[y].left # 0 => y = z
            /\ h[y].right = h[z].right /\ h[y].right # 0 => y = z
            /\ h[y].left = h[z].right => h[y].left = 0
      BY DEF Sound, OneParent
    <2> DEFINE L(y) == IF y \in DOMAIN h THEN h[y].left ELSE 0
               R(y) == IF y \in DOMAIN h THEN h[y].right ELSE 0
    <2>2. \A y \in DOMAIN g : /\ g[y].left = L(y) \/ g[y].left = At(L(y))
                              /\ g[y].right = R(y) \/ g[y].right = At(R(y))
      BY <1>6, <1>7, <1>11
    <2>3. \A y \in DOMAIN g : L(y) \in DOMAIN h \cup {0} /\ R(y) \in DOMAIN h \cup {0}
      BY <1>10
    <2>4. \A c, d \in DOMAIN h \cup {0} : c = At(d) => c = d BY <1>25
    <2>5. \A y, z \in DOMAIN g :
            /\ L(y) = L(z) /\ L(y) # 0 => y = z
            /\ R(y) = R(z) /\ R(y) # 0 => y = z
            /\ L(y) = R(z) => L(y) = 0
      BY <2>1
    <2> HIDE DEF L, R
    <2>6. ASSUME NEW y \in DOMAIN g, NEW z \in DOMAIN g
          PROVE  /\ g[y].left = g[z].left /\ g[y].left # 0 => y = z
                 /\ g[y].right = g[z].right /\ g[y].right # 0 => y = z
                 /\ g[y].left = g[z].right => g[y].left = 0
      <3>1. g[y].left = g[z].left => L(y) = L(z) BY <1>9, <2>2, <2>3, <2>4
      <3>2. g[y].right = g[z].right => R(y) = R(z) BY <1>9, <2>2, <2>3, <2>4
      <3>3. g[y].left = g[z].right => L(y) = R(z) BY <1>9, <2>2, <2>3, <2>4
      <3>4. (g[y].left = 0 <=> L(y) = 0) /\ (g[y].right = 0 <=> R(y) = 0)
        BY <1>25, <1>26, <2>2, <2>3
      <3> QED BY <2>5, <3>1, <3>2, <3>3, <3>4
    <2> QED BY <2>6 DEF OneParent
  <1>23. \A r \in DOMAIN h : IsRoot(h, r) => IsRoot(g, r)
    BY <1>5, <1>13, <1>14 DEF IsRoot
  <1>24. \A y \in DOMAIN h : y \notin Under(h, x) => g[y] = h[y]
    BY <1>1, <1>5, VisitedUnder DEF T
  <1> QED BY <1>5, <1>13, <1>14, <1>21, <1>22, <1>23, <1>24 DEF Sound

-----------------------------------------------------------------------------
(***************************************************************************)
(* Heaps during MutateIRs.  The library is as it was, and only its own     *)
(* nodes lead to it; a tree is not a part of the library.                  *)
(***************************************************************************)
HeapOK(h) ==
  /\ Sound(h)
  /\ LibraryNodes \subseteq DOMAIN h
  /\ \A y \in LibraryNodes : h[y] = Heap0[y]
  /\ \A y \in DOMAIN h : y \notin LibraryNodes => Kids(h, y) \cap LibraryNodes = {}

Tree(h, r) == r \in DOMAIN h /\ r \notin LibraryNodes /\ IsRoot(h, r)

\* Heap g has all the nodes of h as they were.
Grows(h, g) == \A y \in DOMAIN h : y \in DOMAIN g /\ g[y] = h[y]

Kept(h, g, r) == /\ r \in DOMAIN g
                 /\ \A y \in Under(h, r) : y \in DOMAIN g /\ g[y] = h[y]
                 /\ Under(g, r) = Under(h, r)

LEMMA Heap0Sound == Sound(Heap0)
  <1>1. DOMAIN Heap0 = 1..Len(Heap0) /\ Len(Heap0) \in Nat BY HeapAssumption
  <1> DEFINE rank == [y \in DOMAIN Heap0 |-> y]
  <1>2. rank \in [DOMAIN Heap0 -> 0..Len(Heap0)] BY <1>1
  <1>3. ASSUME NEW y \in DOMAIN Heap0, NEW c \in Kids(Heap0, y)
        PROVE  c \in DOMAIN Heap0 /\ rank[c] < rank[y]
    <2>1. c \in 1..(y - 1) /\ y \in 1..Len(Heap0) BY <1>1, HeapAssumption
    <2>2. c \in 1..Len(Heap0) /\ c < y BY <1>1, <2>1
    <2> QED BY <1>1, <2>2
  <1>4. Ranked(Heap0, Len(Heap0))
    <2>1. Descends(Heap0, rank)
      <3> HIDE DEF rank
      <3> QED BY <1>3 DEF Descends
    <2> HIDE DEF rank
    <2> QED BY <1>1, <1>2, <2>1 DEF Ranked
  <1>5. \A y \in DOMAIN Heap0 : IsNode(Heap0[y]) BY HeapAssumption DEF IsNode
  <1>6. Heap0 = [y \in DOMAIN Heap0 |-> Heap0[y]] /\ OneParent(Heap0) BY HeapAssumption
  <1>7. \A y \in DOMAIN Heap0 : Kids(Heap0, y) \subseteq DOMAIN Heap0 BY <1>3
  <1> QED BY <1>1, <1>4, <1>5, <1>6, <1>7 DEF Sound, Plain

LEMMA LibraryClosed ==
  /\ LibraryNodes \subseteq DOMAIN Heap0 /\ StoredIRs \subseteq LibraryNodes
  /\ StoredIRs \subseteq DOMAIN Heap0
  /\ \A y \in LibraryNodes : Kids(Heap0, y) \subseteq LibraryNodes
  <1>1. Plain(Heap0) BY Heap0Sound DEF Sound
  <1>2. StoredIRs \subseteq DOMAIN Heap0 BY MutationAssumption DEF StoredIRs
  <1>3. \A x \in StoredIRs : /\ Under(Heap0, x) \subseteq DOMAIN Heap0 /\ x \in Under(Heap0, x)
                             /\ \A y \in Under(Heap0, x) : Kids(Heap0, y) \subseteq Under(Heap0, x)
    BY <1>1, <1>2, UnderSelf, UnderClosed
  <1> QED BY <1>2, <1>3 DEF LibraryNodes

LEMMA LibraryKept ==
  ASSUME NEW h, HeapOK(h)
  PROVE  /\ Plain(h) /\ Sound(h) /\ 0 \notin DOMAIN h
         /\ \A y \in LibraryNodes : y \in DOMAIN h /\ Kids(h, y) \subseteq LibraryNodes
         /\ UNION {Under(h, x) : x \in StoredIRs} = LibraryNodes
  <1>1. Plain(h) /\ Plain(Heap0) BY Heap0Sound DEF HeapOK, Sound
  <1>2. \A y \in LibraryNodes : y \in DOMAIN h /\ Kids(h, y) = Kids(Heap0, y)
    BY DEF HeapOK, Kids
  <1>3. ASSUME NEW x \in StoredIRs PROVE Under(h, x) = Under(Heap0, x)
    <2>1. Under(Heap0, x) \subseteq LibraryNodes BY DEF LibraryNodes
    <2>2. x \in DOMAIN Heap0 /\ x \in DOMAIN h BY <1>2, LibraryClosed
    <2>3. \A y \in Under(Heap0, x) : y \in DOMAIN h /\ Kids(h, y) = Kids(Heap0, y)
      BY <1>2, <2>1
    <2> QED BY <1>1, <2>2, <2>3, SameUnder
  <1>4. UNION {Under(h, x) : x \in StoredIRs} = LibraryNodes BY <1>3 DEF LibraryNodes
  <1>5. 0 \notin DOMAIN h BY <1>1 DEF Plain, Ranked
  <1> QED BY <1>1, <1>2, <1>4, <1>5, LibraryClosed DEF HeapOK

LEMMA StoredIsLibrary ==
  ASSUME HeapOK(heap)
  PROVE  StoredNodes = LibraryNodes
  BY LibraryKept DEF StoredNodes

\* Nothing below a node outside the library is in the library.
LEMMA OutsideLibrary ==
  ASSUME NEW h, HeapOK(h), NEW x \in DOMAIN h, x \notin LibraryNodes
  PROVE  Under(h, x) \cap LibraryNodes = {}
  <1> DEFINE T == {y \in DOMAIN h : y \notin LibraryNodes}
  <1>1. Plain(h) BY LibraryKept
  <1>2. \A y \in DOMAIN h : y \in T => Kids(h, y) \subseteq T BY <1>1 DEF HeapOK, Plain
  <1>3. Under(h, x) \subseteq T
    <2> HIDE DEF T
    <2>1. x \in T BY DEF T
    <2> QED BY <1>1, <1>2, <2>1, UnderLeast
  <1> QED BY <1>3

LEMMA KeptUnder ==
  ASSUME NEW h, Plain(h), NEW g, Plain(g), NEW r \in DOMAIN h,
         \A y \in Under(h, r) : y \in DOMAIN g /\ g[y] = h[y]
  PROVE  Kept(h, g, r)
  <1>1. r \in DOMAIN g BY UnderSelf
  <1>2. \A y \in Under(h, r) : y \in DOMAIN g /\ Kids(g, y) = Kids(h, y) BY DEF Kids
  <1> QED BY <1>1, <1>2, SameUnder DEF Kept

LEMMA GrowsKeeps ==
  ASSUME NEW h, Plain(h), NEW g, Plain(g), Grows(h, g), NEW r \in DOMAIN h
  PROVE  Kept(h, g, r)
  <1>1. Under(h, r) \subseteq DOMAIN h BY UnderClosed
  <1> QED BY <1>1, KeptUnder DEF Grows

LEMMA OKCopy ==
  ASSUME NEW h, HeapOK(h), NEW x \in DOMAIN h
  PROVE  LET c == Copied(h, x)
         IN /\ HeapOK(c.heap) /\ Grows(h, c.heap)
            /\ c.at \notin DOMAIN h /\ Tree(c.heap, c.at)
            /\ \A r : Tree(h, r) => Tree(c.heap, r) /\ r # c.at
            /\ \A y \in DOMAIN c.heap : y \notin DOMAIN h => Kids(c.heap, y) \cap DOMAIN h = {}
  <1> DEFINE g == Copied(h, x).heap
  <1>0. Plain(h) BY LibraryKept
  <1>1. PICK f : IsCopy(h, x, Copied(h, x), f) BY <1>0, CopiedIs
  <1>9. Copies(h, x, g, f) /\ Copied(h, x).at = f[x] BY <1>1 DEF IsCopy
  <1>2. /\ Sound(g) /\ Plain(g) /\ f[x] \in DOMAIN g \ DOMAIN h /\ IsRoot(g, f[x])
        /\ \A r \in DOMAIN h : IsRoot(h, r) => IsRoot(g, r)
        /\ \A z \in DOMAIN g \ DOMAIN h : Kids(g, z) \cap DOMAIN h = {}
    BY <1>9, LibraryKept, CopySound
  <1>3. Grows(h, g) BY <1>9 DEF Copies, Grows
  <1> HIDE DEF g
  <1>4. \A y \in DOMAIN h : Kids(g, y) = Kids(h, y) BY <1>3 DEF Grows, Kids
  <1>5. LibraryNodes \subseteq DOMAIN h BY DEF HeapOK
  <1>6. HeapOK(g)
    <2>1. LibraryNodes \subseteq DOMAIN g /\ \A y \in LibraryNodes : g[y] = Heap0[y]
      BY <1>3, <1>5 DEF Grows, HeapOK
    <2>2. \A y \in DOMAIN g : y \notin LibraryNodes => Kids(g, y) \cap LibraryNodes = {}
      BY <1>2, <1>4, <1>5 DEF HeapOK
    <2> QED BY <1>2, <2>1, <2>2 DEF HeapOK
  <1>7. Tree(g, f[x]) BY <1>2, <1>5 DEF Tree
  <1>8. \A r : Tree(h, r) => Tree(g, r) /\ r # f[x] BY <1>2, <1>3 DEF Tree, Grows
  <1> QED BY <1>2, <1>3, <1>6, <1>7, <1>8, <1>9 DEF g

LEMMA OKLink ==
  ASSUME NEW h, HeapOK(h), NEW p \in DOMAIN h, p \notin LibraryNodes, NEW v, NEW g,
         Links(h, g, p, v), v = 0 \/ (Tree(h, v) /\ p \notin Under(h, v))
  PROVE  /\ HeapOK(g) /\ Plain(g) /\ DOMAIN g = DOMAIN h
         /\ \A y \in DOMAIN h : y # p => g[y] = h[y]
         /\ \A r : r # v /\ Tree(h, r) => Tree(g, r)
         /\ \A r \in DOMAIN h : p \notin Under(h, r) => Kept(h, g, r)
         /\ \A r \in DOMAIN h : Under(g, r) \subseteq Under(h, r) \cup Under(h, v)
  <1>1. Sound(h) /\ Plain(h) /\ 0 \notin DOMAIN h BY LibraryKept
  <1>2. v = 0 \/ (v \in DOMAIN h /\ IsRoot(h, v) /\ p \notin Under(h, v)) BY DEF Tree
  <1>3. /\ Sound(g) /\ Plain(g) /\ DOMAIN g = DOMAIN h
        /\ \A r \in DOMAIN h : r # v /\ IsRoot(h, r) => IsRoot(g, r)
        /\ \A y \in DOMAIN h : p \notin Under(h, y) => Under(g, y) = Under(h, y)
        /\ \A y \in DOMAIN h : Under(g, y) \subseteq Under(h, y) \cup Under(h, v)
        /\ \A y \in DOMAIN h : Kids(g, y) \subseteq Kids(h, y) \cup {v}
    BY <1>1, <1>2, LinkSound
  <1>4. \A y \in DOMAIN h : y # p => g[y] = h[y] BY DEF Links
  <1>5. \A y \in DOMAIN h : y # p => Kids(g, y) = Kids(h, y) BY <1>4 DEF Kids
  <1>6. HeapOK(g)
    <2>1. v \notin LibraryNodes BY <1>1 DEF Tree, HeapOK
    <2>2. \A y \in DOMAIN g : y \notin LibraryNodes => Kids(g, y) \cap LibraryNodes = {}
      BY <1>3, <2>1 DEF HeapOK
    <2>3. LibraryNodes \subseteq DOMAIN g /\ \A y \in LibraryNodes : g[y] = Heap0[y]
      BY <1>3, <1>4 DEF HeapOK
    <2> QED BY <1>3, <2>2, <2>3 DEF HeapOK
  <1>7. \A r : r # v /\ Tree(h, r) => Tree(g, r) BY <1>3 DEF Tree
  <1>8. ASSUME NEW r \in DOMAIN h, p \notin Under(h, r) PROVE Kept(h, g, r)
    <2>1. Under(h, r) \subseteq DOMAIN h BY <1>1, UnderClosed
    <2> QED BY <1>1, <1>3, <1>4, <1>8, <2>1, KeptUnder
  <1> QED BY <1>3, <1>4, <1>6, <1>7, <1>8

AddsLeaf(h, g, b, n) == g = Allocate(h, [z \in {b} |-> n])

LEMMA OKLeaf ==
  ASSUME NEW h, HeapOK(h), NEW b \in Nat \ {0}, b \notin DOMAIN h, NEW n, IsNode(n),
         n.left = 0, n.right = 0, NEW g, AddsLeaf(h, g, b, n)
  PROVE  /\ HeapOK(g) /\ Grows(h, g) /\ Tree(g, b) /\ g[b] = n /\ DOMAIN g = DOMAIN h \cup {b}
         /\ \A r : Tree(h, r) => Tree(g, r) /\ r # b
         /\ Under(g, b) = {b}
  <1>1. Plain(h) /\ Sound(h) BY LibraryKept
  <1>2. /\ DOMAIN g = DOMAIN h \cup {b} /\ g = [y \in DOMAIN g |-> g[y]]
        /\ g[b] = n /\ \A y \in DOMAIN h : g[y] = h[y]
    <2> DEFINE e == [z \in {b} |-> n]
    <2>1. DOMAIN e = {b} /\ e[b] = n OBVIOUS
    <2> HIDE DEF e
    <2>2. g = [y \in DOMAIN h \cup {b} |-> IF y \in DOMAIN h THEN h[y] ELSE e[y]]
      BY <2>1 DEF AddsLeaf, Allocate, e
    <2> QED BY <2>1, <2>2
  <1>3. /\ \A y \in DOMAIN h : Kids(g, y) = Kids(h, y) /\ Kids(h, y) \subseteq DOMAIN h
                                 /\ IsNode(g[y])
        /\ Kids(g, b) = {}
    BY <1>1, <1>2 DEF Kids, Plain
  <1>4. PICK k \in Nat : Ranked(h, k) BY <1>1 DEF Plain
  <1>5. PICK rank \in [DOMAIN h -> 0..k] : Descends(h, rank) BY <1>4 DEF Ranked
  <1> DEFINE up == [y \in DOMAIN g |-> IF y \in DOMAIN h THEN rank[y] ELSE 0]
  <1>6. up \in [DOMAIN g -> 0..(k + b)]
    <2>1. \A y \in DOMAIN h : rank[y] \in 0..(k + b) BY <1>4, <1>5
    <2> QED BY <1>4, <2>1
  <1>7. Descends(g, up)
    <2> SUFFICES ASSUME NEW y \in DOMAIN g, NEW c \in Kids(g, y) PROVE up[c] < up[y]
      <3> HIDE DEF up
      <3> QED BY DEF Descends
    <2>1. y \in DOMAIN h /\ c \in DOMAIN h /\ c \in Kids(h, y) BY <1>2, <1>3
    <2>2. rank[c] < rank[y] BY <1>5, <2>1 DEF Descends
    <2> QED BY <1>2, <2>1, <2>2
  <1>8. Plain(g)
    <2>1. DOMAIN g \subseteq 1..(k + b) /\ k + b \in Nat BY <1>2, <1>4 DEF Ranked
    <2> HIDE DEF up
    <2>2. Ranked(g, k + b) BY <1>6, <1>7, <2>1 DEF Ranked
    <2>3. \A y \in DOMAIN g : IsNode(g[y]) /\ Kids(g, y) \subseteq DOMAIN g BY <1>2, <1>3
    <2> QED BY <1>2, <2>1, <2>2, <2>3 DEF Plain
  <1>9. OneParent(g)
    <2>1. \A y, z \in DOMAIN h :
            /\ h[y].left = h[z].left /\ h[y].left # 0 => y = z
            /\ h[y].right = h[z].right /\ h[y].right # 0 => y = z
            /\ h[y].left = h[z].right => h[y].left = 0
      BY <1>1 DEF Sound, OneParent
    <2>2. \A y \in DOMAIN g : y \in DOMAIN h \/ (g[y].left = 0 /\ g[y].right = 0) BY <1>2
    <2> QED BY <1>2, <2>1, <2>2 DEF OneParent
  <1>10. IsRoot(g, b) BY <1>2, <1>3 DEF IsRoot
  <1>11. \A r \in DOMAIN h : IsRoot(h, r) => IsRoot(g, r) BY <1>2, <1>3 DEF IsRoot
  <1>13. Under(g, b) = {b}
    <2>1. b \in DOMAIN g BY <1>2
    <2> QED BY <1>3, <1>8, <2>1, UnderSelf
  <1>14. HeapOK(g) BY <1>2, <1>3, <1>8, <1>9 DEF HeapOK, Sound
  <1>15. Grows(h, g) BY <1>2 DEF Grows
  <1>16. Tree(g, b) BY <1>2, <1>10 DEF Tree, HeapOK
  <1>17. \A r : Tree(h, r) => Tree(g, r) /\ r # b BY <1>2, <1>11 DEF Tree
  <1> QED BY <1>2, <1>13, <1>14, <1>15, <1>16, <1>17

LEMMA OKAlive ==
  ASSUME HeapOK(heap), NEW h, HeapOK(h), NEW P, \A x \in P : x = 0 \/ x \in DOMAIN h
  PROVE  LET g == Alive(h, P)
         IN /\ HeapOK(g)
            /\ \A y \in LibraryNodes : y \in DOMAIN g /\ g[y] = h[y]
            /\ \A x \in P : x # 0 => Kept(h, g, x) /\ (Tree(h, x) => Tree(g, x))
            /\ \A y \in DOMAIN g : y \in DOMAIN h /\ g[y] = h[y]
  <1> DEFINE N == LibraryNodes \cup UNION {Under(h, x) : x \in P}
             g == Alive(h, P)
  <1>1. g = [y \in N |-> h[y]] BY StoredIsLibrary DEF Alive
  <1>2. Sound(h) /\ Plain(h) /\ LibraryNodes \subseteq DOMAIN h BY LibraryKept DEF HeapOK
  <1>3. \A x \in P : Under(h, x) \subseteq DOMAIN h
    BY <1>2, UnderEquation, UnderClosed
  <1>4. N \subseteq DOMAIN h BY <1>2, <1>3
  <1>5. ASSUME NEW y \in N PROVE Kids(h, y) \subseteq N
    <2>1. CASE y \in LibraryNodes BY <2>1, LibraryKept
    <2>2. ASSUME NEW x \in P, y \in Under(h, x) PROVE Kids(h, y) \subseteq N
      <3>1. x \in DOMAIN h BY <1>2, <2>2, UnderEquation
      <3> QED BY <1>2, <2>2, <3>1, UnderClosed
    <2> QED BY <2>1, <2>2
  <1>6. \A x \in P : x # 0 => x \in N BY <1>2, UnderSelf
  <1>7. \A x \in P : Under(h, x) \subseteq N OBVIOUS
  <1>8. LibraryNodes \subseteq N OBVIOUS
  <1> HIDE DEF N, g
  <1>9. /\ Sound(g) /\ Plain(g) /\ DOMAIN g = N
        /\ \A y \in N : g[y] = h[y] /\ Kids(g, y) = Kids(h, y) /\ Under(g, y) = Under(h, y)
        /\ \A r \in N : IsRoot(h, r) => IsRoot(g, r)
    BY <1>1, <1>2, <1>4, <1>5, FreeSound
  <1>10. HeapOK(g) BY <1>4, <1>8, <1>9 DEF HeapOK
  <1>11. \A x \in P : x # 0 => Kept(h, g, x) BY <1>6, <1>7, <1>9 DEF Kept
  <1>12. \A x \in P : x # 0 /\ Tree(h, x) => Tree(g, x) BY <1>6, <1>9 DEF Tree
  <1> QED BY <1>4, <1>8, <1>9, <1>10, <1>11, <1>12 DEF g

LEMMA OKExtract ==
  ASSUME NEW h, HeapOK(h), NEW x, Tree(h, x), NEW g, g = ExtractStructure(h, x)
  PROVE  /\ HeapOK(g) /\ DOMAIN h \subseteq DOMAIN g
         /\ \A r : Tree(h, r) => Tree(g, r)
         /\ \A r : Tree(h, r) /\ r # x => Kept(h, g, r)
         /\ \A y \in LibraryNodes : y \in DOMAIN g /\ g[y] = h[y]
  <1>0. Sound(h) /\ Plain(h) /\ x \in DOMAIN h BY LibraryKept DEF Tree
  <1>1. PICK at : Extracts(h, x, g, at) BY <1>0, ExtractIs
  <1>2. /\ Sound(g) /\ Plain(g) /\ DOMAIN h \subseteq DOMAIN g
        /\ \A r \in DOMAIN h : IsRoot(h, r) => IsRoot(g, r)
        /\ \A y \in DOMAIN h : y \notin Under(h, x) => g[y] = h[y]
        /\ \A y \in DOMAIN h : Kids(g, y) \cap DOMAIN h \subseteq Kids(h, y)
        /\ \A y \in DOMAIN g : y \notin DOMAIN h => Kids(g, y) = {}
    BY <1>0, <1>1, ExtractSound
  <1>3. Under(h, x) \cap LibraryNodes = {} BY <1>0, OutsideLibrary DEF Tree
  <1>4. LibraryNodes \subseteq DOMAIN h BY DEF HeapOK
  <1>5. \A y \in LibraryNodes : y \in DOMAIN g /\ g[y] = h[y] BY <1>2, <1>3, <1>4
  <1>6. HeapOK(g)
    <2>1. \A y \in DOMAIN g : y \notin LibraryNodes => Kids(g, y) \cap LibraryNodes = {}
      <3> SUFFICES ASSUME NEW y \in DOMAIN g, y \notin LibraryNodes, NEW c \in Kids(g, y),
                          c \in LibraryNodes
                   PROVE  FALSE
        OBVIOUS
      <3>1. y \in DOMAIN h BY <1>2
      <3>2. c \in Kids(h, y) BY <1>2, <1>4, <3>1
      <3> QED BY <3>1, <3>2 DEF HeapOK
    <2> QED BY <1>2, <1>5, <2>1 DEF HeapOK
  <1>7. \A r : Tree(h, r) => Tree(g, r) BY <1>2 DEF Tree
  <1>8. ASSUME NEW r, Tree(h, r), r # x PROVE Kept(h, g, r)
    <2>1. r \in DOMAIN h /\ Under(h, r) \subseteq DOMAIN h BY <1>0, <1>8, UnderClosed DEF Tree
    <2>2. Under(h, r) \cap Under(h, x) = {} BY <1>0, <1>8, RootsApart DEF Tree
    <2> QED BY <1>0, <1>2, <2>1, <2>2, KeptUnder
  <1> QED BY <1>2, <1>5, <1>6, <1>7, <1>8

-----------------------------------------------------------------------------
(***************************************************************************)
(* The invariant.  Every pointer but record_ is the root of a tree of its  *)
(* own; record_ is in the tree in which it is about to be replaced.        *)
(***************************************************************************)
Inj(s) == \A i, j \in DOMAIN s : s[i] = s[j] => i = j

\* The roots the loop holds, nullptr among them.
Finished == {root} \cup PointersOf(res)
Held == Finished \cup PointersOf(variants)

Apart ==
  /\ res \in Seq(Nat) /\ variants \in Seq(Nat) /\ Inj(res) /\ Inj(variants)
  /\ root \notin PointersOf(res)
  /\ Finished \cap PointersOf(variants) = {}
  /\ new_ir_tree \notin Held /\ backup \notin Held
  /\ new_ir_tree = backup => new_ir_tree = 0

Grown ==
  /\ HeapOK(heap)
  /\ \A r \in Held : Tree(heap, r)
  /\ new_ir_tree # 0 => Tree(heap, new_ir_tree)
  /\ backup # 0 => Tree(heap, backup)
  /\ record_ # 0 => record_ \in DOMAIN heap

Stage ==
  /\ irs \in Seq(Under(heap, root))
  /\ pc \in {"mutate", "variants", "replace", "backup", "dedup"} => irs # <<>> /\ irs[1] # root
  /\ pc \in {"loop", "mutate", "variants", "done"} => new_ir_tree = 0 /\ backup = 0
  /\ pc \in {"replace", "backup"} => new_ir_tree # 0 /\ backup = 0
  /\ pc = "dedup" => new_ir_tree # 0 /\ backup # 0
  /\ pc = "replace" => /\ variants # <<>>
                       /\ record_ \in Under(heap, new_ir_tree) /\ record_ # new_ir_tree

MInv == Apart /\ Grown /\ Stage

\* No step changes a tree that the loop goes on to hold, or a node of the library
\* or of a finished tree.
Steady == \A r \in Held : r \in Held' => Kept(heap, heap', r)
Fixed == \A x \in LibraryNodes \cup UNION {Under(heap, t) : t \in Finished} : heap'[x] = heap[x]

LEMMA TailPointers ==
  ASSUME NEW S, NEW s \in Seq(S), s # <<>>
  PROVE  /\ s[1] \in S /\ Tail(s) \in Seq(S)
         /\ s[1] \in PointersOf(s)
         /\ PointersOf(Tail(s)) \subseteq PointersOf(s)
         /\ Inj(s) => Inj(Tail(s)) /\ s[1] \notin PointersOf(Tail(s))
  <1>1. /\ Len(s) \in Nat \ {0} /\ DOMAIN s = 1..Len(s)
        /\ Tail(s) \in Seq(S) /\ Len(Tail(s)) = Len(s) - 1
        /\ DOMAIN Tail(s) = 1..(Len(s) - 1)
        /\ \A k \in 1..(Len(s) - 1) : Tail(s)[k] = s[k + 1]
    OBVIOUS
  <1>2. 1 \in DOMAIN s /\ s[1] \in S BY <1>1
  <1>3. \A k \in DOMAIN Tail(s) : k + 1 \in DOMAIN s /\ k + 1 # 1 /\ Tail(s)[k] = s[k + 1]
    BY <1>1
  <1>4. PointersOf(Tail(s)) \subseteq PointersOf(s) /\ s[1] \in PointersOf(s)
    BY <1>2, <1>3 DEF PointersOf
  <1>5. ASSUME Inj(s) PROVE Inj(Tail(s)) /\ s[1] \notin PointersOf(Tail(s))
    <2>1. ASSUME NEW i \in DOMAIN Tail(s), NEW j \in DOMAIN Tail(s), Tail(s)[i] = Tail(s)[j]
          PROVE  i = j
      <3>1. i + 1 = j + 1 BY <1>3, <1>5, <2>1 DEF Inj
      <3>2. i \in Nat /\ j \in Nat BY <1>1
      <3> QED BY <3>1, <3>2
    <2>2. ASSUME NEW i \in DOMAIN Tail(s), Tail(s)[i] = s[1] PROVE FALSE
      BY <1>2, <1>3, <1>5, <2>2 DEF Inj
    <2> QED BY <2>1, <2>2 DEF Inj, PointersOf
  <1> QED BY <1>1, <1>2, <1>4, <1>5

LEMMA AppendPointers ==
  ASSUME NEW S, NEW s \in Seq(S), NEW a \in S
  PROVE  /\ Append(s, a) \in Seq(S)
         /\ PointersOf(Append(s, a)) = PointersOf(s) \cup {a}
         /\ Inj(s) /\ a \notin PointersOf(s) => Inj(Append(s, a))
  <1> DEFINE t == Append(s, a)
             n == Len(s) + 1
  <1>1. /\ Len(s) \in Nat /\ DOMAIN s = 1..Len(s) /\ t \in Seq(S)
        /\ DOMAIN t = 1..n /\ t[n] = a /\ \A k \in 1..Len(s) : t[k] = s[k]
    OBVIOUS
  <1>2. \A k \in DOMAIN t : k \in DOMAIN s \/ k = n BY <1>1
  <1>3. (\A k \in DOMAIN s : k \in DOMAIN t /\ k # n) /\ n \in DOMAIN t BY <1>1
  <1> HIDE DEF t, n
  <1>4. PointersOf(t) = PointersOf(s) \cup {a} BY <1>1, <1>2, <1>3 DEF PointersOf
  <1>5. ASSUME Inj(s), a \notin PointersOf(s) PROVE Inj(t)
    BY <1>1, <1>2, <1>3, <1>5 DEF Inj, PointersOf
  <1> QED BY <1>1, <1>4, <1>5 DEF t

\* What a step that keeps the trees leaves of the invariant.
LEMMA KeptStep ==
  ASSUME MInv, HeapOK(heap'), root' = root, \A r \in Finished : Kept(heap, heap', r)
  PROVE  Fixed /\ Under(heap', root') = Under(heap, root)
  <1>1. \A y \in LibraryNodes : heap'[y] = heap[y] BY DEF MInv, Grown, HeapOK
  <1>2. \A r \in Finished : \A y \in Under(heap, r) : heap'[y] = heap[y] BY DEF Kept
  <1>3. Under(heap', root) = Under(heap, root) BY DEF Kept, Finished
  <1> QED BY <1>1, <1>2, <1>3 DEF Fixed

LEMMA SameHeapStep ==
  ASSUME MInv, UNCHANGED <<heap, root, variants, res, new_ir_tree, backup, record_>>
  PROVE  Apart' /\ Grown' /\ Fixed /\ Steady /\ Under(heap', root') = Under(heap, root)
  <1>1. Apart' BY DEF MInv, Apart, Finished, Held
  <1>2. Grown' BY DEF MInv, Grown, Finished, Held
  <1>3. Fixed BY DEF Fixed
  <1>4. Steady
    <2>1. Plain(heap) /\ \A r \in Held : r \in DOMAIN heap
      BY LibraryKept DEF MInv, Grown, Tree
    <2>2. \A r \in Held : Under(heap, r) \subseteq DOMAIN heap BY <2>1, UnderClosed
    <2> QED BY <2>1, <2>2 DEF Steady, Kept
  <1> QED BY <1>1, <1>2, <1>3, <1>4

LEMMA TestCaseTree ==
  ASSUME MInv
  PROVE  /\ Plain(heap) /\ Sound(heap) /\ 0 \notin DOMAIN heap
         /\ Tree(heap, root) /\ root \in DOMAIN heap /\ Under(heap, root) \subseteq DOMAIN heap
         /\ \A r \in Held : Tree(heap, r) /\ r \in DOMAIN heap
         /\ irs # <<>> => irs[1] \in Under(heap, root) /\ irs[1] \in DOMAIN heap
  <1>1. HeapOK(heap) /\ \A r \in Held : Tree(heap, r) BY DEF MInv, Grown
  <1>2. Plain(heap) /\ Sound(heap) /\ 0 \notin DOMAIN heap BY <1>1, LibraryKept
  <1>3. Tree(heap, root) /\ \A r \in Held : Tree(heap, r) /\ r \in DOMAIN heap
    BY <1>1 DEF Held, Finished, Tree
  <1>4. root \in DOMAIN heap BY <1>3 DEF Tree
  <1>5. Under(heap, root) \subseteq DOMAIN heap BY <1>2, <1>4, UnderClosed
  <1>6. irs # <<>> => irs[1] \in Under(heap, root)
    <2>1. irs \in Seq(Under(heap, root)) BY DEF MInv, Stage
    <2> QED BY <2>1, TailPointers
  <1> QED BY <1>2, <1>3, <1>4, <1>5, <1>6

LEMMA SimpleSteps ==
  ASSUME MInv,
         SkipIR \/ MutateIR \/ ConstraintFails \/ ReplaceNothing \/ NextIR \/ Return
  PROVE  MInv' /\ Fixed /\ Steady
  <1>1. UNCHANGED <<heap, root, variants, res, new_ir_tree, backup, record_>>
    BY DEF SkipIR, MutateIR, ConstraintFails, ReplaceNothing, NextIR, Return
  <1>2. Apart' /\ Grown' /\ Fixed /\ Steady /\ Under(heap', root') = Under(heap, root)
    BY <1>1, SameHeapStep
  <1>3. irs' \in Seq(Under(heap, root))
    <2>1. irs \in Seq(Under(heap, root)) BY DEF MInv, Stage
    <2>2. irs # <<>> => Tail(irs) \in Seq(Under(heap, root)) BY <2>1, TailPointers
    <2>3. irs' = irs \/ (irs # <<>> /\ irs' = Tail(irs))
      BY DEF SkipIR, MutateIR, ConstraintFails, ReplaceNothing, NextIR, Return, MInv, Stage
    <2> QED BY <2>1, <2>2, <2>3
  <1>4. Stage'
    <2>1. CASE SkipIR BY <1>1, <1>2, <1>3, <2>1 DEF SkipIR, MInv, Stage
    <2>2. CASE MutateIR BY <1>1, <1>2, <1>3, <2>2 DEF MutateIR, MInv, Stage
    <2>3. CASE ConstraintFails BY <1>1, <1>2, <1>3, <2>3 DEF ConstraintFails, MInv, Stage
    <2>4. CASE ReplaceNothing BY <1>1, <1>2, <1>3, <2>4 DEF ReplaceNothing, MInv, Stage
    <2>5. CASE NextIR BY <1>1, <1>2, <1>3, <2>5 DEF NextIR, MInv, Stage
    <2>6. CASE Return BY <1>1, <1>2, <1>3, <2>6 DEF Return, MInv, Stage
    <2> QED BY <2>1, <2>2, <2>3, <2>4, <2>5, <2>6
  <1> QED BY <1>2, <1>4 DEF MInv

LEMMA InitMInv ==
  ASSUME Init PROVE MInv
  <1> DEFINE O == TestCase \ {root}
             N == DOMAIN Heap0 \ UNION {Under(Heap0, x) : x \in O}
  <1>1. root \in TestCase /\ root \in DOMAIN Heap0 /\ O \subseteq DOMAIN Heap0
    BY MutationAssumption DEF Init
  <1>2. HeapOK(Heap0)
    <2>1. \A y \in DOMAIN Heap0 : y \notin LibraryNodes => Kids(Heap0, y) \cap LibraryNodes = {}
      BY HeapAssumption
    <2> QED BY <2>1, Heap0Sound, LibraryClosed DEF HeapOK
  <1>3. Plain(Heap0) /\ Sound(Heap0) BY <1>2, LibraryKept
  <1>4. \A x \in TestCase : IsRoot(Heap0, x) /\ x \notin LibraryNodes
    BY HeapAssumption DEF IsRoot
  <1>5. root \in N
    <2> SUFFICES ASSUME NEW x \in O, root \in Under(Heap0, x) PROVE FALSE BY <1>1
    <2>1. root # x /\ x \in TestCase /\ x \in DOMAIN Heap0 BY <1>1
    <2>2. root \in Under(Heap0, root) BY <1>1, <1>3, UnderSelf
    <2> QED BY <1>1, <1>3, <1>4, <2>1, <2>2, RootsApart
  <1>6. ASSUME NEW y \in N PROVE Kids(Heap0, y) \subseteq N
    <2> SUFFICES ASSUME NEW c \in Kids(Heap0, y), NEW x \in O, c \in Under(Heap0, x)
                 PROVE  FALSE
      BY <1>3 DEF Plain
    <2>1. x \in TestCase /\ x \in DOMAIN Heap0 BY <1>1
    <2>2. c # x BY <1>4, <2>1 DEF IsRoot
    <2>3. PICK p \in Under(Heap0, x) : c \in Kids(Heap0, p) BY <1>3, <2>1, <2>2, UnderParent
    <2>4. p \in DOMAIN Heap0 BY <1>3, <2>1, <2>3, UnderClosed
    <2>5. p = y BY <1>3, <2>3, <2>4, KidOnce
    <2> QED BY <2>3, <2>5
  <1>7. LibraryNodes \subseteq N
    <2>1. \A x \in O : Under(Heap0, x) \cap LibraryNodes = {}
      BY <1>1, <1>2, <1>4, OutsideLibrary
    <2> QED BY <2>1, LibraryClosed
  <1>8. heap = [y \in N |-> Heap0[y]] BY DEF Init
  <1>9. N \subseteq DOMAIN Heap0 OBVIOUS
  <1> HIDE DEF N
  <1>10. /\ Sound(heap) /\ Plain(heap) /\ DOMAIN heap = N
         /\ \A y \in N : heap[y] = Heap0[y] /\ Kids(heap, y) = Kids(Heap0, y)
                           /\ Under(heap, y) = Under(Heap0, y)
         /\ \A r \in N : IsRoot(Heap0, r) => IsRoot(heap, r)
    BY <1>3, <1>6, <1>8, <1>9, FreeSound
  <1>11. HeapOK(heap) BY <1>2, <1>7, <1>9, <1>10 DEF HeapOK
  <1>12. Tree(heap, root) BY <1>1, <1>4, <1>5, <1>10 DEF Tree
  <1>13. root # 0 BY <1>1, <1>3 DEF Plain, Ranked
  <1>14. /\ variants = <<>> /\ res = <<>> /\ new_ir_tree = 0 /\ backup = 0 /\ record_ = 0
         /\ pc = "loop" /\ irs = CollectAllIRs(Heap0, root)
    BY DEF Init
  <1>15. PointersOf(<<>>) = {} /\ Inj(<<>>) BY DEF PointersOf, Inj
  <1>16. Held = {root} /\ Finished = {root} BY <1>14, <1>15 DEF Held, Finished
  <1>17. Apart BY <1>13, <1>14, <1>15, <1>16 DEF Apart
  <1>18. Grown BY <1>11, <1>12, <1>14, <1>16 DEF Grown
  <1>19. irs \in Seq(Under(heap, root)) BY <1>1, <1>3, <1>5, <1>10, <1>14, CollectsOnce
  <1>20. Stage BY <1>14, <1>19 DEF Stage
  <1> QED BY <1>17, <1>18, <1>20 DEF MInv

\* A stored IR is a node of the library.
LEMMA RandomIRStored ==
  ASSUME NEW t, NEW y \in RandomIRs(t)
  PROVE  y \in StoredIRs /\ y \in LibraryNodes
  <1>1. y \in StoredIRs BY DEF RandomIRs, StoredIRs
  <1> QED BY <1>1, LibraryClosed

\* The root of another tree is not below a root.
LEMMA TreesDisjoint ==
  ASSUME NEW h, HeapOK(h), NEW r, NEW s, Tree(h, r), Tree(h, s), r # s
  PROVE  Under(h, r) \cap Under(h, s) = {} /\ r \notin Under(h, s)
  <1>1. Sound(h) /\ Plain(h) /\ r \in DOMAIN h /\ s \in DOMAIN h BY LibraryKept DEF Tree
  <1>2. Under(h, r) \cap Under(h, s) = {} BY <1>1, RootsApart DEF Tree
  <1> QED BY <1>1, <1>2, UnderSelf

\* Exchanging a child of a root for another tree.
LEMMA LinkRoot ==
  ASSUME NEW h, HeapOK(h), NEW p, Tree(h, p), NEW v, v = 0 \/ (Tree(h, v) /\ v # p),
         NEW side \in {"left", "right"}, NEW g, IsLink(h, g, p, side, v)
  PROVE  /\ HeapOK(g) /\ Plain(g) /\ DOMAIN g = DOMAIN h /\ Tree(g, p)
         /\ \A y \in DOMAIN h : y # p => g[y] = h[y]
         /\ \A r : r # v /\ Tree(h, r) => Tree(g, r)
         /\ \A r : r # p /\ Tree(h, r) => Kept(h, g, r)
         /\ Links(h, g, p, v)
         /\ side = "left" => g[p].left = v /\ g[p].right = h[p].right
         /\ side = "right" => g[p].right = v /\ g[p].left = h[p].left
         /\ Under(g, p) \subseteq Under(h, p) \cup Under(h, v)
  <1>1. Plain(h) /\ p \in DOMAIN h /\ p \notin LibraryNodes BY LibraryKept DEF Tree
  <1>2. /\ Links(h, g, p, v)
        /\ side = "left" => g[p].left = v /\ g[p].right = h[p].right
        /\ side = "right" => g[p].right = v /\ g[p].left = h[p].left
    BY <1>1, LinkIs
  <1>3. v = 0 \/ (Tree(h, v) /\ p \notin Under(h, v)) BY TreesDisjoint
  <1>4. /\ HeapOK(g) /\ Plain(g) /\ DOMAIN g = DOMAIN h
        /\ \A y \in DOMAIN h : y # p => g[y] = h[y]
        /\ \A r : r # v /\ Tree(h, r) => Tree(g, r)
        /\ \A r \in DOMAIN h : p \notin Under(h, r) => Kept(h, g, r)
        /\ \A r \in DOMAIN h : Under(g, r) \subseteq Under(h, r) \cup Under(h, v)
    BY <1>1, <1>2, <1>3, OKLink
  <1>5. p # v
    <2>1. 0 \notin DOMAIN h BY LibraryKept
    <2> QED BY <1>1, <2>1
  <1>6. ASSUME NEW r, r # p, Tree(h, r) PROVE Kept(h, g, r)
    <2>1. p \notin Under(h, r) /\ r \in DOMAIN h BY <1>6, TreesDisjoint DEF Tree
    <2> QED BY <1>4, <2>1
  <1> QED BY <1>1, <1>2, <1>4, <1>5, <1>6

LEMMA OKWithChild ==
  ASSUME NEW h, HeapOK(h), NEW p, Tree(h, p), NEW y \in DOMAIN h,
         NEW side \in {"left", "right"}, NEW g, g = WithChild(h, p, side, y)
  PROVE  /\ HeapOK(g) /\ Plain(g) /\ DOMAIN h \subseteq DOMAIN g /\ Tree(g, p)
         /\ \A r : r # p /\ Tree(h, r) => Tree(g, r) /\ Kept(h, g, r)
  <1> DEFINE c == Copied(h, y)
  <1>1. /\ HeapOK(c.heap) /\ Grows(h, c.heap)
        /\ c.at \notin DOMAIN h /\ Tree(c.heap, c.at)
        /\ \A r : Tree(h, r) => Tree(c.heap, r) /\ r # c.at
    BY OKCopy
  <1>2. IsLink(c.heap, g, p, side, c.at) BY DEF WithChild, IsLink
  <1> HIDE DEF c
  <1>3. Tree(c.heap, p) /\ c.at # p BY <1>1
  <1>4. /\ HeapOK(g) /\ Plain(g) /\ DOMAIN g = DOMAIN c.heap /\ Tree(g, p)
        /\ \A r : r # c.at /\ Tree(c.heap, r) => Tree(g, r)
        /\ \A r : r # p /\ Tree(c.heap, r) => Kept(c.heap, g, r)
    BY <1>1, <1>2, <1>3, LinkRoot
  <1>5. DOMAIN h \subseteq DOMAIN c.heap BY <1>1 DEF Grows
  <1>6. ASSUME NEW r, r # p, Tree(h, r) PROVE Tree(g, r) /\ Kept(h, g, r)
    <2>0. r \in DOMAIN h /\ Plain(h) /\ Plain(c.heap) BY <1>1, <1>6, LibraryKept DEF Tree
    <2>1. Kept(h, c.heap, r) BY <1>1, <2>0, GrowsKeeps
    <2>2. Kept(c.heap, g, r) /\ Tree(g, r) BY <1>1, <1>4, <1>6
    <2> QED BY <2>1, <2>2 DEF Kept
  <1> QED BY <1>4, <1>5, <1>6

-----------------------------------------------------------------------------
(***************************************************************************)
(* Productions.  The library, and the test case below r, have a node made  *)
(* by the same production as node n.                                       *)
(***************************************************************************)
SameKid(h, c, d) == /\ c = 0 <=> d = 0
                    /\ c # 0 => h[c].type = h[d].type \/ h[c].type = Heap0[EmptyIR].type
SameProd(h, n, y) == /\ h[n].type = h[y].type /\ h[n].op = h[y].op
                     /\ SameKid(h, h[n].left, h[y].left) /\ SameKid(h, h[n].right, h[y].right)
Known(h, n, r) == \E y \in LibraryNodes \cup Under(h, r) : SameProd(h, n, y)
AllKnown(h, x, r) == \A n \in Under(h, x) : Known(h, n, r)

LEMMA SelfKnown ==
  ASSUME NEW h, HeapOK(h), NEW r \in DOMAIN h, NEW x, x \in LibraryNodes \/ x \in Under(h, r)
  PROVE  AllKnown(h, x, r) /\ x \in DOMAIN h
  <1>1. Plain(h) /\ LibraryNodes \subseteq DOMAIN h BY LibraryKept DEF HeapOK
  <1>2. x \in DOMAIN h BY <1>1, UnderClosed
  <1>3. Under(h, x) \subseteq LibraryNodes \cup Under(h, r)
    <2>1. CASE x \in LibraryNodes
      <3>1. Under(h, x) \subseteq LibraryNodes BY <1>1, <1>2, <2>1, LibraryKept, UnderLeast
      <3> QED BY <3>1
    <2>2. CASE x \in Under(h, r) BY <1>1, <2>2, UnderClosed
    <2> QED BY <2>1, <2>2
  <1>4. \A n : SameProd(h, n, n) BY DEF SameProd, SameKid
  <1> QED BY <1>2, <1>3, <1>4 DEF AllKnown, Known

\* A node stays known when it, the types of its children and the test case stay.
LEMMA KnownStays ==
  ASSUME NEW h, HeapOK(h), NEW g, HeapOK(g), NEW r \in DOMAIN h, Kept(h, g, r),
         NEW n \in DOMAIN h, Known(h, n, r), NEW m,
         g[m].type = h[n].type, g[m].op = h[n].op,
         NEW a, NEW b, g[m].left = a, g[m].right = b,
         a = 0 <=> h[n].left = 0, b = 0 <=> h[n].right = 0,
         a # 0 => g[a].type = h[h[n].left].type \/ g[a].type = Heap0[EmptyIR].type,
         b # 0 => g[b].type = h[h[n].right].type \/ g[b].type = Heap0[EmptyIR].type
  PROVE  Known(g, m, r)
  <1>1. PICK y \in LibraryNodes \cup Under(h, r) : SameProd(h, n, y) BY DEF Known
  <1> DEFINE R == LibraryNodes \cup Under(h, r)
  <1>2. Plain(h) /\ LibraryNodes \subseteq DOMAIN h BY LibraryKept DEF HeapOK
  <1>3. \A z \in R : g[z] = h[z] BY DEF Kept, HeapOK
  <1>4. Kids(h, y) \subseteq R
    <2>1. CASE y \in LibraryNodes BY <2>1, LibraryKept
    <2>2. CASE y \in Under(h, r) BY <1>2, <2>2, UnderClosed
    <2> QED BY <2>1, <2>2
  <1>5. g[y] = h[y] BY <1>3
  <1>6. h[y].left # 0 => g[h[y].left] = h[h[y].left] BY <1>3, <1>4 DEF Kids
  <1>7. h[y].right # 0 => g[h[y].right] = h[h[y].right] BY <1>3, <1>4 DEF Kids
  <1>8. SameKid(g, a, g[y].left)
    <2>1. SameKid(h, h[n].left, h[y].left) BY <1>1 DEF SameProd
    <2> QED BY <1>5, <1>6, <2>1 DEF SameKid
  <1>9. SameKid(g, b, g[y].right)
    <2>1. SameKid(h, h[n].right, h[y].right) BY <1>1 DEF SameProd
    <2> QED BY <1>5, <1>7, <2>1 DEF SameKid
  <1>10. SameProd(g, m, y) BY <1>1, <1>5, <1>8, <1>9 DEF SameProd
  <1>11. y \in LibraryNodes \cup Under(g, r) BY DEF Kept
  <1> QED BY <1>10, <1>11 DEF Known

LEMMA KeptKnown ==
  ASSUME NEW h, HeapOK(h), NEW g, HeapOK(g), NEW r \in DOMAIN h, Kept(h, g, r),
         NEW x \in DOMAIN h, Kept(h, g, x), AllKnown(h, x, r)
  PROVE  AllKnown(g, x, r)
  <1> SUFFICES ASSUME NEW n \in Under(g, x) PROVE Known(g, n, r) BY DEF AllKnown
  <1>1. Plain(h) BY LibraryKept
  <1>2. n \in Under(h, x) /\ Under(h, x) \subseteq DOMAIN h BY <1>1, UnderClosed DEF Kept
  <1>3. Known(h, n, r) /\ g[n] = h[n] BY <1>2 DEF AllKnown, Kept
  <1>4. Kids(h, n) \subseteq Under(h, x) BY <1>1, <1>2, UnderClosed
  <1>5. \A c \in Kids(h, n) : g[c] = h[c] BY <1>4 DEF Kept
  <1>6. /\ h[n].left # 0 => g[h[n].left] = h[h[n].left]
        /\ h[n].right # 0 => g[h[n].right] = h[h[n].right]
    BY <1>5 DEF Kids
  <1> QED BY <1>2, <1>3, <1>6, KnownStays

LEMMA CopyKnown ==
  ASSUME NEW h, HeapOK(h), NEW r \in DOMAIN h, NEW x \in DOMAIN h, AllKnown(h, x, r)
  PROVE  /\ AllKnown(Copied(h, x).heap, Copied(h, x).at, r)
         /\ Copied(h, x).heap[Copied(h, x).at].type = h[x].type
         /\ Copied(h, x).heap[Copied(h, x).at].op = h[x].op
  <1> DEFINE c == Copied(h, x)
             g == c.heap
  <1>0. Plain(h) BY LibraryKept
  <1>1. PICK f : IsCopy(h, x, c, f) BY <1>0, CopiedIs
  <1>2. HeapOK(g) /\ Grows(h, g) BY OKCopy
  <1>3. Copies(h, x, g, f) /\ c.at = f[x] BY <1>1 DEF IsCopy
  <1> HIDE DEF c, g
  <1>4. Plain(g) BY <1>2, LibraryKept
  <1>5. Kept(h, g, r) BY <1>0, <1>2, <1>4, GrowsKeeps
  <1>6. x \in Under(h, x) /\ Under(h, x) \subseteq DOMAIN h BY <1>0, UnderSelf, UnderClosed
  <1>7. Under(g, f[x]) = {f[z] : z \in Under(h, x)} BY <1>0, <1>3, <1>6, CopyUnder
  <1>8. \A n \in Under(h, x) :
          /\ f[n] # 0 /\ g[f[n]].type = h[n].type /\ g[f[n]].op = h[n].op
          /\ g[f[n]].left = f[h[n].left] /\ g[f[n]].right = f[h[n].right]
    <2> SUFFICES ASSUME NEW n \in Under(h, x)
                 PROVE  /\ f[n] # 0 /\ g[f[n]].type = h[n].type /\ g[f[n]].op = h[n].op
                        /\ g[f[n]].left = f[h[n].left] /\ g[f[n]].right = f[h[n].right]
      OBVIOUS
    <2>1. /\ f[n] # 0
          /\ g[f[n]] = [type |-> h[n].type, op |-> h[n].op, data |-> h[n].data, dt |-> h[n].dt,
                        left |-> f[h[n].left], right |-> f[h[n].right]]
      BY <1>3 DEF Copies
    <2> QED BY <2>1
  <1>9. ASSUME NEW n \in Under(h, x) PROVE Known(g, f[n], r)
    <2>1. Kids(h, n) \subseteq Under(h, x) BY <1>0, UnderClosed
    <2>2. f[0] = 0 BY <1>3 DEF Copies
    <2> DEFINE a == f[h[n].left]
               b == f[h[n].right]
    <2>3. /\ a = 0 <=> h[n].left = 0
          /\ a # 0 => g[a].type = h[h[n].left].type
      BY <1>8, <2>1, <2>2 DEF Kids
    <2>4. /\ b = 0 <=> h[n].right = 0
          /\ b # 0 => g[b].type = h[h[n].right].type
      BY <1>8, <2>1, <2>2 DEF Kids
    <2>5. /\ g[f[n]].type = h[n].type /\ g[f[n]].op = h[n].op
          /\ g[f[n]].left = a /\ g[f[n]].right = b
      BY <1>8
    <2>6. n \in DOMAIN h /\ Known(h, n, r) BY <1>6 DEF AllKnown
    <2> HIDE DEF a, b
    <2> QED BY <1>2, <1>5, <2>3, <2>4, <2>5, <2>6, KnownStays
  <1>10. AllKnown(g, c.at, r) BY <1>3, <1>7, <1>9 DEF AllKnown
  <1> QED BY <1>3, <1>6, <1>8, <1>10 DEF c, g

\* Exchanging a child for one of the same type, or for the empty IR, in the tree
\* of x.
LEMMA LinkKnown ==
  ASSUME NEW h, HeapOK(h), NEW g, HeapOK(g), NEW r \in DOMAIN h, Kept(h, g, r),
         NEW x \in DOMAIN h, AllKnown(h, x, r), NEW v \in DOMAIN h, AllKnown(h, v, r),
         NEW p \in DOMAIN h, NEW side \in {"left", "right"}, IsLink(h, g, p, side, v),
         Under(g, x) \subseteq Under(h, x) \cup Under(h, v),
         h[p][side] # 0,
         h[v].type = h[h[p][side]].type \/ h[v].type = Heap0[EmptyIR].type
  PROVE  AllKnown(g, x, r) /\ \A y \in DOMAIN h : g[y].type = h[y].type
  <1>0. Plain(h) /\ 0 \notin DOMAIN h BY LibraryKept
  <1>1. /\ Links(h, g, p, v)
        /\ side = "left" => g[p].left = v /\ g[p].right = h[p].right
        /\ side = "right" => g[p].right = v /\ g[p].left = h[p].left
    BY <1>0, LinkIs
  <1>2. /\ \A y \in DOMAIN h : y # p => g[y] = h[y]
        /\ g[p].type = h[p].type /\ g[p].op = h[p].op
    BY <1>1 DEF Links
  <1>3. \A y \in DOMAIN h : g[y].type = h[y].type BY <1>2
  <1>4. ASSUME NEW n \in Under(g, x) PROVE Known(g, n, r)
    <2>1. n \in DOMAIN h /\ Known(h, n, r) BY <1>0, UnderClosed DEF AllKnown
    <2>2. \A c \in Kids(h, n) : c \in DOMAIN h BY <1>0, <2>1 DEF Plain
    <2>3. /\ h[n].left # 0 => g[h[n].left].type = h[h[n].left].type
          /\ h[n].right # 0 => g[h[n].right].type = h[h[n].right].type
      BY <1>3, <2>2 DEF Kids
    <2>4. CASE n # p
      <3>1. g[n] = h[n] BY <1>2, <2>1, <2>4
      <3> QED BY <2>1, <2>3, <3>1, KnownStays
    <2>5. CASE n = p /\ side = "left"
      <3>1. v # 0 /\ g[v].type = h[v].type BY <1>0, <1>3
      <3>2. g[n].left = v /\ g[n].right = h[n].right /\ h[n].left # 0
        BY <1>1, <2>5
      <3>3. g[v].type = h[h[n].left].type \/ g[v].type = Heap0[EmptyIR].type BY <2>5, <3>1
      <3>4. g[n].type = h[n].type /\ g[n].op = h[n].op BY <1>2, <2>5
      <3> QED BY <2>1, <2>3, <3>1, <3>2, <3>3, <3>4, KnownStays
    <2>6. CASE n = p /\ side = "right"
      <3>1. v # 0 /\ g[v].type = h[v].type BY <1>0, <1>3
      <3>2. g[n].right = v /\ g[n].left = h[n].left /\ h[n].right # 0
        BY <1>1, <2>6
      <3>3. g[v].type = h[h[n].right].type \/ g[v].type = Heap0[EmptyIR].type BY <2>6, <3>1
      <3>4. g[n].type = h[n].type /\ g[n].op = h[n].op BY <1>2, <2>6
      <3> QED BY <2>1, <2>3, <3>1, <3>2, <3>3, <3>4, KnownStays
    <2> QED BY <2>4, <2>5, <2>6
  <1> QED BY <1>3, <1>4 DEF AllKnown

\* A stored IR is stored for its type; the empty IR stands in for any.
LEMMA RandomIRType ==
  ASSUME NEW h, HeapOK(h), NEW t, NEW y \in RandomIRs(t)
  PROVE  /\ h[y].type = t \/ h[y].type = Heap0[EmptyIR].type
         /\ Kids(h, y) # {} => h[y].type = t
  <1>1. h[y] = Heap0[y] /\ Kids(h, y) = Kids(Heap0, y)
    BY RandomIRStored DEF HeapOK, Kids
  <1>2. (t \in DOMAIN Stored /\ y \in Stored[t]) \/ y = EmptyIR BY DEF RandomIRs
  <1>3. t \in DOMAIN Stored /\ y \in Stored[t] => Heap0[y].type = t BY HeapAssumption
  <1>4. Kids(Heap0, EmptyIR) = {} BY HeapAssumption
  <1> QED BY <1>1, <1>2, <1>3, <1>4

LEMMA CopyKidIs ==
  ASSUME NEW h, HeapOK(h), NEW x \in DOMAIN h, NEW side \in {"left", "right"}, h[x][side] # 0
  PROVE  LET c == Copied(h, x)
         IN /\ c.heap[c.at][side] # 0
            /\ c.heap[c.heap[c.at][side]].type = h[h[x][side]].type
  <1> DEFINE c == Copied(h, x)
             g == c.heap
  <1>0. Plain(h) BY LibraryKept
  <1>1. PICK f : IsCopy(h, x, c, f) BY <1>0, CopiedIs
  <1>2. Copies(h, x, g, f) /\ c.at = f[x] BY <1>1 DEF IsCopy
  <1> HIDE DEF c, g
  <1>3. x \in Under(h, x) /\ Kids(h, x) \subseteq Under(h, x) BY <1>0, UnderSelf
  <1>4. h[x][side] \in Under(h, x) BY <1>3 DEF Kids
  <1>5. ASSUME NEW n \in Under(h, x)
        PROVE  /\ f[n] # 0 /\ g[f[n]].type = h[n].type
               /\ g[f[n]].left = f[h[n].left] /\ g[f[n]].right = f[h[n].right]
    <2>1. /\ f[n] # 0
          /\ g[f[n]] = [type |-> h[n].type, op |-> h[n].op, data |-> h[n].data, dt |-> h[n].dt,
                        left |-> f[h[n].left], right |-> f[h[n].right]]
      BY <1>2 DEF Copies
    <2> QED BY <2>1
  <1>6. g[f[x]][side] = f[h[x][side]]
    <2>1. CASE side = "left" BY <1>3, <1>5, <2>1
    <2>2. CASE side = "right" BY <1>3, <1>5, <2>2
    <2> QED BY <2>1, <2>2
  <1>7. f[h[x][side]] # 0 /\ g[f[h[x][side]]].type = h[h[x][side]].type BY <1>4, <1>5
  <1> QED BY <1>2, <1>6, <1>7 DEF c, g

LEMMA WithChildKnown ==
  ASSUME NEW h, HeapOK(h), NEW p, Tree(h, p), NEW r, Tree(h, r), r # p, AllKnown(h, p, r),
         NEW y \in LibraryNodes, NEW side \in {"left", "right"}, h[p][side] # 0,
         h[y].type = h[h[p][side]].type \/ h[y].type = Heap0[EmptyIR].type,
         NEW g, g = WithChild(h, p, side, y)
  PROVE  /\ AllKnown(g, p, r) /\ Kept(h, g, r)
         /\ \A z \in DOMAIN h : g[z].type = h[z].type
         /\ side = "right" => g[p].left = h[p].left
  <1> DEFINE c == Copied(h, y)
  <1>1. /\ HeapOK(c.heap) /\ Grows(h, c.heap)
        /\ c.at \notin DOMAIN h /\ Tree(c.heap, c.at)
        /\ \A t : Tree(h, t) => Tree(c.heap, t) /\ t # c.at
        /\ y \in DOMAIN h
    BY OKCopy DEF HeapOK
  <1>2. r \in DOMAIN h /\ p \in DOMAIN h BY DEF Tree
  <1>3. AllKnown(c.heap, c.at, r) /\ c.heap[c.at].type = h[y].type
    BY <1>1, <1>2, SelfKnown, CopyKnown
  <1>4. IsLink(c.heap, g, p, side, c.at) BY DEF WithChild, IsLink
  <1> HIDE DEF c
  <1>5. Kept(h, c.heap, p) /\ Kept(h, c.heap, r)
    <2>1. Plain(h) /\ Plain(c.heap) BY <1>1, LibraryKept
    <2> QED BY <1>1, <1>2, <2>1, GrowsKeeps
  <1>6. AllKnown(c.heap, p, r) BY <1>1, <1>2, <1>5, KeptKnown
  <1>7. Tree(c.heap, p) /\ Tree(c.heap, r) /\ c.at # p BY <1>1
  <1>8. /\ HeapOK(g) /\ Kept(c.heap, g, r)
        /\ side = "right" => g[p].left = c.heap[p].left
        /\ Under(g, p) \subseteq Under(c.heap, p) \cup Under(c.heap, c.at)
    BY <1>1, <1>4, <1>7, LinkRoot
  <1>9. /\ c.heap[p][side] = h[p][side] /\ c.heap[p].left = h[p].left
        /\ c.heap[h[p][side]] = h[h[p][side]]
    <2>1. Plain(h) /\ h[p][side] \in Kids(h, p) BY LibraryKept DEF Kids
    <2>2. h[p][side] \in DOMAIN h BY <1>2, <2>1 DEF Plain
    <2> QED BY <1>1, <1>2, <2>2 DEF Grows
  <1>10. r \in DOMAIN c.heap /\ p \in DOMAIN c.heap /\ c.at \in DOMAIN c.heap
    BY <1>1, <1>7 DEF Tree
  <1>11. AllKnown(g, p, r) /\ \A z \in DOMAIN c.heap : g[z].type = c.heap[z].type
    <2> DEFINE k == c.heap
               v == c.at
    <2>1. k[p][side] # 0 /\ (k[v].type = k[k[p][side]].type \/ k[v].type = Heap0[EmptyIR].type)
      BY <1>3, <1>9
    <2>2. /\ HeapOK(k) /\ HeapOK(g) /\ r \in DOMAIN k /\ Kept(k, g, r) /\ p \in DOMAIN k
          /\ AllKnown(k, p, r) /\ v \in DOMAIN k /\ AllKnown(k, v, r)
          /\ IsLink(k, g, p, side, v) /\ Under(g, p) \subseteq Under(k, p) \cup Under(k, v)
      BY <1>1, <1>3, <1>4, <1>6, <1>8, <1>10
    <2>3. AllKnown(g, p, r) /\ \A z \in DOMAIN k : g[z].type = k[z].type
      <3> HIDE DEF k, v
      <3> QED BY <2>1, <2>2, LinkKnown
    <2> QED BY <2>3
  <1>12. \A z \in DOMAIN h : z \in DOMAIN c.heap /\ c.heap[z] = h[z] BY <1>1 DEF Grows
  <1>13. Kept(h, g, r) BY <1>5, <1>8 DEF Kept
  <1> QED BY <1>8, <1>9, <1>11, <1>12, <1>13

-----------------------------------------------------------------------------
(***************************************************************************)
(* The value of a tree, with another value in the place of one node.       *)
(***************************************************************************)
NodeValue(h, y, l, r) == <<h[y].type, h[y].op, h[y].data, h[y].dt, l, r>>

Unfolds(h, old, v) ==
  /\ Substituted(h, 0, old, v) = <<>>
  /\ old \in DOMAIN h => Substituted(h, old, old, v) = v
  /\ \A x \in DOMAIN h : x # old =>
       Substituted(h, x, old, v) =
         NodeValue(h, x, Substituted(h, h[x].left, old, v), Substituted(h, h[x].right, old, v))

LEMMA SubstitutedEquation ==
  ASSUME NEW h, Plain(h), NEW old, NEW v
  PROVE  Unfolds(h, old, v)
  <1>1. PICK k \in Nat : Ranked(h, k) BY DEF Plain
  <1>2. PICK rank \in [DOMAIN h -> 0..k] : Descends(h, rank) BY <1>1 DEF Ranked
  <1>0. 0 \notin DOMAIN h /\ \A y \in DOMAIN h : Kids(h, y) \subseteq DOMAIN h
    BY <1>1 DEF Plain, Ranked
  <1> DEFINE D(n) == {0} \cup {y \in DOMAIN h : rank[y] < n}
             V(f, y) == IF y = 0 THEN <<>>
                        ELSE IF y = old THEN v
                        ELSE <<h[y].type, h[y].op, h[y].data, h[y].dt, f[h[y].left], f[h[y].right]>>
             F(n, f) == [y \in D(n) |-> V(f, y)]
             G == {n \in Nat : \E f : f = F(n, f)}
  <1>3. 0 \in G
    <2>1. D(0) = {0} BY <1>2
    <2> DEFINE e == [y \in {0} |-> <<>>]
    <2>2. e = F(0, e) BY <2>1
    <2> QED BY <2>2
  <1>4. ASSUME NEW n \in Nat, n \in G PROVE n + 1 \in G
    <2>1. PICK f : f = F(n, f) BY <1>4
    <2> DEFINE g == F(n + 1, f)
    <2>2. \A y \in D(n + 1) : y # 0 => h[y].left \in D(n) /\ h[y].right \in D(n)
      <3> SUFFICES ASSUME NEW y \in D(n + 1), y # 0, NEW c \in {h[y].left, h[y].right}
                   PROVE  c \in D(n)
        OBVIOUS
      <3>1. c = 0 \/ c \in Kids(h, y) BY DEF Kids
      <3>2. c \in Kids(h, y) => c \in DOMAIN h /\ rank[c] < rank[y] /\ rank[y] < n + 1
        BY <1>0, <1>2 DEF Descends
      <3>3. c \in Kids(h, y) => rank[c] \in Nat /\ rank[y] \in Nat BY <1>1, <1>2, <3>2
      <3> QED BY <3>1, <3>2, <3>3
    <2>3. \A c \in D(n) : c \in D(n + 1) BY <1>2
    <2>4. \A c \in D(n) : f[c] = V(f, c)
      <3> HIDE DEF V, D
      <3> QED BY <2>1
    <2>5. \A c \in D(n + 1) : g[c] = V(f, c)
      <3> HIDE DEF V, D
      <3> QED OBVIOUS
    <2>6. \A c \in D(n) : f[c] = g[c]
      <3> HIDE DEF D, g, V
      <3> QED BY <2>3, <2>4, <2>5
    <2>7. \A y \in D(n + 1) : V(f, y) = V(g, y)
      <3> HIDE DEF D, g
      <3> QED BY <2>2, <2>6
    <2>8. g = F(n + 1, g)
      <3> HIDE DEF D, V
      <3> QED BY <2>7
    <2> HIDE DEF g, F, D
    <2> QED BY <2>8
  <1>5. k + 1 \in G
    <2> HIDE DEF G
    <2> QED BY <1>1, <1>3, <1>4, Climbing
  <1>6. D(k + 1) = DOMAIN h \cup {0} BY <1>1, <1>2
  <1> DEFINE E(f) == [y \in DOMAIN h \cup {0} |-> V(f, y)]
             value == CHOOSE f : f = E(f)
  <1>7. PICK f : f = F(k + 1, f) BY <1>5
  <1>8. f = E(f) BY <1>6, <1>7
  <1>9. value = E(value)
    <2> HIDE DEF E
    <2> QED BY <1>8
  <1>10. \A x : Substituted(h, x, old, v) = value[x] BY DEF Substituted
  <1> HIDE DEF value
  <1>11. \A x \in DOMAIN h \cup {0} : value[x] = V(value, x)
    <2> HIDE DEF V
    <2> QED BY <1>9
  <1>12. value[0] = <<>> BY <1>11
  <1>13. ASSUME NEW x \in DOMAIN h, x # old
         PROVE  value[x] = NodeValue(h, x, value[h[x].left], value[h[x].right])
    <2>1. value[x] = V(value, x) BY <1>11
    <2>2. V(value, x) = NodeValue(h, x, value[h[x].left], value[h[x].right])
      BY <1>0, <1>13 DEF NodeValue
    <2> HIDE DEF V
    <2> QED BY <2>1, <2>2
  <1>14. old \in DOMAIN h => value[old] = v BY <1>0, <1>11
  <1> QED BY <1>10, <1>12, <1>13, <1>14 DEF Unfolds

\* Two trees have the same value when f maps the nodes of one to those of the other,
\* but node old to a node of value v.
LEMMA SubstitutedSame ==
  ASSUME NEW h, Plain(h), NEW g, Plain(g), NEW x \in DOMAIN h, NEW f, f[0] = 0,
         NEW old, NEW v, NEW old2, NEW v2,
         \A y \in Under(h, x) : y = old => Substituted(g, f[y], old2, v2) = v,
         \A y \in Under(h, x) : y # old =>
            /\ f[y] \in DOMAIN g /\ f[y] # old2
            /\ g[f[y]].type = h[y].type /\ g[f[y]].op = h[y].op
            /\ g[f[y]].data = h[y].data /\ g[f[y]].dt = h[y].dt
            /\ g[f[y]].left = f[h[y].left] /\ g[f[y]].right = f[h[y].right]
  PROVE  Substituted(g, f[x], old2, v2) = Substituted(h, x, old, v)
  <1> DEFINE A(y) == Substituted(h, y, old, v)
             B(y) == Substituted(g, f[y], old2, v2)
             G == {y \in DOMAIN h : y \in Under(h, x) => B(y) = A(y)}
  <1>0. Unfolds(h, old, v) /\ Unfolds(g, old2, v2) BY SubstitutedEquation
  <1>1. ASSUME NEW y \in DOMAIN h, Kids(h, y) \subseteq G PROVE y \in G
    <2> SUFFICES ASSUME y \in Under(h, x) PROVE B(y) = A(y) OBVIOUS
    <2>1. CASE y = old BY <1>0, <2>1 DEF Unfolds
    <2>2. CASE y # old
      <3>1. \A c \in {h[y].left, h[y].right} : B(c) = A(c)
        <4> SUFFICES ASSUME NEW c \in {h[y].left, h[y].right} PROVE B(c) = A(c) OBVIOUS
        <4>1. CASE c = 0
          <5>1. B(c) = <<>> /\ A(c) = <<>> BY <1>0, <4>1 DEF Unfolds
          <5> QED BY <5>1
        <4>2. CASE c # 0
          <5>1. c \in Kids(h, y) BY <4>2 DEF Kids
          <5>2. c \in Under(h, x) BY <5>1, UnderClosed
          <5> QED BY <1>1, <5>1, <5>2
        <4> QED BY <4>1, <4>2
      <3>2. A(y) = NodeValue(h, y, A(h[y].left), A(h[y].right)) 
        BY <1>0, <2>2 DEF Unfolds
      <3>3. f[y] \in DOMAIN g /\ f[y] # old2 /\ g[f[y]].left = f[h[y].left]
            /\ g[f[y]].right = f[h[y].right]
        BY <2>2
      <3>4. B(y) = NodeValue(g, f[y], B(h[y].left), B(h[y].right))
        BY <1>0, <3>3 DEF Unfolds
      <3>5. NodeValue(g, f[y], B(h[y].left), B(h[y].right))
              = NodeValue(h, y, B(h[y].left), B(h[y].right))
        <4> HIDE DEF B
        <4> QED BY <2>2 DEF NodeValue
      <3>6. B(h[y].left) = A(h[y].left) /\ B(h[y].right) = A(h[y].right) BY <3>1
      <3> HIDE DEF A, B
      <3> QED BY <3>2, <3>4, <3>5, <3>6
    <2> QED BY <2>1, <2>2
  <1>2. DOMAIN h \subseteq G
    <2> HIDE DEF G
    <2> QED BY <1>1, TreeInduction
  <1>3. x \in Under(h, x) BY UnderSelf
  <1> QED BY <1>2, <1>3

LEMMA KeptValue ==
  ASSUME NEW h, Plain(h), NEW g, Plain(g), NEW x \in DOMAIN h, Kept(h, g, x), NEW old, NEW v
  PROVE  Substituted(g, x, old, v) = Substituted(h, x, old, v)
  <1> DEFINE f == [y \in Under(h, x) \cup {0} |-> y]
  <1>1. x \in Under(h, x) /\ \A y \in Under(h, x) : Kids(h, y) \subseteq Under(h, x)
    BY UnderSelf, UnderClosed
  <1>2. \A y \in Under(h, x) :
          /\ f[y] = y /\ y \in DOMAIN g /\ g[y] = h[y]
          /\ f[h[y].left] = h[y].left /\ f[h[y].right] = h[y].right
    BY <1>1 DEF Kept, Kids
  <1>3. f[0] = 0 OBVIOUS
  <1> HIDE DEF f
  <1>4. \A y \in Under(h, x) : y = old => Substituted(g, f[y], old, v) = v
    BY <1>2, SubstitutedEquation DEF Unfolds
  <1>5. Substituted(g, f[x], old, v) = Substituted(h, x, old, v)
    BY <1>2, <1>3, <1>4, SubstitutedSame
  <1> QED BY <1>1, <1>2, <1>5

LEMMA CopyValue ==
  ASSUME NEW h, Plain(h), NEW x \in DOMAIN h, NEW g, Plain(g), NEW f, Copies(h, x, g, f)
  PROVE  /\ Value(g, f[x]) = Value(h, x)
         /\ \A old \in Under(h, x) : \A v : Substituted(g, f[x], f[old], v) = Substituted(h, x, old, v)
  <1>1. ASSUME NEW y \in Under(h, x)
        PROVE  /\ f[y] \in DOMAIN g /\ f[y] # 0
               /\ g[f[y]].type = h[y].type /\ g[f[y]].op = h[y].op
               /\ g[f[y]].data = h[y].data /\ g[f[y]].dt = h[y].dt
               /\ g[f[y]].left = f[h[y].left] /\ g[f[y]].right = f[h[y].right]
    <2>1. /\ f[y] # 0 /\ f[y] \in DOMAIN g
          /\ g[f[y]] = [type |-> h[y].type, op |-> h[y].op, data |-> h[y].data, dt |-> h[y].dt,
                        left |-> f[h[y].left], right |-> f[h[y].right]]
      BY DEF Copies
    <2> QED BY <2>1
  <1>2. f[0] = 0 /\ \A y, z \in Under(h, x) : f[y] = f[z] => y = z BY DEF Copies
  <1>3. Value(g, f[x]) = Value(h, x)
    <2>1. \A y \in Under(h, x) : y # 0
      <3>1. 0 \notin DOMAIN h BY DEF Plain, Ranked
      <3> QED BY <3>1, UnderClosed
    <2> DEFINE none == 0
               empty == <<>>
    <2>2. \A y \in Under(h, x) : y # none /\ f[y] # none BY <1>1, <2>1
    <2> HIDE DEF none, empty
    <2>3. \A y \in Under(h, x) : y = none => Substituted(g, f[y], none, empty) = empty
      BY <2>2
    <2>4. \A y \in Under(h, x) : y # none =>
            /\ f[y] \in DOMAIN g /\ f[y] # none
            /\ g[f[y]].type = h[y].type /\ g[f[y]].op = h[y].op
            /\ g[f[y]].data = h[y].data /\ g[f[y]].dt = h[y].dt
            /\ g[f[y]].left = f[h[y].left] /\ g[f[y]].right = f[h[y].right]
      BY <1>1, <2>2
    <2>5. Substituted(g, f[x], none, empty) = Substituted(h, x, none, empty)
      BY <1>2, <2>3, <2>4, SubstitutedSame
    <2> QED BY <2>5 DEF Value, none, empty
  <1>4. ASSUME NEW old \in Under(h, x), NEW v
        PROVE  Substituted(g, f[x], f[old], v) = Substituted(h, x, old, v)
    <2>1. Substituted(g, f[old], f[old], v) = v BY <1>1, SubstitutedEquation DEF Unfolds
    <2>2. \A y \in Under(h, x) : y # old => f[y] # f[old] BY <1>2
    <2> QED BY <1>1, <1>2, <2>1, <2>2, SubstitutedSame
  <1> QED BY <1>3, <1>4

\* replace: node old, child of p, is exchanged for v.
LEMMA LinkValue ==
  ASSUME NEW h, Sound(h), NEW g, Plain(g), NEW x \in DOMAIN h, NEW p \in DOMAIN h,
         NEW side \in {"left", "right"}, NEW v \in DOMAIN h, IsLink(h, g, p, side, v),
         NEW old, old # 0, old # x, h[p][side] = old, Kept(h, g, v)
  PROVE  Value(g, x) = Substituted(h, x, old, Value(h, v))
  <1>0. Plain(h) /\ 0 \notin DOMAIN h BY DEF Sound, Plain, Ranked
  <1>1. /\ Links(h, g, p, v)
        /\ side = "left" => g[p].left = v /\ g[p].right = h[p].right
        /\ side = "right" => g[p].right = v /\ g[p].left = h[p].left
    BY <1>0, LinkIs
  <1> DEFINE f == [y \in DOMAIN h \cup {0} |-> IF y = old THEN v ELSE y]
  <1>2. /\ f[0] = 0 /\ f[old] = v
        /\ \A y \in DOMAIN h \cup {0} : y # old => f[y] = y
        /\ old \in DOMAIN h
    <2>1. old \in Kids(h, p) BY DEF Kids
    <2>2. old \in DOMAIN h BY <1>0, <2>1 DEF Plain
    <2> QED BY <2>2
  <1> HIDE DEF f
  <1>3. Value(g, v) = Value(h, v) BY <1>0, KeptValue DEF Value
  <1>4. ASSUME NEW y \in DOMAIN h, y # old
        PROVE  /\ f[y] \in DOMAIN g /\ f[y] # 0
               /\ g[f[y]].type = h[y].type /\ g[f[y]].op = h[y].op
               /\ g[f[y]].data = h[y].data /\ g[f[y]].dt = h[y].dt
               /\ g[f[y]].left = f[h[y].left] /\ g[f[y]].right = f[h[y].right]
    <2>1. f[y] = y /\ y # 0 BY <1>0, <1>2, <1>4
    <2>2. y \in DOMAIN g BY <1>1 DEF Links
    <2>3. /\ h[y].left \in DOMAIN h \cup {0} /\ h[y].right \in DOMAIN h \cup {0}
      BY <1>0 DEF Plain, Kids
    <2>4. /\ h[y].left # old \/ (y = p /\ side = "left")
          /\ h[y].right # old \/ (y = p /\ side = "right")
      BY DEF Sound, OneParent
    <2>5. CASE y # p
      <3>1. g[y] = h[y] BY <1>1, <2>5 DEF Links
      <3>2. f[h[y].left] = h[y].left /\ f[h[y].right] = h[y].right BY <1>2, <2>3, <2>4, <2>5
      <3> QED BY <2>1, <2>2, <3>1, <3>2
    <2>6. CASE y = p /\ side = "left"
      <3>1. f[h[y].left] = v BY <1>2, <2>6
      <3>2. f[h[y].right] = h[y].right BY <1>2, <2>3, <2>4, <2>6
      <3> QED BY <1>1, <2>1, <2>2, <2>6, <3>1, <3>2 DEF Links
    <2>7. CASE y = p /\ side = "right"
      <3>1. f[h[y].right] = v BY <1>2, <2>7
      <3>2. f[h[y].left] = h[y].left BY <1>2, <2>3, <2>4, <2>7
      <3> QED BY <1>1, <2>1, <2>2, <2>7, <3>1, <3>2 DEF Links
    <2> QED BY <2>5, <2>6, <2>7
  <1> DEFINE none == 0
             empty == <<>>
             w == Value(h, v)
  <1>5. \A y \in Under(h, x) : y = old => Substituted(g, f[y], none, empty) = w
    BY <1>2, <1>3 DEF Value
  <1>6. Under(h, x) \subseteq DOMAIN h BY <1>0, UnderClosed
  <1>7. \A y \in Under(h, x) : y # old =>
            /\ f[y] \in DOMAIN g /\ f[y] # none
            /\ g[f[y]].type = h[y].type /\ g[f[y]].op = h[y].op
            /\ g[f[y]].data = h[y].data /\ g[f[y]].dt = h[y].dt
            /\ g[f[y]].left = f[h[y].left] /\ g[f[y]].right = f[h[y].right]
    BY <1>4, <1>6
  <1> HIDE DEF none, empty, w
  <1>8. Substituted(g, f[x], none, empty) = Substituted(h, x, old, w)
    BY <1>0, <1>2, <1>5, <1>7, SubstitutedSame
  <1> QED BY <1>2, <1>8 DEF Value, none, empty, w

-----------------------------------------------------------------------------
(***************************************************************************)
(* The text of a tree, and its structure: the text it has once             *)
(* ExtractStructure has taken the literals and the fix units out.          *)
(***************************************************************************)
NodeText(n, l, r) ==
  LET Word(w) == IF w = "" THEN <<>> ELSE <<w>>
  IN IF n.data # NoData THEN Word(n.data)
     ELSE Word(n.op[1]) \o l \o Word(n.op[2]) \o r \o Word(n.op[3])

Structure(h, x) == IRToString(ExtractStructure(h, x), x)

Reads(h) ==
  /\ IRToString(h, 0) = <<>>
  /\ \A x \in DOMAIN h :
       IRToString(h, x) = NodeText(h[x], IRToString(h, h[x].left), IRToString(h, h[x].right))

LEMMA TextEquation ==
  ASSUME NEW h, Plain(h)
  PROVE  Reads(h)
  <1>1. PICK k \in Nat : Ranked(h, k) BY DEF Plain
  <1>2. PICK rank \in [DOMAIN h -> 0..k] : Descends(h, rank) BY <1>1 DEF Ranked
  <1>0. 0 \notin DOMAIN h /\ \A y \in DOMAIN h : Kids(h, y) \subseteq DOMAIN h
    BY <1>1 DEF Plain, Ranked
  <1> DEFINE D(n) == {0} \cup {y \in DOMAIN h : rank[y] < n}
             V(f, y) == IF y = 0 THEN <<>> ELSE NodeText(h[y], f[h[y].left], f[h[y].right])
             F(n, f) == [y \in D(n) |-> V(f, y)]
             G == {n \in Nat : \E f : f = F(n, f)}
  <1>3. 0 \in G
    <2>1. D(0) = {0} BY <1>2
    <2> DEFINE e == [y \in {0} |-> <<>>]
    <2>2. e = F(0, e) BY <2>1
    <2> QED BY <2>2
  <1>4. ASSUME NEW n \in Nat, n \in G PROVE n + 1 \in G
    <2>1. PICK f : f = F(n, f) BY <1>4
    <2> DEFINE g == F(n + 1, f)
    <2>2. \A y \in D(n + 1) : y # 0 => h[y].left \in D(n) /\ h[y].right \in D(n)
      <3> SUFFICES ASSUME NEW y \in D(n + 1), y # 0, NEW c \in {h[y].left, h[y].right}
                   PROVE  c \in D(n)
        OBVIOUS
      <3>1. c = 0 \/ c \in Kids(h, y) BY DEF Kids
      <3>2. c \in Kids(h, y) => c \in DOMAIN h /\ rank[c] < rank[y] /\ rank[y] < n + 1
        BY <1>0, <1>2 DEF Descends
      <3>3. c \in Kids(h, y) => rank[c] \in Nat /\ rank[y] \in Nat BY <1>1, <1>2, <3>2
      <3> QED BY <3>1, <3>2, <3>3
    <2>3. \A c \in D(n) : c \in D(n + 1) BY <1>2
    <2>4. \A c \in D(n) : f[c] = V(f, c)
      <3> HIDE DEF V, D
      <3> QED BY <2>1
    <2>5. \A c \in D(n + 1) : g[c] = V(f, c)
      <3> HIDE DEF V, D
      <3> QED OBVIOUS
    <2>6. \A c \in D(n) : f[c] = g[c]
      <3> HIDE DEF D, g, V
      <3> QED BY <2>3, <2>4, <2>5
    <2>7. \A y \in D(n + 1) : V(f, y) = V(g, y)
      <3> HIDE DEF D, g
      <3> QED BY <2>2, <2>6
    <2>8. g = F(n + 1, g)
      <3> HIDE DEF D, V
      <3> QED BY <2>7
    <2> HIDE DEF g, F, D
    <2> QED BY <2>8
  <1>5. k + 1 \in G
    <2> HIDE DEF G
    <2> QED BY <1>1, <1>3, <1>4, Climbing
  <1>6. D(k + 1) = DOMAIN h \cup {0} BY <1>1, <1>2
  <1> DEFINE E(f) == [y \in DOMAIN h \cup {0} |-> V(f, y)]
             text == CHOOSE f : f = E(f)
  <1>7. PICK f : f = F(k + 1, f) BY <1>5
  <1>8. f = E(f) BY <1>6, <1>7
  <1>9. text = E(text)
    <2> HIDE DEF E
    <2> QED BY <1>8
  <1>10. \A x : IRToString(h, x) = text[x] BY DEF IRToString, NodeText
  <1> HIDE DEF text
  <1>11. \A x \in DOMAIN h \cup {0} : text[x] = V(text, x)
    <2> HIDE DEF V
    <2> QED BY <1>9
  <1>12. text[0] = <<>> BY <1>11
  <1>13. ASSUME NEW x \in DOMAIN h
         PROVE  text[x] = NodeText(h[x], text[h[x].left], text[h[x].right])
    <2>1. text[x] = V(text, x) BY <1>11
    <2>2. V(text, x) = NodeText(h[x], text[h[x].left], text[h[x].right]) BY <1>0
    <2> HIDE DEF V
    <2> QED BY <2>1, <2>2
  <1> QED BY <1>10, <1>12, <1>13 DEF Reads

Onward(h, y) == {c \in Kids(h, y) : h[c].dt # kFixUnit}

LEMMA VisitedClosed ==
  ASSUME NEW h, Plain(h), NEW x \in DOMAIN h
  PROVE  \A y \in Visited(h, x) : Onward(h, y) \subseteq Visited(h, x)
  <1> DEFINE G == {z \in DOMAIN h : \A y \in Visited(h, z) : Onward(h, y) \subseteq Visited(h, z)}
  <1>1. ASSUME NEW z \in DOMAIN h, Kids(h, z) \subseteq G PROVE z \in G
    <2> SUFFICES ASSUME NEW y \in Visited(h, z), NEW d \in Onward(h, y) PROVE d \in Visited(h, z)
      OBVIOUS
    <2>1. Visited(h, z) = {z} \cup UNION {Visited(h, c) : c \in Onward(h, z)}
      BY VisitedEquation DEF Onward
    <2>2. CASE y = z
      <3>1. d \in DOMAIN h BY <2>2 DEF Onward, Plain
      <3>2. d \in Visited(h, d) BY <3>1, VisitedUnder
      <3> QED BY <2>1, <2>2, <3>2
    <2>3. CASE y # z
      <3>1. PICK c \in Onward(h, z) : y \in Visited(h, c) BY <2>1, <2>3
      <3>2. c \in G BY <1>1 DEF Onward
      <3>3. d \in Visited(h, c) BY <3>1, <3>2
      <3> QED BY <2>1, <3>1, <3>3
    <2> QED BY <2>2, <2>3
  <1>2. DOMAIN h \subseteq G
    <2> HIDE DEF G
    <2> QED BY <1>1, TreeInduction
  <1> QED BY <1>2

LEMMA VisitedLeast ==
  ASSUME NEW h, Plain(h), NEW x \in DOMAIN h, NEW T, x \in T,
         \A y \in DOMAIN h : y \in T => Onward(h, y) \subseteq T
  PROVE  Visited(h, x) \subseteq T
  <1> DEFINE G == {y \in DOMAIN h : y \in T => Visited(h, y) \subseteq T}
  <1>1. ASSUME NEW y \in DOMAIN h, Kids(h, y) \subseteq G PROVE y \in G
    <2> SUFFICES ASSUME y \in T, NEW z \in Visited(h, y) PROVE z \in T OBVIOUS
    <2>1. Visited(h, y) = {y} \cup UNION {Visited(h, c) : c \in Onward(h, y)}
      BY VisitedEquation DEF Onward
    <2>2. ASSUME NEW c \in Onward(h, y), z \in Visited(h, c) PROVE z \in T
      <3>1. c \in T /\ c \in G BY <1>1, <2>2 DEF Onward
      <3> QED BY <2>2, <3>1
    <2> QED BY <2>1, <2>2
  <1>2. DOMAIN h \subseteq G
    <2> HIDE DEF G
    <2> QED BY <1>1, TreeInduction
  <1> QED BY <1>2

\* ExtractStructure turns the child c of a visited node into e.
Became(h, x, g, c, e) ==
  \/ c = 0 /\ e = 0
  \/ c \in Visited(h, x) /\ h[c].dt # kFixUnit /\ e = c
  \/ c \in DOMAIN h /\ h[c].dt = kFixUnit /\ e \in DOMAIN g /\ g[e] = FixMe

LEMMA ExtractedNode ==
  ASSUME NEW h, Plain(h), NEW x \in DOMAIN h, NEW g, NEW at, Extracts(h, x, g, at),
         NEW y \in Visited(h, x)
  PROVE  /\ y \in DOMAIN h /\ y \in DOMAIN g /\ g[y].op = h[y].op
         /\ g[y].data = IF Kids(h, y) = {} THEN Sample(h[y]) ELSE h[y].data
         /\ Became(h, x, g, h[y].left, g[y].left)
         /\ Became(h, x, g, h[y].right, g[y].right)
  <1> DEFINE U == FixUnits(h, x)
             At(c) == IF c \in U THEN at[c] ELSE c
             d == IF Kids(h, y) = {} THEN Sample(h[y]) ELSE h[y].data
  <1>0. Visited(h, x) \subseteq DOMAIN h /\ 0 \notin DOMAIN h
    BY VisitedUnder, UnderClosed DEF Plain, Ranked
  <1>1. /\ DOMAIN g = DOMAIN h \cup {at[u] : u \in U}
        /\ \A u \in U : g[at[u]] = FixMe
        /\ g[y] = [type |-> h[y].type, op |-> h[y].op, data |-> d, dt |-> h[y].dt,
                   left |-> At(h[y].left), right |-> At(h[y].right)]
    BY DEF Extracts
  <1> HIDE DEF d
  <1>2. g[y].op = h[y].op /\ g[y].data = d /\ g[y].left = At(h[y].left) /\ g[y].right = At(h[y].right)
    <2> HIDE DEF At
    <2> QED BY <1>1
  <1>3. ASSUME NEW c \in {h[y].left, h[y].right} PROVE Became(h, x, g, c, At(c))
    <2>1. CASE c = 0
      <3>1. c \notin U BY <1>0, <2>1 DEF FixUnits, Kids
      <3> QED BY <2>1, <3>1 DEF Became
    <2>2. CASE c # 0
      <3>1. c \in Kids(h, y) /\ c \in DOMAIN h BY <1>0, <2>2 DEF Kids, Plain
      <3>2. CASE h[c].dt = kFixUnit
        <4>1. c \in U BY <3>1, <3>2 DEF FixUnits
        <4> QED BY <1>1, <3>1, <3>2, <4>1 DEF Became
      <3>3. CASE h[c].dt # kFixUnit
        <4>1. c \notin U BY <3>3 DEF FixUnits
        <4>2. c \in Visited(h, x) BY <3>1, <3>3, VisitedClosed DEF Onward
        <4> QED BY <3>3, <4>1, <4>2 DEF Became
      <3> QED BY <3>2, <3>3
    <2> QED BY <2>1, <2>2
  <1> HIDE DEF At, U
  <1>4. y \in DOMAIN h /\ y \in DOMAIN g BY <1>0, <1>1
  <1>5. Became(h, x, g, h[y].left, At(h[y].left)) /\ Became(h, x, g, h[y].right, At(h[y].right))
    BY <1>3
  <1> QED BY <1>2, <1>4, <1>5 DEF d

\* Copies have the same structure.
LEMMA SameStructure ==
  ASSUME NEW h, Sound(h), NEW g, Sound(g), NEW x \in DOMAIN h, NEW f, f[0] = 0,
         \A y \in Under(h, x) :
            /\ f[y] \in DOMAIN g
            /\ g[f[y]].op = h[y].op /\ g[f[y]].data = h[y].data /\ g[f[y]].dt = h[y].dt
            /\ g[f[y]].left = f[h[y].left] /\ g[f[y]].right = f[h[y].right]
  PROVE  Structure(g, f[x]) = Structure(h, x)
  <1> DEFINE E == ExtractStructure(h, x)
             F == ExtractStructure(g, f[x])
  <1>0. Plain(h) /\ Plain(g) /\ 0 \notin DOMAIN h /\ 0 \notin DOMAIN g
    BY DEF Sound, Plain, Ranked
  <1>1. x \in Under(h, x) /\ f[x] \in DOMAIN g BY <1>0, UnderSelf
  <1>2. PICK at : Extracts(h, x, E, at) BY <1>0, ExtractIs
  <1>3. PICK at2 : Extracts(g, f[x], F, at2) BY <1>0, <1>1, ExtractIs
  <1> HIDE DEF E, F
  <1>4. Plain(E) /\ Plain(F) BY <1>1, <1>2, <1>3, ExtractSound
  <1>5. Reads(E) /\ Reads(F) BY <1>4, TextEquation
  <1>6. Visited(h, x) \subseteq Under(h, x) /\ Under(h, x) \subseteq DOMAIN h
    BY <1>0, VisitedUnder, UnderClosed
  <1>7. ASSUME NEW y \in Under(h, x), NEW c, c = h[y].left \/ c = h[y].right
        PROVE  /\ c # 0 => c \in Under(h, x)
               /\ f[c] # 0 <=> c # 0
    <2>1. c # 0 => c \in Kids(h, y) BY <1>7 DEF Kids
    <2>2. c # 0 => c \in Under(h, x) BY <1>0, <2>1, UnderClosed
    <2>3. c # 0 => f[c] \in DOMAIN g BY <2>2
    <2> QED BY <1>0, <2>2, <2>3
  <1>8. ASSUME NEW y \in Under(h, x)
        PROVE  /\ Kids(g, f[y]) = {} <=> Kids(h, y) = {}
               /\ \A c \in Kids(h, y) : f[c] \in Kids(g, f[y])
    <2>1. g[f[y]].left = f[h[y].left] /\ g[f[y]].right = f[h[y].right] OBVIOUS
    <2>2. /\ f[h[y].left] # 0 <=> h[y].left # 0
          /\ f[h[y].right] # 0 <=> h[y].right # 0
      BY <1>7
    <2> QED BY <2>1, <2>2 DEF Kids
  <1>9. ASSUME NEW y \in Visited(h, x) PROVE f[y] \in Visited(g, f[x])
    <2> DEFINE T == {z \in Under(h, x) : f[z] \in Visited(g, f[x])}
    <2>1. x \in T BY <1>0, <1>1, VisitedUnder
    <2>2. ASSUME NEW z \in DOMAIN h, z \in T, NEW c \in Onward(h, z) PROVE c \in T
      <3>1. z \in Under(h, x) /\ c \in Kids(h, z) BY <2>2 DEF Onward
      <3>2. c \in Under(h, x) BY <1>0, <3>1, UnderClosed
      <3>3. f[c] \in Onward(g, f[z]) BY <1>8, <2>2, <3>1, <3>2 DEF Onward
      <3>4. f[z] \in Visited(g, f[x]) BY <2>2
      <3> QED BY <1>0, <1>1, <3>2, <3>3, <3>4, VisitedClosed
    <2>3. Visited(h, x) \subseteq T
      <3> HIDE DEF T
      <3> QED BY <1>0, <2>1, <2>2, VisitedLeast
    <2> QED BY <2>3
  <1> DEFINE A(y) == IRToString(E, y)
             B(y) == IRToString(F, y)
             G == {y \in DOMAIN h : y \in Visited(h, x) => B(f[y]) = A(y)}
  <1>10. ASSUME NEW y \in DOMAIN h, Kids(h, y) \subseteq G PROVE y \in G
    <2> SUFFICES ASSUME y \in Visited(h, x) PROVE B(f[y]) = A(y) OBVIOUS
    <2>1. y \in Under(h, x) /\ f[y] \in Visited(g, f[x]) BY <1>6, <1>9
    <2>2. /\ y \in DOMAIN E /\ E[y].op = h[y].op
          /\ E[y].data = IF Kids(h, y) = {} THEN Sample(h[y]) ELSE h[y].data
          /\ Became(h, x, E, h[y].left, E[y].left)
          /\ Became(h, x, E, h[y].right, E[y].right)
      BY <1>0, <1>2, ExtractedNode
    <2>3. /\ f[y] \in DOMAIN F /\ F[f[y]].op = g[f[y]].op
          /\ F[f[y]].data = IF Kids(g, f[y]) = {} THEN Sample(g[f[y]]) ELSE g[f[y]].data
          /\ Became(g, f[x], F, f[h[y].left], F[f[y]].left)
          /\ Became(g, f[x], F, f[h[y].right], F[f[y]].right)
      <3>1. g[f[y]].left = f[h[y].left] /\ g[f[y]].right = f[h[y].right] BY <2>1
      <3> QED BY <1>0, <1>1, <1>3, <2>1, <3>1, ExtractedNode
    <2>4. F[f[y]].op = E[y].op /\ F[f[y]].data = E[y].data
      <3>1. g[f[y]].op = h[y].op /\ g[f[y]].data = h[y].data /\ g[f[y]].dt = h[y].dt BY <2>1
      <3>2. Kids(g, f[y]) = {} <=> Kids(h, y) = {} BY <1>8, <2>1
      <3>3. Sample(g[f[y]]) = Sample(h[y]) BY <3>1 DEF Sample
      <3> QED BY <2>2, <2>3, <3>1, <3>2, <3>3
    <2>5. ASSUME NEW c, c = h[y].left \/ c = h[y].right, NEW e, Became(h, x, E, c, e),
                 NEW d, Became(g, f[x], F, f[c], d)
          PROVE  B(d) = A(e)
      <3>1. Visited(g, f[x]) \subseteq DOMAIN g BY <1>0, <1>1, VisitedUnder, UnderClosed
      <3>2. CASE c = 0
        <4>1. e = 0 BY <1>0, <1>6, <2>5, <3>2 DEF Became
        <4>2. d = 0 BY <1>0, <2>5, <3>1, <3>2 DEF Became
        <4> QED BY <1>5, <4>1, <4>2 DEF Reads
      <3>3. CASE c # 0
        <4>1. c \in Under(h, x) /\ c \in Kids(h, y) /\ f[c] # 0
          BY <1>7, <2>1, <2>5, <3>3 DEF Kids
        <4>2. g[f[c]].dt = h[c].dt BY <4>1
        <4>3. CASE h[c].dt = kFixUnit
          <5>1. e \in DOMAIN E /\ E[e] = FixMe BY <2>5, <3>3, <4>3 DEF Became
          <5>2. d \in DOMAIN F /\ F[d] = FixMe BY <2>5, <4>1, <4>2, <4>3 DEF Became
          <5>3. FixMe.left = 0 /\ FixMe.right = 0 BY DEF FixMe
          <5>4. A(e) = NodeText(FixMe, <<>>, <<>>) BY <1>5, <5>1, <5>3 DEF Reads
          <5>5. B(d) = NodeText(FixMe, <<>>, <<>>) BY <1>5, <5>2, <5>3 DEF Reads
          <5> QED BY <5>4, <5>5
        <4>4. CASE h[c].dt # kFixUnit
          <5>1. c \in Visited(h, x) /\ e = c BY <2>5, <3>3, <4>4 DEF Became
          <5>2. d = f[c] BY <2>5, <4>1, <4>2, <4>4 DEF Became
          <5> QED BY <1>10, <4>1, <5>1, <5>2
        <4> QED BY <4>3, <4>4
      <3> QED BY <3>2, <3>3
    <2>6. A(y) = NodeText(E[y], A(E[y].left), A(E[y].right)) BY <1>5, <2>2 DEF Reads
    <2>7. B(f[y]) = NodeText(F[f[y]], B(F[f[y]].left), B(F[f[y]].right)) BY <1>5, <2>3 DEF Reads
    <2>8. B(F[f[y]].left) = A(E[y].left) /\ B(F[f[y]].right) = A(E[y].right)
      <3> HIDE DEF A, B
      <3> QED BY <2>2, <2>3, <2>5
    <2> HIDE DEF A, B
    <2>9. NodeText(F[f[y]], A(E[y].left), A(E[y].right)) = NodeText(E[y], A(E[y].left), A(E[y].right))
      BY <2>4 DEF NodeText
    <2> QED BY <2>6, <2>7, <2>8, <2>9
  <1>11. DOMAIN h \subseteq G
    <2> HIDE DEF G
    <2> QED BY <1>0, <1>10, TreeInduction
  <1>12. x \in Visited(h, x) BY <1>0, VisitedUnder
  <1>13. B(f[x]) = A(x) BY <1>11, <1>12
  <1> QED BY <1>13 DEF Structure, E, F

LEMMA KeptStructure ==
  ASSUME NEW h, Sound(h), NEW g, Sound(g), NEW x \in DOMAIN h, Kept(h, g, x)
  PROVE  Structure(g, x) = Structure(h, x)
  <1> DEFINE f == [y \in Under(h, x) \cup {0} |-> y]
  <1>0. Plain(h) BY DEF Sound
  <1>1. x \in Under(h, x) /\ \A y \in Under(h, x) : Kids(h, y) \subseteq Under(h, x)
    BY <1>0, UnderSelf, UnderClosed
  <1>2. \A y \in Under(h, x) :
          /\ f[y] = y /\ y \in DOMAIN g /\ g[y] = h[y]
          /\ f[h[y].left] = h[y].left /\ f[h[y].right] = h[y].right
    BY <1>1 DEF Kept, Kids
  <1>3. f[0] = 0 OBVIOUS
  <1> HIDE DEF f
  <1>4. Structure(g, f[x]) = Structure(h, x) BY <1>2, <1>3, SameStructure
  <1> QED BY <1>1, <1>2, <1>4

LEMMA CopyStructure ==
  ASSUME NEW h, Sound(h), NEW x \in DOMAIN h, NEW g, Sound(g), NEW f, Copies(h, x, g, f)
  PROVE  Structure(g, f[x]) = Structure(h, x)
  <1>1. ASSUME NEW y \in Under(h, x)
        PROVE  /\ f[y] \in DOMAIN g
               /\ g[f[y]].op = h[y].op /\ g[f[y]].data = h[y].data /\ g[f[y]].dt = h[y].dt
               /\ g[f[y]].left = f[h[y].left] /\ g[f[y]].right = f[h[y].right]
    <2>1. /\ f[y] \in DOMAIN g
          /\ g[f[y]] = [type |-> h[y].type, op |-> h[y].op, data |-> h[y].data, dt |-> h[y].dt,
                        left |-> f[h[y].left], right |-> f[h[y].right]]
      BY DEF Copies
    <2> QED BY <2>1
  <1>2. f[0] = 0 BY DEF Copies
  <1> QED BY <1>1, <1>2, SameStructure

LEMMA KeptTwice ==
  ASSUME NEW h, NEW k, NEW g, NEW r, Kept(h, k, r), Kept(k, g, r)
  PROVE  Kept(h, g, r)
  BY DEF Kept

LEMMA NodesAreNumbers ==
  ASSUME NEW h, HeapOK(h), NEW y \in DOMAIN h
  PROVE  y \in Nat /\ y # 0
  BY LibraryKept DEF Plain, Ranked

\* A variant at is added while the loop has no copy of the test case.
LEMMA VariantAdded ==
  ASSUME MInv, pc = "mutate", HeapOK(heap'), NEW at, Tree(heap', at), at \notin DOMAIN heap,
         \A r \in Held : Tree(heap', r) /\ Kept(heap, heap', r),
         record_ # 0 => record_ \in DOMAIN heap',
         variants' = Append(variants, at), pc' \in {"mutate", "variants"},
         UNCHANGED <<root, irs, new_ir_tree, backup, record_, res>>
  PROVE  MInv' /\ Fixed /\ Steady
  <1>1. at \in Nat /\ at # 0 BY NodesAreNumbers DEF Tree
  <1>2. at \notin Held BY TestCaseTree
  <1>3. /\ variants' \in Seq(Nat) /\ Inj(variants')
        /\ PointersOf(variants') = PointersOf(variants) \cup {at}
    <2>1. variants \in Seq(Nat) /\ Inj(variants) /\ at \notin PointersOf(variants)
      BY <1>2 DEF MInv, Apart, Held
    <2> QED BY <1>1, <2>1, AppendPointers
  <1>4. Finished' = Finished /\ Held' = Held \cup {at} BY <1>3 DEF Finished, Held
  <1>5. new_ir_tree = 0 /\ backup = 0 BY DEF MInv, Stage
  <1>6. Apart' BY <1>1, <1>2, <1>3, <1>4, <1>5 DEF MInv, Apart, Held
  <1>7. Grown' BY <1>4, <1>5 DEF Grown
  <1>8. Fixed /\ Under(heap', root') = Under(heap, root)
    <2>1. \A r \in Finished : Kept(heap, heap', r) BY DEF Held
    <2> QED BY <2>1, KeptStep
  <1>9. Stage' BY <1>5, <1>8 DEF MInv, Stage
  <1>10. Steady BY DEF Steady
  <1> QED BY <1>6, <1>7, <1>8, <1>9, <1>10 DEF MInv

\* The variant at that a step makes for the current IR.
Grafted(at) == /\ variants' = Append(variants, at)
               /\ AllKnown(heap', at, root)
               /\ heap'[at].type = heap[irs[1]].type

LEMMA ReplacedAlive ==
  ASSUME MInv, pc = "mutate", NEW h, HeapOK(h), DOMAIN heap \subseteq DOMAIN h, NEW at,
         Tree(h, at), at \notin DOMAIN heap, \A r \in Held : Tree(h, r) /\ Kept(heap, h, r),
         variants' = Append(variants, at), pc' = "variants",
         heap' = Alive(h, {root, record_, at} \cup PointersOf(variants) \cup PointersOf(res)),
         UNCHANGED <<root, irs, new_ir_tree, backup, record_, res>>
  PROVE  /\ MInv' /\ Fixed /\ Steady
         /\ AllKnown(h, at, root) /\ h[at].type = heap[irs[1]].type => Grafted(at)
  <1> DEFINE P == {root, record_, at} \cup PointersOf(variants) \cup PointersOf(res)
  <1>1. HeapOK(heap) /\ (record_ = 0 \/ record_ \in DOMAIN heap) BY DEF MInv, Grown
  <1>2. P = Held \cup {record_, at} BY DEF Held, Finished
  <1>3. \A x \in P : x = 0 \/ x \in DOMAIN h BY <1>1, <1>2 DEF Tree
  <1> HIDE DEF P
  <1>4. /\ HeapOK(heap')
        /\ \A x \in P : x # 0 => Kept(h, heap', x) /\ (Tree(h, x) => Tree(heap', x))
    <2>1. heap' = Alive(h, P) BY DEF P
    <2> QED BY <1>1, <1>3, <2>1, OKAlive, ZenonT(30)
  <1>5. \A r \in Held : r # 0 /\ r \in P BY <1>2, TestCaseTree
  <1>6. \A r \in Held : Tree(heap', r) /\ Kept(heap, heap', r) BY <1>4, <1>5, KeptTwice
  <1>7. at # 0 /\ at \in P BY <1>2, NodesAreNumbers DEF Tree
  <1>8. Tree(heap', at) BY <1>4, <1>7
  <1>9. record_ # 0 => record_ \in DOMAIN heap' BY <1>2, <1>4 DEF Kept
  <1>10. MInv' /\ Fixed /\ Steady BY <1>4, <1>6, <1>8, <1>9, VariantAdded
  <1>11. ASSUME AllKnown(h, at, root), h[at].type = heap[irs[1]].type PROVE Grafted(at)
    <2>1. root # 0 /\ root \in P /\ root \in DOMAIN h /\ at \in DOMAIN h
      BY <1>2, <1>3, <1>5, TestCaseTree DEF Held, Finished, Tree
    <2>2. Kept(h, heap', at) /\ Kept(h, heap', root) BY <1>4, <1>7, <2>1
    <2>3. AllKnown(heap', at, root) BY <1>4, <1>11, <2>1, <2>2, KeptKnown
    <2>4. heap'[at] = h[at]
      <3>1. at \in Under(h, at) BY <2>1, LibraryKept, UnderSelf
      <3> QED BY <2>2, <3>1 DEF Kept
    <2> QED BY <1>11, <2>3, <2>4 DEF Grafted
  <1> QED BY <1>10, <1>11

LEMMA ReplaceChildStep ==
  ASSUME MInv, NEW side \in {"left", "right"}, ReplaceChild(side)
  PROVE  MInv' /\ Fixed /\ Steady /\ \E at : Grafted(at)
  <1>1. PICK y \in RandomIRs(heap[heap[irs[1]][side]].type) :
          LET copy == Copied(heap, irs[1])
              h == WithChild(copy.heap, copy.at, side, y)
          IN /\ variants' = Append(variants, copy.at)
             /\ heap' = Alive(h, {root, record_, copy.at} \cup PointersOf(variants)
                                   \cup PointersOf(res))
    BY DEF ReplaceChild
  <1> DEFINE c == Copied(heap, irs[1])
             h == WithChild(c.heap, c.at, side, y)
  <1>2. /\ pc = "mutate" /\ pc' = "variants"
        /\ UNCHANGED <<root, irs, new_ir_tree, backup, record_, res>>
    BY DEF ReplaceChild
  <1>3. HeapOK(heap) /\ irs[1] \in DOMAIN heap
    BY <1>2, TestCaseTree DEF MInv, Grown, Stage
  <1>4. /\ HeapOK(c.heap) /\ Grows(heap, c.heap) /\ c.at \notin DOMAIN heap /\ Tree(c.heap, c.at)
        /\ \A r : Tree(heap, r) => Tree(c.heap, r) /\ r # c.at
    BY <1>3, OKCopy
  <1>5. y \in DOMAIN c.heap BY <1>4, RandomIRStored DEF HeapOK
  <1>6. /\ HeapOK(h) /\ DOMAIN c.heap \subseteq DOMAIN h /\ Tree(h, c.at)
        /\ \A r : r # c.at /\ Tree(c.heap, r) => Tree(h, r) /\ Kept(c.heap, h, r)
    <2>1. h = WithChild(c.heap, c.at, side, y) OBVIOUS
    <2> HIDE DEF c, h
    <2> QED BY <1>4, <1>5, <2>1, OKWithChild
  <1>7. /\ variants' = Append(variants, c.at)
        /\ heap' = Alive(h, {root, record_, c.at} \cup PointersOf(variants) \cup PointersOf(res))
    BY <1>1
  <1> HIDE DEF c, h
  <1>8. DOMAIN heap \subseteq DOMAIN h BY <1>4, <1>6 DEF Grows
  <1>9. ASSUME NEW r \in Held PROVE Tree(h, r) /\ Kept(heap, h, r)
    <2>1. Tree(heap, r) /\ r \in DOMAIN heap /\ Plain(heap) /\ Plain(c.heap)
      BY <1>4, LibraryKept, TestCaseTree
    <2>2. Kept(heap, c.heap, r) BY <1>4, <2>1, GrowsKeeps
    <2> QED BY <1>4, <1>6, <2>1, <2>2, KeptTwice
  <1>10. AllKnown(h, c.at, root) /\ h[c.at].type = heap[irs[1]].type
    <2>1. irs[1] \in Under(heap, root) /\ Tree(heap, root) /\ root \in DOMAIN heap
      BY <1>2, TestCaseTree DEF MInv, Stage
    <2>2. AllKnown(c.heap, c.at, root) /\ c.heap[c.at].type = heap[irs[1]].type
      BY <1>3, <2>1, SelfKnown, CopyKnown DEF c
    <2>3. heap[irs[1]][side] # 0 BY DEF ReplaceChild, Replaceable
    <2>4. /\ c.heap[c.at][side] # 0
          /\ c.heap[c.heap[c.at][side]].type = heap[heap[irs[1]][side]].type
      BY <1>3, <2>3, CopyKidIs DEF c
    <2>5. y \in LibraryNodes /\ heap[y] = c.heap[y]
      <3>1. y \in LibraryNodes BY RandomIRStored
      <3> QED BY <1>3, <1>4, <3>1 DEF HeapOK
    <2>6. heap[y].type = heap[heap[irs[1]][side]].type \/ heap[y].type = Heap0[EmptyIR].type
      BY <1>3, RandomIRType
    <2>7. /\ c.heap[y].type = c.heap[c.heap[c.at][side]].type
             \/ c.heap[y].type = Heap0[EmptyIR].type
          /\ Tree(c.heap, root) /\ root # c.at /\ c.at \in DOMAIN c.heap
      BY <1>4, <2>1, <2>4, <2>5, <2>6 DEF Tree
    <2>8. h = WithChild(c.heap, c.at, side, y) BY DEF h
    <2> QED BY <1>4, <2>2, <2>4, <2>5, <2>7, <2>8, WithChildKnown
  <1> QED BY <1>2, <1>4, <1>6, <1>7, <1>8, <1>9, <1>10, ReplacedAlive

LEMMA ReplaceBothStep ==
  ASSUME MInv, ReplaceBoth
  PROVE  MInv' /\ Fixed /\ Steady /\ \E at : Grafted(at)
  <1>1. PICK y \in RandomIRs(heap[heap[irs[1]].left].type),
             z \in RandomIRs(heap[heap[irs[1]].right].type) :
          LET copy == Copied(heap, irs[1])
              h == WithChild(WithChild(copy.heap, copy.at, "right", z), copy.at, "left", y)
          IN /\ variants' = Append(variants, copy.at)
             /\ heap' = Alive(h, {root, record_, copy.at} \cup PointersOf(variants)
                                   \cup PointersOf(res))
    BY DEF ReplaceBoth
  <1> DEFINE c == Copied(heap, irs[1])
             k == WithChild(c.heap, c.at, "right", z)
             h == WithChild(k, c.at, "left", y)
  <1>2. /\ pc = "mutate" /\ pc' = "variants"
        /\ UNCHANGED <<root, irs, new_ir_tree, backup, record_, res>>
    BY DEF ReplaceBoth
  <1>3. HeapOK(heap) /\ irs[1] \in DOMAIN heap
    BY <1>2, TestCaseTree DEF MInv, Grown, Stage
  <1>4. /\ HeapOK(c.heap) /\ Grows(heap, c.heap) /\ c.at \notin DOMAIN heap /\ Tree(c.heap, c.at)
        /\ \A r : Tree(heap, r) => Tree(c.heap, r) /\ r # c.at
    BY <1>3, OKCopy
  <1>5. y \in LibraryNodes /\ z \in DOMAIN c.heap BY <1>4, RandomIRStored DEF HeapOK
  <1>6. /\ HeapOK(k) /\ DOMAIN c.heap \subseteq DOMAIN k /\ Tree(k, c.at)
        /\ \A r : r # c.at /\ Tree(c.heap, r) => Tree(k, r) /\ Kept(c.heap, k, r)
    <2>1. k = WithChild(c.heap, c.at, "right", z) /\ "right" \in {"left", "right"} OBVIOUS
    <2> HIDE DEF c, k
    <2> QED BY <1>4, <1>5, <2>1, OKWithChild
  <1>7. /\ HeapOK(h) /\ DOMAIN k \subseteq DOMAIN h /\ Tree(h, c.at)
        /\ \A r : r # c.at /\ Tree(k, r) => Tree(h, r) /\ Kept(k, h, r)
    <2>1. h = WithChild(k, c.at, "left", y) /\ "left" \in {"left", "right"} OBVIOUS
    <2>2. y \in DOMAIN k BY <1>5, <1>6 DEF HeapOK
    <2> HIDE DEF c, h, k
    <2> QED BY <1>6, <2>1, <2>2, OKWithChild
  <1>8. /\ variants' = Append(variants, c.at)
        /\ heap' = Alive(h, {root, record_, c.at} \cup PointersOf(variants) \cup PointersOf(res))
    BY <1>1
  <1> HIDE DEF c, h, k
  <1>9. DOMAIN heap \subseteq DOMAIN h BY <1>4, <1>6, <1>7 DEF Grows
  <1>10. ASSUME NEW r \in Held PROVE Tree(h, r) /\ Kept(heap, h, r)
    <2>1. Tree(heap, r) /\ r \in DOMAIN heap /\ Plain(heap) /\ Plain(c.heap)
      BY <1>4, LibraryKept, TestCaseTree
    <2>2. Kept(heap, c.heap, r) BY <1>4, <2>1, GrowsKeeps
    <2>3. Tree(k, r) /\ Kept(c.heap, k, r) /\ r # c.at BY <1>4, <1>6, <2>1
    <2>4. Tree(h, r) /\ Kept(k, h, r) BY <1>7, <2>3
    <2> QED BY <2>2, <2>3, <2>4, KeptTwice
  <1>11. AllKnown(h, c.at, root) /\ h[c.at].type = heap[irs[1]].type
    <2>1. irs[1] \in Under(heap, root) /\ Tree(heap, root) /\ root \in DOMAIN heap
      BY <1>2, TestCaseTree DEF MInv, Stage
    <2>2. AllKnown(c.heap, c.at, root) /\ c.heap[c.at].type = heap[irs[1]].type
      BY <1>3, <2>1, SelfKnown, CopyKnown DEF c
    <2>3. heap[irs[1]].left # 0 /\ heap[irs[1]].right # 0 BY DEF ReplaceBoth, Replaceable
    <2>4. /\ c.heap[c.at].left # 0 /\ c.heap[c.at].right # 0
          /\ c.heap[c.heap[c.at].left].type = heap[heap[irs[1]].left].type
          /\ c.heap[c.heap[c.at].right].type = heap[heap[irs[1]].right].type
      <3>1. \A side \in {"left", "right"} :
              heap[irs[1]][side] # 0 =>
                /\ c.heap[c.at][side] # 0
                /\ c.heap[c.heap[c.at][side]].type = heap[heap[irs[1]][side]].type
        BY <1>3, CopyKidIs DEF c
      <3> QED BY <2>3, <3>1
    <2>5. y \in LibraryNodes /\ z \in LibraryNodes /\ heap[y] = c.heap[y] /\ heap[z] = c.heap[z]
      <3>1. y \in LibraryNodes /\ z \in LibraryNodes BY RandomIRStored
      <3> QED BY <1>3, <1>4, <3>1 DEF HeapOK
    <2>6. /\ heap[y].type = heap[heap[irs[1]].left].type \/ heap[y].type = Heap0[EmptyIR].type
          /\ heap[z].type = heap[heap[irs[1]].right].type \/ heap[z].type = Heap0[EmptyIR].type
      BY <1>3, RandomIRType
    <2>7. /\ c.heap[z].type = c.heap[c.heap[c.at].right].type
             \/ c.heap[z].type = Heap0[EmptyIR].type
          /\ Tree(c.heap, root) /\ root # c.at /\ c.at \in DOMAIN c.heap
      BY <1>4, <2>1, <2>4, <2>5, <2>6 DEF Tree
    <2>8. k = WithChild(c.heap, c.at, "right", z) /\ "right" \in {"left", "right"} BY DEF k
    <2>9. /\ AllKnown(k, c.at, root) /\ \A x \in DOMAIN c.heap : k[x].type = c.heap[x].type
          /\ k[c.at].left = c.heap[c.at].left
      <3>1. c.heap[c.at]["right"] = c.heap[c.at].right OBVIOUS
      <3> QED BY <1>4, <2>2, <2>4, <2>5, <2>7, <2>8, <3>1, WithChildKnown, SMTT(30)
    <2>10. c.heap[c.at].left \in DOMAIN c.heap
      <3>1. Plain(c.heap) /\ c.heap[c.at].left \in Kids(c.heap, c.at)
        BY <1>4, <2>4, LibraryKept DEF Kids
      <3> QED BY <2>7, <3>1 DEF Plain
    <2>11. /\ k[c.at]["left"] # 0
           /\ k[y].type = k[k[c.at]["left"]].type \/ k[y].type = Heap0[EmptyIR].type
      <3>1. y \in DOMAIN c.heap BY <1>4, <2>5 DEF HeapOK
      <3>2. k[y].type = c.heap[y].type /\ k[k[c.at].left].type = c.heap[c.heap[c.at].left].type
        BY <2>9, <2>10, <3>1
      <3>3. k[c.at].left # 0 BY <2>4, <2>9
      <3>4. k[y].type = k[k[c.at].left].type \/ k[y].type = Heap0[EmptyIR].type
        BY <2>4, <2>5, <2>6, <3>2
      <3> QED BY <3>3, <3>4
    <2>12. Tree(k, root) BY <1>6, <2>7
    <2>13. h = WithChild(k, c.at, "left", y) /\ "left" \in {"left", "right"} BY DEF h
    <2>14. AllKnown(h, c.at, root) /\ \A x \in DOMAIN k : h[x].type = k[x].type
      BY <1>6, <2>5, <2>7, <2>9, <2>11, <2>12, <2>13, WithChildKnown
    <2> QED BY <1>6, <2>2, <2>7, <2>9, <2>14
  <1> QED BY <1>2, <1>4, <1>7, <1>8, <1>9, <1>10, <1>11, ReplacedAlive

\* The copy of a child, or nullptr.
ChildCopy(h, c) == IF c = 0 THEN [heap |-> h, at |-> 0] ELSE Copied(h, c)

LEMMA OKChildCopy ==
  ASSUME NEW h, HeapOK(h), NEW q \in DOMAIN h, NEW c, c = 0 \/ c \in Under(h, q), NEW d,
         d = ChildCopy(h, c)
  PROVE  /\ HeapOK(d.heap) /\ Grows(h, d.heap)
         /\ d.at = 0 \/ (d.at \notin DOMAIN h /\ Tree(d.heap, d.at))
         /\ \A r : Tree(h, r) => Tree(d.heap, r) /\ r # d.at /\ Kept(h, d.heap, r)
         /\ d.at = 0 <=> c = 0
         /\ d.at # 0 => AllKnown(d.heap, d.at, q) /\ d.heap[d.at].type = h[c].type
  <1>0. Plain(h) /\ 0 \notin DOMAIN h BY LibraryKept
  <1>1. CASE c = 0
    <2>1. d.heap = h /\ d.at = 0 BY <1>1 DEF ChildCopy
    <2>2. Grows(h, h) BY DEF Grows
    <2>3. \A r : Tree(h, r) => r # 0 /\ r \in DOMAIN h BY <1>0 DEF Tree
    <2> QED BY <1>0, <1>1, <2>1, <2>2, <2>3, GrowsKeeps
  <1>2. CASE c # 0
    <2>1. d = Copied(h, c) /\ c \in DOMAIN h BY <1>0, <1>2, UnderClosed DEF ChildCopy
    <2>2. /\ HeapOK(d.heap) /\ Grows(h, d.heap)
          /\ d.at \notin DOMAIN h /\ Tree(d.heap, d.at)
          /\ \A r : Tree(h, r) => Tree(d.heap, r) /\ r # d.at
      BY <2>1, OKCopy
    <2>3. \A r : Tree(h, r) => r \in DOMAIN h BY DEF Tree
    <2>4. Plain(d.heap) BY <2>2, LibraryKept
    <2>5. AllKnown(d.heap, d.at, q) /\ d.heap[d.at].type = h[c].type
      BY <1>2, <2>1, SelfKnown, CopyKnown
    <2>6. d.at # 0 BY <2>2, NodesAreNumbers DEF Tree
    <2> QED BY <1>0, <1>2, <2>2, <2>3, <2>4, <2>5, <2>6, GrowsKeeps
  <1> QED BY <1>1, <1>2

\* strategy_replace_with_constraint: the heap with the variant bare for IR x, made
\* of the stored IR y.
Constrained(h, x, y, bare, g) ==
  LET h0 == Allocate(h, [z \in {bare} |-> [h[y] EXCEPT !.left = 0, !.right = 0]])
      l == ChildCopy(h0, h[x].left)
      r == ChildCopy(l.heap, h[x].right)
  IN g = [r.heap EXCEPT ![bare].left = l.at, ![bare].right = r.at]

\* The tests of strategy_replace_with_constraint on the children.
FitsIn(h, x, y) ==
  /\ h[x].left = 0 <=> h[y].left = 0
  /\ h[x].right = 0 <=> h[y].right = 0
  /\ h[x].left # 0 => h[h[x].left].type = h[h[y].left].type
  /\ h[x].right # 0 => h[h[x].right].type = h[h[y].right].type

LEMMA LinkRight ==
  ASSUME NEW h, HeapOK(h), NEW p, Tree(h, p), NEW v, v = 0 \/ (Tree(h, v) /\ v # p),
         NEW g, IsLink(h, g, p, "right", v)
  PROVE  /\ HeapOK(g) /\ DOMAIN g = DOMAIN h /\ Tree(g, p)
         /\ \A z \in DOMAIN h : z # p => g[z] = h[z]
         /\ \A t : t # v /\ Tree(h, t) => Tree(g, t)
         /\ \A t : t # p /\ Tree(h, t) => Kept(h, g, t)
         /\ Links(h, g, p, v)
         /\ g[p].right = v /\ g[p].left = h[p].left
         /\ Under(g, p) \subseteq Under(h, p) \cup Under(h, v)
  <1> DEFINE side == "right"
  <1>1. side \in {"left", "right"} /\ side = "right" /\ IsLink(h, g, p, side, v) OBVIOUS
  <1> HIDE DEF side
  <1> QED BY <1>1, LinkRoot

LEMMA OKConstrained ==
  ASSUME NEW h, HeapOK(h), NEW q, Tree(h, q), NEW x \in Under(h, q), NEW y \in LibraryNodes,
         NEW bare, bare = Max(DOMAIN h) + 1, NEW g, Constrained(h, x, y, bare, g)
  PROVE  /\ HeapOK(g) /\ Tree(g, bare) /\ bare \notin DOMAIN h /\ Grows(h, g)
         /\ \A t : Tree(h, t) => Tree(g, t)
         /\ g[bare].type = h[y].type
         /\ FitsIn(h, x, y) => AllKnown(g, bare, q)
  <1> DEFINE n == [h[y] EXCEPT !.left = 0, !.right = 0]
             h0 == Allocate(h, [z \in {bare} |-> n])
             l == ChildCopy(h0, h[x].left)
             r == ChildCopy(l.heap, h[x].right)
             g1 == [r.heap EXCEPT ![bare]["left"] = l.at]
  <1>0. /\ Plain(h) /\ 0 \notin DOMAIN h /\ q \in DOMAIN h /\ y \in DOMAIN h
        /\ x \in DOMAIN h
    BY LibraryKept, UnderClosed DEF Tree
  <1>1. bare \in Nat \ {0} /\ bare \notin DOMAIN h
    <2>1. PICK k \in Nat : DOMAIN h \subseteq 1..k BY <1>0 DEF Plain, Ranked
    <2>2. Max(DOMAIN h) \in DOMAIN h /\ \A z \in DOMAIN h : z <= Max(DOMAIN h)
      BY <1>0, <2>1, MaxIs
    <2>3. \A z \in DOMAIN h : z \in Nat BY <2>1
    <2> QED BY <2>2, <2>3
  <1>2. IsNode(n) /\ n.left = 0 /\ n.right = 0 /\ n.type = h[y].type /\ n.op = h[y].op
    <2>1. IsNode(h[y]) BY <1>0 DEF Plain
    <2>2. n = [type |-> h[y].type, op |-> h[y].op, data |-> h[y].data, dt |-> h[y].dt,
               left |-> 0, right |-> 0]
      BY <2>1, ExceptChildren
    <2> HIDE DEF n
    <2> QED BY <2>2 DEF IsNode
  <1>3. AddsLeaf(h, h0, bare, n) BY DEF AddsLeaf
  <1>4. g = [g1 EXCEPT ![bare]["right"] = r.at] BY DEF Constrained
  <1>5. l = ChildCopy(h0, h[x].left) /\ r = ChildCopy(l.heap, h[x].right) OBVIOUS
  <1>6. IsLink(r.heap, g1, bare, "left", l.at) /\ IsLink(g1, g, bare, "right", r.at)
    BY <1>4 DEF IsLink
  <1> HIDE DEF n, h0, l, r, g1
  <1>7. /\ HeapOK(h0) /\ Grows(h, h0) /\ Tree(h0, bare) /\ DOMAIN h0 = DOMAIN h \cup {bare}
        /\ h0[bare] = n /\ Under(h0, bare) = {bare}
        /\ \A t : Tree(h, t) => Tree(h0, t) /\ t # bare
    <2>1. IsNode(n) /\ n.left = 0 /\ n.right = 0 BY <1>2
    <2> QED BY ONLY <1>1, <1>3, <2>1, OKLeaf, HeapOK(h)
  <1>8. /\ Tree(h0, q) /\ Kept(h, h0, q) /\ q # bare /\ q \in DOMAIN h0
        /\ Plain(h0) /\ h[x].left \in Under(h0, q) \cup {0} /\ h[x].right \in Under(h0, q) \cup {0}
    <2>1. Tree(h0, q) /\ q # bare /\ Plain(h0) BY <1>7, LibraryKept
    <2>2. Kept(h, h0, q) BY <1>0, <1>7, <2>1, GrowsKeeps
    <2>3. Kids(h, x) \subseteq Under(h, q) BY <1>0, UnderClosed
    <2> QED BY <2>1, <2>2, <2>3 DEF Kids, Kept
  <1>9. /\ HeapOK(l.heap) /\ Grows(h0, l.heap)
        /\ l.at = 0 \/ (l.at \notin DOMAIN h0 /\ Tree(l.heap, l.at))
        /\ \A t : Tree(h0, t) => Tree(l.heap, t) /\ t # l.at /\ Kept(h0, l.heap, t)
        /\ l.at = 0 <=> h[x].left = 0
        /\ l.at # 0 => AllKnown(l.heap, l.at, q) /\ l.heap[l.at].type = h0[h[x].left].type
    BY <1>5, <1>7, <1>8, OKChildCopy
  <1>10. /\ Tree(l.heap, q) /\ q \in DOMAIN l.heap /\ Plain(l.heap)
         /\ h[x].right = 0 \/ h[x].right \in Under(l.heap, q)
    BY <1>8, <1>9, LibraryKept DEF Kept
  <1>11. /\ HeapOK(r.heap) /\ Grows(l.heap, r.heap)
         /\ r.at = 0 \/ (r.at \notin DOMAIN l.heap /\ Tree(r.heap, r.at))
         /\ \A t : Tree(l.heap, t) => Tree(r.heap, t) /\ t # r.at /\ Kept(l.heap, r.heap, t)
         /\ r.at = 0 <=> h[x].right = 0
         /\ r.at # 0 => AllKnown(r.heap, r.at, q) /\ r.heap[r.at].type = l.heap[h[x].right].type
    BY <1>5, <1>9, <1>10, OKChildCopy, SMTT(30)
  <1>12. Tree(r.heap, bare) /\ (l.at = 0 \/ (Tree(r.heap, l.at) /\ l.at # bare))
    BY <1>7, <1>9, <1>11
  <1>13. "left" \in {"left", "right"} /\ "right" \in {"left", "right"} OBVIOUS
  <1>14. /\ HeapOK(g1) /\ DOMAIN g1 = DOMAIN r.heap /\ Tree(g1, bare)
         /\ \A z \in DOMAIN r.heap : z # bare => g1[z] = r.heap[z]
         /\ \A t : t # l.at /\ Tree(r.heap, t) => Tree(g1, t)
         /\ \A t : t # bare /\ Tree(r.heap, t) => Kept(r.heap, g1, t)
         /\ Links(r.heap, g1, bare, l.at)
         /\ g1[bare].left = l.at /\ g1[bare].right = r.heap[bare].right
         /\ Under(g1, bare) \subseteq Under(r.heap, bare) \cup Under(r.heap, l.at)
    BY <1>6, <1>11, <1>12, <1>13, LinkRoot
  <1>15. r.at = 0 \/ (Tree(g1, r.at) /\ r.at # bare)
    <2>1. r.at # 0 => r.at # l.at /\ r.at # bare BY <1>7, <1>9, <1>11 DEF Tree
    <2> QED BY <1>11, <1>14, <2>1
  <1>16. /\ HeapOK(g) /\ DOMAIN g = DOMAIN g1 /\ Tree(g, bare)
         /\ \A z \in DOMAIN g1 : z # bare => g[z] = g1[z]
         /\ \A t : t # r.at /\ Tree(g1, t) => Tree(g, t)
         /\ \A t : t # bare /\ Tree(g1, t) => Kept(g1, g, t)
         /\ Links(g1, g, bare, r.at)
         /\ g[bare].right = r.at /\ g[bare].left = g1[bare].left
         /\ Under(g, bare) \subseteq Under(g1, bare) \cup Under(g1, r.at)
    BY <1>6, <1>14, <1>15, LinkRight
  <1>17. Grows(h, g) BY <1>1, <1>7, <1>9, <1>11, <1>14, <1>16 DEF Grows
  <1>18. \A t : Tree(h, t) => Tree(g, t)
    <2> SUFFICES ASSUME NEW t, Tree(h, t) PROVE Tree(g, t) OBVIOUS
    <2>1. Tree(h0, t) BY <1>7
    <2>2. Tree(l.heap, t) /\ t # l.at BY <1>9, <2>1
    <2>3. Tree(r.heap, t) /\ t # r.at BY <1>11, <2>2
    <2> QED BY <1>14, <1>16, <2>2, <2>3
  <1>19. r.heap[bare] = n
    <2>1. bare \in DOMAIN h0 BY <1>7
    <2> QED BY <1>7, <1>9, <1>11, <2>1 DEF Grows
  <1>20. g[bare].type = h[y].type /\ g[bare].op = h[y].op
    BY <1>2, <1>14, <1>16, <1>19 DEF Links
  <1>21. \A z \in DOMAIN r.heap : g[z].type = r.heap[z].type
    BY <1>14, <1>16 DEF Links
  <1>22. Kept(r.heap, g, q) /\ Kept(h, g, q) /\ q \in DOMAIN r.heap
    <2>1. Tree(r.heap, q) /\ q # r.at /\ q # l.at BY <1>8, <1>9, <1>11
    <2>2. Kept(r.heap, g1, q) /\ Tree(g1, q) BY <1>8, <1>14, <2>1
    <2>3. Kept(g1, g, q) BY <1>8, <1>16, <2>2
    <2>4. Kept(r.heap, g, q) BY <2>2, <2>3, KeptTwice
    <2>5. Kept(h0, l.heap, q) /\ Kept(l.heap, r.heap, q) BY <1>8, <1>9, <1>11
    <2> QED BY <1>8, <2>1, <2>4, <2>5, KeptTwice DEF Tree
  <1>23. ASSUME FitsIn(h, x, y) PROVE Known(g, bare, q)
    <2>1. Known(h, y, q)
      <3>1. AllKnown(h, y, q) BY <1>0, SelfKnown
      <3> QED BY <1>0, <3>1, UnderSelf DEF AllKnown
    <2>2. g[bare].left = l.at /\ g[bare].right = r.at BY <1>14, <1>16
    <2>3. l.at # 0 => g[l.at].type = h[h[y].left].type
      <3> SUFFICES ASSUME l.at # 0 PROVE g[l.at].type = h[h[y].left].type OBVIOUS
      <3>1. l.at \in DOMAIN l.heap /\ l.heap[l.at].type = h0[h[x].left].type BY <1>9 DEF Tree
      <3>2. r.heap[l.at] = l.heap[l.at] /\ l.at \in DOMAIN r.heap BY <1>11, <3>1 DEF Grows
      <3>3. h[x].left # 0 BY <1>9
      <3>4. h[x].left \in DOMAIN h BY <1>0, <3>3 DEF Plain, Kids
      <3>5. h0[h[x].left] = h[h[x].left] BY <1>7, <3>4 DEF Grows
      <3> QED BY <1>21, <1>23, <3>1, <3>2, <3>3, <3>5 DEF FitsIn
    <2>4. r.at # 0 => g[r.at].type = h[h[y].right].type
      <3> SUFFICES ASSUME r.at # 0 PROVE g[r.at].type = h[h[y].right].type OBVIOUS
      <3>1. r.at \in DOMAIN r.heap /\ r.heap[r.at].type = l.heap[h[x].right].type
        BY <1>11 DEF Tree
      <3>3. h[x].right # 0 BY <1>11
      <3>4. h[x].right \in DOMAIN h BY <1>0, <3>3 DEF Plain, Kids
      <3>5. l.heap[h[x].right] = h[h[x].right] BY <1>7, <1>9, <3>4 DEF Grows
      <3> QED BY <1>21, <1>23, <3>1, <3>3, <3>5 DEF FitsIn
    <2>5. (l.at = 0 <=> h[y].left = 0) /\ (r.at = 0 <=> h[y].right = 0)
      BY <1>9, <1>11, <1>23 DEF FitsIn
    <2> QED BY <1>0, <1>16, <1>20, <1>22, <2>1, <2>2, <2>3, <2>4, <2>5, KnownStays
  <1>24. \A m \in Under(g, bare) :
           \/ m = bare
           \/ l.at # 0 /\ m \in Under(r.heap, l.at)
           \/ r.at # 0 /\ m \in Under(r.heap, r.at)
    <2>1. Under(r.heap, bare) = {bare}
      <3>1. Kept(h0, l.heap, bare) /\ Tree(l.heap, bare) BY <1>7, <1>9
      <3>2. Kept(l.heap, r.heap, bare) BY <1>11, <3>1
      <3> QED BY <1>7, <3>1, <3>2 DEF Kept
    <2>2. Under(r.heap, 0) = {} /\ Under(g1, 0) = {}
      BY <1>11, <1>14, LibraryKept, UnderEquation
    <2>3. r.at # 0 => Under(g1, r.at) = Under(r.heap, r.at)
      BY <1>11, <1>14, <1>15 DEF Kept
    <2> QED BY <1>14, <1>16, <2>1, <2>2, <2>3
  <1>25. ASSUME NEW t, t # bare, Tree(r.heap, t), AllKnown(r.heap, t, q), NEW m \in Under(r.heap, t)
         PROVE  Known(g, m, q)
    <2>0. Plain(r.heap) /\ t \in DOMAIN r.heap BY <1>11, <1>25, LibraryKept DEF Tree
    <2>1. m \in DOMAIN r.heap /\ Kids(r.heap, m) \subseteq DOMAIN r.heap
      BY <2>0, UnderClosed DEF Plain
    <2>2. m # bare
      <3>1. bare \notin Under(r.heap, t) BY <1>11, <1>12, <1>25, TreesDisjoint
      <3> QED BY <3>1
    <2>3. g[m] = r.heap[m] BY <1>14, <1>16, <2>1, <2>2
    <2>4. /\ r.heap[m].left # 0 => g[r.heap[m].left].type = r.heap[r.heap[m].left].type
          /\ r.heap[m].right # 0 => g[r.heap[m].right].type = r.heap[r.heap[m].right].type
      BY <1>21, <2>1 DEF Kids
    <2>5. Known(r.heap, m, q) BY <1>25 DEF AllKnown
    <2> QED BY <1>11, <1>16, <1>22, <2>1, <2>3, <2>4, <2>5, KnownStays
  <1>26. l.at # 0 => AllKnown(r.heap, l.at, q)
    <2> SUFFICES ASSUME l.at # 0 PROVE AllKnown(r.heap, l.at, q) OBVIOUS
    <2>1. Tree(l.heap, l.at) /\ AllKnown(l.heap, l.at, q) BY <1>9
    <2>2. Kept(l.heap, r.heap, l.at) /\ Kept(l.heap, r.heap, q) BY <1>10, <1>11, <2>1
    <2>3. l.at \in DOMAIN l.heap BY <2>1 DEF Tree
    <2> QED BY <1>9, <1>10, <1>11, <2>1, <2>2, <2>3, KeptKnown
  <1>27. ASSUME FitsIn(h, x, y) PROVE AllKnown(g, bare, q)
    <2> SUFFICES ASSUME NEW m \in Under(g, bare) PROVE Known(g, m, q) BY DEF AllKnown
    <2>1. CASE m = bare BY <1>23, <1>27, <2>1
    <2>2. CASE l.at # 0 /\ m \in Under(r.heap, l.at) BY <1>12, <1>25, <1>26, <2>2
    <2>3. CASE r.at # 0 /\ m \in Under(r.heap, r.at) BY <1>11, <1>15, <1>25, <2>3
    <2> QED BY <1>24, <2>1, <2>2, <2>3
  <1> QED BY <1>1, <1>16, <1>17, <1>18, <1>20, <1>27

LEMMA ConstraintReplacesStep ==
  ASSUME MInv, ConstraintReplaces
  PROVE  /\ MInv' /\ Fixed /\ Steady
         /\ Kids(heap, irs[1]) # {} => \E at : Grafted(at)
  <1> DEFINE bare == Max(DOMAIN heap) + 1
  <1>1. PICK y \in RandomIRs(heap[irs[1]].type) :
          /\ Constrained(heap, irs[1], y, bare, heap') /\ variants' = Append(variants, bare)
          /\ Fits(irs[1], y)
    BY DEF ConstraintReplaces, Constrained, ChildCopy
  <1>2. /\ pc = "mutate" /\ pc' = pc
        /\ UNCHANGED <<root, irs, new_ir_tree, backup, record_, res>>
    BY DEF ConstraintReplaces
  <1>3. HeapOK(heap) /\ irs[1] \in DOMAIN heap /\ (record_ # 0 => record_ \in DOMAIN heap)
    BY <1>2, TestCaseTree DEF MInv, Grown, Stage
  <1>4. y \in LibraryNodes /\ Tree(heap, root) /\ irs[1] \in Under(heap, root)
    BY <1>2, RandomIRStored, TestCaseTree DEF MInv, Stage
  <1>5. bare = Max(DOMAIN heap) + 1 OBVIOUS
  <1> HIDE DEF bare
  <1>6. /\ HeapOK(heap') /\ Tree(heap', bare) /\ bare \notin DOMAIN heap /\ Grows(heap, heap')
        /\ \A t : Tree(heap, t) => Tree(heap', t)
        /\ heap'[bare].type = heap[y].type
        /\ FitsIn(heap, irs[1], y) => AllKnown(heap', bare, root)
    BY <1>1, <1>3, <1>4, <1>5, OKConstrained
  <1>7. \A r \in Held : Tree(heap', r) /\ Kept(heap, heap', r)
    <2>1. Plain(heap) /\ Plain(heap') BY <1>3, <1>6, LibraryKept
    <2> QED BY <1>6, <2>1, TestCaseTree, GrowsKeeps
  <1>8. record_ # 0 => record_ \in DOMAIN heap' BY <1>3, <1>6 DEF Grows
  <1>9. FitsIn(heap, irs[1], y) BY <1>1 DEF Fits, FitsIn
  <1>10. ASSUME Kids(heap, irs[1]) # {} PROVE Grafted(bare)
    <2>1. Kids(heap, y) # {} BY <1>9, <1>10 DEF FitsIn, Kids
    <2>2. heap[y].type = heap[irs[1]].type BY <1>3, <2>1, RandomIRType
    <2> QED BY <1>1, <1>6, <1>9, <2>2 DEF Grafted
  <1> QED BY <1>1, <1>2, <1>6, <1>7, <1>8, <1>10, VariantAdded

LEMMA CopyTreeStep ==
  ASSUME MInv, CopyTree
  PROVE  /\ MInv' /\ Fixed /\ Steady
         /\ AllKnown(heap', new_ir_tree', root) /\ heap'[record_'].type = heap[irs[1]].type
         /\ \A w : Substituted(heap', new_ir_tree', record_', w) = Substituted(heap, root, irs[1], w)
  <1> DEFINE c == Copied(heap, root)
  <1>1. /\ pc = "variants" /\ pc' = "replace" /\ variants # <<>>
        /\ heap' = c.heap /\ new_ir_tree' = c.at /\ record_' = c.of[irs[1]]
        /\ UNCHANGED <<root, irs, variants, backup, res>>
    BY DEF CopyTree
  <1>2. /\ HeapOK(heap) /\ Plain(heap) /\ root \in DOMAIN heap
        /\ irs[1] \in Under(heap, root) /\ irs[1] # root /\ new_ir_tree = 0 /\ backup = 0
    BY <1>1, TestCaseTree DEF MInv, Grown, Stage
  <1>3. /\ HeapOK(c.heap) /\ Grows(heap, c.heap)
        /\ c.at \notin DOMAIN heap /\ Tree(c.heap, c.at)
        /\ \A r : Tree(heap, r) => Tree(c.heap, r) /\ r # c.at
    BY <1>2, OKCopy
  <1>4. PICK f : IsCopy(heap, root, c, f) BY <1>2, CopiedIs
  <1> HIDE DEF c
  <1>5. Copies(heap, root, c.heap, f) /\ c.at = f[root] /\ c.of[irs[1]] = f[irs[1]]
    BY <1>2, <1>4 DEF IsCopy
  <1>6. root \in Under(heap, root) BY <1>2, UnderSelf
  <1>7. record_' \in Under(heap', new_ir_tree')
    <2>1. Under(c.heap, f[root]) = {f[z] : z \in Under(heap, root)}
      BY <1>2, <1>5, <1>6, CopyUnder
    <2> QED BY <1>1, <1>2, <1>5, <2>1
  <1>8. record_' # new_ir_tree'
    <2>1. f[irs[1]] = f[root] => irs[1] = root BY <1>2, <1>5, <1>6 DEF Copies
    <2> QED BY <1>1, <1>2, <1>5, <2>1
  <1>9. HeapOK(heap') /\ Plain(heap') /\ new_ir_tree' \in DOMAIN heap' /\ Tree(heap', new_ir_tree')
    BY <1>1, <1>3, LibraryKept DEF Tree
  <1>10. record_' \in DOMAIN heap' BY <1>7, <1>9, UnderClosed
  <1>11. new_ir_tree' # 0 BY <1>9, NodesAreNumbers
  <1>12. new_ir_tree' \notin Held BY <1>1, <1>3, TestCaseTree
  <1>13. Held' = Held /\ Finished' = Finished BY <1>1 DEF Held, Finished
  <1>14. Apart' BY <1>1, <1>2, <1>11, <1>12, <1>13 DEF MInv, Apart
  <1>15. \A r \in Held : Tree(heap', r) BY <1>1, <1>3, TestCaseTree
  <1>16. Grown' BY <1>1, <1>2, <1>9, <1>10, <1>13, <1>15 DEF Grown
  <1>17. Fixed /\ Steady /\ Under(heap', root') = Under(heap, root)
    <2>1. Grows(heap, heap') BY <1>1, <1>3
    <2>2. \A r \in Held : r \in DOMAIN heap BY TestCaseTree
    <2>3. \A r \in Held : Kept(heap, heap', r) BY <1>2, <1>9, <2>1, <2>2, GrowsKeeps
    <2>4. \A r \in Finished : Kept(heap, heap', r) BY <2>3 DEF Held
    <2> QED BY <1>1, <1>9, <2>3, <2>4, KeptStep DEF Steady
  <1>18. Stage' BY <1>1, <1>2, <1>7, <1>8, <1>11, <1>17 DEF MInv, Stage
  <1>19. AllKnown(heap', new_ir_tree', root)
    <2>1. AllKnown(heap, root, root) BY <1>2, <1>6, SelfKnown
    <2> QED BY <1>1, <1>2, <2>1, CopyKnown DEF c
  <1>20. heap'[record_'].type = heap[irs[1]].type
    <2>1. heap'[f[irs[1]]] = [type |-> heap[irs[1]].type, op |-> heap[irs[1]].op,
                              data |-> heap[irs[1]].data, dt |-> heap[irs[1]].dt,
                              left |-> f[heap[irs[1]].left], right |-> f[heap[irs[1]].right]]
      BY <1>1, <1>2, <1>5 DEF Copies
    <2> QED BY <1>1, <1>5, <2>1
  <1>21. \A w : Substituted(heap', new_ir_tree', record_', w) = Substituted(heap, root, irs[1], w)
    <2>1. \A w : Substituted(c.heap, f[root], f[irs[1]], w) = Substituted(heap, root, irs[1], w)
      BY <1>1, <1>2, <1>5, <1>9, CopyValue
    <2> QED BY <1>1, <1>5, <2>1
  <1> QED BY <1>14, <1>16, <1>17, <1>18, <1>19, <1>20, <1>21 DEF MInv

LEMMA ReplaceStep ==
  ASSUME MInv, Replace
  PROVE  /\ MInv' /\ Fixed /\ Steady
         /\ /\ AllKnown(heap, new_ir_tree, root) /\ AllKnown(heap, variants[1], root)
            /\ heap[variants[1]].type = heap[record_].type
            => AllKnown(heap', new_ir_tree', root)
         /\ Value(heap', new_ir_tree')
              = Substituted(heap, new_ir_tree, record_, Value(heap, variants[1]))
  <1>1. PICK p \in Parents(heap, new_ir_tree, record_) :
          LET side == IF heap[p].left = record_ THEN "left" ELSE "right"
          IN heap' = [heap EXCEPT ![p][side] = variants[1]]
    BY DEF Replace
  <1> DEFINE side == IF heap[p].left = record_ THEN "left" ELSE "right"
             v == variants[1]
  <1>2. /\ pc = "replace" /\ pc' = "backup" /\ variants' = Tail(variants)
        /\ UNCHANGED <<root, irs, new_ir_tree, backup, record_, res>>
    BY DEF Replace
  <1>3. /\ IsLink(heap, heap', p, side, v) /\ side \in {"left", "right"}
        /\ heap[p][side] = record_ /\ record_ # 0
    <2>1. record_ \in Kids(heap, p) BY <1>1 DEF Parents
    <2>2. heap[p][side] = record_ /\ record_ # 0 BY <2>1 DEF Kids
    <2> QED BY <1>1, <2>2 DEF IsLink
  <1>4. /\ HeapOK(heap) /\ Tree(heap, new_ir_tree) /\ new_ir_tree # 0 /\ backup = 0
        /\ variants # <<>> /\ record_ \in Under(heap, new_ir_tree)
        /\ variants \in Seq(Nat) /\ Inj(variants) /\ new_ir_tree \notin Held
    BY <1>2 DEF MInv, Grown, Stage, Apart
  <1>5. /\ v \in PointersOf(variants) /\ Tail(variants) \in Seq(Nat) /\ Inj(Tail(variants))
        /\ PointersOf(Tail(variants)) \subseteq PointersOf(variants)
        /\ v \notin PointersOf(Tail(variants))
    BY <1>4, TailPointers
  <1> HIDE DEF side, v
  <1>6. v \in Held /\ Tree(heap, v) BY <1>5, TestCaseTree DEF Held
  <1>7. Plain(heap) /\ new_ir_tree \in DOMAIN heap BY <1>4, LibraryKept DEF Tree
  <1>8. p \in Under(heap, new_ir_tree) BY <1>1 DEF Parents
  <1>9. p \in DOMAIN heap /\ p \notin LibraryNodes
    BY <1>4, <1>7, <1>8, UnderClosed, OutsideLibrary DEF Tree
  <1>10. \A r \in Held : p \notin Under(heap, r)
    <2>1. \A r \in Held : Under(heap, r) \cap Under(heap, new_ir_tree) = {}
      BY <1>4, TestCaseTree, TreesDisjoint
    <2> QED BY <1>8, <2>1
  <1>11. Links(heap, heap', p, v) BY <1>3, <1>7, <1>9, LinkIs
  <1>12. /\ HeapOK(heap') /\ DOMAIN heap' = DOMAIN heap
         /\ \A r : r # v /\ Tree(heap, r) => Tree(heap', r)
         /\ \A r \in DOMAIN heap : p \notin Under(heap, r) => Kept(heap, heap', r)
         /\ \A r \in DOMAIN heap : Under(heap', r) \subseteq Under(heap, r) \cup Under(heap, v)
    BY <1>4, <1>6, <1>9, <1>10, <1>11, OKLink
  <1>13. Finished' = Finished /\ Held' \subseteq Held /\ v \notin Finished /\ v \notin Held'
    <2>1. v \notin Finished BY <1>5 DEF MInv, Apart
    <2>2. Finished' = Finished BY <1>2 DEF Finished
    <2> QED BY <1>2, <1>5, <2>1, <2>2 DEF Held
  <1>14. Apart' BY <1>2, <1>4, <1>5, <1>13 DEF MInv, Apart, Held
  <1>15. Grown'
    <2>1. \A r \in Held' : Tree(heap', r) BY <1>12, <1>13, TestCaseTree
    <2>2. Tree(heap', new_ir_tree) BY <1>4, <1>6, <1>12
    <2> QED BY <1>2, <1>4, <1>12, <2>1, <2>2 DEF MInv, Grown
  <1>16. Fixed /\ Steady /\ Under(heap', root') = Under(heap, root)
    <2>1. \A r \in Held : Kept(heap, heap', r) BY <1>10, <1>12, TestCaseTree
    <2>2. \A r \in Finished : Kept(heap, heap', r) BY <2>1 DEF Held
    <2> QED BY <1>2, <1>12, <2>1, <2>2, KeptStep DEF Steady
  <1>17. Stage' BY <1>2, <1>4, <1>16 DEF MInv, Stage
  <1>18. ASSUME AllKnown(heap, new_ir_tree, root), AllKnown(heap, v, root),
                heap[v].type = heap[record_].type
         PROVE  AllKnown(heap', new_ir_tree, root)
    <2>1. root \in DOMAIN heap /\ Kept(heap, heap', root) /\ v \in DOMAIN heap
      BY <1>6, <1>10, <1>12, TestCaseTree DEF Held, Finished
    <2>2. Under(heap', new_ir_tree) \subseteq Under(heap, new_ir_tree) \cup Under(heap, v)
      BY <1>7, <1>12
    <2>3. heap[p][side] # 0 /\ heap[v].type = heap[heap[p][side]].type BY <1>3, <1>18
    <2> QED BY <1>3, <1>4, <1>7, <1>9, <1>12, <1>18, <2>1, <2>2, <2>3, LinkKnown
  <1>19. Value(heap', new_ir_tree) = Substituted(heap, new_ir_tree, record_, Value(heap, v))
    <2>1. Sound(heap) /\ Plain(heap') /\ v \in DOMAIN heap BY <1>6, <1>12, LibraryKept, TestCaseTree
    <2>2. Kept(heap, heap', v) BY <1>6, <1>10, <1>12, <2>1
    <2>3. record_ # new_ir_tree BY <1>2 DEF MInv, Stage
    <2> QED BY <1>3, <1>7, <1>9, <2>1, <2>2, <2>3, LinkValue
  <1> QED BY <1>2, <1>14, <1>15, <1>16, <1>17, <1>18, <1>19 DEF MInv, v

LEMMA BackupStep ==
  ASSUME MInv, Backup
  PROVE  /\ MInv' /\ Fixed /\ Steady
         /\ AllKnown(heap, new_ir_tree, root) => AllKnown(heap', backup', root)
         /\ Value(heap', backup') = Value(heap, new_ir_tree)
         /\ IRToString(heap', new_ir_tree') = Structure(heap', backup')
  <1> DEFINE c == Copied(heap, new_ir_tree)
  <1>1. /\ pc = "backup" /\ pc' = "dedup" /\ backup' = c.at
        /\ heap' = ExtractStructure(c.heap, new_ir_tree)
        /\ UNCHANGED <<root, irs, variants, new_ir_tree, record_, res>>
    BY DEF Backup
  <1>2. /\ HeapOK(heap) /\ Tree(heap, new_ir_tree) /\ new_ir_tree # 0 /\ backup = 0
        /\ new_ir_tree \notin Held /\ (record_ # 0 => record_ \in DOMAIN heap)
    BY <1>1 DEF MInv, Grown, Stage, Apart
  <1>3. new_ir_tree \in DOMAIN heap /\ Plain(heap) BY <1>2, LibraryKept DEF Tree
  <1>4. /\ HeapOK(c.heap) /\ Grows(heap, c.heap)
        /\ c.at \notin DOMAIN heap /\ Tree(c.heap, c.at)
        /\ \A r : Tree(heap, r) => Tree(c.heap, r) /\ r # c.at
    BY <1>2, <1>3, OKCopy
  <1> HIDE DEF c
  <1>5. /\ HeapOK(heap') /\ DOMAIN c.heap \subseteq DOMAIN heap'
        /\ \A r : Tree(c.heap, r) => Tree(heap', r)
        /\ \A r : Tree(c.heap, r) /\ r # new_ir_tree => Kept(c.heap, heap', r)
    <2>1. Tree(c.heap, new_ir_tree) BY <1>2, <1>4
    <2> QED BY <1>1, <1>4, <2>1, OKExtract
  <1>6. \A r \in Held : Tree(heap', r) /\ Kept(heap, heap', r)
    <2> SUFFICES ASSUME NEW r \in Held PROVE Tree(heap', r) /\ Kept(heap, heap', r) OBVIOUS
    <2>1. Tree(heap, r) /\ r \in DOMAIN heap /\ r # new_ir_tree BY <1>2, TestCaseTree
    <2>2. Plain(c.heap) BY <1>4, LibraryKept
    <2>3. Kept(heap, c.heap, r) BY <1>3, <1>4, <2>1, <2>2, GrowsKeeps
    <2> QED BY <1>4, <1>5, <2>1, <2>3, KeptTwice
  <1>7. Held' = Held /\ Finished' = Finished BY <1>1 DEF Held, Finished
  <1>8. c.at # 0 /\ c.at # new_ir_tree /\ c.at \notin Held
    <2>1. c.at # 0 BY <1>4, NodesAreNumbers DEF Tree
    <2> QED BY <1>2, <1>4, <2>1, TestCaseTree
  <1>9. Apart' BY <1>1, <1>7, <1>8 DEF MInv, Apart
  <1>10. Grown'
    <2>1. Tree(heap', new_ir_tree) /\ Tree(heap', c.at) BY <1>2, <1>4, <1>5
    <2>2. record_ # 0 => record_ \in DOMAIN heap' BY <1>2, <1>4, <1>5 DEF Grows
    <2> QED BY <1>1, <1>5, <1>6, <1>7, <2>1, <2>2 DEF Grown
  <1>11. Fixed /\ Steady /\ Under(heap', root') = Under(heap, root)
    <2>1. \A r \in Finished : Kept(heap, heap', r) BY <1>6 DEF Held
    <2> QED BY <1>1, <1>5, <1>6, <2>1, KeptStep DEF Steady
  <1>12. Stage' BY <1>1, <1>2, <1>8, <1>11 DEF MInv, Stage
  <1>13. ASSUME AllKnown(heap, new_ir_tree, root) PROVE AllKnown(heap', c.at, root)
    <2>1. root \in DOMAIN heap /\ Tree(heap, root) /\ root # new_ir_tree
      BY <1>2, TestCaseTree DEF Held, Finished
    <2>2. AllKnown(c.heap, c.at, root) BY <1>2, <1>3, <1>13, <2>1, CopyKnown DEF c
    <2>3. Tree(c.heap, root) /\ root \in DOMAIN c.heap /\ c.at \in DOMAIN c.heap /\ c.at # new_ir_tree
      BY <1>4, <1>8, <2>1 DEF Tree
    <2>4. Kept(c.heap, heap', c.at) /\ Kept(c.heap, heap', root) BY <1>4, <1>5, <2>1, <2>3
    <2> QED BY <1>4, <1>5, <2>2, <2>3, <2>4, KeptKnown
  <1>14. Value(heap', c.at) = Value(heap, new_ir_tree)
    <2>1. Plain(c.heap) /\ Plain(heap') /\ c.at \in DOMAIN c.heap
      BY <1>4, <1>5, LibraryKept DEF Tree
    <2>2. PICK f : IsCopy(heap, new_ir_tree, c, f) BY <1>3, CopiedIs DEF c
    <2>3. Value(c.heap, c.at) = Value(heap, new_ir_tree)
      BY <1>3, <2>1, <2>2, CopyValue DEF IsCopy
    <2>4. Kept(c.heap, heap', c.at) BY <1>4, <1>5, <1>8
    <2> QED BY <2>1, <2>3, <2>4, KeptValue DEF Value
  <1>15. IRToString(heap', new_ir_tree') = Structure(heap', c.at)
    <2>1. /\ Sound(heap) /\ Sound(c.heap) /\ Sound(heap')
          /\ new_ir_tree \in DOMAIN c.heap /\ c.at \in DOMAIN c.heap
      BY <1>2, <1>3, <1>4, <1>5 DEF HeapOK, Grows, Tree
    <2>2. PICK f : IsCopy(heap, new_ir_tree, c, f) BY <1>3, CopiedIs DEF c
    <2>3. Structure(c.heap, c.at) = Structure(heap, new_ir_tree)
      BY <1>3, <2>1, <2>2, CopyStructure DEF IsCopy
    <2>4. Structure(c.heap, new_ir_tree) = Structure(heap, new_ir_tree)
      <3>1. Plain(c.heap) BY <1>4, LibraryKept
      <3>2. Kept(heap, c.heap, new_ir_tree) BY <1>3, <1>4, <3>1, GrowsKeeps
      <3> QED BY <1>3, <2>1, <3>2, KeptStructure
    <2>5. Structure(heap', c.at) = Structure(c.heap, c.at)
      BY <1>4, <1>5, <1>8, <2>1, KeptStructure
    <2>6. IRToString(heap', new_ir_tree') = Structure(c.heap, new_ir_tree)
      BY <1>1 DEF Structure
    <2> QED BY <2>3, <2>4, <2>5, <2>6
  <1> QED BY <1>1, <1>9, <1>10, <1>11, <1>12, <1>13, <1>14, <1>15 DEF MInv

\* What the end of the loop body keeps alive.
LEMMA EndOfBodyKeeps ==
  ASSUME MInv, pc = "dedup", NEW Q, Q \subseteq {backup}, EndOfBody(Q)
  PROVE  /\ HeapOK(heap') /\ \A r \in Held \cup Q : Tree(heap', r) /\ Kept(heap, heap', r)
         /\ record_ # 0 => record_ \in DOMAIN heap'
         /\ Fixed /\ Steady /\ Under(heap', root') = Under(heap, root)
         /\ new_ir_tree' = 0 /\ backup' = 0 /\ pc' = "variants" /\ irs # <<>> /\ irs[1] # root
         /\ UNCHANGED <<root, irs, variants, record_>>
  <1> DEFINE P == {root, record_} \cup PointersOf(variants) \cup PointersOf(res) \cup Q
  <1>1. /\ heap' = Alive(heap, P) /\ new_ir_tree' = 0 /\ backup' = 0 /\ pc' = "variants"
        /\ UNCHANGED <<root, irs, variants, record_>>
    BY DEF EndOfBody
  <1>2. /\ HeapOK(heap) /\ (record_ # 0 => record_ \in DOMAIN heap) /\ irs # <<>>
        /\ irs[1] # root /\ backup # 0 /\ Tree(heap, backup)
    BY DEF MInv, Grown, Stage
  <1>3. \A r \in Held \cup Q : Tree(heap, r) /\ r \in DOMAIN heap /\ r # 0
    BY <1>2, TestCaseTree DEF Tree
  <1>4. P = Held \cup Q \cup {record_} BY DEF Held, Finished
  <1> HIDE DEF P
  <1>5. \A x \in P : x = 0 \/ x \in DOMAIN heap BY <1>2, <1>3, <1>4
  <1>6. /\ HeapOK(heap')
        /\ \A x \in P : x # 0 => Kept(heap, heap', x) /\ (Tree(heap, x) => Tree(heap', x))
    BY <1>1, <1>2, <1>5, OKAlive
  <1>7. \A r \in Held \cup Q : Tree(heap', r) /\ Kept(heap, heap', r) BY <1>3, <1>4, <1>6
  <1>8. record_ # 0 => record_ \in DOMAIN heap' BY <1>4, <1>6 DEF Kept
  <1>9. Fixed /\ Steady /\ Under(heap', root') = Under(heap, root)
    <2>1. \A r \in Finished : Kept(heap, heap', r) BY <1>7 DEF Held
    <2> QED BY <1>1, <1>6, <1>7, <2>1, KeptStep DEF Steady
  <1> QED BY <1>1, <1>2, <1>6, <1>7, <1>8, <1>9

LEMMA DropKnownStep ==
  ASSUME MInv, DropKnown
  PROVE  MInv' /\ Fixed /\ Steady
  <1>1. pc = "dedup" /\ EndOfBody({}) /\ res' = res BY DEF DropKnown
  <1>2. /\ HeapOK(heap') /\ (\A r \in Held : Tree(heap', r))
        /\ record_ # 0 => record_ \in DOMAIN heap'
    BY <1>1, EndOfBodyKeeps
  <1>3. /\ Fixed /\ Steady /\ Under(heap', root') = Under(heap, root)
        /\ new_ir_tree' = 0 /\ backup' = 0 /\ pc' = "variants" /\ irs # <<>> /\ irs[1] # root
        /\ UNCHANGED <<root, irs, variants, record_>>
    BY <1>1, EndOfBodyKeeps
  <1>4. Held' = Held /\ Finished' = Finished BY <1>1, <1>3 DEF Held, Finished
  <1>5. 0 \notin Held BY TestCaseTree
  <1>6. Apart' BY <1>1, <1>3, <1>4, <1>5 DEF MInv, Apart
  <1>7. Grown' BY <1>2, <1>3, <1>4 DEF Grown
  <1>8. Stage' BY <1>3 DEF MInv, Stage
  <1> QED BY <1>3, <1>6, <1>7, <1>8 DEF MInv

LEMMA KeepNewStep ==
  ASSUME MInv, KeepNew
  PROVE  MInv' /\ Fixed /\ Steady
  <1>1. pc = "dedup" /\ EndOfBody({backup}) /\ res' = Append(res, backup) BY DEF KeepNew
  <1>2. /\ HeapOK(heap') /\ (\A r \in Held \cup {backup} : Tree(heap', r))
        /\ record_ # 0 => record_ \in DOMAIN heap'
    BY <1>1, EndOfBodyKeeps
  <1>3. /\ Fixed /\ Steady /\ Under(heap', root') = Under(heap, root)
        /\ new_ir_tree' = 0 /\ backup' = 0 /\ pc' = "variants" /\ irs # <<>> /\ irs[1] # root
        /\ UNCHANGED <<root, irs, variants, record_>>
    BY <1>1, EndOfBodyKeeps
  <1>4. /\ res \in Seq(Nat) /\ Inj(res) /\ backup \notin Held
        /\ HeapOK(heap) /\ Tree(heap, backup) /\ backup # 0
    BY <1>1 DEF MInv, Apart, Grown, Stage
  <1>5. backup \in Nat BY <1>4, NodesAreNumbers DEF Tree
  <1>6. /\ res' \in Seq(Nat) /\ Inj(res') /\ PointersOf(res') = PointersOf(res) \cup {backup}
    <2>1. backup \notin PointersOf(res) BY <1>4 DEF Held, Finished
    <2> QED BY <1>1, <1>4, <1>5, <2>1, AppendPointers
  <1>7. Held' = Held \cup {backup} /\ Finished' = Finished \cup {backup}
    BY <1>3, <1>6 DEF Held, Finished
  <1>8. 0 \notin Held BY TestCaseTree
  <1>9. Apart' BY <1>3, <1>4, <1>6, <1>7, <1>8 DEF MInv, Apart, Held, Finished
  <1>10. Grown' BY <1>2, <1>3, <1>7 DEF Grown
  <1>11. Stage' BY <1>3 DEF MInv, Stage
  <1> QED BY <1>3, <1>9, <1>10, <1>11 DEF MInv

LEMMA NextMInv ==
  ASSUME MInv, [Next]_vars
  PROVE  MInv' /\ Fixed /\ Steady
  <1>1. CASE SkipIR \/ MutateIR \/ ConstraintFails \/ ReplaceNothing \/ NextIR \/ Return
    BY <1>1, SimpleSteps
  <1>2. CASE ConstraintReplaces BY <1>2, ConstraintReplacesStep
  <1>3. CASE \E side \in {"left", "right"} : ReplaceChild(side) BY <1>3, ReplaceChildStep
  <1>4. CASE ReplaceBoth BY <1>4, ReplaceBothStep
  <1>5. CASE CopyTree BY <1>5, CopyTreeStep
  <1>6. CASE Replace BY <1>6, ReplaceStep
  <1>7. CASE Backup BY <1>7, BackupStep
  <1>8. CASE DropKnown BY <1>8, DropKnownStep
  <1>9. CASE KeepNew BY <1>9, KeepNewStep
  <1>10. CASE UNCHANGED vars
    <2>1. Apart' /\ Grown' /\ Fixed /\ Steady /\ Under(heap', root') = Under(heap, root)
      BY <1>10, SameHeapStep DEF vars
    <2>2. Stage' BY <1>10, <2>1 DEF vars, MInv, Stage
    <2> QED BY <2>1, <2>2 DEF MInv
  <1> QED BY <1>1, <1>2, <1>3, <1>4, <1>5, <1>6, <1>7, <1>8, <1>9, <1>10 DEF Next

-----------------------------------------------------------------------------
(***************************************************************************)
(* MutateIRs keeps every tree it holds apart from the others, the library  *)
(* unchanged, and record_ inside the copy where it is about to be replaced.*)
(***************************************************************************)
THEOREM MutationInvariant == Spec => []MInv
  <1>1. Init => MInv BY InitMInv
  <1>2. MInv /\ [Next]_vars => MInv' BY NextMInv
  <1> QED BY <1>1, <1>2, PTL DEF Spec

LEMMA JoinPointers ==
  ASSUME NEW s \in Seq(Nat), NEW t \in Seq(Nat), Inj(s), Inj(t),
         PointersOf(s) \cap PointersOf(t) = {}
  PROVE  /\ s \o t \in Seq(Nat) /\ Inj(s \o t)
         /\ PointersOf(s \o t) \subseteq PointersOf(s) \cup PointersOf(t)
  <1> DEFINE u == s \o t
  <1>1. /\ Len(s) \in Nat /\ Len(t) \in Nat /\ DOMAIN s = 1..Len(s) /\ DOMAIN t = 1..Len(t)
        /\ u \in Seq(Nat) /\ DOMAIN u = 1..(Len(s) + Len(t))
        /\ \A k \in 1..(Len(s) + Len(t)) : u[k] = IF k <= Len(s) THEN s[k] ELSE t[k - Len(s)]
    OBVIOUS
  <1> HIDE DEF u
  <1>2. \A k \in DOMAIN u : \/ k \in DOMAIN s /\ u[k] = s[k]
                            \/ k - Len(s) \in DOMAIN t /\ u[k] = t[k - Len(s)]
    BY <1>1
  <1>3. PointersOf(u) \subseteq PointersOf(s) \cup PointersOf(t) BY <1>2 DEF PointersOf
  <1>4. ASSUME NEW i \in DOMAIN u, NEW j \in DOMAIN u, u[i] = u[j] PROVE i = j
    <2>0. i \in Int /\ j \in Int BY <1>1
    <2>1. CASE i \in DOMAIN s /\ u[i] = s[i]
      <3>1. u[j] \notin PointersOf(t) BY <1>4, <2>1 DEF PointersOf
      <3>2. j \in DOMAIN s /\ u[j] = s[j] BY <1>2, <3>1 DEF PointersOf
      <3> QED BY <1>4, <2>1, <3>2 DEF Inj
    <2>2. CASE i - Len(s) \in DOMAIN t /\ u[i] = t[i - Len(s)]
      <3>1. u[j] \notin PointersOf(s) BY <1>4, <2>2 DEF PointersOf
      <3>2. j - Len(s) \in DOMAIN t /\ u[j] = t[j - Len(s)] BY <1>2, <3>1 DEF PointersOf
      <3>3. i - Len(s) = j - Len(s) BY <1>4, <2>2, <3>2 DEF Inj
      <3> QED BY <1>1, <2>0, <3>3
    <2> QED BY <1>2, <2>1, <2>2
  <1> QED BY <1>1, <1>3, <1>4 DEF Inj, u

LEMMA TreesInjective ==
  ASSUME MInv
  PROVE  Inj(Trees) /\ \A i \in DOMAIN Trees : Tree(heap, Trees[i])
  <1> DEFINE N == IF new_ir_tree = 0 THEN <<>> ELSE <<new_ir_tree>>
             B == IF backup = 0 THEN <<>> ELSE <<backup>>
             t0 == <<root>>
             t1 == t0 \o res
             t2 == t1 \o variants
             t3 == t2 \o N
             t4 == t3 \o B
  <1>1. /\ res \in Seq(Nat) /\ variants \in Seq(Nat) /\ Inj(res) /\ Inj(variants)
        /\ root \notin PointersOf(res)
        /\ Finished \cap PointersOf(variants) = {}
        /\ new_ir_tree \notin Held /\ backup \notin Held
        /\ new_ir_tree = backup => new_ir_tree = 0
    BY DEF MInv, Apart
  <1>2. /\ HeapOK(heap) /\ (\A r \in Held : Tree(heap, r))
        /\ new_ir_tree # 0 => Tree(heap, new_ir_tree)
        /\ backup # 0 => Tree(heap, backup)
    BY DEF MInv, Grown
  <1>3. /\ root \in Nat /\ (new_ir_tree # 0 => new_ir_tree \in Nat)
        /\ backup # 0 => backup \in Nat
    BY <1>2, NodesAreNumbers, TestCaseTree DEF Tree
  <1>4. ASSUME NEW a \in Nat
        PROVE  <<a>> \in Seq(Nat) /\ Inj(<<a>>) /\ PointersOf(<<a>>) = {a}
    BY DEF Inj, PointersOf
  <1>5. <<>> \in Seq(Nat) /\ Inj(<<>>) /\ PointersOf(<<>>) = {} BY DEF Inj, PointersOf
  <1>6. /\ N \in Seq(Nat) /\ Inj(N)
        /\ PointersOf(N) = IF new_ir_tree = 0 THEN {} ELSE {new_ir_tree}
    BY <1>3, <1>4, <1>5
  <1>7. B \in Seq(Nat) /\ Inj(B) /\ PointersOf(B) = IF backup = 0 THEN {} ELSE {backup}
    BY <1>3, <1>4, <1>5
  <1>8. t0 \in Seq(Nat) /\ Inj(t0) /\ PointersOf(t0) = {root} BY <1>3, <1>4
  <1> HIDE DEF N, B, t0
  <1>9. t1 \in Seq(Nat) /\ Inj(t1) /\ PointersOf(t1) \subseteq Finished
    <2>1. PointersOf(t0) \cap PointersOf(res) = {} BY <1>1, <1>8
    <2>2. PointersOf(t1) \subseteq PointersOf(t0) \cup PointersOf(res) /\ Inj(t1) /\ t1 \in Seq(Nat)
      BY <1>1, <1>8, <2>1, JoinPointers
    <2> QED BY <1>8, <2>2 DEF Finished
  <1> HIDE DEF t1
  <1>10. t2 \in Seq(Nat) /\ Inj(t2) /\ PointersOf(t2) \subseteq Held
    BY <1>1, <1>9, JoinPointers DEF Held
  <1> HIDE DEF t2
  <1>11. t3 \in Seq(Nat) /\ Inj(t3) /\ PointersOf(t3) \subseteq Held \cup ({new_ir_tree} \ {0})
    <2>1. PointersOf(t2) \cap PointersOf(N) = {} BY <1>1, <1>6, <1>10
    <2>2. PointersOf(N) \subseteq {new_ir_tree} \ {0} BY <1>6
    <2> QED BY <1>6, <1>10, <2>1, <2>2, JoinPointers
  <1> HIDE DEF t3
  <1>12. /\ t4 \in Seq(Nat) /\ Inj(t4)
         /\ PointersOf(t4) \subseteq Held \cup ({new_ir_tree, backup} \ {0})
    <2>1. PointersOf(t3) \cap PointersOf(B) = {} BY <1>1, <1>7, <1>11
    <2>2. PointersOf(B) \subseteq {backup} \ {0} BY <1>7
    <2>3. PointersOf(t4) \subseteq PointersOf(t3) \cup PointersOf(B) /\ Inj(t4) /\ t4 \in Seq(Nat)
      BY <1>7, <1>11, <2>1, JoinPointers
    <2> QED BY <1>11, <2>2, <2>3
  <1>13. Trees = t4 BY DEF Trees, N, B, t0, t1, t2, t3
  <1> HIDE DEF t4
  <1>14. \A i \in DOMAIN t4 : Tree(heap, t4[i])
    <2>1. \A i \in DOMAIN t4 : t4[i] \in PointersOf(t4) BY DEF PointersOf
    <2> QED BY <1>2, <1>12, <2>1
  <1> QED BY <1>12, <1>13, <1>14

LEMMA TreesAreApart ==
  ASSUME MInv
  PROVE  TreesApart
  <1>1. HeapOK(heap) /\ Sound(heap) BY LibraryKept DEF MInv, Grown
  <1>2. StoredNodes = LibraryNodes BY <1>1, StoredIsLibrary
  <1>3. ASSUME NEW i \in DOMAIN Trees, NEW j \in DOMAIN Trees, i # j
        PROVE  Under(heap, Trees[i]) \cap Under(heap, Trees[j]) = {}
    <2>1. Trees[i] # Trees[j] BY <1>3, TreesInjective DEF Inj
    <2>2. Tree(heap, Trees[i]) /\ Tree(heap, Trees[j]) BY TreesInjective
    <2> QED BY <1>1, <2>1, <2>2, TreesDisjoint
  <1>4. ASSUME NEW i \in DOMAIN Trees
        PROVE  /\ Under(heap, Trees[i]) \cap StoredNodes = {}
               /\ Cardinality(Under(heap, Trees[i])) = Len(CollectAllIRs(heap, Trees[i]))
    <2>1. Trees[i] \in DOMAIN heap /\ Trees[i] \notin LibraryNodes BY TreesInjective DEF Tree
    <2> QED BY <1>1, <1>2, <2>1, OutsideLibrary, CollectsOnce
  <1> QED BY <1>3, <1>4 DEF TreesApart

(***************************************************************************)
(* The validator may change a mutant without changing another one, the     *)
(* test case or the library.                                               *)
(***************************************************************************)
THEOREM MutationTreesApart == Spec => []TreesApart
  <1>1. MInv => TreesApart BY TreesAreApart
  <1> QED BY <1>1, MutationInvariant, PTL

(***************************************************************************)
(* locate_parent finds a parent of record_ in every copy.                  *)
(***************************************************************************)
THEOREM MutationRecordHasParent == Spec => []RecordHasParent
  <1>1. ASSUME MInv PROVE RecordHasParent
    <2> SUFFICES ASSUME pc = "replace" PROVE Parents(heap, new_ir_tree, record_) # {}
      BY DEF RecordHasParent
    <2>1. /\ Tree(heap, new_ir_tree) /\ record_ \in Under(heap, new_ir_tree)
          /\ record_ # new_ir_tree
      BY <1>1 DEF MInv, Grown, Stage
    <2>2. Plain(heap) /\ new_ir_tree \in DOMAIN heap BY <1>1, <2>1, TestCaseTree DEF Tree
    <2>3. \E p \in Under(heap, new_ir_tree) : record_ \in Kids(heap, p)
      BY <2>1, <2>2, UnderParent
    <2> QED BY <2>3 DEF Parents
  <1> QED BY <1>1, MutationInvariant, PTL

(***************************************************************************)
(* No step of MutateIRs changes a node of the test case, of the library or *)
(* of a mutant already made.                                               *)
(***************************************************************************)
THEOREM MutationFinishedTreesFixed == Spec => FinishedTreesFixed
  <1>1. ASSUME MInv, [Next]_vars
        PROVE  [\A x \in StoredNodes \cup UNION {Under(heap, t) : t \in {root} \cup PointersOf(res)} :
                  heap'[x] = heap[x]]_vars
    <2>1. Fixed BY <1>1, NextMInv
    <2>2. StoredNodes = LibraryNodes BY <1>1, StoredIsLibrary DEF MInv, Grown
    <2> QED BY <2>1, <2>2 DEF Fixed, Finished
  <1> QED BY <1>1, MutationInvariant, PTL DEF Spec, FinishedTreesFixed

-----------------------------------------------------------------------------
(***************************************************************************)
(* ProductionsKnown.  Its invariant speaks of the trees on their way to be *)
(* mutants: a variant has the type of the IR it replaces, the copy of the  *)
(* test case and its backup have no new productions either.                *)
(***************************************************************************)
PKnown == \A r \in Held : AllKnown(heap, r, root)

PVariants ==
  /\ pc \in {"loop", "done"} => variants = <<>>
  /\ pc \in {"mutate", "variants", "replace", "backup", "dedup"} =>
       \A v \in PointersOf(variants) : heap[v].type = heap[irs[1]].type
  /\ pc = "mutate" => Kids(heap, irs[1]) # {}

PCopy ==
  /\ pc \in {"replace", "backup"} => AllKnown(heap, new_ir_tree, root)
  /\ pc = "replace" => heap[record_].type = heap[irs[1]].type
  /\ pc = "dedup" => AllKnown(heap, backup, root)

PInv == PKnown /\ PVariants /\ PCopy

LEMMA HeldStays ==
  ASSUME MInv, MInv', Steady, root' = root, PKnown
  PROVE  /\ HeapOK(heap) /\ HeapOK(heap') /\ root \in DOMAIN heap /\ Kept(heap, heap', root)
         /\ \A r \in Held : r \in Held' => /\ AllKnown(heap', r, root)
                                           /\ heap'[r].type = heap[r].type
         /\ \A x \in Under(heap, root) : heap'[x] = heap[x] /\ Kids(heap', x) = Kids(heap, x)
  <1>1. HeapOK(heap) /\ HeapOK(heap') BY DEF MInv, Grown
  <1>2. root \in DOMAIN heap /\ Plain(heap) /\ root \in Held /\ root \in Held'
    BY TestCaseTree DEF Held, Finished
  <1>3. Kept(heap, heap', root) BY <1>2 DEF Steady
  <1>4. ASSUME NEW r \in Held, r \in Held'
        PROVE  AllKnown(heap', r, root) /\ heap'[r].type = heap[r].type
    <2>1. Kept(heap, heap', r) /\ r \in DOMAIN heap BY <1>4, TestCaseTree DEF Steady
    <2>2. AllKnown(heap', r, root) BY <1>1, <1>2, <1>3, <2>1, KeptKnown DEF PKnown
    <2>3. r \in Under(heap, r) BY <1>2, <2>1, UnderSelf
    <2> QED BY <2>1, <2>2, <2>3 DEF Kept
  <1> QED BY <1>1, <1>2, <1>3, <1>4 DEF Kept, Kids

\* A step that adds a variant.
LEMMA GraftedPInv ==
  ASSUME MInv, MInv', Steady, PInv, pc = "mutate", pc' \in {"mutate", "variants"},
         UNCHANGED <<root, irs, res>>, NEW at, Grafted(at)
  PROVE  PInv'
  <1>1. variants' = Append(variants, at) /\ AllKnown(heap', at, root)
        /\ heap'[at].type = heap[irs[1]].type
    BY DEF Grafted
  <1>2. PointersOf(variants') = PointersOf(variants) \cup {at}
    <2>1. variants \in Seq(Nat \cup {at}) BY DEF MInv, Apart
    <2> QED BY <1>1, <2>1, AppendPointers
  <1>3. Held' = Held \cup {at} BY <1>2 DEF Held, Finished
  <1>4. /\ \A r \in Held : AllKnown(heap', r, root) /\ heap'[r].type = heap[r].type
        /\ heap'[irs[1]] = heap[irs[1]] /\ Kids(heap', irs[1]) = Kids(heap, irs[1])
    <2>1. irs[1] \in Under(heap, root) BY TestCaseTree DEF MInv, Stage
    <2> QED BY <1>3, <2>1, HeldStays DEF PInv
  <1>5. PKnown' BY <1>1, <1>3, <1>4 DEF PKnown
  <1>6. PVariants'
    <2>1. \A v \in PointersOf(variants) : v \in Held BY DEF Held
    <2>2. \A v \in PointersOf(variants) : heap[v].type = heap[irs[1]].type
      BY DEF PInv, PVariants
    <2>3. Kids(heap, irs[1]) # {} BY DEF PInv, PVariants
    <2> QED BY <1>1, <1>2, <1>4, <2>1, <2>2, <2>3 DEF PVariants
  <1>7. PCopy' BY DEF PCopy
  <1> QED BY <1>5, <1>6, <1>7 DEF PInv

LEMMA SimplePInv ==
  ASSUME MInv, PInv,
         SkipIR \/ MutateIR \/ ConstraintFails \/ ReplaceNothing \/ NextIR \/ Return \/ UNCHANGED vars
  PROVE  PInv'
  <1>1. UNCHANGED <<heap, root, variants, res, new_ir_tree, backup, record_>>
    BY DEF SkipIR, MutateIR, ConstraintFails, ReplaceNothing, NextIR, Return, vars
  <1>2. PKnown' BY <1>1 DEF PInv, PKnown, Held, Finished
  <1>3. PointersOf(<<>>) = {} BY DEF PointersOf
  <1>4. PVariants'
    <2>1. CASE SkipIR BY <1>1, <2>1 DEF SkipIR, PInv, PVariants
    <2>2. CASE MutateIR BY <1>1, <1>3, <2>2 DEF MutateIR, should_mutate, PInv, PVariants
    <2>3. CASE ConstraintFails BY <1>1, <2>3 DEF ConstraintFails, PInv, PVariants
    <2>4. CASE ReplaceNothing BY <1>1, <2>4 DEF ReplaceNothing, PInv, PVariants
    <2>5. CASE NextIR BY <1>1, <2>5 DEF NextIR, PInv, PVariants
    <2>6. CASE Return BY <1>1, <2>6 DEF Return, PInv, PVariants
    <2>7. CASE UNCHANGED vars BY <1>1, <2>7 DEF vars, PInv, PVariants
    <2> QED BY <2>1, <2>2, <2>3, <2>4, <2>5, <2>6, <2>7
  <1>5. PCopy'
    <2>1. \/ pc' \notin {"replace", "backup", "dedup"}
          \/ UNCHANGED vars
      BY DEF SkipIR, MutateIR, ConstraintFails, ReplaceNothing, NextIR, Return
    <2> QED BY <1>1, <2>1 DEF vars, PInv, PCopy
  <1> QED BY <1>2, <1>4, <1>5 DEF PInv

\* A step in the body of the loop over the variants: no new trees, and perhaps
\* fewer variants.
LEMMA BodyPInv ==
  ASSUME MInv, MInv', Steady, PInv, pc \in {"variants", "replace", "backup", "dedup"},
         pc' \in {"variants", "replace", "backup", "dedup"}, UNCHANGED <<root, irs>>,
         PointersOf(variants') \subseteq PointersOf(variants),
         \A r \in Finished' : r \in Finished \/ AllKnown(heap', r, root)
  PROVE  PKnown' /\ PVariants' /\ heap'[irs[1]] = heap[irs[1]]
  <1>1. /\ \A r \in Held : r \in Held' => AllKnown(heap', r, root) /\ heap'[r].type = heap[r].type
        /\ heap'[irs[1]] = heap[irs[1]]
    <2>1. irs[1] \in Under(heap, root) BY TestCaseTree DEF MInv, Stage
    <2> QED BY <2>1, HeldStays DEF PInv
  <1>2. PKnown' BY <1>1 DEF PKnown, Held
  <1>3. \A v \in PointersOf(variants') : v \in Held /\ v \in Held' BY DEF Held
  <1>4. \A v \in PointersOf(variants) : heap[v].type = heap[irs[1]].type
    BY DEF PInv, PVariants
  <1>5. PVariants' BY <1>1, <1>3, <1>4 DEF PVariants
  <1> QED BY <1>1, <1>2, <1>5

LEMMA NextPInv ==
  ASSUME MInv, PInv, [Next]_vars
  PROVE  PInv'
  <1>0. MInv' /\ Steady BY NextMInv
  <1>1. CASE \/ SkipIR \/ MutateIR \/ ConstraintFails \/ ReplaceNothing \/ NextIR \/ Return
             \/ UNCHANGED vars
    BY <1>1, SimplePInv
  <1>2. CASE ConstraintReplaces
    <2>1. /\ pc = "mutate" /\ pc' = pc /\ UNCHANGED <<root, irs, res>>
      BY <1>2 DEF ConstraintReplaces
    <2>2. \E at : Grafted(at) BY <1>2, <2>1, ConstraintReplacesStep DEF PInv, PVariants
    <2> QED BY <1>0, <2>1, <2>2, GraftedPInv
  <1>3. CASE \E side \in {"left", "right"} : ReplaceChild(side)
    <2>1. /\ pc = "mutate" /\ pc' = "variants" /\ UNCHANGED <<root, irs, res>>
      BY <1>3 DEF ReplaceChild
    <2>2. \E at : Grafted(at) BY <1>3, ReplaceChildStep
    <2> QED BY <1>0, <2>1, <2>2, GraftedPInv
  <1>4. CASE ReplaceBoth
    <2>1. /\ pc = "mutate" /\ pc' = "variants" /\ UNCHANGED <<root, irs, res>>
      BY <1>4 DEF ReplaceBoth
    <2>2. \E at : Grafted(at) BY <1>4, ReplaceBothStep
    <2> QED BY <1>0, <2>1, <2>2, GraftedPInv
  <1>5. CASE CopyTree
    <2>1. /\ pc = "variants" /\ pc' = "replace" /\ UNCHANGED <<root, irs, variants, res>>
      BY <1>5 DEF CopyTree
    <2>2. PKnown' /\ PVariants' /\ heap'[irs[1]] = heap[irs[1]]
      BY <1>0, <2>1, BodyPInv DEF Finished
    <2>3. AllKnown(heap', new_ir_tree', root) /\ heap'[record_'].type = heap[irs[1]].type
      BY <1>5, CopyTreeStep
    <2>4. PCopy' BY <2>1, <2>2, <2>3 DEF PCopy
    <2> QED BY <2>2, <2>4 DEF PInv
  <1>6. CASE Replace
    <2>1. /\ pc = "replace" /\ pc' = "backup" /\ variants' = Tail(variants)
          /\ UNCHANGED <<root, irs, res>>
      BY <1>6 DEF Replace
    <2>2. variants \in Seq(Nat) /\ variants # <<>> BY <2>1 DEF MInv, Apart, Stage
    <2>3. variants[1] \in PointersOf(variants) /\ PointersOf(variants') \subseteq PointersOf(variants)
      BY <2>1, <2>2, TailPointers
    <2>4. PKnown' /\ PVariants' BY <1>0, <2>1, <2>3, BodyPInv DEF Finished
    <2>5. AllKnown(heap, variants[1], root) /\ heap[variants[1]].type = heap[record_].type
      BY <2>1, <2>3 DEF PInv, PKnown, PVariants, PCopy, Held
    <2>6. AllKnown(heap', new_ir_tree', root)
      BY <1>6, <2>1, <2>5, ReplaceStep DEF PInv, PCopy
    <2>7. PCopy' BY <2>1, <2>6 DEF PCopy
    <2> QED BY <2>4, <2>7 DEF PInv
  <1>7. CASE Backup
    <2>1. /\ pc = "backup" /\ pc' = "dedup" /\ UNCHANGED <<root, irs, variants, res>>
      BY <1>7 DEF Backup
    <2>2. PKnown' /\ PVariants' BY <1>0, <2>1, BodyPInv DEF Finished
    <2>3. AllKnown(heap', backup', root) BY <1>7, <2>1, BackupStep DEF PInv, PCopy
    <2>4. PCopy' BY <2>1, <2>3 DEF PCopy
    <2> QED BY <2>2, <2>4 DEF PInv
  <1>8. CASE DropKnown
    <2>1. /\ pc = "dedup" /\ EndOfBody({}) /\ res' = res BY <1>8 DEF DropKnown
    <2>2. pc' = "variants" /\ UNCHANGED <<root, irs, variants>> BY <2>1 DEF EndOfBody
    <2>3. PKnown' /\ PVariants' BY <1>0, <2>1, <2>2, BodyPInv DEF Finished
    <2>4. PCopy' BY <2>2 DEF PCopy
    <2> QED BY <2>3, <2>4 DEF PInv
  <1>9. CASE KeepNew
    <2>1. /\ pc = "dedup" /\ EndOfBody({backup}) /\ res' = Append(res, backup)
      BY <1>9 DEF KeepNew
    <2>2. pc' = "variants" /\ UNCHANGED <<root, irs, variants>> BY <2>1 DEF EndOfBody
    <2>3. Kept(heap, heap', backup) BY <2>1, EndOfBodyKeeps
    <2>4. AllKnown(heap', backup, root)
      <3>1. backup \in DOMAIN heap BY <2>1 DEF MInv, Grown, Stage, Tree
      <3>2. AllKnown(heap, backup, root) BY <2>1 DEF PInv, PCopy
      <3>3. HeapOK(heap) /\ HeapOK(heap') /\ root \in DOMAIN heap /\ Kept(heap, heap', root)
        BY <1>0, <2>2, HeldStays DEF PInv
      <3> QED BY <2>3, <3>1, <3>2, <3>3, KeptKnown
    <2>5. Finished' = Finished \cup {backup}
      <3>1. res \in Seq(Nat \cup {backup}) BY DEF MInv, Apart
      <3>2. PointersOf(res') = PointersOf(res) \cup {backup} BY <2>1, <3>1, AppendPointers
      <3> QED BY <2>2, <3>2 DEF Finished
    <2>6. PKnown' /\ PVariants' BY <1>0, <2>1, <2>2, <2>4, <2>5, BodyPInv
    <2>7. PCopy' BY <2>2 DEF PCopy
    <2> QED BY <2>6, <2>7 DEF PInv
  <1> QED BY <1>1, <1>2, <1>3, <1>4, <1>5, <1>6, <1>7, <1>8, <1>9 DEF Next

LEMMA InitPInv ==
  ASSUME Init PROVE PInv
  <1>1. MInv BY InitMInv
  <1>2. variants = <<>> /\ res = <<>> /\ pc = "loop" BY DEF Init
  <1>3. Held = {root}
    <2>1. PointersOf(<<>>) = {} BY DEF PointersOf
    <2> QED BY <1>2, <2>1 DEF Held, Finished
  <1>4. HeapOK(heap) /\ root \in DOMAIN heap /\ root \in Under(heap, root)
    BY <1>1, TestCaseTree, UnderSelf DEF MInv, Grown
  <1>5. AllKnown(heap, root, root) BY <1>4, SelfKnown
  <1> QED BY <1>2, <1>3, <1>5 DEF PInv, PKnown, PVariants, PCopy

(***************************************************************************)
(* Every node of a mutant is made by a production of the test case or the  *)
(* library: the type checks of the strategies are all that keeps a mutant  *)
(* in the grammar.                                                         *)
(***************************************************************************)
THEOREM MutationProductionsKnown == Spec => []ProductionsKnown
  <1>1. Init => MInv /\ PInv BY InitMInv, InitPInv
  <1>2. MInv /\ PInv /\ [Next]_vars => (MInv /\ PInv)' BY NextMInv, NextPInv
  <1>3. ASSUME MInv, PInv PROVE ProductionsKnown
    <2> SUFFICES ASSUME NEW k \in DOMAIN res, NEW n \in Under(heap, res[k])
                 PROVE  \E y \in StoredNodes \cup Under(heap, root) : SameProduction(n, y)
      BY DEF ProductionsKnown
    <2>1. HeapOK(heap) BY <1>3 DEF MInv, Grown
    <2>2. StoredNodes = LibraryNodes BY <2>1, StoredIsLibrary
    <2>3. res[k] \in Held BY DEF Held, Finished, PointersOf
    <2>4. PICK y \in LibraryNodes \cup Under(heap, root) : SameProd(heap, n, y)
      BY <1>3, <2>3 DEF PInv, PKnown, AllKnown, Known
    <2>5. heap[EmptyIR] = Heap0[EmptyIR] BY <2>1, LibraryClosed DEF HeapOK, StoredIRs
    <2>6. SameProduction(n, y) BY <2>4, <2>5 DEF SameProduction, SameProd, SameKid
    <2> QED BY <2>2, <2>6
  <1> QED BY <1>1, <1>2, <1>3, PTL DEF Spec

-----------------------------------------------------------------------------
(***************************************************************************)
(* MutantsAreSubstitutions.  From CopyTree on, the copy of the test case   *)
(* is followed until its backup is kept; the last of origin belongs to it. *)
(***************************************************************************)
Made(k) == Substituted(heap, root, origin[k][1], origin[k][2])

SInv ==
  /\ \E S : origin \in Seq(S)
  /\ Len(origin) = IF pc \in {"backup", "dedup"} THEN Len(res) + 1 ELSE Len(res)
  /\ \A k \in DOMAIN res : Value(heap, res[k]) = Made(k)
  /\ pc = "replace" =>
       \A w : Substituted(heap, new_ir_tree, record_, w) = Substituted(heap, root, irs[1], w)
  /\ pc = "backup" => Value(heap, new_ir_tree) = Made(Len(res) + 1)
  /\ pc = "dedup" => Value(heap, backup) = Made(Len(res) + 1)

LEMMA TestCaseStays ==
  ASSUME MInv, MInv', Steady, root' = root
  PROVE  /\ \A old, w : Substituted(heap', root, old, w) = Substituted(heap, root, old, w)
         /\ \A r \in Held : r \in Held' => Value(heap', r) = Value(heap, r)
  <1>1. Plain(heap) /\ Plain(heap') /\ \A r \in Held : r \in DOMAIN heap
    BY LibraryKept, TestCaseTree DEF MInv, Grown
  <1>2. root \in Held /\ root \in Held' BY DEF Held, Finished
  <1>3. \A r \in Held : r \in Held' => Kept(heap, heap', r) BY DEF Steady
  <1>4. \A r \in Held : r \in Held' => \A old, w : Substituted(heap', r, old, w) = Substituted(heap, r, old, w)
    BY <1>1, <1>3, KeptValue
  <1> QED BY <1>2, <1>4 DEF Value

\* What was made of the mutants already kept does not change.
LEMMA MadeStays ==
  ASSUME MInv, MInv', Steady, SInv, root' = root, NEW k \in DOMAIN res, k \in DOMAIN res',
         res'[k] = res[k], origin'[k] = origin[k]
  PROVE  Value(heap', res'[k]) = Made(k)'
  <1>1. res[k] \in Held /\ res[k] \in Held' BY DEF Held, Finished, PointersOf
  <1>2. Value(heap, res[k]) = Made(k) BY DEF SInv
  <1> QED BY <1>1, <1>2, TestCaseStays DEF Made

LEMMA NextSInv ==
  ASSUME MInv, SInv, [Next]_vars
  PROVE  SInv'
  <1>0. /\ MInv' /\ Steady /\ res \in Seq(Nat) /\ Len(res) \in Nat /\ DOMAIN res = 1..Len(res)
        /\ Len(res) + 1 \notin DOMAIN res
    <2>1. MInv' /\ Steady /\ res \in Seq(Nat) BY NextMInv DEF MInv, Apart
    <2> QED BY <2>1
  <1>1. CASE \/ SkipIR \/ MutateIR \/ ConstraintFails \/ ConstraintReplaces
             \/ \E side \in {"left", "right"} : ReplaceChild(side)
             \/ ReplaceBoth \/ ReplaceNothing \/ NextIR \/ Return
    <2>1. /\ UNCHANGED <<root, res, origin>>
          /\ pc \notin {"replace", "backup", "dedup"} /\ pc' \notin {"replace", "backup", "dedup"}
      BY <1>1 DEF SkipIR, MutateIR, ConstraintFails, ConstraintReplaces, ReplaceChild,
                  ReplaceBoth, ReplaceNothing, NextIR, Return
    <2>2. \A k \in DOMAIN res : Value(heap', res'[k]) = Made(k)' BY <1>0, <2>1, MadeStays
    <2> QED BY <2>1, <2>2 DEF SInv
  <1>2. CASE CopyTree
    <2>1. /\ UNCHANGED <<root, irs, res, origin>> /\ pc = "variants" /\ pc' = "replace"
      BY <1>2 DEF CopyTree
    <2>2. \A k \in DOMAIN res : Value(heap', res'[k]) = Made(k)' BY <1>0, <2>1, MadeStays
    <2>3. \A w : Substituted(heap', new_ir_tree', record_', w) = Substituted(heap', root', irs'[1], w)
      BY <1>0, <1>2, <2>1, CopyTreeStep, TestCaseStays
    <2> QED BY <2>1, <2>2, <2>3 DEF SInv
  <1>3. CASE Replace
    <2> DEFINE e == <<irs[1], Value(heap, variants[1])>>
    <2>0. PICK n : n = Len(res) + 1 OBVIOUS
    <2>1. /\ UNCHANGED <<root, irs, res>> /\ pc = "replace" /\ pc' = "backup"
          /\ origin' = Append(origin, e)
      BY <1>3 DEF Replace
    <2>2. PICK S : origin \in Seq(S) BY DEF SInv
    <2>3. Len(origin) = Len(res) BY <2>1 DEF SInv
    <2>4. /\ origin' \in Seq(S \cup {e}) /\ Len(origin') = n /\ origin'[n] = e
          /\ \A k \in DOMAIN res : origin'[k] = origin[k]
      <3> HIDE DEF e
      <3>1. origin \in Seq(S \cup {e}) BY <2>2
      <3> QED BY <1>0, <2>0, <2>1, <2>3, <3>1
    <2>5. \A k \in DOMAIN res : Value(heap', res'[k]) = Made(k)'
      BY <1>0, <2>1, <2>4, MadeStays
    <2>6. Value(heap', new_ir_tree') = Made(n)'
      <3>1. e[1] = irs[1] /\ e[2] = Value(heap, variants[1]) OBVIOUS
      <3>2. Value(heap', new_ir_tree') = Substituted(heap, root, irs[1], Value(heap, variants[1]))
        BY <1>3, <2>1, ReplaceStep DEF SInv
      <3>3. Substituted(heap', root', irs[1], Value(heap, variants[1]))
              = Substituted(heap, root, irs[1], Value(heap, variants[1]))
        BY <1>0, <2>1, TestCaseStays
      <3> HIDE DEF e
      <3> QED BY <2>4, <3>1, <3>2, <3>3 DEF Made
    <2> HIDE DEF e
    <2> QED BY <2>0, <2>1, <2>4, <2>5, <2>6 DEF SInv
  <1>4. CASE Backup
    <2>1. UNCHANGED <<root, res, origin>> /\ pc = "backup" /\ pc' = "dedup"
      BY <1>4 DEF Backup
    <2>2. \A k \in DOMAIN res : Value(heap', res'[k]) = Made(k)' BY <1>0, <2>1, MadeStays
    <2>3. Value(heap', backup') = Made(Len(res) + 1)'
      <3>1. Value(heap', backup') = Made(Len(res) + 1) BY <1>4, <2>1, BackupStep DEF SInv
      <3> QED BY <1>0, <2>1, <3>1, TestCaseStays DEF Made
    <2> QED BY <2>1, <2>2, <2>3 DEF SInv
  <1>5. CASE DropKnown
    <2>1. /\ pc = "dedup" /\ EndOfBody({}) /\ res' = res
          /\ origin' = SubSeq(origin, 1, Len(origin) - 1)
      BY <1>5 DEF DropKnown
    <2>2. root' = root /\ pc' = "variants" BY <2>1 DEF EndOfBody
    <2>3. PICK S : origin \in Seq(S) BY DEF SInv
    <2>4. Len(origin) = Len(res) + 1 BY <2>1 DEF SInv
    <2>5. /\ origin' \in Seq(S) /\ Len(origin') = Len(res)
          /\ \A k \in DOMAIN res : origin'[k] = origin[k]
      BY <1>0, <2>1, <2>3, <2>4
    <2>6. \A k \in DOMAIN res : Value(heap', res'[k]) = Made(k)'
      BY <1>0, <2>1, <2>2, <2>5, MadeStays
    <2> QED BY <2>1, <2>2, <2>5, <2>6 DEF SInv
  <1>6. CASE KeepNew
    <2>0. PICK n : n = Len(res) + 1 OBVIOUS
    <2>1. /\ pc = "dedup" /\ EndOfBody({backup}) /\ res' = Append(res, backup)
          /\ origin' = origin
      BY <1>6 DEF KeepNew
    <2>2. root' = root /\ pc' = "variants" BY <2>1 DEF EndOfBody
    <2>3. Len(origin) = n /\ Value(heap, backup) = Made(n) BY <2>0, <2>1 DEF SInv
    <2>4. /\ Len(res') = n /\ DOMAIN res' = 1..n /\ res'[n] = backup
          /\ \A k \in DOMAIN res : res'[k] = res[k] /\ k \in DOMAIN res'
          /\ \A k \in DOMAIN res' : k = n \/ k \in DOMAIN res
      <3>1. res \in Seq(Nat \cup {backup}) BY <1>0
      <3> QED BY <1>0, <2>0, <2>1, <3>1
    <2>5. \A k \in DOMAIN res : Value(heap', res'[k]) = Made(k)'
      BY <1>0, <2>1, <2>2, <2>4, MadeStays
    <2>6. Value(heap', res'[n]) = Made(n)'
      <3>1. Kept(heap, heap', backup) BY <2>1, EndOfBodyKeeps
      <3>2. Plain(heap) /\ Plain(heap') /\ backup \in DOMAIN heap
        BY <1>0, <2>1, LibraryKept DEF MInv, Grown, Stage, Tree
      <3>3. Value(heap', backup) = Value(heap, backup) BY <3>1, <3>2, KeptValue DEF Value
      <3>4. Made(n)' = Made(n) BY <1>0, <2>1, <2>2, TestCaseStays DEF Made
      <3> QED BY <2>3, <2>4, <3>3, <3>4
    <2>7. \A k \in DOMAIN res' : Value(heap', res'[k]) = Made(k)' BY <2>4, <2>5, <2>6
    <2>8. (\E S : origin \in Seq(S)) BY DEF SInv
    <2> QED BY <2>1, <2>2, <2>3, <2>4, <2>7, <2>8 DEF SInv
  <1>7. CASE UNCHANGED vars BY <1>7 DEF vars, SInv, Made
  <1> QED BY <1>1, <1>2, <1>3, <1>4, <1>5, <1>6, <1>7 DEF Next

(***************************************************************************)
(* A mutant is the test case with one IR replaced by one variant: nothing  *)
(* is lost, and no literal is changed by the extraction of the structure.  *)
(***************************************************************************)
THEOREM MutationMutantsAreSubstitutions == Spec => []MutantsAreSubstitutions
  <1>1. Init => MInv /\ SInv
    <2> SUFFICES ASSUME Init PROVE SInv BY InitMInv
    <2>1. origin = <<>> /\ res = <<>> /\ pc = "loop" BY DEF Init
    <2> QED BY <2>1 DEF SInv
  <1>2. MInv /\ SInv /\ [Next]_vars => (MInv /\ SInv)' BY NextMInv, NextSInv
  <1>3. SInv => MutantsAreSubstitutions BY DEF SInv, Made, MutantsAreSubstitutions
  <1> QED BY <1>1, <1>2, <1>3, PTL DEF Spec

-----------------------------------------------------------------------------
(***************************************************************************)
(* StructuresDistinct.  The hash of the structure of every mutant kept is  *)
(* in res_hash, with the bits MutateIRs keeps, and no two are equal; what  *)
(* is hashed for the next one is the structure of its backup.              *)
(***************************************************************************)
KeptHash(k) == Hash(Structure(heap, res[k])) % 2^HashBits

HInv ==
  /\ \A k \in DOMAIN res : KeptHash(k) \in res_hash
  /\ \A i, j \in DOMAIN res : KeptHash(i) = KeptHash(j) => i = j
  /\ pc = "dedup" => IRToString(heap, new_ir_tree) = Structure(heap, backup)

LEMMA KeptHashStays ==
  ASSUME MInv, MInv', Steady, NEW k \in DOMAIN res, k \in DOMAIN res', res'[k] = res[k]
  PROVE  KeptHash(k)' = KeptHash(k)
  <1>1. res[k] \in Held /\ res[k] \in Held' BY DEF Held, Finished, PointersOf
  <1>2. Kept(heap, heap', res[k]) /\ res[k] \in DOMAIN heap BY <1>1, TestCaseTree DEF Steady
  <1>3. Sound(heap) /\ Sound(heap') BY DEF MInv, Grown, HeapOK
  <1>4. Structure(heap', res[k]) = Structure(heap, res[k]) BY <1>2, <1>3, KeptStructure
  <1> QED BY <1>4 DEF KeptHash

LEMMA NextHInv ==
  ASSUME MInv, HInv, [Next]_vars
  PROVE  HInv'
  <1>0. /\ MInv' /\ Steady /\ res \in Seq(Nat) /\ Len(res) \in Nat /\ DOMAIN res = 1..Len(res)
        /\ Len(res) + 1 \notin DOMAIN res
    <2>1. MInv' /\ Steady /\ res \in Seq(Nat) BY NextMInv DEF MInv, Apart
    <2> QED BY <2>1
  <1>1. ASSUME UNCHANGED <<res, res_hash>>,
               pc' = "dedup" => IRToString(heap', new_ir_tree') = Structure(heap', backup')
        PROVE  HInv'
    <2>1. \A k \in DOMAIN res : KeptHash(k)' = KeptHash(k) BY <1>0, <1>1, KeptHashStays
    <2>2. (\A k \in DOMAIN res : KeptHash(k) \in res_hash)'
      BY <1>1, <2>1 DEF HInv
    <2>3. (\A i, j \in DOMAIN res : KeptHash(i) = KeptHash(j) => i = j)'
      BY <1>1, <2>1 DEF HInv
    <2> QED BY <1>1, <2>2, <2>3 DEF HInv
  <1>2. CASE \/ SkipIR \/ MutateIR \/ ConstraintFails \/ ConstraintReplaces
             \/ \E side \in {"left", "right"} : ReplaceChild(side)
             \/ ReplaceBoth \/ ReplaceNothing \/ CopyTree \/ Replace \/ NextIR \/ Return
    <2>1. UNCHANGED <<res, res_hash>> /\ pc' # "dedup"
      BY <1>2 DEF SkipIR, MutateIR, ConstraintFails, ConstraintReplaces, ReplaceChild, ReplaceBoth,
                  ReplaceNothing, CopyTree, Replace, NextIR, Return
    <2> QED BY <1>1, <2>1
  <1>3. CASE Backup
    <2>1. UNCHANGED <<res, res_hash>> BY <1>3 DEF Backup
    <2>2. IRToString(heap', new_ir_tree') = Structure(heap', backup') BY <1>3, BackupStep
    <2> QED BY <1>1, <2>1, <2>2
  <1>4. CASE DropKnown
    <2>1. UNCHANGED <<res, res_hash>> /\ pc' = "variants" BY <1>4 DEF DropKnown, EndOfBody
    <2> QED BY <1>1, <2>1
  <1>5. CASE KeepNew
    <2>0. PICK n : n = Len(res) + 1 OBVIOUS
    <2>1. /\ pc = "dedup" /\ EndOfBody({backup}) /\ res' = Append(res, backup)
          /\ tmp_hash \notin res_hash /\ res_hash' = res_hash \cup {tmp_hash}
      BY <1>5 DEF KeepNew
    <2>2. pc' = "variants" BY <2>1 DEF EndOfBody
    <2>3. /\ res'[n] = backup /\ n \notin DOMAIN res
          /\ \A k \in DOMAIN res : res'[k] = res[k] /\ k \in DOMAIN res'
          /\ \A k \in DOMAIN res' : k = n \/ k \in DOMAIN res
      <3>1. res \in Seq(Nat \cup {backup}) BY <1>0
      <3> QED BY <1>0, <2>0, <2>1, <3>1
    <2>4. \A k \in DOMAIN res : KeptHash(k)' = KeptHash(k) BY <1>0, <2>3, KeptHashStays
    <2>5. KeptHash(n)' = tmp_hash
      <3>1. Kept(heap, heap', backup) BY <2>1, EndOfBodyKeeps
      <3>2. Sound(heap) /\ Sound(heap') /\ backup \in DOMAIN heap
        BY <1>0, <2>1 DEF MInv, Grown, HeapOK, Stage, Tree
      <3>3. Structure(heap', backup) = Structure(heap, backup) BY <3>1, <3>2, KeptStructure
      <3>4. IRToString(heap, new_ir_tree) = Structure(heap, backup) BY <2>1 DEF HInv
      <3> QED BY <2>3, <3>3, <3>4 DEF KeptHash, tmp_hash
    <2>6. \A k \in DOMAIN res : KeptHash(k) \in res_hash /\ KeptHash(k) # tmp_hash
      BY <2>1 DEF HInv
    <2>7. (\A k \in DOMAIN res : KeptHash(k) \in res_hash)'
      BY <2>1, <2>3, <2>4, <2>5, <2>6
    <2>8. (\A i, j \in DOMAIN res : KeptHash(i) = KeptHash(j) => i = j)'
      <3>1. \A i, j \in DOMAIN res : KeptHash(i) = KeptHash(j) => i = j BY DEF HInv
      <3> QED BY <2>3, <2>4, <2>5, <2>6, <3>1
    <2> QED BY <2>2, <2>7, <2>8 DEF HInv
  <1>6. CASE UNCHANGED vars BY <1>6 DEF vars, HInv, KeptHash
  <1> QED BY <1>2, <1>3, <1>4, <1>5, <1>6 DEF Next

(***************************************************************************)
(* No two mutants of a test case have the same structure: a hash that is   *)
(* cut to half of its bits may drop a mutant too many, but never keeps two *)
(* of one structure.                                                       *)
(***************************************************************************)
THEOREM MutationStructuresDistinct == Spec => []StructuresDistinct
  <1>1. Init => MInv /\ HInv
    <2> SUFFICES ASSUME Init PROVE HInv BY InitMInv
    <2>1. res = <<>> /\ pc = "loop" BY DEF Init
    <2> QED BY <2>1 DEF HInv
  <1>2. MInv /\ HInv /\ [Next]_vars => (MInv /\ HInv)' BY NextMInv, NextHInv
  <1>3. ASSUME HInv PROVE StructuresDistinct
    <2> SUFFICES ASSUME NEW i \in DOMAIN res, NEW j \in DOMAIN res,
                        Structure(heap, res[i]) = Structure(heap, res[j])
                 PROVE  i = j
      BY DEF StructuresDistinct, Structure
    <2>1. KeptHash(i) = KeptHash(j) BY DEF KeptHash
    <2> QED BY <1>3, <2>1 DEF HInv
  <1> QED BY <1>1, <1>2, <1>3, PTL DEF Spec
=============================================================================
