----------------------- MODULE SemanticValidatorProofs -----------------------
(***************************************************************************)
(* Proofs about ScopeTree and SemanticValidator, for programs of any size, *)
(* any nesting of scopes and any number of FIXMEs.                         *)
(*                                                                         *)
(* That the scopes mirror the tree is an argument about the recursion of   *)
(* BuildScopeTreeImpl.  What is still to be visited lies, in the list      *)
(* work, before the Leaves of exactly those IRs that open a scope around   *)
(* it; the scopes from g_scope_current_ outwards are opened by the IRs     *)
(* whose Leaves are in the list, and in the same order, which is what      *)
(* makes ExitScope leave the scope that its IR opened.                     *)
(***************************************************************************)
EXTENDS SemanticValidator, SequenceTheorems, FiniteSetTheorems, WellFoundedInduction, TLAPS

-----------------------------------------------------------------------------
(***************************************************************************)
(* InOrder lists a finite set of numbers, each once.  The rank of a number *)
(* in its set is an injection into 0..(Cardinality(S) - 1), so also a      *)
(* surjection.                                                             *)
(***************************************************************************)
Smaller(S, n) == {m \in S : m < n}

LEMMA RankIsOnto ==
  ASSUME NEW S \in SUBSET Nat, IsFiniteSet(S), NEW i \in 1..Cardinality(S)
  PROVE  \E n \in S : Cardinality(Smaller(S, n)) = i - 1
  <1> DEFINE c == Cardinality(S)
             rank == [n \in S |-> Cardinality(Smaller(S, n))]
  <1>1. c \in Nat BY FS_CardinalityType
  <1>2. \A n \in S : /\ Smaller(S, n) \in SUBSET S /\ n \notin Smaller(S, n)
                     /\ IsFiniteSet(Smaller(S, n)) /\ Cardinality(Smaller(S, n)) \in Nat
    <2>1. \A n \in S : Smaller(S, n) \in SUBSET S /\ n \notin Smaller(S, n) BY DEF Smaller
    <2> QED BY <2>1, FS_Subset, FS_CardinalityType
  <1>3. ASSUME NEW n \in S, NEW T \in SUBSET S, n \notin T
        PROVE  Cardinality(T) \in Nat /\ Cardinality(T) < c
    <2>1. IsFiniteSet(T) /\ Cardinality(T) <= c /\ (c = Cardinality(T) => S = T)
      BY FS_Subset
    <2>2. Cardinality(T) \in Nat BY <2>1, FS_CardinalityType
    <2> QED BY <1>1, <1>3, <2>1, <2>2
  <1>4. rank \in [S -> 0..(c - 1)]
    <2>1. ASSUME NEW n \in S PROVE Cardinality(Smaller(S, n)) \in 0..(c - 1)
      BY <1>1, <1>2, <1>3
    <2> QED BY <2>1, SeqMonotonic
  <1>5. ASSUME NEW m \in S, NEW n \in S, m < n
        PROVE  Cardinality(Smaller(S, m)) < Cardinality(Smaller(S, n))
    <2>1. /\ Smaller(S, m) \in SUBSET Smaller(S, n)
          /\ m \in Smaller(S, n) /\ m \notin Smaller(S, m)
      <3>1. m \in Nat /\ n \in Nat OBVIOUS
      <3>2. ASSUME NEW k \in S, k < m PROVE k < n
        <4>1. k \in Nat OBVIOUS
        <4> QED BY <1>5, <3>1, <3>2, <4>1
      <3>3. ~(m < m) BY <3>1
      <3> QED BY <1>5, <3>2, <3>3 DEF Smaller
    <2>2. /\ Cardinality(Smaller(S, m)) <= Cardinality(Smaller(S, n))
          /\ Cardinality(Smaller(S, n)) = Cardinality(Smaller(S, m)) =>
               Smaller(S, n) = Smaller(S, m)
      BY <1>2, <2>1, FS_Subset
    <2> QED BY <1>2, <2>1, <2>2
  <1>6. \A m, n \in S : rank[m] = rank[n] => m = n
    <2> SUFFICES ASSUME NEW m \in S, NEW n \in S, m # n PROVE rank[m] # rank[n] OBVIOUS
    <2>1. m < n \/ n < m OBVIOUS
    <2> QED BY <1>2, <1>5, <2>1
  <1>7. IsFiniteSet(0..(c - 1)) /\ Cardinality(0..(c - 1)) = c
    <2> HIDE DEF c
    <2> QED BY <1>1, FS_Interval, SMT
  <1>8. rank \in Injection(S, 0..(c - 1))
    <2> HIDE DEF rank
    <2> QED BY <1>4, <1>6 DEF Injection, IsInjective
  <1>9. rank \in Surjection(S, 0..(c - 1))
    <2> HIDE DEF rank
    <2> QED BY <1>7, <1>8, FS_Injection DEF c
  <1>10. i - 1 \in 0..(c - 1) BY <1>1
  <1>11. PICK n \in S : rank[n] = i - 1
    <2> HIDE DEF rank
    <2> QED BY <1>9, <1>10 DEF Surjection
  <1> QED BY <1>11

LEMMA InOrderLists ==
  ASSUME NEW S \in SUBSET Nat, IsFiniteSet(S)
  PROVE  /\ InOrder(S) \in Seq(S)
         /\ Len(InOrder(S)) = Cardinality(S)
         /\ Cardinality(S) \in Nat
         /\ \A i, j \in 1..Cardinality(S) : InOrder(S)[i] = InOrder(S)[j] => i = j
         /\ \A n \in S : \E i \in 1..Cardinality(S) : InOrder(S)[i] = n
         /\ \A i \in 1..Cardinality(S) : InOrder(S)[i] \in S
  <1> DEFINE c == Cardinality(S)
  <1>1. c \in Nat BY FS_CardinalityType
  <1>2. \A i \in 1..c : /\ InOrder(S)[i] \in S
                        /\ Cardinality(Smaller(S, InOrder(S)[i])) = i - 1
    <2>1. \A i \in 1..c : \E n \in S : Cardinality(Smaller(S, n)) = i - 1 BY RankIsOnto
    <2>2. \A i \in 1..c : InOrder(S)[i] = CHOOSE n \in S : Cardinality(Smaller(S, n)) = i - 1
      BY DEF InOrder, Smaller
    <2> QED BY <2>1, <2>2
  <1>3. InOrder(S) \in Seq(S) /\ Len(InOrder(S)) = c
    <2>1. InOrder(S) \in [1..c -> S]
      <3>1. \A i \in 1..c : (CHOOSE n \in S : Cardinality({m \in S : m < n}) = i - 1) \in S
        <4>1. \A i \in 1..c : InOrder(S)[i] = CHOOSE n \in S : Cardinality({m \in S : m < n}) = i - 1
          BY DEF InOrder
        <4> QED BY <1>2, <4>1, Zenon
      <3> QED BY <3>1, Zenon DEF InOrder
    <2> QED BY <1>1, <2>1, IsASeq, LenProperties
  <1>4. \A i, j \in 1..c : InOrder(S)[i] = InOrder(S)[j] => i = j BY <1>1, <1>2
  <1>5. \A n \in S : \E i \in 1..c : InOrder(S)[i] = n
    <2> DEFINE f == [i \in 1..c |-> InOrder(S)[i]]
    <2>1. f \in [1..c -> S] BY <1>2
    <2>2. \A i, j \in 1..c : f[i] = f[j] => i = j BY <1>4
    <2>3. f \in Injection(1..c, S)
      <3> HIDE DEF f
      <3> QED BY <2>1, <2>2 DEF Injection, IsInjective
    <2>4. Cardinality(1..c) = c BY <1>1, FS_Interval
    <2>5. f \in Surjection(1..c, S)
      <3> HIDE DEF f
      <3> QED BY <2>3, <2>4, FS_Injection
    <2>6. \A n \in S : \E i \in 1..c : f[i] = n
      <3> HIDE DEF f
      <3> QED BY <2>5 DEF Surjection
    <2> QED BY <2>6
  <1> QED BY <1>1, <1>2, <1>3, <1>4, <1>5

-----------------------------------------------------------------------------
(***************************************************************************)
(* Sequences of anything, of which only the elements are known.            *)
(***************************************************************************)
LEMMA AppendElement ==
  ASSUME NEW s, s \in Seq(ToSet(s)), NEW e
  PROVE  /\ Append(s, e) \in Seq(ToSet(Append(s, e)))
         /\ Len(s) \in Nat /\ Len(Append(s, e)) = Len(s) + 1
         /\ DOMAIN s = 1..Len(s)
         /\ DOMAIN Append(s, e) = 1..(Len(s) + 1)
         /\ Append(s, e)[Len(s) + 1] = e
         /\ \A i \in 1..Len(s) : Append(s, e)[i] = s[i]
  <1> DEFINE T == ToSet(s) \cup {e}
             t == Append(s, e)
  <1>1. s \in Seq(T)
    <2>1. ToSet(s) \subseteq T OBVIOUS
    <2> QED BY <2>1, SeqMonotonic
  <1>2. e \in T OBVIOUS
  <1>3. t \in Seq(T) /\ Len(t) = Len(s) + 1
    <2> HIDE DEF T
    <2> QED BY <1>1, <1>2, AppendProperties
  <1>4. Len(s) \in Nat /\ DOMAIN s = 1..Len(s)
    <2> HIDE DEF T
    <2> QED BY <1>1, LenProperties
  <1>5. DOMAIN t = 1..(Len(s) + 1)
    <2> HIDE DEF T, t
    <2> QED BY <1>3, LenProperties
  <1>6. t[Len(s) + 1] = e /\ \A i \in 1..Len(s) : t[i] = s[i]
    <2> HIDE DEF T
    <2> QED BY <1>1, <1>2, AppendProperties
  <1>7. t \in Seq(ToSet(t))
    <2> HIDE DEF t
    <2>1. t \in [1..Len(t) -> T]
      <3> HIDE DEF T
      <3> QED BY <1>3, LenProperties
    <2>2. t \in [1..Len(t) -> ToSet(t)]
      <3>1. t = [i \in 1..Len(t) |-> t[i]] BY <2>1
      <3>2. \A i \in 1..Len(t) : t[i] \in ToSet(t) BY <1>3, <1>5 DEF ToSet
      <3> QED BY <3>1, <3>2
    <2>3. Len(t) \in Nat BY <1>3, <1>4
    <2> QED BY <2>2, <2>3, IsASeq
  <1> QED BY <1>3, <1>4, <1>5, <1>6, <1>7

-----------------------------------------------------------------------------
(***************************************************************************)
(* The FIXMEs.  What has been fixed and what is still to be fixed make up  *)
(* the list of all FIXMEs: the fixes are its beginning, the decisions the  *)
(* rest.                                                                   *)
(***************************************************************************)
TreeInv == root \in Program /\ marked \subseteq IRs \ {1}

FixInv ==
  /\ fixes \in Seq(ToSet(fixes))
  /\ pc \notin {"fix", "done"} => fixes = <<>>
  /\ pc \in {"fix", "done"} =>
       /\ decisions \in Seq(IRs)
       /\ Len(fixes) + Len(decisions) = Len(AllFixmes)
       /\ \A i \in 1..Len(fixes) : fixes[i].node = AllFixmes[i]
       /\ \A i \in 1..Len(decisions) : decisions[i] = AllFixmes[Len(fixes) + i]
  /\ pc = "done" => decisions = <<>>

LEMMA TreeFacts ==
  ASSUME TreeInv
  PROVE  /\ Len(root) \in Nat \ {0} /\ IRs = 1..Len(root)
         /\ root[1].last = Len(root) /\ root[1].scope_type # kScopeDefault
         /\ root[1].data_type # "kFixUnit"
         /\ \A n \in IRs : root[n].last \in n..Len(root)
         /\ \A n \in IRs : \A m \in n..root[n].last : root[m].last <= root[n].last
         /\ \A n \in IRs : n..root[n].last \subseteq IRs
         /\ IRs \in SUBSET Nat /\ IsFiniteSet(IRs)
  <1>1. /\ Len(root) \in Nat \ {0} /\ IRs = 1..Len(root)
        /\ root[1].last = Len(root) /\ root[1].scope_type # kScopeDefault
        /\ root[1].data_type # "kFixUnit"
        /\ \A n \in IRs : root[n].last \in n..Len(root)
        /\ \A n \in IRs : \A m \in n..root[n].last : root[m].last <= root[n].last
    BY TreeAssumption DEF TreeInv, IRs
  <1>2. \A n \in IRs : n..root[n].last \subseteq IRs BY <1>1
  <1>3. IRs \in SUBSET Nat BY <1>1
  <1>4. IsFiniteSet(IRs) BY <1>1, FS_Interval
  <1> QED BY <1>1, <1>2, <1>3, <1>4

LEMMA BelowFacts ==
  ASSUME TreeInv, NEW n \in IRs
  PROVE  Below(n) \in SUBSET IRs
  BY TreeFacts DEF Below

\* A part of a tree, in order.
LEMMA InOrderIRs ==
  ASSUME TreeInv, NEW S \in SUBSET IRs
  PROVE  /\ InOrder(S) \in Seq(IRs) /\ InOrder(S) \in Seq(S)
         /\ Len(InOrder(S)) \in Nat
         /\ DOMAIN InOrder(S) = 1..Len(InOrder(S))
         /\ \A i \in 1..Len(InOrder(S)) : InOrder(S)[i] \in S
         /\ \A i, j \in 1..Len(InOrder(S)) : InOrder(S)[i] = InOrder(S)[j] => i = j
         /\ \A n \in S : \E i \in 1..Len(InOrder(S)) : InOrder(S)[i] = n
  <1>1. S \in SUBSET Nat /\ IsFiniteSet(S) BY TreeFacts, FS_Subset
  <1>2. /\ InOrder(S) \in Seq(S)
        /\ Len(InOrder(S)) = Cardinality(S)
        /\ Cardinality(S) \in Nat
        /\ \A i, j \in 1..Cardinality(S) : InOrder(S)[i] = InOrder(S)[j] => i = j
        /\ \A n \in S : \E i \in 1..Cardinality(S) : InOrder(S)[i] = n
        /\ \A i \in 1..Cardinality(S) : InOrder(S)[i] \in S
    BY <1>1, InOrderLists
  <1>3. InOrder(S) \in Seq(IRs) BY <1>2, SeqMonotonic
  <1>4. DOMAIN InOrder(S) = 1..Len(InOrder(S)) BY <1>2, LenProperties
  <1> QED BY <1>2, <1>3, <1>4

LEMMA AllFixmesFacts ==
  ASSUME TreeInv
  PROVE  /\ AllFixmes \in Seq(IRs) /\ Len(AllFixmes) \in Nat
         /\ \A i, j \in 1..Len(AllFixmes) : AllFixmes[i] = AllFixmes[j] => i = j
         /\ {AllFixmes[i] : i \in 1..Len(AllFixmes)} = {n \in Below(1) : IsFixme(n)}
  <1> DEFINE S == {n \in Below(1) : IsFixme(n)}
  <1>1. S \in SUBSET IRs
    <2>1. 1 \in IRs BY TreeFacts
    <2> QED BY <2>1, BelowFacts
  <1>2. AllFixmes = InOrder(S) BY DEF AllFixmes
  <1> HIDE DEF S
  <1>3. /\ AllFixmes \in Seq(IRs) /\ Len(AllFixmes) \in Nat
        /\ \A i, j \in 1..Len(AllFixmes) : AllFixmes[i] = AllFixmes[j] => i = j
        /\ \A i \in 1..Len(AllFixmes) : AllFixmes[i] \in S
        /\ \A n \in S : \E i \in 1..Len(AllFixmes) : AllFixmes[i] = n
    BY <1>1, <1>2, InOrderIRs
  <1>4. {AllFixmes[i] : i \in 1..Len(AllFixmes)} = S BY <1>3
  <1> QED BY <1>3, <1>4 DEF S

LEMMA BuildStep ==
  ASSUME BuildScopeTreeWithSymbolTable
  PROVE  /\ UNCHANGED <<root, IsWeakType, source, statement_id, marked, decisions, fixes>>
         /\ pc \in {"build", "building", "collect"}
         /\ pc' \in {"building", "collect", "assert", "crash"}
  <1> USE DEF BuildScopeTreeWithSymbolTable, NextIs, tree
  <1>1. CASE StartBuild BY <1>1 DEF StartBuild
  <1>2. CASE EnterScope BY <1>2 DEF EnterScope
  <1>3. CASE SetScopeID BY <1>3 DEF SetScopeID
  <1>4. CASE ExitScope BY <1>4 DEF ExitScope
  <1>5. CASE StartCollect BY <1>5 DEF StartCollect
  <1>6. CASE CollectBelow BY <1>6 DEF CollectBelow
  <1>7. CASE CollectSimpleVariableDefinition BY <1>7 DEF CollectSimpleVariableDefinition
  <1>8. CASE TypeNotExist BY <1>8 DEF TypeNotExist
  <1>9. CASE CollectStructureBody BY <1>9 DEF CollectStructureBody
  <1>10. CASE CollectStructureDefinition BY <1>10 DEF CollectStructureDefinition
  <1>11. CASE CollectFunctionDefinition BY <1>11 DEF CollectFunctionDefinition
  <1>12. CASE ArgumentTypeNotExist BY <1>12 DEF ArgumentTypeNotExist
  <1> QED
    BY <1>1, <1>2, <1>3, <1>4, <1>5, <1>6, <1>7, <1>8, <1>9, <1>10, <1>11, <1>12
    DEF ScopeTreeNext

LEMMA SameFixmes ==
  ASSUME UNCHANGED <<root, marked>>
  PROVE  /\ AllFixmes' = AllFixmes /\ IRs' = IRs /\ TreeInv' = TreeInv
         /\ {n \in Below(1) : IsFixme(n)}' = {n \in Below(1) : IsFixme(n)}
  BY DEF AllFixmes, IRs, TreeInv, Below, IsFixme, GetString

LEMMA MarkedAreIRs ==
  ASSUME TreeInv, MarkFixMe
  PROVE  TreeInv'
  <1> DEFINE S == Topmost(1, "kFixUnit", {})
  <1>1. S \in SUBSET IRs
    <2>1. 1 \in IRs BY TreeFacts
    <2> QED BY <2>1, BelowFacts DEF Topmost
  <1>2. FixUnits = ToSet(InOrder(S)) BY DEF FixUnits, search_by_data_type
  <1> HIDE DEF S
  <1>3. 1 \notin S
    <2>1. GetDataType(1) # "kFixUnit" BY TreeFacts DEF GetDataType, kDataDefault
    <2> QED BY <2>1 DEF S, Topmost
  <1>4. FixUnits \subseteq IRs \ {1} BY <1>1, <1>2, <1>3, InOrderIRs DEF ToSet
  <1> QED BY <1>4 DEF MarkFixMe, TreeInv, IRs

\* The beginning and the rest.
LEMMA FixStep ==
  ASSUME TreeInv, FixInv, Next
  PROVE  FixInv'
  <1>1. CASE MarkFixMe BY <1>1 DEF MarkFixMe, FixInv
  <1>2. CASE BuildScopeTreeWithSymbolTable
    BY <1>2, BuildStep DEF FixInv
  <1>3. CASE SelectFixStrategy
    <2>1. UNCHANGED <<root, marked, fixes>> /\ pc = "collect" /\ pc' = "fix"
          /\ decisions' = AllFixmes
      BY <1>3 DEF SelectFixStrategy, tree
    <2>2. fixes' = <<>> /\ Len(fixes') = 0 BY <2>1 DEF FixInv
    <2> QED BY <2>1, <2>2, SameFixmes, AllFixmesFacts DEF FixInv
  <1>4. CASE ApplyFix
    <2>1. /\ UNCHANGED <<root, marked, pc>> /\ pc = "fix" /\ decisions # <<>>
          /\ decisions' = Tail(decisions)
          /\ fixes' = Append(fixes, [node |-> decisions[1], uses |-> var_maps'])
      BY <1>4 DEF ApplyFix, tree
    <2>2. /\ fixes' \in Seq(ToSet(fixes'))
          /\ Len(fixes) \in Nat /\ Len(fixes') = Len(fixes) + 1
          /\ fixes'[Len(fixes) + 1].node = decisions[1]
          /\ \A i \in 1..Len(fixes) : fixes'[i] = fixes[i]
      <3>1. fixes \in Seq(ToSet(fixes)) BY DEF FixInv
      <3> QED BY <2>1, <3>1, AppendElement
    <2>3. /\ decisions \in Seq(IRs)
          /\ Len(fixes) + Len(decisions) = Len(AllFixmes)
          /\ \A i \in 1..Len(fixes) : fixes[i].node = AllFixmes[i]
          /\ \A i \in 1..Len(decisions) : decisions[i] = AllFixmes[Len(fixes) + i]
      BY <2>1 DEF FixInv
    <2>4. /\ decisions' \in Seq(IRs) /\ Len(decisions') = Len(decisions) - 1
          /\ Len(decisions) \in Nat \ {0}
          /\ \A i \in 1..Len(decisions') : decisions'[i] = decisions[i + 1]
      <3>1. /\ Tail(decisions) \in Seq(IRs) /\ Len(Tail(decisions)) = Len(decisions) - 1
            /\ \A i \in 1..Len(Tail(decisions)) : Tail(decisions)[i] = decisions[i + 1]
        BY <2>1, <2>3, HeadTailProperties
      <3>2. Len(decisions) \in Nat \ {0} BY <2>1, <2>3, EmptySeq, LenProperties
      <3> QED BY <2>1, <3>1, <3>2
    <2>5. Len(fixes') + Len(decisions') = Len(AllFixmes)
      <3>1. \A a, b \in Nat : (a + 1) + (b - 1) = a + b OBVIOUS
      <3>2. (Len(fixes) + 1) + (Len(decisions) - 1) = Len(fixes) + Len(decisions)
        BY <2>2, <2>4, <3>1
      <3> QED BY <2>2, <2>3, <2>4, <3>2
    <2>6. \A i \in 1..Len(fixes') : fixes'[i].node = AllFixmes[i]
      <3> SUFFICES ASSUME NEW i \in 1..Len(fixes') PROVE fixes'[i].node = AllFixmes[i]
        OBVIOUS
      <3>1. i \in 1..Len(fixes) \/ i = Len(fixes) + 1 BY <2>2
      <3>2. CASE i \in 1..Len(fixes) BY <2>2, <2>3, <3>2
      <3>3. CASE i = Len(fixes) + 1
        <4>1. 1 \in 1..Len(decisions) BY <2>4
        <4>2. decisions[1] = AllFixmes[Len(fixes) + 1] BY <2>3, <4>1
        <4> QED BY <2>2, <3>3, <4>2
      <3> QED BY <3>1, <3>2, <3>3
    <2>7. \A i \in 1..Len(decisions') : decisions'[i] = AllFixmes[Len(fixes') + i]
      <3> SUFFICES ASSUME NEW i \in 1..Len(decisions')
                   PROVE  decisions'[i] = AllFixmes[Len(fixes') + i]
        OBVIOUS
      <3>1. i + 1 \in 1..Len(decisions) /\ Len(fixes) + (i + 1) = Len(fixes') + i
        BY <2>2, <2>4
      <3> QED BY <2>3, <2>4, <3>1
    <2> QED BY <2>1, <2>2, <2>4, <2>5, <2>6, <2>7, SameFixmes DEF FixInv
  <1>5. CASE Return
    <2>1. UNCHANGED <<root, marked, fixes, decisions>> /\ pc = "fix" /\ pc' = "done"
          /\ decisions = <<>>
      BY <1>5 DEF Return, tree
    <2> QED BY <2>1, SameFixmes DEF FixInv
  <1> QED BY <1>1, <1>2, <1>3, <1>4, <1>5 DEF Next

LEMMA FixInvImplies ==
  ASSUME TreeInv, FixInv
  PROVE  EachFixmeOnce
  <1>1. Len(fixes) \in Nat /\ DOMAIN fixes = 1..Len(fixes)
    BY LenProperties DEF FixInv
  <1>2. CASE pc \notin {"fix", "done"}
    <2>1. fixes = <<>> BY <1>2 DEF FixInv
    <2> QED BY <1>2, <2>1 DEF EachFixmeOnce, IsInjective
  <1>3. CASE pc \in {"fix", "done"}
    <2>1. /\ Len(decisions) \in Nat
          /\ Len(fixes) + Len(decisions) = Len(AllFixmes)
          /\ \A i \in 1..Len(fixes) : fixes[i].node = AllFixmes[i]
          /\ pc = "done" => Len(decisions) = 0
      <3>1. decisions \in Seq(IRs) BY <1>3 DEF FixInv
      <3>2. Len(decisions) \in Nat BY <3>1, LenProperties
      <3> QED BY <1>3, <3>2 DEF FixInv
    <2>2. \A i \in 1..Len(fixes) : i \in 1..Len(AllFixmes) BY <1>1, <2>1, AllFixmesFacts
    <2>3. \A i, j \in DOMAIN fixes : fixes[i].node = fixes[j].node => i = j
      BY <1>1, <2>1, <2>2, AllFixmesFacts
    <2>4. pc = "done" => {f.node : f \in ToSet(fixes)} = {n \in Below(1) : IsFixme(n)}
      <3> SUFFICES ASSUME pc = "done"
                   PROVE  {f.node : f \in ToSet(fixes)} = {n \in Below(1) : IsFixme(n)}
        OBVIOUS
      <3>1. Len(fixes) = Len(AllFixmes) BY <1>1, <2>1, AllFixmesFacts
      <3>2. {f.node : f \in ToSet(fixes)} = {fixes[i].node : i \in 1..Len(fixes)}
        BY <1>1 DEF ToSet
      <3>3. {fixes[i].node : i \in 1..Len(fixes)} = {AllFixmes[i] : i \in 1..Len(AllFixmes)}
        BY <2>1, <3>1
      <3> QED BY <3>2, <3>3, AllFixmesFacts
    <2> QED BY <2>3, <2>4 DEF EachFixmeOnce, IsInjective
  <1> QED BY <1>2, <1>3

-----------------------------------------------------------------------------
(***************************************************************************)
(* The chain of scopes from a scope outwards.  That the recursive function *)
(* in Chain exists is shown by an explicit one: the scopes that are in     *)
(* every set that holds s and, with a scope, its parent.                   *)
(***************************************************************************)
ChainIn(ss, s) ==
  LET chain[t \in 0..Len(ss)] ==
        IF t = 0 THEN {} ELSE {t} \cup chain[ss[t].parent]
  IN chain[s]

\* What is needed of the scopes: a scope is made after its parent.
Shaped(ss) ==
  /\ ss \in Seq(ToSet(ss))
  /\ \A s \in 1..Len(ss) :
       /\ {"parent", "opener"} \subseteq DOMAIN ss[s]
       /\ ss[s].parent \in 0..(s - 1)

Closed(ss, C) == \A c \in C \ {0} : ss[c].parent \in C
Outwards(ss, s) ==
  {a \in 1..s : \A C \in SUBSET (0..Len(ss)) : s \in C /\ Closed(ss, C) => a \in C}

LEMMA OutwardsEquation ==
  ASSUME NEW ss, Shaped(ss), NEW s \in 1..Len(ss)
  PROVE  Outwards(ss, s) = {s} \cup Outwards(ss, ss[s].parent)
  <1> DEFINE p == ss[s].parent
  <1>0. Len(ss) \in Nat BY LenProperties DEF Shaped
  <1>1. s \in Nat \ {0} /\ s <= Len(ss) /\ p \in 0..(s - 1) BY <1>0 DEF Shaped
  <1> HIDE DEF p
  <1>2. s \in Outwards(ss, s) BY <1>1 DEF Outwards
  <1>3. ASSUME NEW a \in Outwards(ss, p) PROVE a \in Outwards(ss, s)
    <2>1. a \in 1..s BY <1>1 DEF Outwards
    <2>2. ASSUME NEW C \in SUBSET (0..Len(ss)), s \in C, Closed(ss, C) PROVE a \in C
      <3>1. p \in C BY <1>1, <2>2 DEF Closed, p
      <3> QED BY <2>2, <3>1 DEF Outwards
    <2> QED BY <2>1, <2>2 DEF Outwards
  <1>4. ASSUME NEW a \in Outwards(ss, s), a # s PROVE a \in Outwards(ss, p)
    <2>1. a \in 1..p
      <3> DEFINE C == (0..p) \cup {s}
      <3>1. C \in SUBSET (0..Len(ss)) /\ s \in C BY <1>0, <1>1
      <3>2. ASSUME NEW c \in C \ {0} PROVE ss[c].parent \in C
        <4>1. CASE c = s BY <1>1, <4>1 DEF p
        <4>2. CASE c # s
          <5>1. c \in 1..Len(ss) /\ c \in 1..p BY <1>0, <1>1, <4>2
          <5>2. ss[c].parent \in 0..(c - 1) BY <5>1 DEF Shaped
          <5> QED BY <1>1, <5>1, <5>2
        <4> QED BY <4>1, <4>2
      <3>3. Closed(ss, C)
        <4> HIDE DEF C
        <4> QED BY <3>2 DEF Closed
      <3>4. a \in C
        <4> HIDE DEF C
        <4> QED BY <3>1, <3>3 DEF Outwards
      <3>5. a \in 1..s BY DEF Outwards
      <3> QED BY <1>1, <1>4, <3>4, <3>5
    <2>2. ASSUME NEW C \in SUBSET (0..Len(ss)), p \in C, Closed(ss, C) PROVE a \in C
      <3>1. (C \cup {s}) \in SUBSET (0..Len(ss)) BY <1>0, <1>1
      <3>2. Closed(ss, C \cup {s}) BY <2>2 DEF Closed, p
      <3>3. a \in C \cup {s} BY <3>1, <3>2 DEF Outwards
      <3> QED BY <1>4, <3>3
    <2> QED BY <2>1, <2>2 DEF Outwards
  <1> QED BY <1>2, <1>3, <1>4 DEF p

LEMMA ChainEquation ==
  ASSUME NEW ss, Shaped(ss)
  PROVE  /\ ChainIn(ss, 0) = {}
         /\ \A s \in 1..Len(ss) : ChainIn(ss, s) = {s} \cup ChainIn(ss, ss[s].parent)
  <1> DEFINE Def1(f) == [t \in 0..Len(ss) |-> IF t = 0 THEN {} ELSE {t} \cup f[ss[t].parent]]
             chain == CHOOSE f : f = Def1(f)
             out == [t \in 0..Len(ss) |-> Outwards(ss, t)]
  <1>0. Len(ss) \in Nat BY LenProperties DEF Shaped
  <1>1. out = Def1(out)
    <2>1. out[0] = {} BY <1>0 DEF Outwards
    <2>2. ASSUME NEW s \in 1..Len(ss) PROVE out[s] = {s} \cup out[ss[s].parent]
      <3>1. ss[s].parent \in 0..Len(ss) /\ s \in 0..Len(ss) BY <1>0 DEF Shaped
      <3> QED BY <3>1, OutwardsEquation
    <2>3. ASSUME NEW t \in 0..Len(ss) PROVE out[t] = Def1(out)[t]
      <3>1. t = 0 \/ t \in 1..Len(ss) BY <1>0
      <3> HIDE DEF out
      <3> QED BY <1>0, <2>1, <2>2, <3>1
    <2>4. Def1(out) = [t \in 0..Len(ss) |-> Def1(out)[t]] OBVIOUS
    <2>5. out = [t \in 0..Len(ss) |-> out[t]] OBVIOUS
    <2> HIDE DEF Def1, out
    <2> QED BY <2>3, <2>4, <2>5
  <1>2. chain = Def1(chain)
    <2> HIDE DEF Def1, out
    <2> QED BY <1>1
  <1>3. \A s : ChainIn(ss, s) = chain[s] BY DEF ChainIn
  <1> HIDE DEF chain
  <1>4. chain[0] = {} BY <1>0, <1>2
  <1>5. \A s \in 1..Len(ss) : chain[s] = {s} \cup chain[ss[s].parent] BY <1>0, <1>2
  <1> QED BY <1>3, <1>4, <1>5

\* A set of naturals that is not empty has a least element.
LEMMA LeastElement ==
  ASSUME NEW T, T \subseteq Nat, T # {}
  PROVE  \E x \in T : \A y \in T : x <= y
  <1>1. PICK x \in T : \A y \in T : ~(<<y, x>> \in OpToRel(<, Nat))
    BY NatLessThanWellFounded, WFMin
  <1>2. ASSUME NEW y \in T PROVE x <= y
    <2>1. x \in Nat /\ y \in Nat OBVIOUS
    <2>2. ~(y < x) BY <1>1, <2>1 DEF OpToRel
    <2> QED BY <2>1, <2>2
  <1> QED BY <1>2

LEMMA StrongInduction ==
  ASSUME NEW G, NEW k \in Nat,
         \A s \in 0..k : (\A t \in 0..(s - 1) : t \in G) => s \in G
  PROVE  \A s \in 0..k : s \in G
  <1> SUFFICES ASSUME NEW b \in 0..k, b \notin G PROVE FALSE OBVIOUS
  <1> DEFINE T == {s \in 0..k : s \notin G}
  <1>1. PICK x \in T : \A y \in T : x <= y
    <2>1. T \subseteq Nat /\ T # {} OBVIOUS
    <2> HIDE DEF T
    <2> QED BY <2>1, LeastElement
  <1>2. \A t \in 0..(x - 1) : t \in G
    <2> SUFFICES ASSUME NEW t \in 0..(x - 1), t \notin G PROVE FALSE OBVIOUS
    <2>1. t \in T /\ t < x /\ t \in Nat /\ x \in Nat OBVIOUS
    <2> QED BY <1>1, <2>1
  <1> QED BY <1>2

\* Scopes made later, and definitions, do not change a chain.
LEMMA SameChain ==
  ASSUME NEW ss, Shaped(ss), NEW tt, Shaped(tt), Len(ss) <= Len(tt),
         \A s \in 1..Len(ss) : tt[s].parent = ss[s].parent
  PROVE  \A s \in 0..Len(ss) : ChainIn(tt, s) = ChainIn(ss, s) /\ ChainIn(ss, s) \subseteq 1..s
  <1> DEFINE G == {s \in Nat : ChainIn(tt, s) = ChainIn(ss, s) /\ ChainIn(ss, s) \subseteq 1..s}
  <1>0. Len(ss) \in Nat /\ Len(tt) \in Nat BY LenProperties DEF Shaped
  <1>1. ASSUME NEW s \in 0..Len(ss), \A t \in 0..(s - 1) : t \in G PROVE s \in G
    <2>1. CASE s = 0 BY <2>1, ChainEquation
    <2>2. CASE s # 0
      <3>1. s \in 1..Len(ss) /\ s \in 1..Len(tt) BY <1>0, <2>2
      <3>2. ss[s].parent \in 0..(s - 1) BY <3>1 DEF Shaped
      <3>3. /\ ChainIn(ss, s) = {s} \cup ChainIn(ss, ss[s].parent)
            /\ ChainIn(tt, s) = {s} \cup ChainIn(tt, ss[s].parent)
        BY <3>1, ChainEquation
      <3>4. /\ ChainIn(tt, ss[s].parent) = ChainIn(ss, ss[s].parent)
            /\ ChainIn(ss, ss[s].parent) \subseteq 1..ss[s].parent
        BY <1>1, <3>2
      <3>5. 1..ss[s].parent \subseteq 1..s /\ s \in Nat /\ s \in 1..s BY <1>0, <3>1, <3>2
      <3>6. ChainIn(ss, s) \subseteq 1..s BY <3>3, <3>4, <3>5, Zenon
      <3>7. ChainIn(tt, s) = ChainIn(ss, s) BY <3>3, <3>4, Zenon
      <3> QED BY <3>5, <3>6, <3>7
    <2> QED BY <2>1, <2>2
  <1>2. \A s \in 0..Len(ss) : s \in G
    <2> HIDE DEF G
    <2> QED BY <1>0, <1>1, StrongInduction
  <1> QED BY <1>2

\* The IRs that open the scopes from s outwards.
Opened(ss, s) == {ss[t].opener : t \in ChainIn(ss, s)}

LEMMA OpenedEquation ==
  ASSUME NEW ss, Shaped(ss)
  PROVE  /\ Opened(ss, 0) = {}
         /\ \A s \in 1..Len(ss) : Opened(ss, s) = {ss[s].opener} \cup Opened(ss, ss[s].parent)
  BY ChainEquation DEF Opened

LEMMA SameOpened ==
  ASSUME NEW ss, Shaped(ss), NEW tt, Shaped(tt), Len(ss) <= Len(tt),
         \A s \in 1..Len(ss) : tt[s].parent = ss[s].parent /\ tt[s].opener = ss[s].opener
  PROVE  \A s \in 0..Len(ss) : Opened(tt, s) = Opened(ss, s)
  <1>0. Len(ss) \in Nat BY LenProperties DEF Shaped
  <1>1. \A s \in 0..Len(ss) : ChainIn(tt, s) = ChainIn(ss, s) /\ ChainIn(ss, s) \subseteq 1..s
    BY SameChain
  <1> SUFFICES ASSUME NEW s \in 0..Len(ss) PROVE Opened(tt, s) = Opened(ss, s) OBVIOUS
  <1>2. \A t \in ChainIn(ss, s) : tt[t].opener = ss[t].opener BY <1>0, <1>1
  <1> QED BY <1>1, <1>2 DEF Opened

LEMMA OpenedOfChain ==
  \A s : {scopes[t].opener : t \in Chain(s)} = Opened(scopes, s)
  BY DEF Chain, ChainIn, Opened

-----------------------------------------------------------------------------
(***************************************************************************)
(* The list work.  LeavesFrom(w, i): the IRs whose Leaves stand in w at i  *)
(* or later.                                                               *)
(***************************************************************************)
Work == [do : {"visit", "leave"}, node : IRs]
LeavesFrom(w, i) == {w[j].node : j \in {k \in i..Len(w) : w[k].do = "leave"}}

\* The IRs above n that open a scope.
OpenersAbove(n) == {a \in Above(n) : GetScopeType(a) # kScopeDefault}

WorkOK(w) ==
  /\ w \in Seq(Work)
  /\ \A i \in 1..Len(w) : w[i].do = "visit" => OpenersAbove(w[i].node) = LeavesFrom(w, i)
  /\ \A i \in 1..Len(w) : w[i].do = "leave" =>
       \A m \in LeavesFrom(w, i + 1) : m < w[i].node

LEMMA LeavesOfTail ==
  ASSUME NEW w \in Seq(Work), w # <<>>
  PROVE  /\ Tail(w) \in Seq(Work) /\ Len(w) \in Nat \ {0} /\ Len(Tail(w)) = Len(w) - 1
         /\ \A i \in 1..Len(Tail(w)) : Tail(w)[i] = w[i + 1]
         /\ \A i \in 1..Len(w) : LeavesFrom(Tail(w), i) = LeavesFrom(w, i + 1)
         /\ Head(w) = w[1] /\ w[1] \in Work
         /\ LeavesFrom(w, 1) = (IF w[1].do = "leave" THEN {w[1].node} ELSE {})
                                 \cup LeavesFrom(Tail(w), 1)
  <1> DEFINE u == Tail(w)
  <1>1. /\ u \in Seq(Work) /\ Len(w) \in Nat \ {0} /\ Len(u) = Len(w) - 1
        /\ \A i \in 1..Len(u) : u[i] = w[i + 1]
    <2>1. Len(w) \in Nat /\ Len(w) # 0 BY EmptySeq, LenProperties
    <2> QED BY <2>1, HeadTailProperties
  <1>2. Head(w) = w[1] /\ w[1] \in Work BY <1>1
  <1> HIDE DEF u
  <1>3. ASSUME NEW i \in 1..Len(w) PROVE LeavesFrom(u, i) = LeavesFrom(w, i + 1)
    <2>1. ASSUME NEW x \in LeavesFrom(u, i) PROVE x \in LeavesFrom(w, i + 1)
      <3>1. PICK k \in i..Len(u) : u[k].do = "leave" /\ x = u[k].node BY DEF LeavesFrom
      <3>2. k + 1 \in (i + 1)..Len(w) /\ w[k + 1] = u[k] BY <1>1, <3>1
      <3> QED BY <3>1, <3>2 DEF LeavesFrom
    <2>2. ASSUME NEW x \in LeavesFrom(w, i + 1) PROVE x \in LeavesFrom(u, i)
      <3>1. PICK k \in (i + 1)..Len(w) : w[k].do = "leave" /\ x = w[k].node BY DEF LeavesFrom
      <3>2. k - 1 \in i..Len(u) /\ k - 1 \in 1..Len(u) /\ (k - 1) + 1 = k BY <1>1, <3>1
      <3>3. u[k - 1] = w[k] BY <1>1, <3>2
      <3> QED BY <3>1, <3>2, <3>3 DEF LeavesFrom
    <2> QED BY <2>1, <2>2
  <1>4. LeavesFrom(w, 1) = (IF w[1].do = "leave" THEN {w[1].node} ELSE {}) \cup LeavesFrom(w, 2)
    <2>1. 1..Len(w) = {1} \cup 2..Len(w) BY <1>1
    <2> QED BY <2>1 DEF LeavesFrom
  <1>5. LeavesFrom(u, 1) = LeavesFrom(w, 2)
    <2>1. 1 \in 1..Len(w) /\ 1 + 1 = 2 BY <1>1
    <2> QED BY <1>3, <2>1
  <1> QED BY <1>1, <1>2, <1>3, <1>4, <1>5 DEF u

LEMMA WorkOfTail ==
  ASSUME NEW w, WorkOK(w), w # <<>>
  PROVE  WorkOK(Tail(w))
  <1> DEFINE u == Tail(w)
  <1>1. w \in Seq(Work) BY DEF WorkOK
  <1>2. /\ u \in Seq(Work) /\ Len(w) \in Nat \ {0} /\ Len(u) = Len(w) - 1
        /\ \A i \in 1..Len(u) : u[i] = w[i + 1]
        /\ \A i \in 1..Len(w) : LeavesFrom(u, i) = LeavesFrom(w, i + 1)
    BY <1>1, LeavesOfTail
  <1> HIDE DEF u
  <1>3. ASSUME NEW i \in 1..Len(u)
        PROVE  /\ u[i].do = "visit" => OpenersAbove(u[i].node) = LeavesFrom(u, i)
               /\ u[i].do = "leave" => \A m \in LeavesFrom(u, i + 1) : m < u[i].node
    <2>1. i + 1 \in 1..Len(w) /\ i \in 1..Len(w) /\ u[i] = w[i + 1] BY <1>2
    <2>2. LeavesFrom(u, i) = LeavesFrom(w, i + 1) BY <1>2, <2>1
    <2>3. LeavesFrom(u, i + 1) = LeavesFrom(w, (i + 1) + 1) BY <1>2, <2>1
    <2> QED BY <2>1, <2>2, <2>3 DEF WorkOK
  <1> QED BY <1>2, <1>3 DEF WorkOK, u

LEMMA LeavesOfConcat ==
  ASSUME NEW v \in Seq(Work), NEW w \in Seq(Work)
  PROVE  /\ v \o w \in Seq(Work) /\ Len(v) \in Nat /\ Len(w) \in Nat
         /\ Len(v \o w) = Len(v) + Len(w)
         /\ \A i \in 1..Len(v) : (v \o w)[i] = v[i]
         /\ \A i \in 1..Len(w) : (v \o w)[Len(v) + i] = w[i]
         /\ \A i \in 1..(Len(w) + 1) : LeavesFrom(v \o w, Len(v) + i) = LeavesFrom(w, i)
         /\ \A i \in 1..Len(v) : LeavesFrom(v \o w, i) = LeavesFrom(v, i) \cup LeavesFrom(w, 1)
  <1> DEFINE u == v \o w
  <1>1. /\ u \in Seq(Work) /\ Len(v) \in Nat /\ Len(w) \in Nat
        /\ Len(u) = Len(v) + Len(w)
        /\ \A i \in 1..(Len(v) + Len(w)) : u[i] = IF i <= Len(v) THEN v[i] ELSE w[i - Len(v)]
    BY ConcatProperties, LenProperties
  <1> HIDE DEF u
  <1>2. \A i \in 1..Len(v) : u[i] = v[i] BY <1>1
  <1>3. ASSUME NEW i \in 1..Len(w) PROVE u[Len(v) + i] = w[i]
    <2>1. Len(v) + i \in 1..(Len(v) + Len(w)) /\ ~(Len(v) + i <= Len(v))
          /\ (Len(v) + i) - Len(v) = i
      BY <1>1
    <2> QED BY <1>1, <2>1
  <1>4. ASSUME NEW i \in 1..(Len(w) + 1) PROVE LeavesFrom(u, Len(v) + i) = LeavesFrom(w, i)
    <2>1. ASSUME NEW x \in LeavesFrom(u, Len(v) + i) PROVE x \in LeavesFrom(w, i)
      <3>1. PICK k \in (Len(v) + i)..Len(u) : u[k].do = "leave" /\ x = u[k].node
        BY DEF LeavesFrom
      <3>2. /\ k - Len(v) \in i..Len(w) /\ k - Len(v) \in 1..Len(w)
            /\ Len(v) + (k - Len(v)) = k
        BY <1>1
      <3>3. u[k] = w[k - Len(v)] BY <1>3, <3>2
      <3> QED BY <3>1, <3>2, <3>3 DEF LeavesFrom
    <2>2. ASSUME NEW x \in LeavesFrom(w, i) PROVE x \in LeavesFrom(u, Len(v) + i)
      <3>1. PICK k \in i..Len(w) : w[k].do = "leave" /\ x = w[k].node BY DEF LeavesFrom
      <3>2. Len(v) + k \in (Len(v) + i)..Len(u) /\ k \in 1..Len(w) BY <1>1
      <3>3. u[Len(v) + k] = w[k] BY <1>3, <3>2
      <3> QED BY <3>1, <3>2, <3>3 DEF LeavesFrom
    <2> QED BY <2>1, <2>2
  <1>5. ASSUME NEW i \in 1..Len(v)
        PROVE  LeavesFrom(u, i) = LeavesFrom(v, i) \cup LeavesFrom(w, 1)
    <2>1. i..Len(u) = (i..Len(v)) \cup ((Len(v) + 1)..Len(u)) BY <1>1
    <2>2. LeavesFrom(u, Len(v) + 1) = LeavesFrom(w, 1)
      <3>1. 1 \in 1..(Len(w) + 1) BY <1>1
      <3> QED BY <1>4, <3>1
    <2>3. LeavesFrom(u, i) = {u[j].node : j \in {k \in i..Len(v) : u[k].do = "leave"}}
                               \cup LeavesFrom(u, Len(v) + 1)
      BY <2>1 DEF LeavesFrom
    <2>4. \A k \in i..Len(v) : u[k] = v[k] BY <1>1, <1>2
    <2>5. {u[j].node : j \in {k \in i..Len(v) : u[k].do = "leave"}} = LeavesFrom(v, i)
      BY <2>4 DEF LeavesFrom
    <2> QED BY <2>2, <2>3, <2>5
  <1> QED BY <1>1, <1>2, <1>3, <1>4, <1>5 DEF u

\* Visits of IRs with the same scopes around them as the rest has left open.
LEMMA WorkOfVisits ==
  ASSUME NEW v \in Seq(Work), NEW w, WorkOK(w),
         \A i \in 1..Len(v) : v[i].do = "visit" /\ OpenersAbove(v[i].node) = LeavesFrom(w, 1)
  PROVE  WorkOK(v \o w) /\ LeavesFrom(v \o w, 1) = LeavesFrom(w, 1)
  <1> DEFINE u == v \o w
  <1>0. w \in Seq(Work) BY DEF WorkOK
  <1>1. /\ u \in Seq(Work) /\ Len(v) \in Nat /\ Len(w) \in Nat
        /\ Len(u) = Len(v) + Len(w)
        /\ \A i \in 1..Len(v) : u[i] = v[i]
        /\ \A i \in 1..Len(w) : u[Len(v) + i] = w[i]
        /\ \A i \in 1..(Len(w) + 1) : LeavesFrom(u, Len(v) + i) = LeavesFrom(w, i)
        /\ \A i \in 1..Len(v) : LeavesFrom(u, i) = LeavesFrom(v, i) \cup LeavesFrom(w, 1)
    BY <1>0, LeavesOfConcat
  <1> HIDE DEF u
  <1>2. \A i \in 1..Len(v) : LeavesFrom(v, i) = {}
    <2> SUFFICES ASSUME NEW i \in 1..Len(v), NEW k \in i..Len(v) PROVE v[k].do # "leave"
      BY DEF LeavesFrom
    <2> QED BY <1>1
  <1>3. \A i \in 1..Len(v) : LeavesFrom(u, i) = LeavesFrom(w, 1) BY <1>1, <1>2
  <1>4. ASSUME NEW i \in 1..Len(u)
        PROVE  /\ u[i].do = "visit" => OpenersAbove(u[i].node) = LeavesFrom(u, i)
               /\ u[i].do = "leave" => \A m \in LeavesFrom(u, i + 1) : m < u[i].node
    <2>1. CASE i \in 1..Len(v) BY <1>1, <1>3, <2>1
    <2>2. CASE i \notin 1..Len(v)
      <3> DEFINE k == i - Len(v)
      <3>1. k \in 1..Len(w) /\ k \in 1..(Len(w) + 1) /\ k + 1 \in 1..(Len(w) + 1)
            /\ Len(v) + k = i /\ Len(v) + (k + 1) = i + 1
        BY <1>1, <2>2
      <3> HIDE DEF k
      <3>2. u[i] = w[k] /\ LeavesFrom(u, i) = LeavesFrom(w, k)
            /\ LeavesFrom(u, i + 1) = LeavesFrom(w, k + 1)
        BY <1>1, <3>1
      <3> QED BY <3>1, <3>2 DEF WorkOK
    <2> QED BY <2>1, <2>2
  <1>5. LeavesFrom(u, 1) = LeavesFrom(w, 1)
    <2>1. CASE Len(v) = 0
      <3>1. 1 \in 1..(Len(w) + 1) /\ Len(v) + 1 = 1 BY <1>1, <2>1
      <3> QED BY <1>1, <3>1
    <2>2. CASE Len(v) # 0
      <3>1. 1 \in 1..Len(v) BY <1>1, <2>2
      <3> QED BY <1>3, <3>1
    <2> QED BY <2>1, <2>2
  <1> QED BY <1>1, <1>4, <1>5 DEF WorkOK, u

LEMMA WorkOfLeave ==
  ASSUME NEW w, WorkOK(w), NEW n \in IRs, \A m \in LeavesFrom(w, 1) : m < n
  PROVE  WorkOK(<<Leave(n)>> \o w) /\ LeavesFrom(<<Leave(n)>> \o w, 1) = {n} \cup LeavesFrom(w, 1)
  <1> DEFINE v == <<Leave(n)>>
             u == v \o w
  <1>0. w \in Seq(Work) /\ v \in Seq(Work) /\ Len(v) = 1 /\ v[1] = Leave(n)
    BY DEF WorkOK, Work, Leave
  <1> HIDE DEF v
  <1>1. /\ u \in Seq(Work) /\ Len(w) \in Nat
        /\ Len(u) = 1 + Len(w)
        /\ u[1] = Leave(n)
        /\ \A i \in 1..Len(w) : u[1 + i] = w[i]
        /\ \A i \in 1..(Len(w) + 1) : LeavesFrom(u, 1 + i) = LeavesFrom(w, i)
    <2>1. 1 \in 1..Len(v) BY <1>0
    <2> QED BY <1>0, <2>1, LeavesOfConcat
  <1>2. u[1].do = "leave" /\ u[1].node = n BY <1>1 DEF Leave
  <1> HIDE DEF u
  <1>3. LeavesFrom(u, 1) = {n} \cup LeavesFrom(w, 1)
    <2>1. 1..Len(u) = {1} \cup (2..Len(u)) BY <1>1
    <2>2. LeavesFrom(u, 1) = {n} \cup LeavesFrom(u, 2) BY <1>2, <2>1 DEF LeavesFrom
    <2>3. 1 \in 1..(Len(w) + 1) /\ 1 + 1 = 2 BY <1>1
    <2> QED BY <1>1, <2>2, <2>3
  <1>4. ASSUME NEW i \in 1..Len(u)
        PROVE  /\ u[i].do = "visit" => OpenersAbove(u[i].node) = LeavesFrom(u, i)
               /\ u[i].do = "leave" => \A m \in LeavesFrom(u, i + 1) : m < u[i].node
    <2>1. CASE i = 1
      <3>1. 1 \in 1..(Len(w) + 1) /\ 1 + 1 = 2 BY <1>1
      <3>2. LeavesFrom(u, i + 1) = LeavesFrom(w, 1) BY <1>1, <2>1, <3>1
      <3> QED BY <1>2, <2>1, <3>2
    <2>2. CASE i # 1
      <3> DEFINE k == i - 1
      <3>1. k \in 1..Len(w) /\ k \in 1..(Len(w) + 1) /\ k + 1 \in 1..(Len(w) + 1)
            /\ 1 + k = i /\ 1 + (k + 1) = i + 1
        BY <1>1, <2>2
      <3> HIDE DEF k
      <3>2. u[i] = w[k] /\ LeavesFrom(u, i) = LeavesFrom(w, k)
            /\ LeavesFrom(u, i + 1) = LeavesFrom(w, k + 1)
        BY <1>1, <3>1
      <3> QED BY <3>1, <3>2 DEF WorkOK
    <2> QED BY <2>1, <2>2
  <1> QED BY <1>1, <1>3, <1>4 DEF WorkOK, u, v

-----------------------------------------------------------------------------
(***************************************************************************)
(* The tree.  Around the child of an IR are that IR and what is around it. *)
(* A marked IR hides what is below it, so that no child is below one.      *)
(***************************************************************************)
LEMMA AboveKid ==
  ASSUME TreeInv, NEW n \in IRs, NEW m \in Below(n), m # n, Above(m) \cap Below(n) = {n}
  PROVE  m \in IRs /\ Above(m) = Above(n) \cup {n}
  <1>1. /\ Len(root) \in Nat \ {0} /\ IRs = 1..Len(root)
        /\ \A k \in IRs : root[k].last \in k..Len(root)
        /\ \A k \in IRs : \A l \in k..root[k].last : root[l].last <= root[k].last
    BY TreeFacts
  <1>2. n \in Nat /\ n >= 1 /\ n <= Len(root) /\ root[n].last \in Nat /\ root[n].last <= Len(root)
    BY <1>1
  <1>3. m \in Nat /\ n < m /\ m <= root[n].last /\ m \in IRs
    BY <1>1, <1>2 DEF Below
  <1>4. ASSUME NEW a \in Above(m) PROVE a \in Above(n) \cup {n}
    <2>1. a \in Nat /\ 1 <= a /\ a < m /\ m <= root[a].last BY <1>3 DEF Above
    <2>2. a \in IRs BY <1>1, <1>3, <2>1
    <2>3. CASE a < n
      <3>1. n <= root[a].last BY <1>1, <1>2, <1>3, <2>1, <2>2
      <3> QED BY <1>2, <2>1, <2>3, <3>1 DEF Above
    <2>4. CASE a > n
      <3>1. a \notin Below(n) BY <1>2, <2>1, <2>4
      <3>2. a \in n..root[n].last BY <1>2, <1>3, <2>1, <2>4
      <3>3. PICK u \in marked : ~(a <= u \/ a > root[u].last) BY <3>1, <3>2 DEF Below
      <3>4. u \in IRs BY DEF TreeInv
      <3>5. u \in Nat /\ root[u].last \in Nat /\ root[a].last \in Nat BY <1>1, <2>2, <3>4
      <3>6. u < a /\ a <= root[u].last BY <2>1, <3>3, <3>5
      <3>7. root[a].last <= root[u].last
        <4>1. a \in u..root[u].last BY <2>1, <3>5, <3>6
        <4> QED BY <1>1, <3>4, <4>1
      <3>8. m <= u \/ m > root[u].last BY DEF Below
      <3> QED BY <1>3, <2>1, <3>5, <3>6, <3>7, <3>8
    <2> QED BY <1>2, <2>1, <2>3, <2>4
  <1>5. ASSUME NEW a \in Above(n) PROVE a \in Above(m)
    <2>1. a \in Nat /\ 1 <= a /\ a < n /\ n <= root[a].last BY <1>2 DEF Above
    <2>2. a \in IRs /\ root[a].last \in Nat BY <1>1, <1>2, <2>1
    <2>3. root[n].last <= root[a].last
      <3>1. n \in a..root[a].last BY <1>2, <2>1, <2>2
      <3> QED BY <1>1, <2>2, <3>1
    <2>4. m <= root[a].last /\ a \in 1..(m - 1) BY <1>2, <1>3, <2>1, <2>2, <2>3
    <2> QED BY <2>4 DEF Above
  <1>6. n \in Above(m)
    <2>1. n \in 1..(m - 1) BY <1>2, <1>3
    <2> QED BY <1>3, <2>1 DEF Above
  <1> QED BY <1>3, <1>4, <1>5, <1>6

LEMMA KidsFacts ==
  ASSUME TreeInv, NEW n \in IRs
  PROVE  /\ VisitKids(n) \in Seq(Work)
         /\ \A i \in 1..Len(VisitKids(n)) :
              /\ VisitKids(n)[i].do = "visit"
              /\ OpenersAbove(VisitKids(n)[i].node) = Openers(n)
  <1> DEFINE S == {m \in Below(n) \ {n} : Above(m) \cap Below(n) = {n}}
  <1>1. S \in SUBSET IRs BY BelowFacts
  <1>2. Kids(n) = InOrder(S) BY DEF Kids
  <1>3. \A m \in S : m \in IRs /\ Above(m) = Above(n) \cup {n} BY AboveKid
  <1> HIDE DEF S
  <1>4. /\ Len(Kids(n)) \in Nat /\ DOMAIN Kids(n) = 1..Len(Kids(n))
        /\ \A i \in 1..Len(Kids(n)) : Kids(n)[i] \in S
    BY <1>1, <1>2, InOrderIRs
  <1>5. VisitKids(n) = [i \in 1..Len(Kids(n)) |-> Visit(Kids(n)[i])] BY <1>4 DEF VisitKids
  <1>6. \A i \in 1..Len(Kids(n)) : Visit(Kids(n)[i]) \in Work BY <1>3, <1>4 DEF Visit, Work
  <1>7. VisitKids(n) \in [1..Len(Kids(n)) -> Work] BY <1>5, <1>6
  <1>8. VisitKids(n) \in Seq(Work) /\ Len(VisitKids(n)) = Len(Kids(n))
    BY <1>4, <1>7, IsASeq, LenProperties
  <1>9. \A m \in S : OpenersAbove(m) = Openers(n) BY <1>3 DEF OpenersAbove, Openers
  <1>10. \A i \in 1..Len(Kids(n)) : VisitKids(n)[i] = Visit(Kids(n)[i]) BY <1>5
  <1>11. \A m : Visit(m).do = "visit" /\ Visit(m).node = m BY DEF Visit
  <1>12. ASSUME NEW i \in 1..Len(Kids(n))
         PROVE  VisitKids(n)[i].do = "visit" /\ OpenersAbove(VisitKids(n)[i].node) = Openers(n)
    <2>1. VisitKids(n)[i] = Visit(Kids(n)[i]) /\ Kids(n)[i] \in S BY <1>4, <1>10
    <2> QED BY <1>9, <1>11, <2>1
  <1> QED BY <1>8, <1>12

\* Nothing is above the root.
LEMMA RootFacts ==
  ASSUME TreeInv
  PROVE  1 \in IRs /\ OpenersAbove(1) = {}
  BY TreeFacts DEF OpenersAbove, Above

LEMMA OpenersFacts ==
  ASSUME TreeInv, NEW n \in IRs
  PROVE  /\ Openers(n) = OpenersAbove(n) \cup (IF GetScopeType(n) # kScopeDefault THEN {n} ELSE {})
         /\ \A a \in OpenersAbove(n) : a \in Nat /\ a < n
         /\ n \in Nat
  <1>1. n \in Nat BY TreeFacts
  <1>2. \A a \in OpenersAbove(n) : a \in Nat /\ a < n BY <1>1 DEF OpenersAbove, Above
  <1>3. Openers(n) = OpenersAbove(n) \cup (IF GetScopeType(n) # kScopeDefault THEN {n} ELSE {})
    BY DEF Openers, OpenersAbove
  <1> QED BY <1>1, <1>2, <1>3

\* What is below an IR is below one of its children.
LEMMA BelowKid ==
  ASSUME TreeInv, NEW n \in IRs, NEW m \in Below(n), m # n
  PROVE  \E i \in 1..Len(VisitKids(n)) :
           VisitKids(n)[i].do = "visit" /\ m \in Below(VisitKids(n)[i].node)
  <1> DEFINE S == {k \in Below(n) \ {n} : Above(k) \cap Below(n) = {n}}
             T == {a \in Above(m) \cup {m} : a \in Below(n) /\ a # n}
  <1>1. /\ Len(root) \in Nat \ {0} /\ IRs = 1..Len(root)
        /\ \A k \in IRs : root[k].last \in k..Len(root)
        /\ \A k \in IRs : \A l \in k..root[k].last : root[l].last <= root[k].last
        /\ Below(n) \in SUBSET IRs
    BY TreeFacts, BelowFacts
  <1>2. /\ n \in Nat /\ m \in Nat /\ n < m /\ m <= root[n].last /\ m \in IRs
        /\ root[n].last \in Nat /\ n >= 1
        /\ \A u \in marked : m <= u \/ m > root[u].last
    BY <1>1 DEF Below
  <1>3. n \in Below(n)
    <2>1. ASSUME NEW u \in marked, ~(n <= u \/ n > root[u].last) PROVE FALSE
      <3>1. u \in IRs BY DEF TreeInv
      <3>2. u \in Nat /\ root[u].last \in Nat BY <1>1, <3>1
      <3>3. n \in u..root[u].last BY <1>2, <2>1, <3>2
      <3>4. root[n].last <= root[u].last BY <1>1, <3>1, <3>3
      <3> QED BY <1>2, <2>1, <3>2, <3>4
    <2>2. n \in n..root[n].last BY <1>2
    <2> QED BY <2>1, <2>2 DEF Below
  <1>4. PICK k \in T : \A a \in T : k <= a
    <2>1. T \subseteq Nat /\ m \in T BY <1>1
    <2> HIDE DEF T
    <2> QED BY <2>1, LeastElement
  <1>5. /\ k \in Below(n) /\ k # n /\ k \in IRs /\ k \in Nat /\ root[k].last \in Nat
        /\ k <= m /\ m <= root[k].last
    <2>1. k \in Below(n) /\ k # n /\ k \in IRs BY <1>1
    <2>2. k \in Nat /\ root[k].last \in Nat /\ k <= root[k].last BY <1>1, <2>1
    <2>3. CASE k = m BY <2>1, <2>2, <2>3
    <2>4. CASE k \in Above(m) BY <1>2, <2>1, <2>2, <2>4 DEF Above
    <2> QED BY <2>3, <2>4
  <1>6. n < k /\ k <= root[n].last BY <1>2, <1>5 DEF Below
  <1>7. n \in Above(k)
    <2>1. n \in 1..(k - 1) BY <1>2, <1>5, <1>6
    <2> QED BY <1>6, <2>1 DEF Above
  <1>8. ASSUME NEW a \in Above(k), a \in Below(n) PROVE a = n
    <2> SUFFICES ASSUME a # n PROVE FALSE OBVIOUS
    <2>1. a \in IRs /\ a \in Nat /\ root[a].last \in Nat BY <1>1, <1>8
    <2>2. 1 <= a /\ a < k /\ k <= root[a].last BY <1>5, <2>1 DEF Above
    <2>3. root[k].last <= root[a].last
      <3>1. k \in a..root[a].last BY <1>5, <2>1, <2>2
      <3> QED BY <1>1, <2>1, <3>1
    <2>4. a \in Above(m)
      <3>1. a \in 1..(m - 1) /\ m <= root[a].last BY <1>2, <1>5, <2>1, <2>2, <2>3
      <3> QED BY <3>1 DEF Above
    <2>5. k <= a BY <1>4, <1>8, <2>4
    <2> QED BY <1>5, <2>1, <2>2, <2>5
  <1>9. k \in S BY <1>3, <1>5, <1>7, <1>8
  <1>10. m \in Below(k)
    <2>1. m \in k..root[k].last BY <1>2, <1>5
    <2> QED BY <1>2, <2>1 DEF Below
  <1>11. S \in SUBSET IRs BY <1>1
  <1>12. Kids(n) = InOrder(S) BY DEF Kids
  <1> HIDE DEF S, T
  <1>13. PICK i \in 1..Len(Kids(n)) : Kids(n)[i] = k BY <1>9, <1>11, <1>12, InOrderIRs
  <1>14. Len(Kids(n)) \in Nat /\ DOMAIN Kids(n) = 1..Len(Kids(n)) BY <1>11, <1>12, InOrderIRs
  <1>15. VisitKids(n)[i] = Visit(k) BY <1>13, <1>14 DEF VisitKids
  <1>16. i \in 1..Len(VisitKids(n))
    <2>1. DOMAIN VisitKids(n) = 1..Len(Kids(n)) BY <1>14 DEF VisitKids
    <2>2. VisitKids(n) \in Seq(Work) BY KidsFacts
    <2>3. DOMAIN VisitKids(n) = 1..Len(VisitKids(n)) BY <2>2, LenProperties
    <2> QED BY <2>1, <2>3
  <1>17. Visit(k).do = "visit" /\ Visit(k).node = k BY DEF Visit
  <1> QED BY <1>10, <1>15, <1>16, <1>17

\* The root opens a scope around everything else.
LEMMA RootAbove ==
  ASSUME TreeInv, NEW n \in IRs
  PROVE  1 \in Openers(n) /\ (n # 1 => 1 \in OpenersAbove(n))
  <1>1. n \in Nat /\ 1 <= n /\ n <= root[1].last BY TreeFacts
  <1>2. GetScopeType(1) # kScopeDefault BY TreeFacts DEF GetScopeType, TreeInv
  <1>3. n # 1 => 1 \in Above(n) BY <1>1 DEF Above
  <1> QED BY <1>2, <1>3 DEF Openers, OpenersAbove

-----------------------------------------------------------------------------
(***************************************************************************)
(* The inductive invariant of the scopes.  Nested says that a scope is     *)
(* opened within the scope that is its parent; so the innermost scope is   *)
(* the one with the greatest opener, as the first Leave in the list is     *)
(* that of the greatest IR.  Covered says that an IR without a scope is    *)
(* still to be visited.                                                    *)
(***************************************************************************)
Nested(ss) ==
  \A s \in 1..Len(ss) :
    /\ ss[s].opener \in Nat
    /\ \A a \in Opened(ss, ss[s].parent) : a \in Nat /\ a < ss[s].opener

ScopeIDs(ss, id) ==
  /\ DOMAIN id = IRs
  /\ \A n \in IRs : /\ id[n] \in 0..Len(ss)
                    /\ id[n] # 0 => Opened(ss, id[n]) = Openers(n)

Covered(w, id) ==
  \A n \in Below(1) :
    id[n] # 0 \/ \E i \in 1..Len(w) : w[i].do = "visit" /\ n \in Below(w[i].node)

ScopeInv ==
  /\ pc \in {"mark", "build"} => scopes = <<>> /\ g_scope_current_ = 0
                                 /\ scope_id = [n \in IRs |-> 0]
  /\ Shaped(scopes)
  /\ Nested(scopes)
  /\ g_scope_current_ \in 0..Len(scopes)
  /\ ScopeIDs(scopes, scope_id)
  /\ pc = "building" => /\ WorkOK(work)
                        /\ Opened(scopes, g_scope_current_) = LeavesFrom(work, 1)
                        /\ Covered(work, scope_id)
  /\ pc \notin {"mark", "build", "building"} =>
       g_scope_current_ = 0 /\ \A n \in Below(1) : scope_id[n] # 0

LEMMA NewScope ==
  ASSUME NEW ss, Shaped(ss), Nested(ss), NEW g \in 0..Len(ss), NEW n \in Nat, NEW e,
         {"parent", "opener"} \subseteq DOMAIN e, e.parent = g, e.opener = n,
         \A a \in Opened(ss, g) : a \in Nat /\ a < n
  PROVE  /\ Shaped(Append(ss, e)) /\ Nested(Append(ss, e))
         /\ Len(ss) \in Nat /\ Len(Append(ss, e)) = Len(ss) + 1
         /\ \A s \in 0..Len(ss) : Opened(Append(ss, e), s) = Opened(ss, s)
         /\ Opened(Append(ss, e), Len(ss) + 1) = {n} \cup Opened(ss, g)
  <1> DEFINE tt == Append(ss, e)
  <1>1. /\ tt \in Seq(ToSet(tt)) /\ Len(ss) \in Nat /\ Len(tt) = Len(ss) + 1
        /\ tt[Len(ss) + 1] = e
        /\ \A s \in 1..Len(ss) : tt[s] = ss[s]
    BY AppendElement DEF Shaped
  <1> HIDE DEF tt
  <1>2. \A s \in 1..Len(tt) : s \in 1..Len(ss) \/ (s = Len(ss) + 1 /\ tt[s] = e) BY <1>1
  <1>3. Shaped(tt)
    <2>1. ASSUME NEW s \in 1..Len(tt)
          PROVE  {"parent", "opener"} \subseteq DOMAIN tt[s] /\ tt[s].parent \in 0..(s - 1)
      <3>1. CASE s \in 1..Len(ss) BY <1>1, <3>1 DEF Shaped
      <3>2. CASE s = Len(ss) + 1 /\ tt[s] = e BY <1>1, <3>2
      <3> QED BY <1>2, <3>1, <3>2
    <2> QED BY <1>1, <2>1 DEF Shaped
  <1>4. \A s \in 0..Len(ss) : Opened(tt, s) = Opened(ss, s)
    <2>1. Len(ss) <= Len(tt) BY <1>1
    <2> QED BY <1>1, <1>3, <2>1, SameOpened
  <1>5. Opened(tt, Len(ss) + 1) = {n} \cup Opened(ss, g)
    <2>1. Len(ss) + 1 \in 1..Len(tt) BY <1>1
    <2>2. Opened(tt, Len(ss) + 1) = {e.opener} \cup Opened(tt, e.parent)
      BY <1>1, <1>3, <2>1, OpenedEquation
    <2> QED BY <1>4, <2>2
  <1>6. Nested(tt)
    <2>1. ASSUME NEW s \in 1..Len(tt)
          PROVE  tt[s].opener \in Nat
                 /\ \A a \in Opened(tt, tt[s].parent) : a \in Nat /\ a < tt[s].opener
      <3>1. CASE s \in 1..Len(ss)
        <4>1. ss[s].parent \in 0..Len(ss) BY <1>1, <3>1 DEF Shaped
        <4> QED BY <1>1, <1>4, <3>1, <4>1 DEF Nested
      <3>2. CASE s = Len(ss) + 1 /\ tt[s] = e BY <1>4, <3>2
      <3> QED BY <1>2, <3>1, <3>2
    <2> QED BY <2>1 DEF Nested
  <1> QED BY <1>1, <1>3, <1>4, <1>5, <1>6 DEF tt

LEMMA SameTree ==
  ASSUME UNCHANGED <<root, marked>>
  PROVE  /\ IRs' = IRs
         /\ WorkOK(work') => WorkOK(work)'
         /\ ScopeIDs(scopes', scope_id') => ScopeIDs(scopes, scope_id)'
         /\ Shaped(scopes') => Shaped(scopes)'
         /\ Nested(scopes') => Nested(scopes)'
         /\ Opened(scopes, g_scope_current_)' = Opened(scopes', g_scope_current_')
         /\ LeavesFrom(work, 1)' = LeavesFrom(work', 1)
         /\ Covered(work', scope_id') => Covered(work, scope_id)'
         /\ Below(1)' = Below(1)
  <1>1. IRs' = IRs BY DEF IRs
  <1>2. WorkOK(work') => WorkOK(work)'
    BY <1>1 DEF WorkOK, Work, OpenersAbove, Above, GetScopeType, LeavesFrom
  <1>3. ScopeIDs(scopes', scope_id') => ScopeIDs(scopes, scope_id)'
    BY <1>1 DEF ScopeIDs, Openers, Above, GetScopeType, Opened, ChainIn
  <1>4. Shaped(scopes') => Shaped(scopes)' BY DEF Shaped
  <1>5. Opened(scopes, g_scope_current_)' = Opened(scopes', g_scope_current_')
    BY DEF Opened, ChainIn
  <1>6. Nested(scopes') => Nested(scopes)' BY DEF Nested, Opened, ChainIn
  <1>7. LeavesFrom(work, 1)' = LeavesFrom(work', 1) BY DEF LeavesFrom
  <1>8. Covered(work', scope_id') => Covered(work, scope_id)' BY DEF Covered, Below
  <1>9. Below(1)' = Below(1) BY DEF Below
  <1> QED BY <1>1, <1>2, <1>3, <1>4, <1>5, <1>6, <1>7, <1>8, <1>9

\* What is still to be visited when the head of the list is replaced by v.
Replaces(v, w, new) ==
  w[1].do = "visit" =>
    /\ new[w[1].node] # 0
    /\ \A m \in Below(w[1].node) \ {w[1].node} :
         \E i \in 1..Len(v) : v[i].do = "visit" /\ m \in Below(v[i].node)
KeepsScopes(id, new) == \A m \in IRs : id[m] # 0 => new[m] # 0

LEMMA CoveredNext ==
  ASSUME TreeInv, NEW w \in Seq(Work), w # <<>>, NEW v \in Seq(Work), NEW id, NEW new,
         Covered(w, id), KeepsScopes(id, new), Replaces(v, w, new)
  PROVE  Covered(v \o Tail(w), new)
  <1> DEFINE x == v \o Tail(w)
  <1>1. /\ Tail(w) \in Seq(Work) /\ Len(w) \in Nat \ {0} /\ Len(Tail(w)) = Len(w) - 1
        /\ \A i \in 1..Len(Tail(w)) : Tail(w)[i] = w[i + 1]
    BY LeavesOfTail
  <1>2. /\ Len(v) \in Nat /\ Len(x) = Len(v) + (Len(w) - 1)
        /\ \A i \in 1..Len(v) : x[i] = v[i]
        /\ \A i \in 1..Len(Tail(w)) : x[Len(v) + i] = Tail(w)[i]
    BY <1>1, LeavesOfConcat
  <1> HIDE DEF x
  <1> SUFFICES ASSUME NEW m \in Below(1), new[m] = 0
               PROVE  \E i \in 1..Len(x) : x[i].do = "visit" /\ m \in Below(x[i].node)
    BY DEF Covered, x
  <1>3. m \in IRs BY RootFacts, BelowFacts
  <1>4. PICK i \in 1..Len(w) : w[i].do = "visit" /\ m \in Below(w[i].node)
    BY <1>3 DEF Covered, KeepsScopes
  <1>5. CASE i = 1
    <2>1. m # w[1].node BY <1>4, <1>5 DEF Replaces
    <2>2. PICK j \in 1..Len(v) : v[j].do = "visit" /\ m \in Below(v[j].node)
      BY <1>4, <1>5, <2>1 DEF Replaces
    <2>3. j \in 1..Len(x) /\ x[j] = v[j] BY <1>1, <1>2
    <2> QED BY <2>2, <2>3
  <1>6. CASE i # 1
    <2>1. i - 1 \in 1..Len(Tail(w)) /\ (i - 1) + 1 = i BY <1>1, <1>6
    <2>2. Len(v) + (i - 1) \in 1..Len(x) BY <1>1, <1>2, <2>1
    <2>3. x[Len(v) + (i - 1)] = w[i] BY <1>1, <1>2, <2>1
    <2> QED BY <1>4, <2>2, <2>3
  <1> QED BY <1>5, <1>6

\* The IR at the head of the list.
LEMMA HeadOfWork ==
  ASSUME TreeInv, ScopeInv, pc = "building", work # <<>>
  PROVE  /\ WorkOK(work) /\ WorkOK(Tail(work)) /\ work \in Seq(Work) /\ Tail(work) \in Seq(Work)
         /\ Head(work) = work[1] /\ Head(work).node \in IRs
         /\ Head(work).do = "visit" =>
              /\ OpenersAbove(Head(work).node) = Opened(scopes, g_scope_current_)
              /\ LeavesFrom(Tail(work), 1) = Opened(scopes, g_scope_current_)
         /\ Head(work).do = "leave" =>
              /\ Opened(scopes, g_scope_current_) = {Head(work).node} \cup LeavesFrom(Tail(work), 1)
              /\ \A m \in LeavesFrom(Tail(work), 1) : m < Head(work).node
  <1>1. WorkOK(work) /\ Opened(scopes, g_scope_current_) = LeavesFrom(work, 1) BY DEF ScopeInv
  <1>2. work \in Seq(Work) BY <1>1 DEF WorkOK
  <1>3. /\ Tail(work) \in Seq(Work) /\ Len(work) \in Nat \ {0}
        /\ \A i \in 1..Len(work) : LeavesFrom(Tail(work), i) = LeavesFrom(work, i + 1)
        /\ Head(work) = work[1] /\ work[1] \in Work
        /\ LeavesFrom(work, 1) = (IF work[1].do = "leave" THEN {work[1].node} ELSE {})
                                   \cup LeavesFrom(Tail(work), 1)
    BY <1>2, LeavesOfTail
  <1>4. WorkOK(Tail(work)) BY <1>1, WorkOfTail
  <1>5. work[1].node \in IRs BY <1>3 DEF Work
  <1>6. 1 \in 1..Len(work) BY <1>3
  <1>7. work[1].do = "visit" => OpenersAbove(work[1].node) = LeavesFrom(work, 1)
    BY <1>1, <1>6 DEF WorkOK
  <1>8. work[1].do = "leave" => \A m \in LeavesFrom(Tail(work), 1) : m < work[1].node
    <2>1. LeavesFrom(Tail(work), 1) = LeavesFrom(work, 1 + 1) BY <1>3, <1>6
    <2> QED BY <1>1, <1>6, <2>1 DEF WorkOK
  <1>9. work[1].do = "visit" => LeavesFrom(work, 1) = LeavesFrom(Tail(work), 1)
    <2> SUFFICES ASSUME work[1].do = "visit"
                 PROVE  LeavesFrom(work, 1) = LeavesFrom(Tail(work), 1)
      OBVIOUS
    <2>1. work[1].do # "leave" OBVIOUS
    <2> QED BY <1>3, <2>1
  <1> QED BY <1>1, <1>2, <1>3, <1>4, <1>5, <1>7, <1>8, <1>9

LEMMA EnterStep ==
  ASSUME TreeInv, ScopeInv, EnterScope
  PROVE  ScopeInv'
  <1> DEFINE n == Head(work).node
             e == [type |-> GetScopeType(n), parent |-> g_scope_current_, opener |-> n,
                   table |-> <<>>]
             g == g_scope_current_
             w == <<Leave(n)>> \o Tail(work)
  <1>1. /\ pc = "building" /\ pc' = "building" /\ work # <<>> /\ Head(work).do = "visit"
        /\ GetScopeType(n) # kScopeDefault
        /\ scopes' = Append(scopes, e)
        /\ g_scope_current_' = Len(scopes')
        /\ scope_id' = [scope_id EXCEPT ![n] = g_scope_current_']
        /\ work' = VisitKids(n) \o <<Leave(n)>> \o Tail(work)
        /\ UNCHANGED <<root, marked>>
    BY DEF EnterScope, NextIs, tree
  <1>2. /\ WorkOK(Tail(work)) /\ Tail(work) \in Seq(Work) /\ n \in IRs
        /\ OpenersAbove(n) = Opened(scopes, g)
        /\ LeavesFrom(Tail(work), 1) = Opened(scopes, g)
    BY <1>1, HeadOfWork
  <1>3. e.parent = g /\ e.opener = n /\ {"parent", "opener"} \subseteq DOMAIN e OBVIOUS
  <1> HIDE DEF n, e, g
  <1>4. /\ Openers(n) = Opened(scopes, g) \cup {n}
        /\ \A a \in Opened(scopes, g) : a \in Nat /\ a < n
        /\ n \in Nat
    BY <1>1, <1>2, OpenersFacts
  <1>5. Shaped(scopes) /\ Nested(scopes) /\ g \in 0..Len(scopes) /\ ScopeIDs(scopes, scope_id)
    BY DEF ScopeInv, g
  <1>6. /\ Shaped(scopes') /\ Nested(scopes')
        /\ Len(scopes) \in Nat /\ Len(scopes') = Len(scopes) + 1
        /\ \A s \in 0..Len(scopes) : Opened(scopes', s) = Opened(scopes, s)
        /\ Opened(scopes', Len(scopes) + 1) = {n} \cup Opened(scopes, g)
    <2>1. /\ Shaped(Append(scopes, e)) /\ Nested(Append(scopes, e))
          /\ Len(scopes) \in Nat /\ Len(Append(scopes, e)) = Len(scopes) + 1
          /\ \A s \in 0..Len(scopes) : Opened(Append(scopes, e), s) = Opened(scopes, s)
          /\ Opened(Append(scopes, e), Len(scopes) + 1) = {n} \cup Opened(scopes, g)
      BY <1>3, <1>4, <1>5, NewScope
    <2> QED BY <1>1, <2>1
  <1>7. WorkOK(w) /\ LeavesFrom(w, 1) = Openers(n)
    <2>1. WorkOK(w) /\ LeavesFrom(w, 1) = {n} \cup LeavesFrom(Tail(work), 1)
      BY <1>2, <1>4, WorkOfLeave
    <2> HIDE DEF w
    <2> QED BY <1>2, <1>4, <2>1
  <1>8. work' = VisitKids(n) \o w
    <2>1. VisitKids(n) \in Seq(Work) BY <1>2, KidsFacts
    <2>2. <<Leave(n)>> \in Seq(Work) BY <1>2 DEF Leave, Work
    <2> QED BY <1>1, <1>2, <2>1, <2>2, ConcatAssociative
  <1> HIDE DEF w
  <1>9. WorkOK(work') /\ LeavesFrom(work', 1) = Openers(n)
    <2>1. /\ VisitKids(n) \in Seq(Work)
          /\ \A i \in 1..Len(VisitKids(n)) :
               /\ VisitKids(n)[i].do = "visit"
               /\ OpenersAbove(VisitKids(n)[i].node) = LeavesFrom(w, 1)
      BY <1>2, <1>7, KidsFacts
    <2> QED BY <1>7, <1>8, <2>1, WorkOfVisits
  <1>10. g_scope_current_' \in 0..Len(scopes') /\ Opened(scopes', g_scope_current_') = Openers(n)
    BY <1>1, <1>4, <1>6
  <1>11. ScopeIDs(scopes', scope_id')
    <2>1. DOMAIN scope_id' = IRs BY <1>1, <1>5 DEF ScopeIDs
    <2>2. ASSUME NEW m \in IRs
          PROVE  /\ scope_id'[m] \in 0..Len(scopes')
                 /\ scope_id'[m] # 0 => Opened(scopes', scope_id'[m]) = Openers(m)
      <3>1. CASE m = n
        <4>1. scope_id'[m] = g_scope_current_' BY <1>1, <1>5, <3>1 DEF ScopeIDs
        <4> QED BY <1>10, <3>1, <4>1
      <3>2. CASE m # n
        <4>1. scope_id'[m] = scope_id[m] BY <1>1, <1>5, <3>2 DEF ScopeIDs
        <4>2. scope_id[m] \in 0..Len(scopes) BY <1>5 DEF ScopeIDs
        <4> QED BY <1>5, <1>6, <4>1, <4>2 DEF ScopeIDs
      <3> QED BY <3>1, <3>2
    <2> QED BY <2>1, <2>2 DEF ScopeIDs
  <1>12. Covered(work', scope_id')
    <2> DEFINE v == VisitKids(n) \o <<Leave(n)>>
    <2>1. VisitKids(n) \in Seq(Work) /\ <<Leave(n)>> \in Seq(Work)
      BY <1>2, KidsFacts DEF Leave, Work
    <2>2. /\ v \in Seq(Work) /\ Len(v) = Len(VisitKids(n)) + Len(<<Leave(n)>>)
          /\ Len(VisitKids(n)) \in Nat /\ Len(<<Leave(n)>>) \in Nat
          /\ \A i \in 1..Len(VisitKids(n)) : v[i] = VisitKids(n)[i]
      BY <2>1, LeavesOfConcat
    <2>3. work \in Seq(Work) /\ Head(work) = work[1] /\ Covered(work, scope_id)
      BY <1>1, HeadOfWork DEF ScopeInv
    <2>4. DOMAIN scope_id = IRs /\ DOMAIN scope_id' = IRs BY <1>5, <1>11 DEF ScopeIDs
    <2>5. scope_id'[n] = Len(scopes) + 1 BY <1>1, <1>2, <1>6, <2>4
    <2>6. \A m \in IRs : scope_id[m] # 0 => scope_id'[m] # 0
      <3>1. Len(scopes) + 1 # 0 BY <1>6
      <3>2. \A m \in IRs : m # n => scope_id'[m] = scope_id[m] BY <1>1, <2>4
      <3> QED BY <2>5, <3>1, <3>2
    <2>7. scope_id'[n] # 0 BY <1>6, <2>5
    <2> HIDE DEF v
    <2>8. ASSUME NEW m \in Below(n) \ {n}
          PROVE  \E i \in 1..Len(v) : v[i].do = "visit" /\ m \in Below(v[i].node)
      <3>1. PICK i \in 1..Len(VisitKids(n)) :
              VisitKids(n)[i].do = "visit" /\ m \in Below(VisitKids(n)[i].node)
        BY <1>2, BelowKid
      <3>2. i \in 1..Len(v) /\ v[i] = VisitKids(n)[i] BY <2>2
      <3> QED BY <3>1, <3>2
    <2>9. work[1].node = n BY <2>3 DEF n
    <2>10. Replaces(v, work, scope_id') BY <2>7, <2>8, <2>9 DEF Replaces
    <2>11. v \in Seq(Work) /\ work # <<>> BY <1>1, <2>2
    <2>12. KeepsScopes(scope_id, scope_id') BY <2>6 DEF KeepsScopes
    <2>13. Covered(v \o Tail(work), scope_id') BY <2>3, <2>10, <2>11, <2>12, CoveredNext
    <2> QED BY <1>1, <2>13 DEF v
  <1> QED BY <1>1, <1>6, <1>9, <1>10, <1>11, <1>12, SameTree DEF ScopeInv

LEMMA SetScopeStep ==
  ASSUME TreeInv, ScopeInv, SetScopeID
  PROVE  ScopeInv'
  <1> DEFINE n == Head(work).node
             g == g_scope_current_
  <1>1. /\ pc = "building" /\ pc' = "building" /\ work # <<>> /\ Head(work).do = "visit"
        /\ GetScopeType(n) = kScopeDefault
        /\ scope_id' = [scope_id EXCEPT ![n] = g]
        /\ work' = VisitKids(n) \o Tail(work)
        /\ UNCHANGED <<root, marked, scopes, g_scope_current_>>
    BY DEF SetScopeID, NextIs, tree
  <1>2. /\ WorkOK(Tail(work)) /\ Tail(work) \in Seq(Work) /\ n \in IRs
        /\ OpenersAbove(n) = Opened(scopes, g)
        /\ LeavesFrom(Tail(work), 1) = Opened(scopes, g)
    BY <1>1, HeadOfWork
  <1> HIDE DEF n
  <1>3. Openers(n) = Opened(scopes, g) BY <1>1, <1>2, OpenersFacts
  <1>4. WorkOK(work') /\ LeavesFrom(work', 1) = Opened(scopes, g)
    <2>1. /\ VisitKids(n) \in Seq(Work)
          /\ \A i \in 1..Len(VisitKids(n)) :
               /\ VisitKids(n)[i].do = "visit"
               /\ OpenersAbove(VisitKids(n)[i].node) = LeavesFrom(Tail(work), 1)
      BY <1>2, <1>3, KidsFacts
    <2> QED BY <1>1, <1>2, <2>1, WorkOfVisits
  <1>5. Shaped(scopes) /\ Nested(scopes) /\ g \in 0..Len(scopes) /\ ScopeIDs(scopes, scope_id)
    BY DEF ScopeInv
  <1>6. ScopeIDs(scopes', scope_id')
    <2>1. DOMAIN scope_id' = IRs BY <1>1, <1>5 DEF ScopeIDs
    <2>2. ASSUME NEW m \in IRs
          PROVE  /\ scope_id'[m] \in 0..Len(scopes)
                 /\ scope_id'[m] # 0 => Opened(scopes, scope_id'[m]) = Openers(m)
      <3>1. CASE m = n
        <4>1. scope_id'[m] = g BY <1>1, <1>5, <3>1 DEF ScopeIDs
        <4> QED BY <1>3, <1>5, <3>1, <4>1
      <3>2. CASE m # n
        <4>1. scope_id'[m] = scope_id[m] BY <1>1, <1>5, <3>2 DEF ScopeIDs
        <4> QED BY <1>5, <4>1 DEF ScopeIDs
      <3> QED BY <3>1, <3>2
    <2> QED BY <1>1, <2>1, <2>2 DEF ScopeIDs
  <1>7. Covered(work', scope_id')
    <2>1. work \in Seq(Work) /\ Head(work) = work[1] /\ Covered(work, scope_id)
      BY <1>1, HeadOfWork DEF ScopeInv
    <2>2. DOMAIN scope_id = IRs /\ DOMAIN scope_id' = IRs BY <1>5, <1>6 DEF ScopeIDs
    <2>3. g # 0
      <3>1. 1 \in Opened(scopes, g) BY <1>2, <1>3, RootAbove
      <3> QED BY <1>5, <3>1, OpenedEquation
    <2>4. scope_id'[n] = g /\ \A m \in IRs : m # n => scope_id'[m] = scope_id[m]
      BY <1>1, <1>2, <2>2
    <2>5. KeepsScopes(scope_id, scope_id') BY <2>3, <2>4 DEF KeepsScopes
    <2>6. \A m \in Below(n) \ {n} :
            \E i \in 1..Len(VisitKids(n)) :
              VisitKids(n)[i].do = "visit" /\ m \in Below(VisitKids(n)[i].node)
      BY <1>2, BelowKid
    <2>7. work[1].node = n BY <2>1 DEF n
    <2>8. VisitKids(n) \in Seq(Work) BY <1>2, KidsFacts
    <2>9. Replaces(VisitKids(n), work, scope_id') BY <2>3, <2>4, <2>6, <2>7 DEF Replaces
    <2>10. work # <<>> BY <1>1
    <2>11. Covered(VisitKids(n) \o Tail(work), scope_id')
      BY <2>1, <2>5, <2>8, <2>9, <2>10, CoveredNext
    <2> QED BY <1>1, <2>11
  <1> QED BY <1>1, <1>4, <1>5, <1>6, <1>7, SameTree DEF ScopeInv

\* The scope that is left is the one that the IR of the Leave has opened.
LEMMA ExitStep ==
  ASSUME TreeInv, ScopeInv, ExitScope
  PROVE  ScopeInv'
  <1> DEFINE n == Head(work).node
             g == g_scope_current_
             p == scopes[g].parent
             R == LeavesFrom(Tail(work), 1)
  <1>1. /\ pc = "building" /\ pc' = "building" /\ work # <<>> /\ Head(work).do = "leave"
        /\ g_scope_current_' = p
        /\ work' = Tail(work)
        /\ UNCHANGED <<root, marked, scopes, scope_id>>
    BY DEF ExitScope, NextIs, tree
  <1>2. /\ WorkOK(Tail(work)) /\ n \in IRs
        /\ Opened(scopes, g) = {n} \cup R
        /\ \A m \in R : m < n
    BY <1>1, HeadOfWork
  <1>3. Shaped(scopes) /\ Nested(scopes) /\ g \in 0..Len(scopes) /\ ScopeIDs(scopes, scope_id)
    BY DEF ScopeInv
  <1> HIDE DEF n, R
  <1>4. Len(scopes) \in Nat BY <1>3, LenProperties DEF Shaped
  <1>5. g \in 1..Len(scopes)
    <2>1. g # 0 BY <1>2, <1>3, OpenedEquation
    <2> QED BY <1>3, <1>4, <2>1
  <1>6. Opened(scopes, g) = {scopes[g].opener} \cup Opened(scopes, p)
    BY <1>3, <1>5, OpenedEquation
  <1>7. /\ scopes[g].opener \in Nat
        /\ \A a \in Opened(scopes, p) : a \in Nat /\ a < scopes[g].opener
    BY <1>3, <1>5 DEF Nested
  <1>8. p \in 0..Len(scopes) BY <1>3, <1>4, <1>5 DEF Shaped
  <1>9. \A a \in R : a \in Nat BY <1>2, <1>6, <1>7
  <1>10. n \in Nat BY <1>2, <1>6, <1>7
  <1>11. Opened(scopes, p) = R
    <2> DEFINE o == scopes[g].opener
               O == Opened(scopes, p)
    <2>1. {o} \cup O = {n} \cup R BY <1>2, <1>6
    <2>2. \A a \in O : a \in Nat /\ a < o BY <1>7
    <2>3. \A a \in R : a \in Nat /\ a < n BY <1>2, <1>9
    <2>4. o \in Nat BY <1>7
    <2> HIDE DEF o, O
    <2>5. o = n BY <1>10, <2>1, <2>2, <2>3, <2>4
    <2>6. o \notin O /\ n \notin R BY <1>10, <2>2, <2>3, <2>4
    <2>7. \A a : a \in O <=> a \in {o} \cup O /\ a # o BY <2>6
    <2>8. \A a : a \in R <=> a \in {n} \cup R /\ a # n BY <2>6
    <2>9. O = R BY <2>1, <2>5, <2>7, <2>8
    <2> QED BY <2>9 DEF O
  <1>12. Covered(work', scope_id')
    <2>1. /\ work \in Seq(Work) /\ Tail(work) \in Seq(Work) /\ Head(work) = work[1]
          /\ Covered(work, scope_id)
      BY <1>1, HeadOfWork DEF ScopeInv
    <2> DEFINE v == <<>>
    <2>3. v \in Seq(Work) OBVIOUS
    <2> HIDE DEF v
    <2>4. Replaces(v, work, scope_id) BY <1>1, <2>1 DEF Replaces
    <2>5. work # <<>> /\ KeepsScopes(scope_id, scope_id) BY <1>1 DEF KeepsScopes
    <2>6. Covered(v \o Tail(work), scope_id)
      BY <2>1, <2>3, <2>4, <2>5, CoveredNext
    <2>7. v \o Tail(work) = Tail(work) BY <2>1, ConcatEmptySeq DEF v
    <2> QED BY <1>1, <2>6, <2>7
  <1> QED BY <1>1, <1>2, <1>3, <1>8, <1>11, <1>12, SameTree DEF ScopeInv, R

\* A definition changes no scope but for its table.
SameShape(ss, tt) ==
  /\ Shaped(tt) /\ Len(tt) = Len(ss)
  /\ \A s \in 1..Len(ss) : tt[s].parent = ss[s].parent /\ tt[s].opener = ss[s].opener

LEMMA DefinitionsKeepShape ==
  ASSUME NEW ss, Shaped(ss), NEW s, NEW defs
  PROVE  SameShape(ss, AddDefinitions(ss, s, defs))
  <1> DEFINE r == [ss[s] EXCEPT !.table = @ \o defs]
             tt == [ss EXCEPT ![s] = r]
  <1>1. AddDefinitions(ss, s, defs) = tt BY DEF AddDefinitions
  <1>2. ss \in [1..Len(ss) -> ToSet(ss)] /\ Len(ss) \in Nat BY LenProperties DEF Shaped
  <1>3. ASSUME NEW k \in 1..Len(ss)
        PROVE  /\ DOMAIN tt[k] = DOMAIN ss[k]
               /\ tt[k].parent = ss[k].parent /\ tt[k].opener = ss[k].opener
    <2>1. CASE k = s
      <3>1. tt[k] = r BY <1>2, <2>1
      <3>2. {"parent", "opener"} \subseteq DOMAIN ss[s] BY <2>1 DEF Shaped
      <3>3. DOMAIN r = DOMAIN ss[s] OBVIOUS
      <3>4. r.parent = ss[s].parent /\ r.opener = ss[s].opener BY <3>2
      <3> QED BY <2>1, <3>1, <3>3, <3>4
    <2>2. CASE k # s
      <3>1. tt[k] = ss[k] BY <1>2, <2>2
      <3> QED BY <3>1
    <2> QED BY <2>1, <2>2
  <1>4. DOMAIN tt = 1..Len(ss) BY <1>2
  <1>5. tt = [k \in 1..Len(ss) |-> tt[k]] BY <1>2
  <1> HIDE DEF tt
  <1>6. tt \in [1..Len(ss) -> ToSet(tt)]
    <2>1. \A k \in 1..Len(ss) : tt[k] \in ToSet(tt) BY <1>4 DEF ToSet
    <2> QED BY <1>5, <2>1
  <1>7. tt \in Seq(ToSet(tt)) /\ Len(tt) = Len(ss) BY <1>2, <1>6, IsASeq, LenProperties
  <1>8. Shaped(tt)
    <2>1. ASSUME NEW k \in 1..Len(tt)
          PROVE  {"parent", "opener"} \subseteq DOMAIN tt[k] /\ tt[k].parent \in 0..(k - 1)
      BY <1>3, <1>7 DEF Shaped
    <2> QED BY <1>7, <2>1 DEF Shaped
  <1> QED BY <1>1, <1>3, <1>7, <1>8 DEF SameShape

LEMMA CollectStep ==
  ASSUME BuildScopeTreeWithSymbolTable, pc = "collect", Shaped(scopes)
  PROVE  /\ UNCHANGED <<root, marked, scope_id, g_scope_current_>>
         /\ pc' \in {"collect", "assert", "crash"}
         /\ SameShape(scopes, scopes')
  <1> USE DEF BuildScopeTreeWithSymbolTable, NextIs, tree
  <1>0. SameShape(scopes, scopes) BY DEF SameShape
  <1>1. CASE CollectBelow BY <1>0, <1>1 DEF CollectBelow
  <1>2. CASE CollectSimpleVariableDefinition
    <2>1. \E defs : scopes' = AddDefinitions(scopes, scope_id[Head(work).node], defs)
      BY <1>2, Zenon DEF CollectSimpleVariableDefinition
    <2>2. SameShape(scopes, scopes') BY <2>1, DefinitionsKeepShape
    <2> QED BY <1>2, <2>2 DEF CollectSimpleVariableDefinition
  <1>3. CASE TypeNotExist BY <1>0, <1>3 DEF TypeNotExist
  <1>4. CASE CollectStructureBody BY <1>0, <1>4 DEF CollectStructureBody
  <1>5. CASE CollectStructureDefinition
    <2>1. \E defs : scopes' = AddDefinitions(scopes, scope_id[Head(work).node], defs)
      BY <1>5, Zenon DEF CollectStructureDefinition
    <2>2. SameShape(scopes, scopes') BY <2>1, DefinitionsKeepShape
    <2> QED BY <1>5, <2>2 DEF CollectStructureDefinition
  <1>6. CASE CollectFunctionDefinition
    <2>1. \E ss : /\ ss = scopes \/ \E s, defs : ss = AddDefinitions(scopes, s, defs)
                  /\ FunctionDefinition(Head(work).node, ss)
      BY <1>6, Zenon DEF CollectFunctionDefinition
    <2>2. PICK ss : /\ ss = scopes \/ \E s, defs : ss = AddDefinitions(scopes, s, defs)
                    /\ FunctionDefinition(Head(work).node, ss)
      BY <2>1
    <2>3. SameShape(scopes, ss) BY <1>0, <2>2, DefinitionsKeepShape
    <2>4. scopes' = ss \/ \E s, defs : scopes' = AddDefinitions(ss, s, defs)
      BY <2>2, Zenon DEF FunctionDefinition
    <2>5. SameShape(ss, scopes') BY <2>3, <2>4, DefinitionsKeepShape DEF SameShape
    <2>6. SameShape(scopes, scopes') BY <2>3, <2>5 DEF SameShape
    <2> QED BY <1>6, <2>6 DEF CollectFunctionDefinition
  <1>7. CASE ArgumentTypeNotExist BY <1>0, <1>7 DEF ArgumentTypeNotExist
  <1>8. ~StartBuild /\ ~EnterScope /\ ~SetScopeID /\ ~ExitScope /\ ~StartCollect
    BY DEF StartBuild, EnterScope, SetScopeID, ExitScope, StartCollect
  <1> QED BY <1>1, <1>2, <1>3, <1>4, <1>5, <1>6, <1>7, <1>8 DEF ScopeTreeNext

\* Once the scopes are built, only their tables change.
LEMMA BuiltStep ==
  ASSUME TreeInv, ScopeInv, pc \notin {"mark", "build", "building"},
         pc' \notin {"mark", "build", "building"},
         UNCHANGED <<root, marked, scope_id, g_scope_current_>>, SameShape(scopes, scopes')
  PROVE  ScopeInv'
  <1>1. /\ Shaped(scopes) /\ Nested(scopes) /\ ScopeIDs(scopes, scope_id)
        /\ g_scope_current_ = 0 /\ \A n \in Below(1) : scope_id[n] # 0
    BY DEF ScopeInv
  <1>2. /\ Shaped(scopes') /\ Len(scopes') = Len(scopes) /\ Len(scopes) \in Nat
        /\ \A s \in 1..Len(scopes) : /\ scopes'[s].parent = scopes[s].parent
                                     /\ scopes'[s].opener = scopes[s].opener
    BY <1>1, LenProperties DEF SameShape, Shaped
  <1>3. \A s \in 0..Len(scopes) : Opened(scopes', s) = Opened(scopes, s)
    <2>1. Len(scopes) <= Len(scopes') BY <1>2
    <2> QED BY <1>1, <1>2, <2>1, SameOpened
  <1>4. Nested(scopes')
    <2>1. ASSUME NEW s \in 1..Len(scopes')
          PROVE  /\ scopes'[s].opener \in Nat
                 /\ \A a \in Opened(scopes', scopes'[s].parent) : a \in Nat /\ a < scopes'[s].opener
      <3>1. s \in 1..Len(scopes) BY <1>2
      <3>2. scopes[s].parent \in 0..Len(scopes) BY <1>1, <1>2, <3>1 DEF Shaped
      <3> QED BY <1>1, <1>2, <1>3, <3>1, <3>2 DEF Nested
    <2> QED BY <2>1 DEF Nested
  <1>5. ScopeIDs(scopes', scope_id')
    <2>1. DOMAIN scope_id' = IRs BY <1>1 DEF ScopeIDs
    <2>2. ASSUME NEW n \in IRs
          PROVE  /\ scope_id'[n] \in 0..Len(scopes')
                 /\ scope_id'[n] # 0 => Opened(scopes', scope_id'[n]) = Openers(n)
      <3>1. scope_id'[n] = scope_id[n] /\ scope_id[n] \in 0..Len(scopes) BY <1>1 DEF ScopeIDs
      <3> QED BY <1>1, <1>2, <1>3, <3>1 DEF ScopeIDs
    <2> QED BY <2>1, <2>2 DEF ScopeIDs
  <1> QED BY <1>1, <1>2, <1>4, <1>5, SameTree DEF ScopeInv

LEMMA StartBuildStep ==
  ASSUME TreeInv, ScopeInv, StartBuild
  PROVE  ScopeInv'
  <1>1. /\ pc = "build" /\ pc' = "building" /\ work' = <<Visit(1)>>
        /\ UNCHANGED <<root, marked, scope_id, scopes, g_scope_current_>>
    BY DEF StartBuild, tree
  <1>2. /\ g_scope_current_ = 0 /\ Shaped(scopes) /\ Nested(scopes)
        /\ ScopeIDs(scopes, scope_id) /\ g_scope_current_ \in 0..Len(scopes)
    BY <1>1 DEF ScopeInv
  <1>3. Opened(scopes, 0) = {} BY <1>2, OpenedEquation
  <1>4. work' \in Seq(Work) /\ Len(work') = 1 /\ work'[1] = Visit(1)
    BY <1>1, RootFacts DEF Visit, Work
  <1>5. work'[1].do = "visit" /\ work'[1].node = 1 BY <1>4 DEF Visit
  <1>6. LeavesFrom(work', 1) = {} BY <1>4, <1>5 DEF LeavesFrom
  <1>7. WorkOK(work')
    <2>1. ASSUME NEW i \in 1..Len(work')
          PROVE  /\ work'[i].do = "visit" => OpenersAbove(work'[i].node) = LeavesFrom(work', i)
                 /\ work'[i].do = "leave" =>
                      \A m \in LeavesFrom(work', i + 1) : m < work'[i].node
      <3>1. i = 1 BY <1>4
      <3> QED BY <1>5, <1>6, <3>1, RootFacts
    <2> QED BY <1>4, <2>1 DEF WorkOK
  <1>8. Covered(work', scope_id')
    <2>1. 1 \in 1..Len(work') BY <1>4
    <2> QED BY <1>5, <2>1 DEF Covered
  <1> QED BY <1>1, <1>2, <1>3, <1>6, <1>7, <1>8, SameTree DEF ScopeInv

\* When nothing is left to do every scope has been left.
LEMMA StartCollectStep ==
  ASSUME TreeInv, ScopeInv, StartCollect
  PROVE  ScopeInv'
  <1>1. /\ pc = "building" /\ pc' = "collect" /\ work = <<>>
        /\ UNCHANGED <<root, marked, scope_id, scopes, g_scope_current_>>
    BY DEF StartCollect, tree
  <1>2. /\ Shaped(scopes) /\ Nested(scopes)
        /\ ScopeIDs(scopes, scope_id) /\ g_scope_current_ \in 0..Len(scopes)
        /\ Opened(scopes, g_scope_current_) = LeavesFrom(work, 1)
    BY <1>1 DEF ScopeInv
  <1>3. LeavesFrom(work, 1) = {}
    <2>1. Len(work) = 0 BY <1>1
    <2> QED BY <2>1 DEF LeavesFrom
  <1>4. g_scope_current_ = 0
    <2>1. Len(scopes) \in Nat BY <1>2, LenProperties DEF Shaped
    <2> SUFFICES ASSUME g_scope_current_ \in 1..Len(scopes) PROVE FALSE BY <1>2, <2>1
    <2>2. scopes[g_scope_current_].opener \in Opened(scopes, g_scope_current_)
      BY <1>2, OpenedEquation
    <2> QED BY <1>2, <1>3, <2>2
  <1>5. \A n \in Below(1) : scope_id[n] # 0
    <2>1. Len(work) = 0 BY <1>1
    <2>2. Covered(work, scope_id) BY <1>1 DEF ScopeInv
    <2> QED BY <2>1, <2>2 DEF Covered
  <1> QED BY <1>1, <1>2, <1>4, <1>5, SameTree DEF ScopeInv

LEMMA MarkStep ==
  ASSUME TreeInv, ScopeInv, MarkFixMe
  PROVE  ScopeInv'
  <1>1. /\ pc = "mark" /\ pc' = "build" /\ UNCHANGED <<root, scope_id, scopes, g_scope_current_>>
    BY DEF MarkFixMe, scopeTree
  <1>2. /\ scopes = <<>> /\ g_scope_current_ = 0 /\ scope_id = [n \in IRs |-> 0]
        /\ Shaped(scopes)
    BY <1>1 DEF ScopeInv
  <1>3. IRs' = IRs BY <1>1 DEF IRs
  <1>4. Len(scopes) = 0 BY <1>2
  <1>5. Shaped(scopes)' BY <1>1, <1>2 DEF Shaped
  <1>6. Nested(scopes)' BY <1>1, <1>4 DEF Nested
  <1>7. ScopeIDs(scopes, scope_id)'
    <2>1. Len(scopes') = 0 BY <1>1, <1>4
    <2> QED BY <1>1, <1>2, <1>3, <2>1 DEF ScopeIDs
  <1>8. g_scope_current_' \in 0..Len(scopes') BY <1>1, <1>2, <1>4
  <1> QED BY <1>1, <1>2, <1>3, <1>5, <1>6, <1>7, <1>8 DEF ScopeInv

LEMMA ScopeStep ==
  ASSUME TreeInv, ScopeInv, Next
  PROVE  ScopeInv'
  <1>0. Shaped(scopes) BY DEF ScopeInv
  <1>1. SameShape(scopes, scopes) BY <1>0 DEF SameShape
  <1>2. CASE MarkFixMe BY <1>2, MarkStep
  <1>3. CASE BuildScopeTreeWithSymbolTable
    <2>1. CASE pc = "collect"
      <3>1. /\ UNCHANGED <<root, marked, scope_id, g_scope_current_>>
            /\ pc' \in {"collect", "assert", "crash"}
            /\ SameShape(scopes, scopes')
        BY <1>0, <1>3, <2>1, CollectStep
      <3> QED BY <2>1, <3>1, BuiltStep
    <2>2. CASE pc # "collect"
      <3>1. StartBuild \/ EnterScope \/ SetScopeID \/ ExitScope \/ StartCollect
        BY <1>3, <2>2
        DEF BuildScopeTreeWithSymbolTable, ScopeTreeNext, NextIs, CollectBelow,
            CollectSimpleVariableDefinition, TypeNotExist, CollectStructureBody,
            CollectStructureDefinition, CollectFunctionDefinition, ArgumentTypeNotExist
      <3> QED BY <3>1, StartBuildStep, EnterStep, SetScopeStep, ExitStep, StartCollectStep
    <2> QED BY <2>1, <2>2
  <1>4. CASE SelectFixStrategy
    BY <1>1, <1>4, BuiltStep DEF SelectFixStrategy, tree, scopeTree
  <1>5. CASE ApplyFix BY <1>1, <1>5, BuiltStep DEF ApplyFix, tree, scopeTree
  <1>6. CASE Return BY <1>1, <1>6, BuiltStep DEF Return, tree, scopeTree
  <1> QED BY <1>2, <1>3, <1>4, <1>5, <1>6 DEF Next

-----------------------------------------------------------------------------
(***************************************************************************)
(* What a fix may use is what is visible at its own FIXME, whatever the    *)
(* static caches of the generator hold from another one: the generator is  *)
(* new, its scope is -1, and no IR has that scope.                         *)
(***************************************************************************)
FixesUseVisible ==
  \A i \in 1..Len(fixes) : fixes[i].uses = Visible(fixes[i].node)

LEMMA SameVisible ==
  ASSUME UNCHANGED <<scopes, scope_id, statement_id>>
  PROVE  \A n : Visible(n)' = Visible(n)
  BY DEF Visible, Chain

LEMMA CacheStep ==
  ASSUME TreeInv, FixInv, ScopeInv, FixesUseVisible, Next
  PROVE  FixesUseVisible'
  <1>1. CASE pc' \notin {"fix", "done"}
    <2>1. FixInv' BY FixStep
    <2>2. fixes' = <<>> BY <1>1, <2>1 DEF FixInv
    <2> QED BY <2>2 DEF FixesUseVisible
  <1>2. CASE SelectFixStrategy \/ Return
    <2>1. UNCHANGED <<fixes, scopes, scope_id, statement_id>>
      BY <1>2 DEF SelectFixStrategy, Return, tree, scopeTree
    <2> QED BY <2>1, SameVisible DEF FixesUseVisible
  <1>3. CASE ApplyFix
    <2> DEFINE n == decisions[1]
    <2>1. /\ UNCHANGED <<scopes, scope_id, statement_id>> /\ pc = "fix" /\ decisions # <<>>
          /\ var_maps' = IF -1 # scope_id[n] THEN Visible(n) ELSE var_maps
          /\ fixes' = Append(fixes, [node |-> n, uses |-> var_maps'])
      BY <1>3 DEF ApplyFix, tree, scopeTree, GeneratorScope
    <2>2. n \in IRs
      <3>1. decisions \in Seq(IRs) BY <2>1 DEF FixInv
      <3>2. Len(decisions) \in Nat \ {0} BY <2>1, <3>1, EmptySeq, LenProperties
      <3> QED BY <3>1, <3>2
    <2>3. scope_id[n] # -1
      <3>1. Len(scopes) \in Nat BY LenProperties DEF ScopeInv, Shaped
      <3>2. scope_id[n] \in 0..Len(scopes) BY <2>2 DEF ScopeInv, ScopeIDs
      <3> QED BY <3>1, <3>2
    <2>4. var_maps' = Visible(n) BY <2>1, <2>3
    <2>5. /\ Len(fixes) \in Nat /\ Len(fixes') = Len(fixes) + 1
          /\ fixes'[Len(fixes) + 1] = [node |-> n, uses |-> var_maps']
          /\ \A i \in 1..Len(fixes) : fixes'[i] = fixes[i]
      <3>1. fixes \in Seq(ToSet(fixes)) BY DEF FixInv
      <3> QED BY <2>1, <3>1, AppendElement
    <2> HIDE DEF n
    <2>6. ASSUME NEW i \in 1..Len(fixes') PROVE fixes'[i].uses = Visible(fixes'[i].node)
      <3>1. i \in 1..Len(fixes) \/ i = Len(fixes) + 1 BY <2>5
      <3>2. CASE i \in 1..Len(fixes) BY <2>5, <3>2 DEF FixesUseVisible
      <3>3. CASE i = Len(fixes) + 1
        <4>1. fixes'[i] = [node |-> n, uses |-> Visible(n)] BY <2>4, <2>5, <3>3
        <4> QED BY <4>1
      <3> QED BY <3>1, <3>2, <3>3
    <2>7. \A m : Visible(m)' = Visible(m) BY <2>1, SameVisible
    <2> QED BY <2>6, <2>7 DEF FixesUseVisible, Visible, Chain
  <1>4. CASE MarkFixMe \/ BuildScopeTreeWithSymbolTable
    <2>1. pc' \notin {"fix", "done"} BY <1>4, BuildStep DEF MarkFixMe
    <2> QED BY <1>1, <2>1
  <1> QED BY <1>2, <1>3, <1>4 DEF Next

-----------------------------------------------------------------------------
IInv == TreeInv /\ FixInv /\ ScopeInv /\ FixesUseVisible

LEMMA InitIInv == Init => IInv
  <1> SUFFICES ASSUME Init PROVE IInv OBVIOUS
  <1> USE DEF Init, InitTree
  <1>1. TreeInv BY DEF TreeInv
  <1>2. Len(<<>>) = 0 /\ <<>> \in Seq(ToSet(<<>>)) OBVIOUS
  <1>3. FixInv BY <1>2 DEF FixInv
  <1>4. ScopeInv
    <2>1. Shaped(scopes) /\ Nested(scopes) BY <1>2 DEF Shaped, Nested
    <2>2. ScopeIDs(scopes, scope_id) BY <1>2 DEF ScopeIDs
    <2> QED BY <1>2, <2>1, <2>2 DEF ScopeInv
  <1>5. FixesUseVisible BY <1>2 DEF FixesUseVisible
  <1> QED BY <1>1, <1>3, <1>4, <1>5 DEF IInv

LEMMA NextIInv == IInv /\ [Next]_vars => IInv'
  <1> SUFFICES ASSUME IInv, [Next]_vars PROVE IInv' OBVIOUS
  <1>0. TreeInv /\ FixInv /\ ScopeInv /\ FixesUseVisible BY DEF IInv
  <1>1. CASE Next
    <2>1. FixInv' /\ ScopeInv' /\ FixesUseVisible'
      BY <1>0, <1>1, FixStep, ScopeStep, CacheStep
    <2>2. TreeInv'
      <3>1. CASE MarkFixMe BY <1>0, <3>1, MarkedAreIRs
      <3>2. CASE BuildScopeTreeWithSymbolTable BY <1>0, <3>2, BuildStep, SameFixmes
      <3>3. CASE SelectFixStrategy BY <1>0, <3>3, SameFixmes DEF SelectFixStrategy, tree
      <3>4. CASE ApplyFix BY <1>0, <3>4, SameFixmes DEF ApplyFix, tree
      <3>5. CASE Return BY <1>0, <3>5, SameFixmes DEF Return, tree
      <3> QED BY <1>1, <3>1, <3>2, <3>3, <3>4, <3>5 DEF Next
    <2> QED BY <2>1, <2>2 DEF IInv
  <1>2. CASE UNCHANGED vars
    <2>1. UNCHANGED <<pc, root, marked, statement_id, work, scope_id, scopes, g_scope_current_,
                      decisions, fixes>>
      BY <1>2 DEF vars, tree
    <2>2. TreeInv' BY <1>0, <2>1, SameFixmes
    <2>3. FixInv' BY <1>0, <2>1, SameFixmes DEF FixInv
    <2>4. ScopeInv'
      <3>1. /\ Shaped(scopes') /\ Nested(scopes') /\ ScopeIDs(scopes', scope_id')
            /\ pc = "building" => /\ WorkOK(work')
                                  /\ Opened(scopes', g_scope_current_') = LeavesFrom(work', 1)
                                  /\ Covered(work', scope_id')
        BY <1>0, <2>1 DEF ScopeInv
      <3> QED BY <1>0, <2>1, <3>1, SameTree DEF ScopeInv
    <2>5. FixesUseVisible' BY <1>0, <2>1, SameVisible DEF FixesUseVisible
    <2> QED BY <2>2, <2>3, <2>4, <2>5 DEF IInv
  <1> QED BY <1>1, <1>2

(***************************************************************************)
(* The inductive invariant of Validate: the beginning and the rest of the  *)
(* list of FIXMEs, and what the recursion of BuildScopeTreeImpl keeps.     *)
(***************************************************************************)
THEOREM ValidatorInvariant == Spec => []IInv
  <1>1. Init => IInv BY InitIInv
  <1>2. IInv /\ [Next]_vars => IInv' BY NextIInv
  <1> QED BY <1>1, <1>2, PTL DEF Spec

(***************************************************************************)
(* For every program, however many FIXMEs it has and however they nest in  *)
(* fix units: ApplyFix meets every FIXME once, so that its assertion holds *)
(* and none is left when Validate returns.                                 *)
(***************************************************************************)
THEOREM ValidatorFixesOnce == Spec => []EachFixmeOnce
  <1>1. IInv => EachFixmeOnce BY FixInvImplies DEF IInv
  <1> QED BY <1>1, ValidatorInvariant, PTL

(***************************************************************************)
(* For every nesting of scopes: the scopes that BuildTree puts around an   *)
(* IR are those opened around it in the text; no IR is left without, and   *)
(* none is still open at the end.                                          *)
(***************************************************************************)
THEOREM ValidatorScopes == Spec => []ScopesMirrorTree
  <1>1. ASSUME IInv PROVE ScopesMirrorTree
    <2>1. \A n \in IRs : scope_id[n] # 0 => Opened(scopes, scope_id[n]) = Openers(n)
      BY <1>1 DEF IInv, ScopeInv, ScopeIDs
    <2>2. pc \notin {"mark", "build", "building"} =>
            g_scope_current_ = 0 /\ \A n \in Below(1) : scope_id[n] # 0
      BY <1>1 DEF IInv, ScopeInv
    <2> QED BY <2>1, <2>2, OpenedOfChain DEF ScopesMirrorTree
  <1>2. IInv => ScopesMirrorTree BY <1>1
  <1> QED BY <1>2, ValidatorInvariant, PTL

(***************************************************************************)
(* For any number of FIXMEs: each is replaced by something made of what is *)
(* visible at it, never of what the caches held for another.               *)
(***************************************************************************)
THEOREM ValidatorCaches == Spec => []FixesUseVisible
  <1>1. IInv => FixesUseVisible BY DEF IInv
  <1> QED BY <1>1, ValidatorInvariant, PTL

-----------------------------------------------------------------------------
(***************************************************************************)
(* What is collected where, and that it is what a lexically scoped         *)
(* language shows.  The list of the traversals is in the order of the      *)
(* text: a visit comes after all that stands before it, a Leave after what *)
(* it is around.  So scopes are numbered in the order of their openers,    *)
(* and no two have the same.                                               *)
(***************************************************************************)
Before(e, f) ==
  IF f.do = "visit" THEN root[e.node].last < f.node ELSE e.node \in Inside(root, f.node)
Ordered(w) == \A i, j \in 1..Len(w) : i < j => Before(w[i], w[j])

OrderInv ==
  /\ pc \in {"building", "collect"} => work \in Seq(Work) /\ Ordered(work)
  /\ \A s, t \in 1..Len(scopes) : s < t => scopes[s].opener < scopes[t].opener
  /\ pc = "building" =>
       \A s \in 1..Len(scopes) : \A i \in 1..Len(work) :
         work[i].do = "visit" => scopes[s].opener < work[i].node
  /\ pc = "collect" =>
       \A i \in 1..Len(work) :
         /\ work[i].node \in Below(1)
         /\ work[i].do = "leave" => GetDataType(work[i].node) = "kClassDefinition"

\* The definitions of the program, and those the list w has still to come to.
Defined == {d \in Below(1) : GetDataType(d) \in Definitions}
Covers(e, d) == IF e.do = "visit" THEN d \in Below(e.node) ELSE d = e.node
ToCome(w, d) == \E i \in 1..Len(w) : Covers(w[i], d)

FunctionBody(f) == search_by_data_type(f, "kFunctionBody", {})[1]
FunctionName(f) == search_by_data_type(f, "kFunctionName", {"kFunctionBody"})[1]
ArgumentIRs(f) == Topmost(f, "kFunctionArgument", {"kFunctionBody"})
Bodies(f) == Topmost(f, "kFunctionBody", {})

\* The names that the definition d declares.
DeclaredNames(d) ==
  IF GetDataType(d) = "kVariableDefinition" THEN Topmost(d, "kVariableName", {})
  ELSE IF GetDataType(d) = "kClassDefinition" THEN {d}
  ELSE {FunctionName(d)} \cup {ArgumentName(a) : a \in ArgumentIRs(d)}

\* The entries <<scope, name, statement id>> that d must have in the symbol
\* tables, and those it may have: a function without a return type has none.
Sure(d) ==
  IF GetDataType(d) = "kVariableDefinition"
  THEN {<<scope_id[d], x, statement_id[x]>> : x \in Topmost(d, "kVariableName", {})}
  ELSE IF GetDataType(d) = "kClassDefinition" THEN {<<scope_id[d], d, statement_id[d]>>}
  ELSE IF Bodies(d) = {} THEN {}
  ELSE {<<scope_id[FunctionBody(d)], ArgumentName(a), statement_id[d]>> : a \in ArgumentIRs(d)}
Maybe(d) ==
  Sure(d) \cup
    IF GetDataType(d) = "kFunctionDefinition"
    THEN {<<scope_id[d], FunctionName(d), statement_id[FunctionName(d)]>>} ELSE {}

\* The entries of the symbol tables of ss; that ss has tables; that no two
\* entries have the same name.
Content(ss) ==
  UNION {{<<s, ss[s].table[i].node, ss[s].table[i].id>> : i \in DOMAIN ss[s].table} :
           s \in DOMAIN ss}
Tabled(ss) ==
  \A s \in 1..Len(ss) : "table" \in DOMAIN ss[s] /\ ss[s].table \in Seq(ToSet(ss[s].table))
Single(ss) ==
  \A s, t \in 1..Len(ss) : \A i \in DOMAIN ss[s].table, j \in DOMAIN ss[t].table :
    ss[s].table[i].node = ss[t].table[j].node => s = t /\ i = j

Built == pc \notin {"mark", "build", "building"}

\* The tables hold what the definitions that are not to come any more declare.
TableInv ==
  /\ Tabled(scopes) /\ Single(scopes)
  /\ ~Built => Content(scopes) = {} /\ types = {}
  /\ Built =>
       /\ TooLarge => work = <<>>
       /\ Content(scopes) \subseteq UNION {Maybe(d) : d \in {c \in Defined : ~ToCome(work, c)}}
       /\ ~TooLarge => \A d \in Defined : ~ToCome(work, d) => Sure(d) \subseteq Content(scopes)
       /\ pc \notin {"collect", "assert", "crash"} => work = <<>>

\* The IRs marked are the outermost fix units with a FIXME in them.
MarkedUnits == \A u \in marked : root[u].data_type = "kFixUnit"
Marks == {u \in Lexical!FixUnits : \E n \in Lexical!Fixmes : Lexical!Within(n, u)}
MarkInv ==
  /\ pc = "mark" => marked = {}
  /\ pc # "mark" => marked = Marks

\* The statement ids are those the IRs were made with.
IdInv ==
  LET count(n) == Cardinality(MadeBefore(n)) IN
  /\ source \in Source
  /\ source = "translated" => \A n \in IRs : statement_id[n] = count(n)
  /\ source = "extracted" =>
       /\ \A n \in IRs : root[n].data_type # "kFixUnit"
       /\ \A n \in IRs :
            statement_id[n] = count(n) + IF root[n].word = "FIXME" THEN Len(root) ELSE 0

\* The head e of the list gives way to v, which comes to all that e comes to
\* but for G, which is collected now; the list becomes x.
Replaced(e, v, G) ==
  /\ v \in Seq(Work) /\ Ordered(v)
  /\ \A i \in 1..Len(v) :
       /\ v[i].node \in e.node..root[e.node].last /\ v[i].node \in Below(1)
       /\ v[i].do = "leave" => GetDataType(v[i].node) = "kClassDefinition"
  /\ \A d \in G : Covers(e, d)
  /\ \A d \in Defined : ToCome(v, d) <=> Covers(e, d) /\ d \notin G

Joins(x, v, w) ==
  /\ x \in Seq(Work) /\ Len(v) \in Nat /\ Len(w) \in Nat \ {0}
  /\ \A k \in 1..Len(x) : \/ \E i \in 1..Len(v) : x[k] = v[i]
                          \/ \E i \in 2..Len(w) : x[k] = w[i]
  /\ \A i \in 1..Len(v) : \E k \in 1..Len(x) : x[k] = v[i]
  /\ \A i \in 2..Len(w) : \E k \in 1..Len(x) : x[k] = w[i]

-----------------------------------------------------------------------------
(***************************************************************************)
(* The order of the text.  InOrder lists its set from the least number to  *)
(* the greatest; what search_by_data_type finds are the topmost IRs, and   *)
(* its first result is the first of them.                                  *)
(***************************************************************************)
LEMMA InOrderIncreases ==
  ASSUME TreeInv, NEW S \in SUBSET IRs
  PROVE  \A i, j \in 1..Len(InOrder(S)) : i < j => InOrder(S)[i] < InOrder(S)[j]
  <1>1. S \in SUBSET Nat /\ IsFiniteSet(S) BY TreeFacts, FS_Subset
  <1>2. Len(InOrder(S)) = Cardinality(S) /\ Cardinality(S) \in Nat
    BY <1>1, InOrderLists
  <1>3. \A i \in 1..Cardinality(S) : /\ InOrder(S)[i] \in S
                                     /\ Cardinality(Smaller(S, InOrder(S)[i])) = i - 1
    <2>1. \A i \in 1..Cardinality(S) : \E n \in S : Cardinality(Smaller(S, n)) = i - 1
      BY <1>1, RankIsOnto
    <2>2. \A i \in 1..Cardinality(S) :
            InOrder(S)[i] = CHOOSE n \in S : Cardinality(Smaller(S, n)) = i - 1
      BY DEF InOrder, Smaller
    <2> QED BY <2>1, <2>2
  <1>4. ASSUME NEW m \in S, NEW n \in S, n <= m
        PROVE  Cardinality(Smaller(S, n)) <= Cardinality(Smaller(S, m))
    <2>1. Smaller(S, n) \subseteq Smaller(S, m)
      <3>1. \A k \in S : k \in Nat /\ m \in Nat /\ n \in Nat BY <1>1
      <3>2. \A k \in S : k < n => k < m BY <1>4, <3>1
      <3> QED BY <3>2 DEF Smaller
    <2>2. IsFiniteSet(Smaller(S, m)) BY <1>1, FS_Subset DEF Smaller
    <2> QED BY <2>1, <2>2, FS_Subset
  <1>5. ASSUME NEW i \in 1..Cardinality(S), NEW j \in 1..Cardinality(S), i < j
        PROVE  InOrder(S)[i] < InOrder(S)[j]
    <2> DEFINE a == InOrder(S)[i]
               b == InOrder(S)[j]
    <2>1. /\ a \in S /\ b \in S /\ a \in Nat /\ b \in Nat
          /\ Cardinality(Smaller(S, a)) = i - 1 /\ Cardinality(Smaller(S, b)) = j - 1
      BY <1>1, <1>3
    <2> HIDE DEF a, b
    <2>2. ~(b <= a)
      <3> SUFFICES ASSUME b <= a PROVE FALSE OBVIOUS
      <3>1. Cardinality(Smaller(S, b)) <= Cardinality(Smaller(S, a)) BY <1>4, <2>1
      <3> QED BY <1>2, <1>5, <2>1, <3>1
    <2>3. a < b BY <2>1, <2>2
    <2> QED BY <2>3 DEF a, b
  <1> QED BY <1>2, <1>5

\* search_by_data_type lists the topmost IRs of the data type, once each, first one first.
LEMMA SearchFacts ==
  ASSUME TreeInv, NEW n \in IRs, NEW dt, NEW forbid
  PROVE  LET found == search_by_data_type(n, dt, forbid)
             top == Topmost(n, dt, forbid)
         IN /\ top \subseteq Below(n) /\ top \subseteq IRs
            /\ Len(found) \in Nat /\ DOMAIN found = 1..Len(found)
            /\ ToSet(found) = top
            /\ \A i \in 1..Len(found) : found[i] \in top
            /\ \A i, j \in 1..Len(found) : found[i] = found[j] => i = j
            /\ found = <<>> <=> top = {}
            /\ top # {} => found[1] \in top /\ \A m \in top : found[1] <= m
  <1> DEFINE found == search_by_data_type(n, dt, forbid)
             top == Topmost(n, dt, forbid)
  <1>1. top \subseteq Below(n) /\ top \subseteq IRs BY BelowFacts DEF Topmost
  <1>2. found = InOrder(top) BY DEF search_by_data_type
  <1> HIDE DEF top, found
  <1>3. /\ found \in Seq(top) /\ Len(found) \in Nat /\ DOMAIN found = 1..Len(found)
        /\ \A i \in 1..Len(found) : found[i] \in top
        /\ \A i, j \in 1..Len(found) : found[i] = found[j] => i = j
        /\ \A m \in top : \E i \in 1..Len(found) : found[i] = m
    <2>1. top \in SUBSET IRs BY <1>1
    <2>2. /\ InOrder(top) \in Seq(top)
          /\ Len(InOrder(top)) \in Nat
          /\ DOMAIN InOrder(top) = 1..Len(InOrder(top))
          /\ \A i \in 1..Len(InOrder(top)) : InOrder(top)[i] \in top
          /\ \A i, j \in 1..Len(InOrder(top)) : InOrder(top)[i] = InOrder(top)[j] => i = j
          /\ \A m \in top : \E i \in 1..Len(InOrder(top)) : InOrder(top)[i] = m
      BY <2>1, InOrderIRs
    <2> QED BY <1>2, <2>2
  <1>4. \A i, j \in 1..Len(found) : i < j => found[i] < found[j]
    BY <1>1, <1>2, InOrderIncreases
  <1>5. ToSet(found) = top BY <1>3 DEF ToSet
  <1>6. found = <<>> <=> top = {}
    <2>1. ASSUME found = <<>> PROVE top = {} BY <1>3, <2>1
    <2>2. ASSUME top = {} PROVE found = <<>>
      <3>1. Len(found) = 0 BY <1>3, <2>2
      <3> QED BY <1>3, <3>1, EmptySeq
    <2> QED BY <2>1, <2>2
  <1>7. ASSUME top # {} PROVE found[1] \in top /\ \A m \in top : found[1] <= m
    <2>1. 1 \in 1..Len(found) BY <1>3, <1>7
    <2>2. ASSUME NEW m \in top PROVE found[1] <= m
      <3>1. PICK i \in 1..Len(found) : found[i] = m BY <1>3
      <3>2. CASE i = 1
        <4>1. m \in Nat BY <1>1, TreeFacts
        <4> QED BY <3>1, <3>2, <4>1
      <3>3. CASE i # 1
        <4>1. 1 < i BY <3>3
        <4>2. found[1] < found[i] BY <1>4, <2>1, <4>1
        <4>3. found[1] \in Nat /\ found[i] \in Nat BY <1>1, <1>3, <2>1, TreeFacts
        <4> QED BY <3>1, <4>2, <4>3
      <3> QED BY <3>2, <3>3
    <2> QED BY <1>3, <2>1, <2>2
  <1> QED BY <1>1, <1>3, <1>5, <1>6, <1>7 DEF top, found

\* Of two IRs around a third one is around the other.
LEMMA Nesting ==
  ASSUME TreeInv, NEW a \in IRs, NEW b \in IRs, NEW m \in IRs,
         m <= root[a].last, b <= m, a <= b
  PROVE  /\ b <= root[a].last /\ root[b].last <= root[a].last
         /\ a \in Nat /\ b \in Nat /\ m \in Nat /\ root[a].last \in Nat /\ root[b].last \in Nat
  <1>1. /\ a \in Nat /\ b \in Nat /\ m \in Nat /\ root[a].last \in Nat /\ root[b].last \in Nat
    BY TreeFacts
  <1>2. b \in a..root[a].last BY <1>1
  <1> QED BY <1>1, <1>2, TreeFacts

\* What is visited below n are the IRs of its part of the program that are left.
LEMMA BelowIs ==
  ASSUME TreeInv, NEW n \in IRs
  PROVE  Below(n) = {m \in Below(1) : n <= m /\ m <= root[n].last}
  <1>1. Below(n) = {m \in n..root[n].last : \A u \in marked : m <= u \/ m > root[u].last}
    BY DEF Below
  <1>2. Below(1) = {m \in 1..root[1].last : \A u \in marked : m <= u \/ m > root[u].last}
    BY DEF Below
  <1>3. n \in Nat /\ n >= 1 /\ root[n].last \in Nat /\ root[n].last <= root[1].last
        /\ root[1].last \in Nat
    BY TreeFacts
  <1> QED BY <1>1, <1>2, <1>3

\* What is around an IR that MarkFixMe left is left, and not marked.
LEMMA AroundSeen ==
  ASSUME TreeInv, NEW m \in Below(1), NEW a \in IRs, a <= m, m <= root[a].last
  PROVE  /\ a \in Below(1) /\ m \in Below(a) /\ m \in IRs
         /\ a < m => a \notin marked
  <1>1. /\ Len(root) \in Nat /\ IRs = 1..Len(root) /\ root[1].last = Len(root)
        /\ \A k \in IRs : root[k].last \in k..Len(root)
        /\ 1 \in IRs
    BY TreeFacts
  <1>2. m \in IRs /\ \A u \in marked : m <= u \/ m > root[u].last
    BY <1>1 DEF Below
  <1>3. a \in Nat /\ m \in Nat /\ root[a].last \in Nat BY <1>1, <1>2
  <1>4. a < m => a \notin marked BY <1>2, <1>3
  <1>5. ASSUME NEW u \in marked, ~(a <= u \/ a > root[u].last) PROVE FALSE
    <2>1. u \in IRs BY DEF TreeInv
    <2>2. u \in Nat /\ root[u].last \in Nat BY <1>1, <2>1
    <2>3. a \in u..root[u].last BY <1>3, <1>5, <2>2
    <2>4. root[a].last <= root[u].last BY <2>1, <2>3, TreeFacts
    <2>5. m <= u \/ m > root[u].last BY <1>2
    <2> QED BY <1>3, <1>5, <2>2, <2>4, <2>5
  <1>6. a \in 1..root[1].last BY <1>1
  <1>7. a \in Below(1) BY <1>5, <1>6 DEF Below
  <1>8. m \in Below(a) BY <1>3, BelowIs
  <1> QED BY <1>2, <1>4, <1>7, <1>8

\* An IR with a data type is not marked.
LEMMA Typed ==
  ASSUME TreeInv, NEW n, GetDataType(n) # kDataDefault
  PROVE  n \notin marked /\ root[n].data_type = GetDataType(n)
  BY DEF GetDataType

\* The ancestors of n are the IRs before it whose part of the program reaches it.
LEMMA AboveIs ==
  ASSUME TreeInv, NEW n \in IRs
  PROVE  /\ Above(n) = {a \in IRs : a < n /\ n <= root[a].last}
         /\ n \in Nat /\ root[n].last \in Nat /\ n <= root[n].last
  <1>1. /\ Len(root) \in Nat /\ IRs = 1..Len(root)
        /\ \A k \in IRs : root[k].last \in k..Len(root)
    BY TreeFacts
  <1> QED BY <1>1 DEF Above

-----------------------------------------------------------------------------
(***************************************************************************)
(* The list work is in the order of the text, in both traversals: a visit  *)
(* comes after everything before it in the list has ended, and what is     *)
(* before a Leave is inside the IR that is left.                           *)
(***************************************************************************)
LEMMA OrderedTail ==
  ASSUME NEW w \in Seq(Work), w # <<>>, Ordered(w)
  PROVE  /\ Ordered(Tail(w)) /\ Tail(w) \in Seq(Work)
         /\ \A i \in 1..Len(Tail(w)) : Before(w[1], Tail(w)[i])
         /\ w[1] = Head(w) /\ w[1] \in Work /\ w[1].node \in IRs
         /\ \A i \in 1..Len(Tail(w)) : Tail(w)[i] \in Work /\ Tail(w)[i].node \in IRs
  <1>1. /\ Tail(w) \in Seq(Work) /\ Len(w) \in Nat \ {0} /\ Len(Tail(w)) = Len(w) - 1
        /\ \A i \in 1..Len(Tail(w)) : Tail(w)[i] = w[i + 1]
        /\ Head(w) = w[1] /\ w[1] \in Work
    BY LeavesOfTail
  <1>2. \A i, j \in 1..Len(w) : i < j => Before(w[i], w[j]) BY DEF Ordered
  <1>3. ASSUME NEW i \in 1..Len(Tail(w)), NEW j \in 1..Len(Tail(w)), i < j
        PROVE  Before(Tail(w)[i], Tail(w)[j])
    <2>1. i + 1 \in 1..Len(w) /\ j + 1 \in 1..Len(w) /\ i + 1 < j + 1 BY <1>1, <1>3
    <2> QED BY <1>1, <1>2, <2>1
  <1>4. ASSUME NEW i \in 1..Len(Tail(w)) PROVE Before(w[1], Tail(w)[i])
    <2>1. i + 1 \in 1..Len(w) /\ 1 \in 1..Len(w) /\ 1 < i + 1 BY <1>1
    <2> QED BY <1>1, <1>2, <2>1
  <1>5. \A i \in 1..Len(Tail(w)) : Tail(w)[i] \in Work BY <1>1, ElementOfSeq
  <1>6. \A e \in Work : e.node \in IRs BY DEF Work
  <1> QED BY <1>1, <1>3, <1>4, <1>5, <1>6 DEF Ordered

\* Two ordered worklists, all of the first before all of the second, make an ordered one.
LEMMA OrderedConcat ==
  ASSUME NEW v \in Seq(Work), NEW w \in Seq(Work), Ordered(v), Ordered(w),
         \A i \in 1..Len(v), j \in 1..Len(w) : Before(v[i], w[j])
  PROVE  Ordered(v \o w)
  <1>1. /\ Len(v) \in Nat /\ Len(w) \in Nat /\ Len(v \o w) = Len(v) + Len(w)
        /\ \A i \in 1..Len(v) : (v \o w)[i] = v[i]
        /\ \A i \in 1..Len(w) : (v \o w)[Len(v) + i] = w[i]
    BY LeavesOfConcat
  <1>2. ASSUME NEW i \in 1..Len(v \o w), NEW j \in 1..Len(v \o w), i < j
        PROVE  Before((v \o w)[i], (v \o w)[j])
    <2>1. CASE j <= Len(v)
      <3>1. i \in 1..Len(v) /\ j \in 1..Len(v) BY <1>1, <1>2, <2>1
      <3> QED BY <1>1, <1>2, <3>1 DEF Ordered
    <2>2. CASE i <= Len(v) /\ j > Len(v)
      <3> DEFINE k == j - Len(v)
      <3>1. i \in 1..Len(v) /\ k \in 1..Len(w) /\ j = Len(v) + k BY <1>1, <2>2
      <3> HIDE DEF k
      <3> QED BY <1>1, <3>1
    <2>3. CASE i > Len(v)
      <3> DEFINE k == j - Len(v)
                 l == i - Len(v)
      <3>1. k \in 1..Len(w) /\ j = Len(v) + k /\ l \in 1..Len(w) /\ i = Len(v) + l /\ l < k
        BY <1>1, <1>2, <2>3
      <3> HIDE DEF k, l
      <3> QED BY <1>1, <3>1 DEF Ordered
    <2> QED BY <1>1, <2>1, <2>2, <2>3
  <1> QED BY <1>2 DEF Ordered

\* The head of the list gives way to what is inside it.
LEMMA OrderedNext ==
  ASSUME TreeInv, NEW w \in Seq(Work), w # <<>>, Ordered(w), NEW v \in Seq(Work), Ordered(v),
         \A i \in 1..Len(v) : v[i].node \in w[1].node..root[w[1].node].last
  PROVE  Ordered(v \o Tail(w)) /\ v \o Tail(w) \in Seq(Work)
  <1>1. /\ Ordered(Tail(w)) /\ Tail(w) \in Seq(Work)
        /\ \A i \in 1..Len(Tail(w)) : Before(w[1], Tail(w)[i])
        /\ w[1].node \in IRs
        /\ \A i \in 1..Len(Tail(w)) : Tail(w)[i].node \in IRs
    BY OrderedTail
  <1> DEFINE n == w[1].node
  <1> HIDE DEF n
  <1>2. ASSUME NEW i \in 1..Len(v), NEW j \in 1..Len(Tail(w))
        PROVE  Before(v[i], Tail(w)[j])
    <2> DEFINE m == v[i].node
               k == Tail(w)[j].node
    <2>1. m \in n..root[n].last /\ n \in IRs /\ k \in IRs BY <1>1 DEF n
    <2>2. /\ n \in Nat /\ k \in Nat /\ m \in Nat /\ root[n].last \in Nat /\ root[m].last \in Nat
          /\ root[m].last <= root[n].last /\ root[k].last \in Nat /\ m \in IRs
      <3> HIDE DEF m, k
      <3>1. m \in IRs BY <2>1, TreeFacts
      <3>2. root[m].last <= root[n].last BY <2>1, TreeFacts
      <3> QED BY <2>1, <3>1, <3>2, AboveIs
    <2>3. Before(w[1], Tail(w)[j]) BY <1>1
    <2>4. Tail(w)[j].do = "visit" => root[n].last < k BY <2>3 DEF Before, n
    <2>5. Tail(w)[j].do # "visit" => n \in Inside(root, k) BY <2>3 DEF Before, n
    <2>6. Tail(w)[j].do = "visit" => root[m].last < k BY <2>2, <2>4
    <2>7. Tail(w)[j].do # "visit" => m \in Inside(root, k)
      <3> SUFFICES ASSUME Tail(w)[j].do # "visit" PROVE m \in Inside(root, k) OBVIOUS
      <3>1. n \in (k + 1)..root[k].last BY <2>5 DEF Inside
      <3>2. n \in k..root[k].last BY <2>2, <3>1
      <3>3. root[n].last <= root[k].last BY <2>1, <3>2, TreeFacts
      <3> HIDE DEF m, k
      <3>4. m \in (k + 1)..root[k].last BY <2>1, <2>2, <3>1, <3>3
      <3> QED BY <3>4 DEF Inside
    <2> QED BY <2>6, <2>7 DEF Before
  <1>3. v \o Tail(w) \in Seq(Work) BY <1>1, LeavesOfConcat
  <1> QED BY <1>1, <1>2, <1>3, OrderedConcat

\* The visits of the children of n are ordered, and stay inside n.
LEMMA OrderedKids ==
  ASSUME TreeInv, NEW n \in IRs
  PROVE  /\ Ordered(VisitKids(n)) /\ VisitKids(n) \in Seq(Work)
         /\ \A i \in 1..Len(VisitKids(n)) :
              /\ VisitKids(n)[i].node \in Inside(root, n)
              /\ VisitKids(n)[i].node \in Below(n)
              /\ VisitKids(n)[i].do = "visit"
  <1> DEFINE S == {m \in Below(n) \ {n} : Above(m) \cap Below(n) = {n}}
  <1>1. S \in SUBSET IRs BY BelowFacts
  <1>2. Kids(n) = InOrder(S) BY DEF Kids
  <1>3. ASSUME NEW a \in S, NEW b \in S, a < b PROVE root[a].last < b
    <2>1. a \in IRs /\ b \in IRs /\ a \in Below(n) /\ a # n BY <1>1
    <2>2. b \in Nat /\ a \in Nat /\ root[a].last \in Nat BY <2>1, TreeFacts
    <2>3. a \notin Above(b) BY <2>1
    <2> QED BY <1>3, <2>1, <2>2, <2>3, AboveIs
  <1>4. ASSUME NEW m \in S PROVE m \in Inside(root, n) /\ m \in Below(n)
    <2>1. m \in n..root[n].last /\ m # n /\ m \in Below(n) BY DEF Below
    <2>2. n \in Nat /\ root[n].last \in Nat BY TreeFacts
    <2> QED BY <2>1, <2>2 DEF Inside
  <1> HIDE DEF S
  <1>5. /\ Len(Kids(n)) \in Nat /\ DOMAIN Kids(n) = 1..Len(Kids(n))
        /\ \A i \in 1..Len(Kids(n)) : Kids(n)[i] \in S
        /\ \A i, j \in 1..Len(Kids(n)) : i < j => Kids(n)[i] < Kids(n)[j]
    <2>1. \A i, j \in 1..Len(InOrder(S)) : i < j => InOrder(S)[i] < InOrder(S)[j]
      BY <1>1, InOrderIncreases
    <2>2. /\ Len(InOrder(S)) \in Nat /\ DOMAIN InOrder(S) = 1..Len(InOrder(S))
          /\ \A i \in 1..Len(InOrder(S)) : InOrder(S)[i] \in S
      BY <1>1, InOrderIRs
    <2> QED BY <1>2, <2>1, <2>2
  <1>6. /\ VisitKids(n) \in Seq(Work)
        /\ \A i \in 1..Len(VisitKids(n)) : VisitKids(n)[i].do = "visit"
    BY KidsFacts
  <1>7. /\ VisitKids(n) = [i \in 1..Len(Kids(n)) |-> Visit(Kids(n)[i])]
        /\ Len(VisitKids(n)) = Len(Kids(n))
    <2>1. VisitKids(n) = [i \in 1..Len(Kids(n)) |-> Visit(Kids(n)[i])] BY <1>5 DEF VisitKids
    <2>2. DOMAIN VisitKids(n) = 1..Len(VisitKids(n)) /\ Len(VisitKids(n)) \in Nat
      BY <1>6, LenProperties
    <2> QED BY <1>5, <2>1, <2>2
  <1>8. \A i \in 1..Len(VisitKids(n)) : VisitKids(n)[i].node = Kids(n)[i]
    BY <1>7 DEF Visit
  <1>9. ASSUME NEW i \in 1..Len(VisitKids(n)), NEW j \in 1..Len(VisitKids(n)), i < j
        PROVE  Before(VisitKids(n)[i], VisitKids(n)[j])
    <2>1. Kids(n)[i] \in S /\ Kids(n)[j] \in S /\ Kids(n)[i] < Kids(n)[j] BY <1>5, <1>7, <1>9
    <2>2. root[Kids(n)[i]].last < Kids(n)[j] BY <1>3, <2>1
    <2> QED BY <1>6, <1>8, <2>2 DEF Before
  <1> QED BY <1>4, <1>5, <1>6, <1>7, <1>8, <1>9 DEF Ordered

\* Visits inside n, then the Leave of n.
LEMMA OrderedLeave ==
  ASSUME TreeInv, NEW n \in IRs, NEW v \in Seq(Work), Ordered(v),
         \A i \in 1..Len(v) : v[i].node \in Inside(root, n)
  PROVE  LET u == v \o <<Leave(n)>>
         IN /\ u \in Seq(Work) /\ Ordered(u)
            /\ \A i \in 1..Len(u) : u[i].node \in n..root[n].last
            /\ Len(u) = Len(v) + 1 /\ Len(v) \in Nat
            /\ u[Len(v) + 1] = Leave(n)
            /\ \A i \in 1..Len(v) : u[i] = v[i]
  <1> DEFINE l == <<Leave(n)>>
             u == v \o l
  <1>1. l \in Seq(Work) /\ Len(l) = 1 /\ l[1] = Leave(n) BY DEF Leave, Work
  <1>2. Leave(n).do = "leave" /\ Leave(n).node = n BY DEF Leave
  <1> HIDE DEF l
  <1>3. /\ u \in Seq(Work) /\ Len(v) \in Nat /\ Len(u) = Len(v) + Len(l)
        /\ \A i \in 1..Len(v) : u[i] = v[i]
        /\ \A i \in 1..Len(l) : u[Len(v) + i] = l[i]
    BY <1>1, LeavesOfConcat
  <1>4. Ordered(l) BY <1>1 DEF Ordered
  <1>5. ASSUME NEW i \in 1..Len(v), NEW j \in 1..Len(l) PROVE Before(v[i], l[j])
    <2>1. l[j] = Leave(n) BY <1>1
    <2> QED BY <1>2, <2>1 DEF Before
  <1>6. Ordered(u) BY <1>1, <1>4, <1>5, OrderedConcat
  <1> HIDE DEF u
  <1>7. ASSUME NEW i \in 1..Len(u) PROVE u[i].node \in n..root[n].last
    <2>1. n \in Nat /\ root[n].last \in Nat /\ n <= root[n].last BY AboveIs
    <2>2. CASE i <= Len(v)
      <3>1. i \in 1..Len(v) BY <1>3, <2>2
      <3>2. u[i] = v[i] /\ v[i].node \in (n + 1)..root[n].last BY <1>3, <3>1 DEF Inside
      <3> QED BY <2>1, <3>2
    <2>3. CASE i > Len(v)
      <3>1. i = Len(v) + 1 BY <1>1, <1>3, <2>3
      <3>2. u[i] = Leave(n) BY <1>1, <1>3, <3>1
      <3> QED BY <1>2, <2>1, <3>2
    <2> QED BY <1>3, <2>2, <2>3
  <1>8. u[Len(v) + 1] = Leave(n) BY <1>1, <1>3
  <1> QED BY <1>1, <1>3, <1>6, <1>7, <1>8 DEF u, l

-----------------------------------------------------------------------------
(***************************************************************************)
(* What the grammar gives the collectors, in terms of the tree as it is    *)
(* after MarkFixMe.                                                        *)
(***************************************************************************)

LEMMA InsideIs ==
  ASSUME TreeInv, NEW n \in IRs, NEW m \in IRs
  PROVE  /\ m \in Inside(root, n) <=> n < m /\ m <= root[n].last
         /\ \A a : a \in Between(root, n, m) <=>
                     a \in IRs /\ n < a /\ a <= root[n].last /\ a < m /\ m <= root[a].last
  <1>1. /\ Len(root) \in Nat /\ IRs = 1..Len(root)
        /\ \A k \in IRs : root[k].last \in k..Len(root)
    BY TreeFacts
  <1>2. n \in Nat /\ root[n].last \in Nat /\ m \in Nat BY <1>1
  <1>3. m \in Inside(root, n) <=> n < m /\ m <= root[n].last BY <1>2 DEF Inside
  <1>4. \A a : a \in Inside(root, n) <=> a \in IRs /\ n < a /\ a <= root[n].last
    BY <1>1, <1>2 DEF Inside
  <1> QED BY <1>3, <1>4 DEF Between

\* No scope is opened between d and x.
LEMMA OpenersThrough ==
  ASSUME TreeInv, NEW d \in IRs, NEW x \in IRs, d < x, x <= root[d].last,
         \A a \in Between(root, d, x) : root[a].scope_type = kScopeDefault
  PROVE  /\ Openers(x) = Openers(d) \cup (IF GetScopeType(x) # kScopeDefault THEN {x} ELSE {})
         /\ x \notin Openers(d)
  <1>1. /\ Above(x) = {a \in IRs : a < x /\ x <= root[a].last}
        /\ Above(d) = {a \in IRs : a < d /\ d <= root[a].last}
        /\ d \in Nat /\ x \in Nat /\ root[d].last \in Nat
    BY AboveIs
  <1>2. ASSUME NEW a \in Above(x), GetScopeType(a) # kScopeDefault PROVE a \in Above(d) \cup {d}
    <2>1. a \in IRs /\ a \in Nat /\ a < x /\ x <= root[a].last /\ root[a].last \in Nat
      BY <1>1, TreeFacts
    <2>2. CASE a < d
      <3>1. d <= root[a].last BY <1>1, <2>1
      <3> QED BY <1>1, <2>1, <2>2, <3>1
    <2>3. CASE a > d
      <3>1. a <= root[d].last BY <1>1, <2>1
      <3>2. a \in Between(root, d, x) BY <2>1, <2>3, <3>1, InsideIs
      <3> QED BY <1>2, <3>2 DEF GetScopeType
    <2> QED BY <1>1, <2>1, <2>2, <2>3
  <1>3. ASSUME NEW a \in Above(d) PROVE a \in Above(x)
    <2>1. a \in IRs /\ a \in Nat /\ a < d /\ d <= root[a].last /\ root[a].last \in Nat
      BY <1>1, TreeFacts
    <2>2. root[d].last <= root[a].last
      <3>1. d \in a..root[a].last BY <1>1, <2>1
      <3> QED BY <2>1, <3>1, TreeFacts
    <2>3. a < x /\ x <= root[a].last BY <1>1, <2>1, <2>2
    <2> QED BY <1>1, <2>1, <2>3
  <1>4. d \in Above(x) BY <1>1
  <1>5. x \notin Openers(d) BY <1>1 DEF Openers
  <1> QED BY <1>2, <1>3, <1>4, <1>5 DEF Openers

\* If there is an IR to find, one is found.
LEMMA TopmostExists ==
  ASSUME TreeInv, NEW n \in IRs, NEW dt, NEW forbid, NEW m \in Below(n), GetDataType(m) = dt,
         \A a \in Above(m) \cap Below(n) : GetDataType(a) \notin forbid
  PROVE  Topmost(n, dt, forbid) # {}
  <1> DEFINE T == {a \in (Above(m) \cup {m}) \cap Below(n) : GetDataType(a) = dt}
  <1>1. Below(n) \in SUBSET IRs /\ IRs \in SUBSET Nat BY BelowFacts, TreeFacts
  <1>2. PICK k \in T : \A a \in T : k <= a
    <2>1. T \subseteq Nat /\ m \in T BY <1>1
    <2> HIDE DEF T
    <2> QED BY <2>1, LeastElement
  <1>3. k \in IRs /\ k \in Below(n) /\ GetDataType(k) = dt /\ m \in IRs BY <1>1
  <1>4. ASSUME NEW a \in Above(k) PROVE a \in Above(m)
    <2>1. a \in IRs /\ a < k /\ k <= root[a].last /\ a \in Nat /\ k \in Nat /\ m \in Nat
          /\ root[a].last \in Nat /\ root[k].last \in Nat
      BY <1>3, AboveIs, TreeFacts
    <2>2. k <= m /\ m <= root[k].last
      <3>1. CASE k = m BY <1>3, <3>1, AboveIs
      <3>2. CASE k \in Above(m) BY <1>3, <2>1, <3>2, AboveIs
      <3> QED BY <3>1, <3>2
    <2>3. root[k].last <= root[a].last
      <3>1. k \in a..root[a].last BY <2>1
      <3> QED BY <2>1, <3>1, TreeFacts
    <2>4. a < m /\ m <= root[a].last BY <2>1, <2>2, <2>3
    <2> QED BY <1>3, <2>1, <2>4, AboveIs
  <1>5. ASSUME NEW a \in Above(k) \cap Below(n) PROVE GetDataType(a) \notin forbid \cup {dt}
    <2>1. a \in Above(m) BY <1>4
    <2>2. a < k /\ a \in Nat /\ k \in Nat BY <1>1, <1>3, AboveIs
    <2>3. GetDataType(a) # dt
      <3> SUFFICES ASSUME GetDataType(a) = dt PROVE FALSE OBVIOUS
      <3>1. a \in T BY <2>1
      <3>2. k <= a BY <1>2, <3>1
      <3> QED BY <2>2, <3>2
    <2> QED BY <2>1, <2>3
  <1>6. k \in Topmost(n, dt, forbid) BY <1>3, <1>5 DEF Topmost
  <1> QED BY <1>6

\* An IR in the tree, with no fix unit between it and one that was left.
LEMMA StaysSeen ==
  ASSUME TreeInv, MarkedUnits, NEW n \in Below(1), GetDataType(n) # kDataDefault,
         NEW m \in IRs, n < m, m <= root[n].last,
         \A a \in Between(root, n, m) : root[a].data_type # "kFixUnit"
  PROVE  m \in Below(n) /\ m \in Below(1)
  <1>1. 1 \in IRs /\ n \in IRs BY TreeFacts, BelowFacts
  <1>2. n \notin marked BY Typed
  <1>3. n \in Nat /\ m \in Nat /\ root[n].last \in Nat BY <1>1, AboveIs
  <1>4. ASSUME NEW u \in marked, ~(m <= u \/ m > root[u].last) PROVE FALSE
    <2>1. u \in IRs /\ root[u].data_type = "kFixUnit" BY DEF TreeInv, MarkedUnits
    <2>2. u \in Nat /\ root[u].last \in Nat BY <2>1, AboveIs
    <2>3. n <= u \/ n > root[u].last BY DEF Below
    <2>4. n < u BY <1>2, <1>3, <1>4, <2>2, <2>3
    <2>5. u \in Between(root, n, m) BY <1>1, <1>3, <1>4, <2>1, <2>2, <2>4, InsideIs
    <2> QED BY <2>1, <2>5
  <1>5. m \in n..root[n].last BY <1>3
  <1>6. m \in Below(n) BY <1>4, <1>5 DEF Below
  <1> QED BY <1>1, <1>6, BelowIs

\* A variable definition holds no other definition, and its names are in its own scope.
LEMMA VariableFacts ==
  ASSUME TreeInv, NEW d \in Below(1), GetDataType(d) = "kVariableDefinition"
  PROVE  /\ \A m \in Below(d) \ {d} : GetDataType(m) \notin Definitions
         /\ \A x \in Below(d) : GetDataType(x) = "kVariableName" =>
              Openers(x) = Openers(d) /\ x \in Topmost(d, "kVariableName", {})
  <1>1. 1 \in IRs /\ d \in IRs /\ Below(d) \in SUBSET IRs BY TreeFacts, BelowFacts
  <1>2. root[d].data_type = "kVariableDefinition" BY Typed DEF kDataDefault
  <1>3. VariableShape(root, d) BY <1>1, <1>2, GrammarAssumption DEF TreeInv, IRs
  <1>4. \A m \in Below(d) \ {d} : m \in IRs /\ d < m /\ m <= root[d].last
    <2>1. \A m \in Below(d) : d <= m /\ m <= root[d].last BY <1>1, BelowIs
    <2>2. d \in Nat /\ \A m \in IRs : m \in Nat BY <1>1, TreeFacts
    <2> QED BY <1>1, <2>1, <2>2
  <1>5. ASSUME NEW m \in Below(d) \ {d} PROVE GetDataType(m) \notin Definitions
    <2>1. root[m].data_type \notin Definitions BY <1>1, <1>3, <1>4, InsideIs DEF VariableShape
    <2> QED BY <2>1 DEF GetDataType, Definitions, kDataDefault
  <1>6. ASSUME NEW x \in Below(d), GetDataType(x) = "kVariableName"
        PROVE  Openers(x) = Openers(d) /\ x \in Topmost(d, "kVariableName", {})
    <2>1. x # d BY <1>6
    <2>2. x \in IRs /\ d < x /\ x <= root[d].last BY <1>4, <2>1
    <2>3. root[x].data_type = "kVariableName" BY <1>6, Typed DEF kDataDefault
    <2>4. x \in Inside(root, d) BY <1>1, <2>2, InsideIs
    <2>5. /\ \A a \in Between(root, d, x) \cup {x} : root[a].scope_type = kScopeDefault
          /\ \A a \in Between(root, d, x) : root[a].data_type # "kVariableName"
      BY <1>3, <2>3, <2>4 DEF VariableShape
    <2>6. Openers(x) = Openers(d)
      <3>1. Openers(x) = Openers(d) \cup (IF GetScopeType(x) # kScopeDefault THEN {x} ELSE {})
        BY <1>1, <2>2, <2>5, OpenersThrough
      <3>2. GetScopeType(x) = kScopeDefault BY <2>5 DEF GetScopeType
      <3> QED BY <3>1, <3>2
    <2>7. ASSUME NEW a \in Above(x) \cap Below(d) PROVE GetDataType(a) \notin {} \cup {"kVariableName"}
      <3>1. CASE a = d BY <1>6, <3>1
      <3>2. CASE a # d
        <4>1. a \in IRs /\ d < a /\ a <= root[d].last BY <1>4, <3>2
        <4>2. a < x /\ x <= root[a].last BY <2>2, AboveIs
        <4>3. a \in Between(root, d, x) BY <1>1, <2>2, <4>1, <4>2, InsideIs
        <4> QED BY <2>5, <4>3 DEF GetDataType, kDataDefault
      <3> QED BY <3>1, <3>2
    <2> QED BY <1>6, <2>6, <2>7 DEF Topmost
  <1> QED BY <1>5, <1>6

\* A structure's body opens a scope, and holds every definition inside the structure.
LEMMA StructureFacts ==
  ASSUME TreeInv, MarkedUnits, NEW c \in Below(1), GetDataType(c) = "kClassDefinition"
  PROVE  LET b == search_by_data_type(c, "kClassBody", {})[1]
         IN /\ b \in Below(c) /\ b \in IRs /\ c < b /\ GetDataType(b) = "kClassBody"
            /\ Openers(b) = Openers(c) \cup {b} /\ b \notin Openers(c)
            /\ \A m \in Below(c) \ {c} : GetDataType(m) \in Definitions => m \in Below(b)
  <1>1. 1 \in IRs /\ c \in IRs /\ Below(c) \in SUBSET IRs BY TreeFacts, BelowFacts
  <1>2. root[c].data_type = "kClassDefinition" BY Typed DEF kDataDefault
  <1>3. StructureShape(root, c) BY <1>1, <1>2, GrammarAssumption DEF TreeInv, IRs
  <1>4. PICK b \in Inside(root, c) :
          /\ root[b].data_type = "kClassBody" /\ root[b].scope_type # kScopeDefault
          /\ \A a \in Between(root, c, b) :
               root[a].scope_type = kScopeDefault /\ root[a].data_type # "kFixUnit"
          /\ \A m \in Inside(root, c) :
               root[m].data_type \in Definitions \cup {"kClassBody"} => m \in b..root[b].last
    BY <1>3 DEF StructureShape
  <1>5. b \in IRs /\ c < b /\ b <= root[c].last /\ c \in Nat /\ b \in Nat /\ root[b].last \in Nat
    <2>1. c..root[c].last \subseteq IRs /\ c \in Nat /\ root[c].last \in Nat
      BY <1>1, TreeFacts
    <2>2. b \in IRs BY <2>1 DEF Inside
    <2> QED BY <1>1, <2>1, <2>2, InsideIs, AboveIs
  <1>6. b \in Below(c) /\ b \in Below(1) BY <1>4, <1>5, StaysSeen DEF kDataDefault
  <1>7. b \notin marked /\ GetDataType(b) = "kClassBody" /\ GetScopeType(b) # kScopeDefault
    BY <1>4 DEF MarkedUnits, GetDataType, GetScopeType
  <1>8. Openers(b) = Openers(c) \cup {b} /\ b \notin Openers(c)
    <2>1. /\ Openers(b) = Openers(c) \cup (IF GetScopeType(b) # kScopeDefault THEN {b} ELSE {})
          /\ b \notin Openers(c)
      BY <1>1, <1>4, <1>5, OpenersThrough
    <2> QED BY <1>7, <2>1
  <1>9. ASSUME NEW m \in Below(c) \ {c}, GetDataType(m) \in Definitions \cup {"kClassBody"}
        PROVE  b <= m /\ m \in Below(b)
    <2>1. m \in IRs /\ c <= m /\ m <= root[c].last /\ m \in Below(1) BY <1>1, BelowIs
    <2>2. m \in Nat BY <2>1, TreeFacts
    <2>3. m \in Inside(root, c) BY <1>1, <1>5, <1>9, <2>1, <2>2, InsideIs
    <2>4. root[m].data_type = GetDataType(m)
      BY <1>9, Typed DEF Definitions, kDataDefault
    <2>5. m \in b..root[b].last BY <1>4, <1>9, <2>3, <2>4
    <2>6. b <= m /\ m <= root[b].last BY <1>5, <2>2, <2>5
    <2> QED BY <1>5, <2>1, <2>6, BelowIs
  <1>10. b \in Topmost(c, "kClassBody", {})
    <2>1. ASSUME NEW a \in Above(b) \cap Below(c) PROVE GetDataType(a) # "kClassBody"
      <3> SUFFICES ASSUME GetDataType(a) = "kClassBody" PROVE FALSE OBVIOUS
      <3>1. a # c OBVIOUS
      <3>2. a < b /\ a \in Nat BY <1>1, <1>5, AboveIs
      <3>3. b <= a BY <1>9, <3>1
      <3> QED BY <1>5, <3>2, <3>3
    <2> QED BY <1>6, <1>7, <2>1 DEF Topmost
  <1>11. \A m \in Topmost(c, "kClassBody", {}) : b <= m
    <2>1. ASSUME NEW m \in Topmost(c, "kClassBody", {}) PROVE b <= m
      <3>1. m \in Below(c) /\ GetDataType(m) = "kClassBody" BY DEF Topmost
      <3>2. m # c BY <3>1
      <3> QED BY <1>9, <3>1, <3>2
    <2> QED BY <2>1
  <1>12. b = search_by_data_type(c, "kClassBody", {})[1]
    <2> DEFINE found == search_by_data_type(c, "kClassBody", {})
    <2>1. /\ found[1] \in Topmost(c, "kClassBody", {}) /\ found[1] <= b
          /\ found[1] \in IRs
      BY <1>1, <1>10, SearchFacts
    <2>2. found[1] \in Nat BY <2>1, TreeFacts
    <2>3. b <= found[1] BY <1>11, <2>1
    <2> HIDE DEF found
    <2>4. b = found[1] BY <1>5, <2>1, <2>2, <2>3
    <2> QED BY <2>4 DEF found
  <1>13. \A m \in Below(c) \ {c} : GetDataType(m) \in Definitions => m \in Below(b) BY <1>9
  <1> QED BY <1>5, <1>6, <1>7, <1>8, <1>12, <1>13

\* A function's body opens a scope, and holds every definition inside the function.
LEMMA FunctionBodyFacts ==
  ASSUME TreeInv, MarkedUnits, NEW f \in Below(1), GetDataType(f) = "kFunctionDefinition"
  PROVE  /\ \A m \in Below(f) \ {f} : GetDataType(m) \in Definitions \cup {"kFunctionBody"} =>
              Bodies(f) # {} /\ m \in Below(FunctionBody(f)) /\ FunctionBody(f) <= m
         /\ Bodies(f) # {} =>
              /\ FunctionBody(f) \in Below(f) /\ FunctionBody(f) \in IRs /\ f < FunctionBody(f)
              /\ GetDataType(FunctionBody(f)) = "kFunctionBody"
              /\ FunctionBody(f) \in Openers(FunctionBody(f))
  <1>1. 1 \in IRs /\ f \in IRs /\ Below(f) \in SUBSET IRs /\ f \in Nat BY TreeFacts, BelowFacts
  <1>2. root[f].data_type = "kFunctionDefinition" BY Typed DEF kDataDefault
  <1>3. FunctionShape(root, f) BY <1>1, <1>2, GrammarAssumption DEF TreeInv, IRs
  <1> DEFINE B == {m \in Inside(root, f) : root[m].data_type \in Definitions \cup {"kFunctionBody"}}
  <1>4. B # {} => \E b \in B : /\ root[b].data_type = "kFunctionBody"
                               /\ root[b].scope_type # kScopeDefault
                               /\ B \subseteq b..root[b].last
    BY <1>3 DEF FunctionShape
  <1>5. ASSUME NEW m \in Below(f) \ {f}, GetDataType(m) \in Definitions \cup {"kFunctionBody"}
        PROVE  /\ m \in B /\ m \in Below(1) /\ m \in IRs /\ m \in Nat
               /\ f < m
    <2>1. m \in IRs /\ f <= m /\ m <= root[f].last /\ m \in Below(1) BY <1>1, BelowIs
    <2>2. m \in Nat BY <2>1, TreeFacts
    <2>3. m \in Inside(root, f) BY <1>1, <1>5, <2>1, <2>2, InsideIs
    <2>4. root[m].data_type = GetDataType(m) BY <1>5, Typed DEF Definitions, kDataDefault
    <2> QED BY <1>1, <1>5, <2>1, <2>2, <2>3, <2>4
  <1>6. \A m \in B : m \in IRs /\ f < m /\ m <= root[f].last
    <2>1. f..root[f].last \subseteq IRs /\ root[f].last \in Nat BY <1>1, TreeFacts
    <2>2. \A m \in B : m \in IRs BY <1>1, <2>1 DEF Inside
    <2> QED BY <1>1, <2>2, InsideIs
  <1> HIDE DEF B
  <1>7. ASSUME NEW m \in Below(f) \ {f}, GetDataType(m) \in Definitions \cup {"kFunctionBody"}
        PROVE  /\ Bodies(f) # {} /\ m \in Below(FunctionBody(f)) /\ FunctionBody(f) <= m
               /\ FunctionBody(f) \in Below(f) /\ FunctionBody(f) \in IRs /\ f < FunctionBody(f)
               /\ GetDataType(FunctionBody(f)) = "kFunctionBody"
               /\ FunctionBody(f) \in Openers(FunctionBody(f))
    <2>1. PICK b \in B : /\ root[b].data_type = "kFunctionBody"
                         /\ root[b].scope_type # kScopeDefault
                         /\ B \subseteq b..root[b].last
      BY <1>4, <1>5, <1>7
    <2>2. b \in IRs /\ f < b /\ b <= root[f].last /\ b \in Nat /\ root[b].last \in Nat
      BY <1>6, AboveIs
    <2>3. \A k \in Below(f) \ {f} : GetDataType(k) \in Definitions \cup {"kFunctionBody"} =>
            k \in Below(1) /\ b <= k /\ k <= root[b].last /\ k \in IRs
      BY <1>5, <2>1, <2>2
    <2>4. b \in Below(1) /\ m \in Below(b) /\ b <= m BY <1>7, <2>2, <2>3, AroundSeen
    <2>5. b \in Below(f) BY <1>1, <2>2, <2>4, BelowIs
    <2>6. b \notin marked BY <2>1 DEF MarkedUnits
    <2>7. GetDataType(b) = "kFunctionBody" /\ GetScopeType(b) # kScopeDefault
      BY <2>1, <2>6 DEF GetDataType, GetScopeType
    <2>8. b \in Bodies(f)
      <3>1. ASSUME NEW a \in Above(b) \cap Below(f) PROVE GetDataType(a) # "kFunctionBody"
        <4> SUFFICES ASSUME GetDataType(a) = "kFunctionBody" PROVE FALSE OBVIOUS
        <4>1. a # f OBVIOUS
        <4>2. a < b /\ a \in Nat BY <1>1, <2>2, AboveIs, TreeFacts
        <4>3. b <= a BY <2>3, <4>1
        <4> QED BY <2>2, <4>2, <4>3
      <3> QED BY <2>5, <2>7, <3>1 DEF Bodies, Topmost
    <2>9. b = FunctionBody(f)
      <3> DEFINE found == search_by_data_type(f, "kFunctionBody", {})
      <3>1. /\ found[1] \in Bodies(f) /\ found[1] <= b /\ found[1] \in IRs
        BY <1>1, <2>8, SearchFacts DEF Bodies
      <3>2. found[1] \in Nat BY <3>1, TreeFacts
      <3>3. b <= found[1]
        <4>1. found[1] \in Below(f) /\ GetDataType(found[1]) = "kFunctionBody"
          BY <3>1 DEF Bodies, Topmost
        <4>2. found[1] # f BY <4>1
        <4> QED BY <2>3, <4>1, <4>2
      <3> HIDE DEF found
      <3>4. b = found[1] BY <2>2, <3>1, <3>2, <3>3
      <3> QED BY <3>4 DEF found, FunctionBody
    <2>10. b \in Openers(b) BY <2>7 DEF Openers
    <2> QED BY <2>2, <2>4, <2>5, <2>7, <2>8, <2>9, <2>10
  <1>8. ASSUME Bodies(f) # {} PROVE \E m \in Below(f) \ {f} : GetDataType(m) = "kFunctionBody"
    <2>1. PICK m \in Bodies(f) : TRUE BY <1>8
    <2>2. m \in Below(f) /\ GetDataType(m) = "kFunctionBody" BY DEF Bodies, Topmost
    <2> QED BY <2>2
  <1> QED BY <1>7, <1>8

\* The name and the arguments of a function are outside of its body.
LEMMA FunctionNameFacts ==
  ASSUME TreeInv, MarkedUnits, NEW f \in Below(1), GetDataType(f) = "kFunctionDefinition"
  PROVE  /\ FunctionName(f) \in Below(f) /\ GetDataType(FunctionName(f)) = "kFunctionName"
         /\ Openers(FunctionName(f)) = Openers(f)
         /\ \A b \in Below(f) : GetDataType(b) = "kFunctionBody" =>
              ~(b <= FunctionName(f) /\ FunctionName(f) <= root[b].last)
  <1> DEFINE O == {m \in Inside(root, f) :
                     /\ root[m].data_type = "kFunctionName"
                     /\ \A a \in Between(root, f, m) : root[a].data_type # "kFunctionBody"}
             top == Topmost(f, "kFunctionName", {"kFunctionBody"})
  <1>1. 1 \in IRs /\ f \in IRs /\ Below(f) \in SUBSET IRs /\ f \in Nat BY TreeFacts, BelowFacts
  <1>2. root[f].data_type = "kFunctionDefinition" BY Typed DEF kDataDefault
  <1>3. FunctionShape(root, f) BY <1>1, <1>2, GrammarAssumption DEF TreeInv, IRs
  <1>4. /\ O # {}
        /\ \A m \in O : \A a \in Between(root, f, m) \cup {m} :
             root[a].scope_type = kScopeDefault /\ root[a].data_type # "kFixUnit"
    BY <1>3 DEF FunctionShape
  <1>5. \A m \in Inside(root, f) : m \in IRs /\ f < m /\ m <= root[f].last
    <2>1. f..root[f].last \subseteq IRs /\ root[f].last \in Nat BY <1>1, TreeFacts
    <2>2. \A m \in Inside(root, f) : m \in IRs BY <1>1, <2>1 DEF Inside
    <2> QED BY <1>1, <2>2, InsideIs
  <1>6. \A a \in Below(f) \ {f} : a \in IRs /\ f < a /\ a <= root[f].last /\ a \in Below(1)
    <2>1. \A a \in Below(f) : a \in Nat /\ f <= a /\ a <= root[f].last /\ a \in Below(1)
      BY <1>1, BelowIs, TreeFacts
    <2> QED BY <1>1, <2>1
  <1>7. top # {}
    <2>1. PICK m \in O : TRUE BY <1>4
    <2>2. /\ m \in IRs /\ f < m /\ m <= root[f].last /\ root[m].data_type = "kFunctionName"
          /\ \A a \in Between(root, f, m) : root[a].data_type # "kFunctionBody"
      BY <1>5
    <2>3. \A a \in Between(root, f, m) : root[a].data_type # "kFixUnit" BY <1>4
    <2>4. m \in Below(f) BY <2>2, <2>3, StaysSeen DEF kDataDefault
    <2>5. GetDataType(m) = "kFunctionName" BY <2>2 DEF MarkedUnits, GetDataType
    <2>6. ASSUME NEW a \in Above(m) \cap Below(f) PROVE GetDataType(a) \notin {"kFunctionBody"}
      <3>1. CASE a = f BY <3>1
      <3>2. CASE a # f
        <4>1. a < m /\ m <= root[a].last BY <2>2, AboveIs
        <4>2. a \in Between(root, f, m) BY <1>1, <1>6, <2>2, <3>2, <4>1, InsideIs
        <4> QED BY <2>2, <4>2 DEF GetDataType, kDataDefault
      <3> QED BY <3>1, <3>2
    <2> QED BY <1>1, <2>4, <2>5, <2>6, TopmostExists
  <1>8. FunctionName(f) \in top BY <1>1, <1>7, SearchFacts DEF FunctionName
  <1>9. ASSUME NEW x \in top
        PROVE  /\ x \in Below(f) /\ GetDataType(x) = "kFunctionName" /\ Openers(x) = Openers(f)
               /\ \A b \in Below(f) : GetDataType(b) = "kFunctionBody" => ~(b <= x /\ x <= root[b].last)
    <2>1. /\ x \in Below(f) /\ GetDataType(x) = "kFunctionName"
          /\ \A a \in Above(x) \cap Below(f) : GetDataType(a) # "kFunctionBody"
      BY DEF Topmost
    <2>2. x \in IRs /\ f < x /\ x <= root[f].last /\ x \in Below(1) BY <1>6, <2>1
    <2>3. root[x].data_type = "kFunctionName" BY <2>1, Typed DEF kDataDefault
    <2>4. ASSUME NEW b \in Below(f), GetDataType(b) = "kFunctionBody", b <= x, x <= root[b].last
          PROVE  FALSE
      <3>1. b # x BY <2>1, <2>4
      <3>2. b < x /\ b \in IRs
        <4>1. b \in IRs /\ b \in Nat /\ x \in Nat BY <1>1, <2>2, TreeFacts
        <4> QED BY <2>4, <3>1, <4>1
      <3>3. b \in Above(x) BY <2>2, <2>4, <3>2, AboveIs
      <3> QED BY <2>1, <2>4, <3>3
    <2>5. \A a \in Between(root, f, x) : root[a].data_type # "kFunctionBody"
      <3> SUFFICES ASSUME NEW a \in Between(root, f, x), root[a].data_type = "kFunctionBody"
                   PROVE FALSE
        OBVIOUS
      <3>1. a \in IRs /\ f < a /\ a <= root[f].last /\ a < x /\ x <= root[a].last
        BY <1>1, <2>2, InsideIs
      <3>2. a \in Nat /\ x \in Nat BY <2>2, <3>1, TreeFacts
      <3>3. a \in Below(1) BY <2>2, <3>1, <3>2, AroundSeen
      <3>4. a \in Below(f) BY <1>1, <3>1, <3>2, <3>3, BelowIs
      <3>5. GetDataType(a) = "kFunctionBody" BY DEF GetDataType, MarkedUnits
      <3> QED BY <2>4, <3>1, <3>2, <3>4, <3>5
    <2>6. x \in O BY <1>1, <2>2, <2>3, <2>5, InsideIs
    <2>7. \A a \in Between(root, f, x) \cup {x} : root[a].scope_type = kScopeDefault
      BY <1>4, <2>6
    <2>8. Openers(x) = Openers(f)
      <3>1. Openers(x) = Openers(f) \cup (IF GetScopeType(x) # kScopeDefault THEN {x} ELSE {})
        BY <1>1, <2>2, <2>7, OpenersThrough
      <3>2. GetScopeType(x) = kScopeDefault BY <2>7 DEF GetScopeType
      <3> QED BY <3>1, <3>2
    <2> QED BY <2>1, <2>4, <2>8
  <1> HIDE DEF top
  <1> QED BY <1>8, <1>9

\* An argument has a name, outside every body of its function.
LEMMA ArgumentFacts ==
  ASSUME TreeInv, MarkedUnits, NEW f \in Below(1), GetDataType(f) = "kFunctionDefinition",
         NEW a \in ArgumentIRs(f)
  PROVE  /\ a \in Below(f) /\ a \in IRs /\ root[a].data_type = "kFunctionArgument"
         /\ ArgumentName(a) \in Below(a) /\ GetDataType(ArgumentName(a)) = "kVariableName"
         /\ \A b \in Below(f) : GetDataType(b) = "kFunctionBody" =>
              ~(b <= ArgumentName(a) /\ ArgumentName(a) <= root[b].last)
  <1>1. 1 \in IRs /\ f \in IRs /\ Below(f) \in SUBSET IRs /\ f \in Nat BY TreeFacts, BelowFacts
  <1>2. root[f].data_type = "kFunctionDefinition" BY Typed DEF kDataDefault
  <1>3. FunctionShape(root, f) BY <1>1, <1>2, GrammarAssumption DEF TreeInv, IRs
  <1>4. /\ a \in Below(f) /\ GetDataType(a) = "kFunctionArgument"
        /\ \A k \in Above(a) \cap Below(f) : GetDataType(k) # "kFunctionBody"
    BY DEF ArgumentIRs, Topmost
  <1>5. a # f BY <1>4
  <1>6. a \in IRs /\ f < a /\ a <= root[f].last /\ a \in Below(1) /\ a \in Nat
    <2>1. a \in Nat /\ f <= a /\ a <= root[f].last /\ a \in Below(1) BY <1>1, <1>4, BelowIs, TreeFacts
    <2> QED BY <1>1, <1>4, <1>5, <2>1
  <1>7. root[a].data_type = "kFunctionArgument" BY <1>4, Typed DEF kDataDefault
  <1>8. ASSUME NEW k \in Between(root, f, a) PROVE root[k].data_type # "kFunctionBody"
    <2> SUFFICES ASSUME root[k].data_type = "kFunctionBody" PROVE FALSE OBVIOUS
    <2>1. k \in IRs /\ f < k /\ k <= root[f].last /\ k < a /\ a <= root[k].last
      BY <1>1, <1>6, InsideIs
    <2>2. k \in Nat BY <2>1, TreeFacts
    <2>3. k \in Below(1) BY <1>6, <2>1, <2>2, AroundSeen
    <2>4. k \in Below(f) BY <1>1, <2>1, <2>2, <2>3, BelowIs
    <2>5. GetDataType(k) = "kFunctionBody" BY DEF GetDataType, MarkedUnits
    <2>6. k \in Above(a) BY <1>6, <2>1, AboveIs
    <2> QED BY <1>4, <2>4, <2>5, <2>6
  <1>9. /\ \A k \in Inside(root, a) : root[k].data_type # "kFunctionBody"
        /\ \E x \in Inside(root, a) : /\ root[x].data_type = "kVariableName"
                                      /\ \A k \in Between(root, a, x) : root[k].data_type # "kFixUnit"
    <2>1. a \in Inside(root, f) BY <1>1, <1>6, InsideIs
    <2> QED BY <1>3, <1>7, <1>8, <2>1 DEF FunctionShape
  <1>10. PICK x \in Inside(root, a) :
           /\ root[x].data_type = "kVariableName"
           /\ \A k \in Between(root, a, x) : root[k].data_type # "kFixUnit"
    BY <1>9
  <1>11. x \in IRs /\ a < x /\ x <= root[a].last
    <2>1. a..root[a].last \subseteq IRs /\ root[a].last \in Nat BY <1>6, TreeFacts
    <2>2. x \in IRs BY <1>6, <2>1 DEF Inside
    <2> QED BY <1>6, <2>2, InsideIs
  <1>12. x \in Below(a) BY <1>4, <1>6, <1>10, <1>11, StaysSeen DEF kDataDefault
  <1>13. GetDataType(x) = "kVariableName" BY <1>10 DEF GetDataType, MarkedUnits
  <1>14. Topmost(a, "kVariableName", {}) # {} BY <1>6, <1>12, <1>13, TopmostExists
  <1>15. ArgumentName(a) \in Topmost(a, "kVariableName", {})
    BY <1>6, <1>14, SearchFacts DEF ArgumentName
  <1> DEFINE y == ArgumentName(a)
  <1>16. y \in Below(a) /\ GetDataType(y) = "kVariableName" BY <1>15 DEF Topmost
  <1> HIDE DEF y
  <1>17. ASSUME NEW b \in Below(f), GetDataType(b) = "kFunctionBody", b <= y, y <= root[b].last
         PROVE FALSE
    <2>1. /\ b \in IRs /\ b \in Nat /\ y \in IRs /\ y \in Nat /\ a <= y /\ y <= root[a].last
          /\ root[a].last \in Nat /\ root[b].last \in Nat
      BY <1>1, <1>6, <1>16, BelowIs, BelowFacts, TreeFacts
    <2>2. root[b].data_type = "kFunctionBody" BY <1>17, Typed DEF kDataDefault
    <2>3. CASE b < a
      <3>1. a <= root[b].last BY <1>6, <1>17, <2>1
      <3>2. b \in Above(a) BY <1>6, <2>1, <2>3, <3>1, AboveIs
      <3> QED BY <1>4, <1>17, <3>2
    <2>4. CASE b = a BY <1>7, <2>2, <2>4
    <2>5. CASE b > a
      <3>1. b <= root[a].last BY <1>17, <2>1
      <3>2. b \in Inside(root, a) BY <1>6, <2>1, <2>5, <3>1, InsideIs
      <3> QED BY <1>9, <2>2, <3>2
    <2> QED BY <1>6, <2>1, <2>3, <2>4, <2>5
  <1> QED BY <1>4, <1>6, <1>7, <1>16, <1>17 DEF y

\* Two arguments have two names.
LEMMA ArgumentsApart ==
  ASSUME TreeInv, MarkedUnits, NEW f \in Below(1), GetDataType(f) = "kFunctionDefinition",
         NEW a \in ArgumentIRs(f), NEW c \in ArgumentIRs(f), ArgumentName(a) = ArgumentName(c)
  PROVE  a = c
  <1> DEFINE x == ArgumentName(a)
  <1>1. a \in Below(f) /\ a \in IRs /\ x \in Below(a) /\ c \in Below(f) /\ c \in IRs /\ x \in Below(c)
    BY ArgumentFacts
  <1>2. /\ a \in Nat /\ c \in Nat /\ x \in Nat /\ x \in IRs /\ root[a].last \in Nat /\ root[c].last \in Nat
        /\ a <= x /\ x <= root[a].last /\ c <= x /\ x <= root[c].last
    BY <1>1, BelowIs, BelowFacts, TreeFacts
  <1> HIDE DEF x
  <1>3. /\ \A k \in Above(a) \cap Below(f) : GetDataType(k) # "kFunctionArgument"
        /\ \A k \in Above(c) \cap Below(f) : GetDataType(k) # "kFunctionArgument"
        /\ GetDataType(a) = "kFunctionArgument" /\ GetDataType(c) = "kFunctionArgument"
    BY DEF ArgumentIRs, Topmost
  <1>4. ASSUME a < c PROVE FALSE
    <2>1. c <= root[a].last BY <1>2
    <2>2. a \in Above(c) BY <1>1, <1>4, <2>1, AboveIs
    <2> QED BY <1>1, <1>3, <2>2
  <1>5. ASSUME c < a PROVE FALSE
    <2>1. a <= root[c].last BY <1>2
    <2>2. c \in Above(a) BY <1>1, <1>5, <2>1, AboveIs
    <2> QED BY <1>1, <1>3, <2>2
  <1> QED BY <1>2, <1>4, <1>5

\* What a definition declares stands below it, and below no other one.
LEMMA NamesBelow ==
  ASSUME TreeInv, MarkedUnits, NEW d \in Defined, NEW x \in DeclaredNames(d)
  PROVE  /\ x \in Below(d) /\ d \in IRs /\ x \in IRs
         /\ GetDataType(d) = "kFunctionDefinition" =>
              \A b \in Below(d) : GetDataType(b) = "kFunctionBody" => ~(b <= x /\ x <= root[b].last)
  <1>1. d \in Below(1) /\ GetDataType(d) \in Definitions /\ 1 \in IRs BY TreeFacts DEF Defined
  <1>2. d \in IRs /\ Below(d) \in SUBSET IRs BY <1>1, BelowFacts
  <1>3. d \in Below(d)
    <2>1. d <= d /\ d <= root[d].last BY <1>2, AboveIs
    <2> QED BY <1>1, <1>2, <2>1, BelowIs
  <1>4. CASE GetDataType(d) = "kVariableDefinition"
    BY <1>2, <1>4 DEF DeclaredNames, Topmost
  <1>5. CASE GetDataType(d) = "kClassDefinition"
    BY <1>2, <1>3, <1>5 DEF DeclaredNames
  <1>6. CASE GetDataType(d) = "kFunctionDefinition"
    <2>1. x = FunctionName(d) \/ \E a \in ArgumentIRs(d) : x = ArgumentName(a)
      BY <1>6 DEF DeclaredNames
    <2>2. CASE x = FunctionName(d) BY <1>1, <1>2, <1>6, <2>2, FunctionNameFacts
    <2>3. CASE \E a \in ArgumentIRs(d) : x = ArgumentName(a)
      <3>1. PICK a \in ArgumentIRs(d) : x = ArgumentName(a) BY <2>3
      <3>2. /\ a \in Below(d) /\ a \in IRs /\ x \in Below(a)
            /\ \A b \in Below(d) : GetDataType(b) = "kFunctionBody" => ~(b <= x /\ x <= root[b].last)
        BY <1>1, <1>6, <3>1, ArgumentFacts
      <3>3. x \in Below(1) /\ a <= x /\ x <= root[a].last /\ d <= a /\ a <= root[d].last
        BY <1>2, <3>2, BelowIs
      <3>4. root[a].last <= root[d].last
        <4>1. a \in d..root[d].last BY <1>2, <3>2 DEF Below
        <4> QED BY <1>2, <4>1, TreeFacts
      <3>5. x \in IRs BY <3>2, BelowFacts
      <3>6. x \in Nat /\ a \in Nat /\ d \in Nat /\ root[a].last \in Nat /\ root[d].last \in Nat
        BY <1>2, <3>2, <3>5, AboveIs
      <3>7. d <= x /\ x <= root[d].last BY <3>3, <3>4, <3>6
      <3>8. x \in Below(d) BY <1>2, <3>3, <3>7, BelowIs
      <3> QED BY <1>2, <3>2, <3>5, <3>8
    <2> QED BY <2>1, <2>2, <2>3
  <1> QED BY <1>1, <1>4, <1>5, <1>6 DEF Definitions

\* No name is declared by two definitions.
LEMMA OwnersApart ==
  ASSUME TreeInv, MarkedUnits, NEW d \in Defined, NEW e \in Defined,
         NEW x \in DeclaredNames(d), x \in DeclaredNames(e)
  PROVE  d = e
  <1>1. ASSUME NEW g \in Defined, NEW h \in Defined, g < h,
               x \in DeclaredNames(g), x \in DeclaredNames(h)
        PROVE  FALSE
    <2>1. /\ x \in Below(g) /\ x \in Below(h) /\ g \in IRs /\ h \in IRs /\ x \in IRs
          /\ GetDataType(g) = "kFunctionDefinition" =>
               \A b \in Below(g) : GetDataType(b) = "kFunctionBody" => ~(b <= x /\ x <= root[b].last)
      BY <1>1, NamesBelow
    <2>2. /\ g \in Nat /\ h \in Nat /\ x \in Nat /\ root[g].last \in Nat /\ root[h].last \in Nat
          /\ x <= root[g].last /\ h <= x /\ x <= root[h].last
      BY <2>1, BelowIs, AboveIs
    <2>3. h <= root[g].last BY <2>2
    <2>4. g \in Below(1) /\ h \in Below(1) /\ GetDataType(g) \in Definitions
          /\ GetDataType(h) \in Definitions
      BY DEF Defined
    <2>5. h \in Below(g) \ {g} BY <1>1, <2>1, <2>2, <2>3, <2>4, BelowIs
    <2>6. CASE GetDataType(g) = "kVariableDefinition" BY <2>4, <2>5, <2>6, VariableFacts
    <2>7. CASE GetDataType(g) = "kClassDefinition"
      <3>1. x = g BY <1>1, <2>7 DEF DeclaredNames
      <3> QED BY <1>1, <2>2, <3>1
    <2>8. CASE GetDataType(g) = "kFunctionDefinition"
      <3> DEFINE b == FunctionBody(g)
      <3>1. h \in Below(b) /\ b \in Below(g) /\ b \in IRs /\ GetDataType(b) = "kFunctionBody"
        BY <2>4, <2>5, <2>8, FunctionBodyFacts
      <3> HIDE DEF b
      <3>2. b <= h /\ h <= root[b].last /\ b \in Nat /\ root[b].last \in Nat BY <3>1, BelowIs, AboveIs
      <3>3. root[h].last <= root[b].last
        <4>1. h \in b..root[b].last BY <2>2, <3>2
        <4> QED BY <3>1, <4>1, TreeFacts
      <3>4. b <= x /\ x <= root[b].last BY <2>2, <3>2, <3>3
      <3> QED BY <2>1, <2>8, <3>1, <3>4
    <2> QED BY <2>4, <2>6, <2>7, <2>8 DEF Definitions
  <1>2. d \in IRs /\ e \in IRs BY NamesBelow
  <1>3. d \in Nat /\ e \in Nat BY <1>2, TreeFacts
  <1>4. ~(d < e) /\ ~(e < d) BY <1>1
  <1> QED BY <1>3, <1>4

-----------------------------------------------------------------------------
(***************************************************************************)
(* What is on the list when its head gives way to v.                       *)
(***************************************************************************)
LEMMA ElementsNext ==
  ASSUME NEW w \in Seq(Work), w # <<>>, NEW v \in Seq(Work), NEW x, x = v \o Tail(w)
  PROVE  Joins(x, v, w)
  <1>1. /\ Tail(w) \in Seq(Work) /\ Len(w) \in Nat \ {0} /\ Len(Tail(w)) = Len(w) - 1
        /\ \A i \in 1..Len(Tail(w)) : Tail(w)[i] = w[i + 1]
    BY LeavesOfTail
  <1>2. /\ x \in Seq(Work) /\ Len(v) \in Nat /\ Len(x) = Len(v) + (Len(w) - 1)
        /\ \A i \in 1..Len(v) : x[i] = v[i]
        /\ \A i \in 1..Len(Tail(w)) : x[Len(v) + i] = Tail(w)[i]
    BY <1>1, LeavesOfConcat
  <1>3. ASSUME NEW k \in 1..Len(x)
        PROVE  \/ \E i \in 1..Len(v) : x[k] = v[i]
               \/ \E i \in 2..Len(w) : x[k] = w[i]
    <2>1. CASE k \in 1..Len(v) BY <1>2, <2>1
    <2>2. CASE k \notin 1..Len(v)
      <3> DEFINE i == k - Len(v)
      <3>1. i \in 1..Len(Tail(w)) /\ Len(v) + i = k /\ i + 1 \in 2..Len(w) BY <1>1, <1>2, <2>2
      <3> HIDE DEF i
      <3>2. x[k] = w[i + 1] BY <1>1, <1>2, <3>1
      <3> QED BY <3>1, <3>2
    <2> QED BY <2>1, <2>2
  <1>4. ASSUME NEW i \in 1..Len(v) PROVE \E k \in 1..Len(x) : x[k] = v[i]
    <2>1. i \in 1..Len(x) BY <1>1, <1>2
    <2> QED BY <1>2, <2>1
  <1>5. ASSUME NEW i \in 2..Len(w) PROVE \E k \in 1..Len(x) : x[k] = w[i]
    <2> DEFINE j == i - 1
    <2>1. j \in 1..Len(Tail(w)) /\ j + 1 = i /\ Len(v) + j \in 1..Len(x) BY <1>1, <1>2
    <2> HIDE DEF j
    <2>2. x[Len(v) + j] = w[i] BY <1>1, <1>2, <2>1
    <2> QED BY <2>1, <2>2
  <1> QED BY <1>1, <1>2, <1>3, <1>4, <1>5 DEF Joins

\* What comes after the head stands after it in the text, or around it.
LEMMA AfterHead ==
  ASSUME TreeInv, NEW w \in Seq(Work), w # <<>>, Ordered(w)
  PROVE  /\ w[1].node \in IRs /\ w[1] \in Work /\ w[1] = Head(w) /\ Len(w) \in Nat \ {0}
         /\ \A i \in 2..Len(w) :
              /\ w[i] \in Work /\ w[i].node \in IRs
              /\ w[i].do = "visit" => root[w[1].node].last < w[i].node
              /\ w[i].do # "visit" => w[1].node \in Inside(root, w[i].node)
  <1>1. Len(w) \in Nat \ {0} /\ w[1] = Head(w) BY LeavesOfTail
  <1>2. \A i \in 1..Len(w) : w[i] \in Work BY <1>1, LenProperties
  <1>3. \A i \in 1..Len(w) : w[i].node \in IRs BY <1>2 DEF Work
  <1>4. ASSUME NEW i \in 2..Len(w) PROVE Before(w[1], w[i])
    <2>1. 1 \in 1..Len(w) /\ i \in 1..Len(w) /\ 1 < i BY <1>1
    <2> QED BY <2>1 DEF Ordered
  <1>5. 1 \in 1..Len(w) /\ \A i \in 2..Len(w) : i \in 1..Len(w) BY <1>1
  <1> QED BY <1>1, <1>2, <1>3, <1>4, <1>5 DEF Before

\* The order of the worklist depends on the program and its marks only.
LEMMA SameOrder ==
  ASSUME UNCHANGED <<root, marked>>
  PROVE  /\ Work' = Work /\ (Ordered(work') => Ordered(work)') /\ Below(1)' = Below(1)
         /\ \A n : GetDataType(n)' = GetDataType(n)
  <1>1. Work' = Work BY DEF Work, IRs
  <1>2. Ordered(work') => Ordered(work)' BY DEF Ordered, Before, Inside
  <1>3. Below(1)' = Below(1) BY DEF Below
  <1>4. \A n : GetDataType(n)' = GetDataType(n) BY DEF GetDataType
  <1> QED BY <1>1, <1>2, <1>3, <1>4

\* EnterScope keeps the worklist in order.
LEMMA EnterOrder ==
  ASSUME TreeInv, ScopeInv, OrderInv, EnterScope
  PROVE  OrderInv'
  <1> DEFINE n == Head(work).node
             e == [type |-> GetScopeType(n), parent |-> g_scope_current_, opener |-> n,
                   table |-> <<>>]
             v == VisitKids(n) \o <<Leave(n)>>
  <1>1. /\ pc = "building" /\ pc' = "building" /\ work # <<>> /\ Head(work).do = "visit"
        /\ scopes' = Append(scopes, e)
        /\ work' = v \o Tail(work)
        /\ UNCHANGED <<root, marked>>
    BY DEF EnterScope, NextIs, tree
  <1>2. work \in Seq(Work) /\ Ordered(work) BY <1>1 DEF OrderInv
  <1>3. /\ work[1] = Head(work) /\ n \in IRs /\ Len(work) \in Nat \ {0}
        /\ \A i \in 2..Len(work) : /\ work[i].node \in IRs
                                   /\ work[i].do = "visit" => root[n].last < work[i].node
    BY <1>1, <1>2, AfterHead
  <1> HIDE DEF n, v
  <1>4. e.opener = n OBVIOUS
  <1>5. /\ VisitKids(n) \in Seq(Work) /\ Ordered(VisitKids(n))
        /\ \A i \in 1..Len(VisitKids(n)) : VisitKids(n)[i].node \in Inside(root, n)
    BY <1>3, OrderedKids
  <1>6. /\ v \in Seq(Work) /\ Ordered(v) /\ Len(v) = Len(VisitKids(n)) + 1
        /\ Len(VisitKids(n)) \in Nat
        /\ \A i \in 1..Len(v) : v[i].node \in n..root[n].last
        /\ v[Len(VisitKids(n)) + 1] = Leave(n)
        /\ \A i \in 1..Len(VisitKids(n)) : v[i] = VisitKids(n)[i]
    BY <1>3, <1>5, OrderedLeave DEF v
  <1>7. work[1].node = n BY <1>3 DEF n
  <1>8. Ordered(work') /\ work' \in Seq(Work)
    BY <1>1, <1>2, <1>6, <1>7, OrderedNext
  <1>9. \A i \in 1..Len(v) : v[i].do = "visit" => n < v[i].node
    <2> SUFFICES ASSUME NEW i \in 1..Len(v), v[i].do = "visit" PROVE n < v[i].node OBVIOUS
    <2>1. i # Len(VisitKids(n)) + 1 BY <1>6 DEF Leave
    <2>2. i \in 1..Len(VisitKids(n)) BY <1>6, <2>1
    <2>3. v[i].node \in Inside(root, n) BY <1>5, <1>6, <2>2
    <2> QED BY <1>3, <2>3, AboveIs DEF Inside
  <1>10. \A i \in 2..Len(work) : work[i].do = "visit" => n < work[i].node
    <2> SUFFICES ASSUME NEW i \in 2..Len(work), work[i].do = "visit" PROVE n < work[i].node
      OBVIOUS
    <2>1. n \in Nat /\ root[n].last \in Nat /\ n <= root[n].last /\ work[i].node \in Nat
      BY <1>3, AboveIs
    <2> QED BY <1>3, <2>1
  <1>11. \A k \in 1..Len(work') : work'[k].do = "visit" => n < work'[k].node
    <2> SUFFICES ASSUME NEW k \in 1..Len(work') PROVE work'[k].do = "visit" => n < work'[k].node
      OBVIOUS
    <2>1. \/ \E i \in 1..Len(v) : work'[k] = v[i]
          \/ \E i \in 2..Len(work) : work'[k] = work[i]
      <3>1. Joins(work', v, work) BY <1>1, <1>2, <1>6, ElementsNext
      <3> QED BY <3>1 DEF Joins
    <2> QED BY <1>9, <1>10, <2>1
  <1>12. Shaped(scopes) /\ Nested(scopes) BY DEF ScopeInv
  <1>13. \A s \in 1..Len(scopes) : scopes[s].opener < n /\ scopes[s].opener \in Nat
    <2>1. 1 \in 1..Len(work) BY <1>3
    <2> QED BY <1>1, <1>3, <1>7, <1>12, <2>1 DEF OrderInv, Nested
  <1>14. /\ Len(scopes) \in Nat /\ Len(scopes') = Len(scopes) + 1
         /\ scopes'[Len(scopes) + 1].opener = n
         /\ \A s \in 1..Len(scopes) : scopes'[s] = scopes[s]
    BY <1>1, <1>4, <1>12, AppendElement DEF Shaped
  <1>15. \A s \in 1..Len(scopes') : scopes'[s].opener <= n /\ scopes'[s].opener \in Nat
    <2>1. n \in Nat BY <1>3, AboveIs
    <2> SUFFICES ASSUME NEW s \in 1..Len(scopes')
                 PROVE  scopes'[s].opener <= n /\ scopes'[s].opener \in Nat
      OBVIOUS
    <2>2. CASE s \in 1..Len(scopes) BY <1>13, <1>14, <2>1, <2>2
    <2>3. CASE s = Len(scopes) + 1 BY <1>14, <2>1, <2>3
    <2> QED BY <1>14, <2>2, <2>3
  <1>16. ASSUME NEW s \in 1..Len(scopes'), NEW t \in 1..Len(scopes'), s < t
         PROVE  scopes'[s].opener < scopes'[t].opener
    <2>1. s \in 1..Len(scopes) BY <1>14, <1>16
    <2>2. CASE t \in 1..Len(scopes) BY <1>14, <1>16, <2>1, <2>2 DEF OrderInv
    <2>3. CASE t = Len(scopes) + 1 BY <1>13, <1>14, <2>1, <2>3
    <2> QED BY <1>14, <2>2, <2>3
  <1>17. ASSUME NEW s \in 1..Len(scopes'), NEW k \in 1..Len(work'), work'[k].do = "visit"
         PROVE  scopes'[s].opener < work'[k].node
    <2>1. n < work'[k].node /\ scopes'[s].opener <= n /\ scopes'[s].opener \in Nat
      BY <1>11, <1>15, <1>17
    <2>2. work'[k] \in Work BY <1>8, LenProperties
    <2>3. work'[k].node \in Nat /\ n \in Nat
      <3>1. work'[k].node \in IRs BY <2>2 DEF Work
      <3> QED BY <1>3, <3>1, AboveIs
    <2> QED BY <2>1, <2>3
  <1> QED BY <1>1, <1>8, <1>16, <1>17, SameOrder DEF OrderInv

\* SetScopeID keeps the worklist in order.
LEMMA SetScopeOrder ==
  ASSUME TreeInv, ScopeInv, OrderInv, SetScopeID
  PROVE  OrderInv'
  <1> DEFINE n == Head(work).node
             v == VisitKids(n)
  <1>1. /\ pc = "building" /\ pc' = "building" /\ work # <<>> /\ Head(work).do = "visit"
        /\ work' = v \o Tail(work)
        /\ UNCHANGED <<root, marked, scopes>>
    BY DEF SetScopeID, NextIs, tree
  <1>2. work \in Seq(Work) /\ Ordered(work) BY <1>1 DEF OrderInv
  <1>3. work[1] = Head(work) /\ n \in IRs /\ Len(work) \in Nat \ {0}
    BY <1>1, <1>2, AfterHead
  <1> HIDE DEF n, v
  <1>4. n \in Nat /\ root[n].last \in Nat BY <1>3, AboveIs
  <1>5. /\ v \in Seq(Work) /\ Ordered(v)
        /\ \A i \in 1..Len(v) : v[i].node \in Inside(root, n)
    BY <1>3, OrderedKids DEF v
  <1>6. \A i \in 1..Len(v) : v[i].node \in n..root[n].last /\ n < v[i].node
    BY <1>4, <1>5 DEF Inside
  <1>7. work[1].node = n BY <1>3 DEF n
  <1>8. Ordered(work') /\ work' \in Seq(Work)
    BY <1>1, <1>2, <1>5, <1>6, <1>7, OrderedNext
  <1>9. ASSUME NEW s \in 1..Len(scopes), NEW k \in 1..Len(work'), work'[k].do = "visit"
        PROVE  scopes[s].opener < work'[k].node
    <2>1. \/ \E i \in 1..Len(v) : work'[k] = v[i]
          \/ \E i \in 2..Len(work) : work'[k] = work[i]
      <3>1. Joins(work', v, work) BY <1>1, <1>2, <1>5, ElementsNext
      <3> QED BY <3>1 DEF Joins
    <2>2. CASE \E i \in 2..Len(work) : work'[k] = work[i]
      <3>1. PICK i \in 2..Len(work) : work'[k] = work[i] BY <2>2
      <3>2. i \in 1..Len(work) BY <1>3
      <3> QED BY <1>1, <1>9, <3>1, <3>2 DEF OrderInv
    <2>3. CASE \E i \in 1..Len(v) : work'[k] = v[i]
      <3>1. PICK i \in 1..Len(v) : work'[k] = v[i] BY <2>3
      <3>2. n < work'[k].node /\ work'[k].node \in Nat BY <1>4, <1>6, <3>1
      <3>3. scopes[s].opener < n
        <4>1. 1 \in 1..Len(work) BY <1>3
        <4> QED BY <1>1, <1>3, <1>7, <4>1 DEF OrderInv
      <3>4. scopes[s].opener \in Nat BY DEF ScopeInv, Nested
      <3> QED BY <1>4, <3>2, <3>3, <3>4
    <2> QED BY <2>1, <2>2, <2>3
  <1> QED BY <1>1, <1>8, <1>9, SameOrder DEF OrderInv

\* ExitScope keeps the worklist in order.
LEMMA ExitOrder ==
  ASSUME TreeInv, OrderInv, ExitScope
  PROVE  OrderInv'
  <1>1. /\ pc = "building" /\ pc' = "building" /\ work # <<>>
        /\ work' = Tail(work)
        /\ UNCHANGED <<root, marked, scopes>>
    BY DEF ExitScope, NextIs, tree
  <1>2. work \in Seq(Work) /\ Ordered(work) BY <1>1 DEF OrderInv
  <1>3. Ordered(work') /\ work' \in Seq(Work) BY <1>1, <1>2, OrderedTail
  <1>4. /\ Len(work) \in Nat /\ Len(work') = Len(work) - 1
        /\ \A i \in 1..Len(work') : work'[i] = work[i + 1]
    BY <1>1, <1>2, LeavesOfTail
  <1>5. \A i \in 1..Len(work') : i + 1 \in 1..Len(work) BY <1>4
  <1>6. \A s \in 1..Len(scopes) : \A i \in 1..Len(work') :
          work'[i].do = "visit" => scopes[s].opener < work'[i].node
    BY <1>1, <1>4, <1>5 DEF OrderInv
  <1> QED BY <1>1, <1>3, <1>6, SameOrder DEF OrderInv

\* The traversals begin at the root.
LEMMA StartOrder ==
  ASSUME TreeInv, ScopeInv, OrderInv, StartBuild \/ StartCollect
  PROVE  OrderInv'
  <1>1. /\ pc' \in {"building", "collect"} /\ work' \in {<<>>, <<Visit(1)>>}
        /\ UNCHANGED <<root, marked, scopes>>
        /\ pc' = "building" => pc = "build"
    BY DEF StartBuild, StartCollect, tree
  <1>2. 1 \in IRs /\ 1 \in Below(1)
    <2>1. 1 \in IRs /\ root[1].last = Len(root) /\ Len(root) \in Nat \ {0} BY TreeFacts
    <2>2. \A u \in marked : 1 <= u BY TreeFacts DEF TreeInv
    <2> QED BY <2>1, <2>2 DEF Below
  <1>3. Visit(1) \in Work /\ Visit(1).node = 1 /\ Visit(1).do = "visit"
    BY <1>2 DEF Visit, Work
  <1>4. work' \in Seq(Work) /\ Len(work') \in {0, 1} /\ \A i \in 1..Len(work') : work'[i] = Visit(1)
    <2>1. CASE work' = <<>> BY <2>1
    <2>2. CASE work' = <<Visit(1)>> BY <1>3, <2>2
    <2> QED BY <1>1, <2>1, <2>2
  <1>5. Ordered(work') BY <1>4 DEF Ordered
  <1>6. pc' = "building" => Len(scopes) = 0 BY <1>1 DEF ScopeInv
  <1> QED BY <1>1, <1>2, <1>3, <1>4, <1>5, <1>6, SameOrder DEF OrderInv

-----------------------------------------------------------------------------
(***************************************************************************)
(* What each step of the collection leaves to come of what its IR covers.  *)
(***************************************************************************)
LEMMA BelowSelf ==
  ASSUME TreeInv, NEW n \in Below(1)
  PROVE  /\ n \in IRs /\ n \in Below(n) /\ n \in Nat /\ root[n].last \in Nat /\ n <= root[n].last
         /\ Below(n) \subseteq Below(1) /\ \A m \in Below(n) : n <= m /\ m <= root[n].last /\ m \in IRs
  <1>1. n \in IRs BY TreeFacts, BelowFacts
  <1>2. n \in Nat /\ root[n].last \in Nat /\ n <= root[n].last BY <1>1, AboveIs
  <1>3. Below(n) = {m \in Below(1) : n <= m /\ m <= root[n].last} BY <1>1, BelowIs
  <1>4. Below(n) \in SUBSET IRs BY <1>1, BelowFacts
  <1> QED BY <1>1, <1>2, <1>3, <1>4

\* Visiting an IR that defines nothing leaves its definitions to its children.
LEMMA ReplaceBelow ==
  ASSUME TreeInv, NEW n \in Below(1), GetDataType(n) \notin Definitions, NEW e,
         e.do = "visit", e.node = n
  PROVE  Replaced(e, VisitKids(n), {})
  <1> DEFINE v == VisitKids(n)
  <1>1. n \in IRs /\ n \in Nat /\ root[n].last \in Nat /\ Below(n) \subseteq Below(1) BY BelowSelf
  <1>2. /\ v \in Seq(Work) /\ Ordered(v)
        /\ \A i \in 1..Len(v) : /\ v[i].node \in Inside(root, n)
                                /\ v[i].node \in Below(n)
                                /\ v[i].do = "visit"
    BY <1>1, OrderedKids
  <1>3. \A m \in Below(n) \ {n} : \E i \in 1..Len(v) : v[i].do = "visit" /\ m \in Below(v[i].node)
    BY <1>1, BelowKid
  <1> HIDE DEF v
  <1>4. \A i \in 1..Len(v) : v[i].node \in n..root[n].last BY <1>1, <1>2 DEF Inside
  <1>5. ASSUME NEW i \in 1..Len(v), NEW d \in Below(v[i].node) PROVE d \in Below(n)
    <2> DEFINE k == v[i].node
    <2>1. k \in Below(1) /\ k \in n..root[n].last BY <1>1, <1>2, <1>4
    <2> HIDE DEF k
    <2>2. /\ k \in IRs /\ k \in Nat /\ root[k].last \in Nat /\ d \in Below(1)
          /\ k <= d /\ d <= root[k].last /\ d \in IRs
      BY <2>1, BelowSelf DEF k
    <2>3. root[k].last <= root[n].last BY <1>1, <2>1, TreeFacts
    <2>4. d \in Nat BY <2>2, AboveIs
    <2>5. n <= d /\ d <= root[n].last BY <1>1, <2>1, <2>2, <2>3, <2>4
    <2> QED BY <1>1, <2>2, <2>5, BelowIs
  <1>6. ASSUME NEW d \in Defined PROVE ToCome(v, d) <=> Covers(e, d)
    <2>1. d # n BY DEF Defined
    <2> QED BY <1>2, <1>3, <1>5, <2>1 DEF ToCome, Covers
  <1>7. \A i \in 1..Len(v) : v[i].node \in Below(1) BY <1>1, <1>2
  <1> QED BY <1>2, <1>4, <1>6, <1>7 DEF Replaced, v

\* Visiting a variable definition collects it, and nothing else.
LEMMA ReplaceVariable ==
  ASSUME TreeInv, NEW n \in Below(1), GetDataType(n) = "kVariableDefinition", NEW e,
         e.do = "visit", e.node = n
  PROVE  Replaced(e, <<>>, {n})
  <1>1. n \in Below(n) BY BelowSelf
  <1>2. \A d \in Defined : ~(d \in Below(n) /\ d # n) BY VariableFacts DEF Defined
  <1>3. Len(<<>>) = 0 /\ <<>> \in Seq(Work) OBVIOUS
  <1>4. Ordered(<<>>) BY <1>3 DEF Ordered
  <1>5. \A d : ~ToCome(<<>>, d) BY <1>3 DEF ToCome
  <1>6. \A d : Covers(e, d) <=> d \in Below(n) BY DEF Covers
  <1> QED BY <1>1, <1>2, <1>3, <1>4, <1>5, <1>6 DEF Replaced

\* Leaving a structure collects it, and nothing else.
LEMMA ReplaceLeave ==
  ASSUME NEW e, e.do = "leave"
  PROVE  Replaced(e, <<>>, {e.node})
  <1>3. Len(<<>>) = 0 /\ <<>> \in Seq(Work) OBVIOUS
  <1>4. Ordered(<<>>) BY <1>3 DEF Ordered
  <1>5. \A d : ~ToCome(<<>>, d) BY <1>3 DEF ToCome
  <1>6. \A d : Covers(e, d) <=> d = e.node BY DEF Covers
  <1> QED BY <1>3, <1>4, <1>5, <1>6 DEF Replaced

\* Visiting a structure collects nothing: its body comes first, then the structure.
LEMMA ReplaceStructure ==
  ASSUME TreeInv, MarkedUnits, NEW n \in Below(1), GetDataType(n) = "kClassDefinition", NEW e,
         e.do = "visit", e.node = n
  PROVE  Replaced(e, <<Visit(search_by_data_type(n, "kClassBody", {})[1]), Leave(n)>>, {})
  <1> DEFINE b == search_by_data_type(n, "kClassBody", {})[1]
             u == <<Visit(b)>>
             v == <<Visit(b), Leave(n)>>
  <1>1. /\ b \in Below(n) /\ b \in IRs /\ n < b
        /\ \A m \in Below(n) \ {n} : GetDataType(m) \in Definitions => m \in Below(b)
    BY StructureFacts
  <1> HIDE DEF b
  <1>2. /\ n \in IRs /\ n \in Below(n) /\ n \in Nat /\ root[n].last \in Nat /\ n <= root[n].last
        /\ Below(n) \subseteq Below(1) /\ b <= root[n].last /\ b \in Below(1)
    BY <1>1, BelowSelf
  <1>3. b \in Inside(root, n) BY <1>1, <1>2, InsideIs
  <1>4. Visit(b) \in Work /\ Visit(b).node = b /\ Visit(b).do = "visit"
        /\ Leave(n).node = n /\ Leave(n).do = "leave"
    BY <1>1 DEF Visit, Work, Leave
  <1>5. u \in Seq(Work) /\ Len(u) = 1 /\ u[1] = Visit(b) BY <1>4
  <1>6. Ordered(u) BY <1>5 DEF Ordered
  <1>7. \A i \in 1..Len(u) : u[i].node \in Inside(root, n) BY <1>3, <1>4, <1>5
  <1>8. v = u \o <<Leave(n)>> OBVIOUS
  <1>9. /\ v \in Seq(Work) /\ Ordered(v)
        /\ \A i \in 1..Len(v) : v[i].node \in n..root[n].last
    <2> HIDE DEF u, v
    <2> QED BY <1>2, <1>5, <1>6, <1>7, <1>8, OrderedLeave
  <1>10. Len(v) = 2 /\ v[1] = Visit(b) /\ v[2] = Leave(n) OBVIOUS
  <1> HIDE DEF u, v
  <1>11. \A d : ToCome(v, d) <=> d \in Below(b) \/ d = n
    <2>1. \A d : Covers(Visit(b), d) <=> d \in Below(b) BY <1>4 DEF Covers
    <2>2. \A d : Covers(Leave(n), d) <=> d = n BY <1>4 DEF Covers
    <2>3. 1..Len(v) = {1, 2} BY <1>10
    <2> QED BY <1>10, <2>1, <2>2, <2>3 DEF ToCome
  <1>12. ASSUME NEW d \in Below(b) PROVE d \in Below(n)
    <2>1. /\ root[b].last \in Nat /\ d \in Below(1)
          /\ b <= d /\ d <= root[b].last /\ d \in IRs /\ b \in Nat
      BY <1>2, BelowSelf
    <2>2. root[b].last <= root[n].last
      <3>1. b \in n..root[n].last BY <1>1, <1>2, <2>1
      <3> QED BY <1>2, <3>1, TreeFacts
    <2>3. d \in Nat BY <2>1, AboveIs
    <2>4. n <= d /\ d <= root[n].last BY <1>1, <1>2, <2>1, <2>2, <2>3
    <2> QED BY <1>2, <2>1, <2>4, BelowIs
  <1>13. ASSUME NEW d \in Defined PROVE ToCome(v, d) <=> Covers(e, d)
    <2>1. Covers(e, d) <=> d \in Below(n) BY DEF Covers
    <2>2. d \in Below(n) \ {n} => d \in Below(b) BY <1>1 DEF Defined
    <2> QED BY <1>2, <1>11, <1>12, <2>1, <2>2
  <1>14. \A i \in 1..Len(v) : /\ v[i].node \in Below(1)
                              /\ v[i].do = "leave" => GetDataType(v[i].node) = "kClassDefinition"
    BY <1>2, <1>4, <1>10
  <1>15. Replaced(e, v, {}) BY <1>9, <1>13, <1>14 DEF Replaced
  <1> QED BY <1>15 DEF b, v

\* Visiting a function collects it, and leaves what is inside it to its body.
LEMMA ReplaceFunction ==
  ASSUME TreeInv, MarkedUnits, NEW n \in Below(1), GetDataType(n) = "kFunctionDefinition", NEW e,
         e.do = "visit", e.node = n
  PROVE  Replaced(e, IF Bodies(n) = {} THEN <<>> ELSE <<Visit(FunctionBody(n))>>, {n})
  <1> DEFINE b == FunctionBody(n)
             v == IF Bodies(n) = {} THEN <<>> ELSE <<Visit(b)>>
  <1>1. /\ \A m \in Below(n) \ {n} : GetDataType(m) \in Definitions =>
             Bodies(n) # {} /\ m \in Below(b)
        /\ Bodies(n) # {} => b \in Below(n) /\ b \in IRs /\ n < b
    BY FunctionBodyFacts
  <1> HIDE DEF b
  <1>2. /\ n \in IRs /\ n \in Below(n) /\ n \in Nat /\ root[n].last \in Nat /\ n <= root[n].last
        /\ Below(n) \subseteq Below(1)
    BY BelowSelf
  <1>3. \A d : Covers(e, d) <=> d \in Below(n) BY DEF Covers
  <1>4. CASE Bodies(n) = {}
    <2>1. v = <<>> BY <1>4
    <2>2. \A d \in Defined : ~(d \in Below(n) /\ d # n) BY <1>1, <1>4 DEF Defined
    <2>3. Len(<<>>) = 0 /\ <<>> \in Seq(Work) OBVIOUS
    <2>4. Ordered(<<>>) BY <2>3 DEF Ordered
    <2>5. \A d : ~ToCome(<<>>, d) BY <2>3 DEF ToCome
    <2>6. Replaced(e, <<>>, {n}) BY <1>2, <1>3, <2>2, <2>3, <2>4, <2>5 DEF Replaced
    <2> QED BY <2>1, <2>6 DEF b
  <1>5. CASE Bodies(n) # {}
    <2>0. v = <<Visit(b)>> BY <1>5
    <2>1. b \in Below(n) /\ b \in IRs /\ n < b /\ b <= root[n].last /\ b \in Below(1)
      BY <1>1, <1>2, <1>5, BelowSelf
    <2>2. Visit(b) \in Work /\ Visit(b).node = b /\ Visit(b).do = "visit"
      BY <2>1 DEF Visit, Work
    <2>3. v \in Seq(Work) /\ Len(v) = 1 /\ v[1] = Visit(b) BY <2>0, <2>2
    <2> HIDE DEF v
    <2>4. Ordered(v) BY <2>3 DEF Ordered
    <2>5. \A d : ToCome(v, d) <=> d \in Below(b)
      <3>1. \A d : Covers(Visit(b), d) <=> d \in Below(b) BY <2>2 DEF Covers
      <3>2. 1..Len(v) = {1} BY <2>3
      <3> QED BY <2>3, <3>1, <3>2 DEF ToCome
    <2>6. /\ root[b].last \in Nat /\ b \in Nat
          /\ \A d \in Below(b) : d \in Below(1) /\ b <= d /\ d <= root[b].last /\ d \in IRs
      BY <2>1, BelowSelf
    <2>7. b \in n..root[n].last BY <1>2, <2>1, <2>6
    <2>8. root[b].last <= root[n].last BY <1>2, <2>7, TreeFacts
    <2>9. ASSUME NEW d \in Below(b) PROVE d \in Below(n) /\ d # n
      <3>1. d \in Nat BY <2>6, AboveIs
      <3>2. n <= d /\ d <= root[n].last /\ n # d BY <1>2, <2>1, <2>6, <2>8, <3>1
      <3> QED BY <1>2, <2>6, <3>2, BelowIs
    <2>10. \A d \in Defined : ToCome(v, d) <=> Covers(e, d) /\ d # n
      BY <1>1, <1>3, <2>5, <2>9 DEF Defined
    <2>11. \A i \in 1..Len(v) : /\ v[i].node \in n..root[n].last /\ v[i].node \in Below(1)
                                /\ v[i].do # "leave"
      BY <2>1, <2>2, <2>3, <2>7
    <2>12. Replaced(e, v, {n}) BY <1>2, <1>3, <2>3, <2>4, <2>10, <2>11 DEF Replaced
    <2> QED BY <2>12 DEF v, b
  <1> QED BY <1>4, <1>5

\* The head covers nothing that comes later.
LEMMA ToComeNext ==
  ASSUME TreeInv, NEW w \in Seq(Work), w # <<>>, Ordered(w), NEW v, NEW G,
         Replaced(w[1], v, G), NEW x, Joins(x, v, w), NEW d \in Defined
  PROVE  /\ ToCome(x, d) <=> ToCome(w, d) /\ d \notin G
         /\ Covers(w[1], d) => ToCome(w, d)
  <1> DEFINE n == w[1].node
  <1>1. /\ n \in IRs /\ Len(w) \in Nat \ {0}
        /\ \A i \in 2..Len(w) :
              /\ w[i] \in Work /\ w[i].node \in IRs
              /\ w[i].do = "visit" => root[n].last < w[i].node
              /\ w[i].do # "visit" => n \in Inside(root, w[i].node)
    BY AfterHead
  <1>2. /\ v \in Seq(Work)
        /\ \A c \in Defined : ToCome(v, c) <=> Covers(w[1], c) /\ c \notin G
        /\ \A c \in G : Covers(w[1], c)
    BY DEF Replaced
  <1>3. /\ \A k \in 1..Len(x) : \/ \E i \in 1..Len(v) : x[k] = v[i]
                                \/ \E i \in 2..Len(w) : x[k] = w[i]
        /\ \A i \in 1..Len(v) : \E k \in 1..Len(x) : x[k] = v[i]
        /\ \A i \in 2..Len(w) : \E k \in 1..Len(x) : x[k] = w[i]
    BY DEF Joins
  <1>4. 1..Len(w) = {1} \cup 2..Len(w) BY <1>1
  <1>5. ToCome(x, d) <=> ToCome(v, d) \/ \E i \in 2..Len(w) : Covers(w[i], d)
    BY <1>3 DEF ToCome
  <1>6. ToCome(w, d) <=> Covers(w[1], d) \/ \E i \in 2..Len(w) : Covers(w[i], d)
    BY <1>4 DEF ToCome
  <1>7. d \in Below(1) /\ d \in IRs /\ d \in Nat
    <2>1. d \in Below(1) BY DEF Defined
    <2> QED BY <2>1, BelowSelf
  <1> HIDE DEF n
  <1>8. ASSUME NEW i \in 2..Len(w), Covers(w[i], d), Covers(w[1], d) PROVE FALSE
    <2> DEFINE k == w[i].node
    <2>1. n \in Nat /\ root[n].last \in Nat /\ k \in IRs /\ k \in Nat /\ root[k].last \in Nat
          /\ n <= root[n].last
      BY <1>1, AboveIs
    <2>2. n <= d /\ d <= root[n].last
      <3>1. CASE w[1].do = "visit"
        <4>1. d \in Below(n) BY <1>8, <3>1 DEF Covers, n
        <4> QED BY <1>1, <4>1, BelowIs
      <3>2. CASE w[1].do # "visit"
        <4>1. d = n BY <1>8, <3>2 DEF Covers, n
        <4> QED BY <2>1, <4>1
      <3> QED BY <3>1, <3>2
    <2> HIDE DEF k
    <2>3. CASE w[i].do = "visit"
      <3>1. d \in Below(k) BY <1>8, <2>3 DEF Covers, k
      <3>2. k <= d BY <2>1, <3>1, BelowIs
      <3>3. root[n].last < k BY <1>1, <2>3 DEF k
      <3> QED BY <1>7, <2>1, <2>2, <3>2, <3>3
    <2>4. CASE w[i].do # "visit"
      <3>1. d = k BY <1>8, <2>4 DEF Covers, k
      <3>2. n \in Inside(root, k) BY <1>1, <2>4 DEF k
      <3>3. k < n BY <1>1, <2>1, <3>2, InsideIs
      <3> QED BY <1>7, <2>1, <2>2, <3>1, <3>3
    <2> QED BY <2>3, <2>4
  <1> QED BY <1>2, <1>5, <1>6, <1>8

-----------------------------------------------------------------------------
(***************************************************************************)
(* What AddDefinition does to the symbol tables.                           *)
(***************************************************************************)
LEMMA ConcatElements ==
  ASSUME NEW s, s \in Seq(ToSet(s)), NEW t, t \in Seq(ToSet(t))
  PROVE  /\ s \o t \in Seq(ToSet(s \o t))
         /\ Len(s) \in Nat /\ DOMAIN s = 1..Len(s)
         /\ Len(t) \in Nat /\ DOMAIN t = 1..Len(t)
         /\ Len(s \o t) = Len(s) + Len(t) /\ DOMAIN (s \o t) = 1..(Len(s) + Len(t))
         /\ \A i \in 1..Len(s) : (s \o t)[i] = s[i]
         /\ \A i \in 1..Len(t) : (s \o t)[Len(s) + i] = t[i]
  <1> DEFINE T == ToSet(s) \cup ToSet(t)
             u == s \o t
  <1>1. s \in Seq(T) /\ t \in Seq(T)
    <2>1. ToSet(s) \subseteq T /\ ToSet(t) \subseteq T OBVIOUS
    <2> QED BY <2>1, SeqMonotonic
  <1> HIDE DEF T
  <1>2. /\ u \in Seq(T) /\ Len(s) \in Nat /\ Len(t) \in Nat
        /\ Len(u) = Len(s) + Len(t)
        /\ \A i \in 1..(Len(s) + Len(t)) : u[i] = IF i <= Len(s) THEN s[i] ELSE t[i - Len(s)]
    BY <1>1, ConcatProperties, LenProperties
  <1> HIDE DEF u
  <1>3. DOMAIN s = 1..Len(s) /\ DOMAIN t = 1..Len(t) BY <1>1, LenProperties
  <1>4. DOMAIN u = 1..(Len(s) + Len(t)) /\ u \in [1..Len(u) -> T] BY <1>2, LenProperties
  <1>5. \A i \in 1..Len(s) : u[i] = s[i] BY <1>2
  <1>6. ASSUME NEW i \in 1..Len(t) PROVE u[Len(s) + i] = t[i]
    <2>1. Len(s) + i \in 1..(Len(s) + Len(t)) /\ ~(Len(s) + i <= Len(s))
          /\ (Len(s) + i) - Len(s) = i
      BY <1>2
    <2> QED BY <1>2, <2>1
  <1>7. u \in Seq(ToSet(u))
    <2>1. u = [i \in 1..Len(u) |-> u[i]] BY <1>4
    <2>2. \A i \in 1..Len(u) : u[i] \in ToSet(u) BY <1>2, <1>4 DEF ToSet
    <2>3. u \in [1..Len(u) -> ToSet(u)] BY <2>1, <2>2
    <2>4. Len(u) \in Nat BY <1>2
    <2> QED BY <2>3, <2>4, IsASeq
  <1> QED BY <1>2, <1>3, <1>4, <1>5, <1>6, <1>7 DEF u

Extended(ss, tt, s, defs) ==
  /\ Len(tt) = Len(ss) /\ Len(ss) \in Nat /\ Tabled(tt) /\ SameShape(ss, tt)
  /\ tt[s].table = ss[s].table \o defs
  /\ \A k \in 1..Len(ss) : k # s => tt[k].table = ss[k].table

\* AddDefinitions appends to one table and changes no other.
LEMMA AddTable ==
  ASSUME NEW ss, Shaped(ss), Tabled(ss), NEW s \in 1..Len(ss),
         NEW defs, defs \in Seq(ToSet(defs))
  PROVE  Extended(ss, AddDefinitions(ss, s, defs), s, defs)
  <1> DEFINE r == [ss[s] EXCEPT !.table = @ \o defs]
             tt == AddDefinitions(ss, s, defs)
  <1>1. tt = [ss EXCEPT ![s] = r] BY DEF AddDefinitions
  <1>2. SameShape(ss, tt) BY DefinitionsKeepShape
  <1>3. Len(tt) = Len(ss) /\ Shaped(tt) BY <1>2 DEF SameShape
  <1>4. Len(ss) \in Nat /\ DOMAIN ss = 1..Len(ss) BY LenProperties DEF Shaped
  <1>5. "table" \in DOMAIN ss[s] /\ ss[s].table \in Seq(ToSet(ss[s].table)) BY DEF Tabled
  <1>6. r.table = ss[s].table \o defs /\ DOMAIN r = DOMAIN ss[s] BY <1>5
  <1> HIDE DEF r, tt
  <1>7. tt[s] = r /\ \A k \in 1..Len(ss) : k # s => tt[k] = ss[k] BY <1>1, <1>4
  <1>8. r.table \in Seq(ToSet(r.table)) BY <1>5, <1>6, ConcatElements
  <1>9. Tabled(tt)
    <2> SUFFICES ASSUME NEW k \in 1..Len(ss)
                 PROVE  "table" \in DOMAIN tt[k] /\ tt[k].table \in Seq(ToSet(tt[k].table))
      BY <1>3 DEF Tabled
    <2>1. CASE k = s BY <1>5, <1>6, <1>7, <1>8, <2>1
    <2>2. CASE k # s BY <1>7, <2>2 DEF Tabled
    <2> QED BY <2>1, <2>2
  <1> QED BY <1>2, <1>3, <1>4, <1>6, <1>7, <1>9 DEF Extended, tt

\* A definition is where a table holds it.
LEMMA InContent ==
  ASSUME NEW ss, Shaped(ss), Tabled(ss)
  PROVE  /\ \A s \in 1..Len(ss) : \A i \in DOMAIN ss[s].table :
              <<s, ss[s].table[i].node, ss[s].table[i].id>> \in Content(ss)
         /\ \A e \in Content(ss) : \E s \in 1..Len(ss) : \E i \in DOMAIN ss[s].table :
              e = <<s, ss[s].table[i].node, ss[s].table[i].id>>
  <1>1. DOMAIN ss = 1..Len(ss) BY LenProperties DEF Shaped
  <1> QED BY <1>1 DEF Content

Entries(s, defs) == {<<s, defs[i].node, defs[i].id>> : i \in 1..Len(defs)}

\* AddDefinitions adds the new entries to the tables' content, and takes none away.
LEMMA AddContent ==
  ASSUME NEW ss, Shaped(ss), Tabled(ss), NEW s \in 1..Len(ss),
         NEW defs, defs \in Seq(ToSet(defs)), NEW tt, Extended(ss, tt, s, defs)
  PROVE  Content(tt) = Content(ss) \cup Entries(s, defs)
  <1> DEFINE T == ss[s].table
             U == tt[s].table
  <1>1. /\ Len(tt) = Len(ss) /\ Tabled(tt) /\ Shaped(tt)
        /\ U = T \o defs
        /\ \A k \in 1..Len(ss) : k # s => tt[k].table = ss[k].table
    BY DEF Extended, SameShape
  <1>2. T \in Seq(ToSet(T)) BY DEF Tabled
  <1> HIDE DEF T, U
  <1>3. /\ Len(T) \in Nat /\ DOMAIN T = 1..Len(T)
        /\ Len(defs) \in Nat /\ DOMAIN U = 1..(Len(T) + Len(defs))
        /\ \A i \in 1..Len(T) : U[i] = T[i]
        /\ \A i \in 1..Len(defs) : U[Len(T) + i] = defs[i]
    BY <1>1, <1>2, ConcatElements
  <1>4. ASSUME NEW e \in Content(tt) PROVE e \in Content(ss) \cup Entries(s, defs)
    <2>0. PICK k \in 1..Len(tt) : \E i \in DOMAIN tt[k].table :
            e = <<k, tt[k].table[i].node, tt[k].table[i].id>>
      BY <1>1, InContent
    <2>1. PICK i \in DOMAIN tt[k].table : e = <<k, tt[k].table[i].node, tt[k].table[i].id>>
      BY <2>0
    <2>2. CASE k # s
      <3>1. k \in 1..Len(ss) /\ tt[k].table = ss[k].table BY <1>1, <2>2
      <3> QED BY <2>1, <3>1, InContent
    <2>3. CASE k = s
      <3>1. i \in 1..(Len(T) + Len(defs)) /\ e = <<s, U[i].node, U[i].id>>
        BY <1>3, <2>1, <2>3 DEF U
      <3>2. CASE i \in 1..Len(T)
        <4>1. e = <<s, T[i].node, T[i].id>> /\ i \in DOMAIN T BY <1>3, <3>1, <3>2
        <4> QED BY <4>1, InContent DEF T
      <3>3. CASE i \notin 1..Len(T)
        <4> DEFINE j == i - Len(T)
        <4>1. j \in 1..Len(defs) /\ Len(T) + j = i BY <1>3, <3>1, <3>3
        <4> HIDE DEF j
        <4>2. e = <<s, defs[j].node, defs[j].id>> BY <1>3, <3>1, <4>1
        <4> QED BY <4>1, <4>2 DEF Entries
      <3> QED BY <3>2, <3>3
    <2> QED BY <2>2, <2>3
  <1>5. ASSUME NEW e \in Content(ss) PROVE e \in Content(tt)
    <2>0. PICK k \in 1..Len(ss) : \E i \in DOMAIN ss[k].table :
            e = <<k, ss[k].table[i].node, ss[k].table[i].id>>
      BY InContent
    <2>1. PICK i \in DOMAIN ss[k].table : e = <<k, ss[k].table[i].node, ss[k].table[i].id>>
      BY <2>0
    <2>2. CASE k # s
      <3>1. k \in 1..Len(tt) /\ tt[k].table = ss[k].table BY <1>1, <2>2
      <3> QED BY <1>1, <2>1, <3>1, InContent
    <2>3. CASE k = s
      <3>1. i \in 1..Len(T) /\ e = <<s, T[i].node, T[i].id>> BY <1>3, <2>1, <2>3 DEF T
      <3>2. i \in DOMAIN U /\ e = <<s, U[i].node, U[i].id>> BY <1>3, <3>1
      <3>3. s \in 1..Len(tt) BY <1>1
      <3> QED BY <1>1, <3>2, <3>3, InContent DEF U
    <2> QED BY <2>2, <2>3
  <1>6. ASSUME NEW e \in Entries(s, defs) PROVE e \in Content(tt)
    <2>1. PICK j \in 1..Len(defs) : e = <<s, defs[j].node, defs[j].id>> BY DEF Entries
    <2>2. Len(T) + j \in DOMAIN U /\ U[Len(T) + j] = defs[j] BY <1>3
    <2>3. s \in 1..Len(tt) BY <1>1
    <2> QED BY <1>1, <2>1, <2>2, <2>3, InContent DEF U
  <1> QED BY <1>4, <1>5, <1>6

\* Names not in a table yet, each given once, stay once in the tables.
LEMMA AddSingle ==
  ASSUME NEW ss, Shaped(ss), Tabled(ss), Single(ss), NEW s \in 1..Len(ss),
         NEW defs, defs \in Seq(ToSet(defs)), NEW tt, Extended(ss, tt, s, defs),
         \A i, j \in 1..Len(defs) : defs[i].node = defs[j].node => i = j,
         \A i \in 1..Len(defs) : \A e \in Content(ss) : e[2] # defs[i].node
  PROVE  Single(tt)
  <1> DEFINE T == ss[s].table
             U == tt[s].table
  <1>1. /\ Len(tt) = Len(ss) /\ Tabled(tt) /\ Shaped(tt)
        /\ U = T \o defs
        /\ \A k \in 1..Len(ss) : k # s => tt[k].table = ss[k].table
    BY DEF Extended, SameShape
  <1>2. T \in Seq(ToSet(T)) BY DEF Tabled
  <1> HIDE DEF T, U
  <1>3. /\ Len(T) \in Nat /\ DOMAIN T = 1..Len(T)
        /\ Len(defs) \in Nat /\ DOMAIN U = 1..(Len(T) + Len(defs))
        /\ \A i \in 1..Len(T) : U[i] = T[i]
        /\ \A i \in 1..Len(defs) : U[Len(T) + i] = defs[i]
    BY <1>1, <1>2, ConcatElements
  <1>4. \A k \in 1..Len(ss) : \A i \in DOMAIN ss[k].table : \A j \in 1..Len(defs) :
          ss[k].table[i].node # defs[j].node
    <2> SUFFICES ASSUME NEW k \in 1..Len(ss), NEW i \in DOMAIN ss[k].table, NEW j \in 1..Len(defs)
                 PROVE  ss[k].table[i].node # defs[j].node
      OBVIOUS
    <2>1. <<k, ss[k].table[i].node, ss[k].table[i].id>> \in Content(ss) BY InContent
    <2>2. <<k, ss[k].table[i].node, ss[k].table[i].id>>[2] = ss[k].table[i].node OBVIOUS
    <2> QED BY <2>1, <2>2
  <1> DEFINE Old(k, i) == /\ i \in DOMAIN ss[k].table
                          /\ tt[k].table[i].node = ss[k].table[i].node
             New(k, i) == /\ k = s /\ i - Len(T) \in 1..Len(defs) /\ i \in Nat
                          /\ tt[k].table[i].node = defs[i - Len(T)].node
  <1>5. ASSUME NEW k \in 1..Len(tt), NEW i \in DOMAIN tt[k].table PROVE Old(k, i) \/ New(k, i)
    <2>1. CASE k # s
      <3>1. tt[k].table = ss[k].table BY <1>1, <2>1
      <3> QED BY <3>1
    <2>2. CASE k = s
      <3>1. i \in 1..(Len(T) + Len(defs)) BY <1>3, <2>2 DEF U
      <3>2. CASE i \in 1..Len(T)
        <4>1. U[i] = T[i] /\ i \in DOMAIN T BY <1>3, <3>2
        <4> QED BY <2>2, <4>1 DEF U, T
      <3>3. CASE i \notin 1..Len(T)
        <4>1. i - Len(T) \in 1..Len(defs) /\ Len(T) + (i - Len(T)) = i /\ i \in Nat
          BY <1>3, <3>1, <3>3
        <4>2. U[i] = defs[i - Len(T)] BY <1>3, <4>1
        <4> QED BY <2>2, <4>1, <4>2 DEF U
      <3> QED BY <3>2, <3>3
    <2> QED BY <2>1, <2>2
  <1> SUFFICES ASSUME NEW k \in 1..Len(tt), NEW l \in 1..Len(tt),
                      NEW i \in DOMAIN tt[k].table, NEW j \in DOMAIN tt[l].table,
                      tt[k].table[i].node = tt[l].table[j].node
               PROVE  k = l /\ i = j
    BY DEF Single
  <1>6. (Old(k, i) \/ New(k, i)) /\ (Old(l, j) \/ New(l, j)) BY <1>5
  <1>7. k \in 1..Len(ss) /\ l \in 1..Len(ss) BY <1>1
  <1>8. CASE Old(k, i) /\ Old(l, j)
    <2>1. i \in DOMAIN ss[k].table /\ j \in DOMAIN ss[l].table
          /\ ss[k].table[i].node = ss[l].table[j].node
      BY <1>8
    <2> QED BY <1>7, <2>1 DEF Single
  <1>9. CASE Old(k, i) /\ New(l, j) BY <1>4, <1>7, <1>9
  <1>10. CASE New(k, i) /\ Old(l, j) BY <1>4, <1>7, <1>10
  <1>11. CASE New(k, i) /\ New(l, j)
    <2>1. i - Len(T) = j - Len(T) BY <1>11
    <2> QED BY <1>3, <1>11, <2>1
  <1> QED BY <1>6, <1>8, <1>9, <1>10, <1>11

-----------------------------------------------------------------------------
(***************************************************************************)
(* What is declared does not depend on how far the collection has come.    *)
(***************************************************************************)
LEMMA SameNames ==
  ASSUME UNCHANGED <<root, marked, scope_id, statement_id>>
  PROVE  /\ Defined' = Defined
         /\ \A d : Sure(d)' = Sure(d)
         /\ \A d : Maybe(d)' = Maybe(d)
         /\ \A d : ToCome(work, d)' <=> ToCome(work', d)
         /\ TooLarge' = TooLarge
         /\ (Tabled(scopes') => Tabled(scopes)') /\ (Single(scopes') => Single(scopes)')
         /\ Content(scopes)' = Content(scopes')
  <1>1. /\ \A n : Below(n)' = Below(n) /\ Above(n)' = Above(n) /\ GetDataType(n)' = GetDataType(n)
        /\ TooLarge' = TooLarge
    BY DEF Below, Above, GetDataType, TooLarge
  <1>2. \A n, dt, forbid : Topmost(n, dt, forbid)' = Topmost(n, dt, forbid)
    BY DEF Topmost, Below, Above, GetDataType
  <1>3. \A n, dt, forbid : search_by_data_type(n, dt, forbid)' = search_by_data_type(n, dt, forbid)
    BY DEF search_by_data_type, Topmost, Below, Above, GetDataType, InOrder
  <1>4. \A d : /\ Bodies(d)' = Bodies(d) /\ ArgumentIRs(d)' = ArgumentIRs(d)
               /\ FunctionBody(d)' = FunctionBody(d) /\ FunctionName(d)' = FunctionName(d)
               /\ ArgumentName(d)' = ArgumentName(d)
    BY <1>2, <1>3 DEF Bodies, ArgumentIRs, FunctionBody, FunctionName, ArgumentName
  <1>5. \A d : Sure(d)' = Sure(d)
    <2> SUFFICES ASSUME NEW d PROVE Sure(d)' = Sure(d) OBVIOUS
    <2>1. GetDataType(d)' = GetDataType(d) /\ Topmost(d, "kVariableName", {})' = Topmost(d, "kVariableName", {})
          /\ Bodies(d)' = Bodies(d) /\ ArgumentIRs(d)' = ArgumentIRs(d)
          /\ FunctionBody(d)' = FunctionBody(d) /\ \A a : ArgumentName(a)' = ArgumentName(a)
      BY <1>1, <1>2, <1>4
    <2> QED BY <2>1 DEF Sure
  <1>6. \A d : Maybe(d)' = Maybe(d) BY <1>1, <1>4, <1>5 DEF Maybe
  <1>7. Defined' = Defined BY <1>1 DEF Defined
  <1>8. \A d : ToCome(work, d)' <=> ToCome(work', d) BY <1>1 DEF ToCome, Covers
  <1>9. Content(scopes)' = Content(scopes') BY DEF Content
  <1>10. (Tabled(scopes') => Tabled(scopes)') /\ (Single(scopes') => Single(scopes)')
    BY DEF Tabled, Single
  <1> QED BY <1>1, <1>5, <1>6, <1>7, <1>8, <1>9, <1>10

\* A definition in a table carries a name that its IR declares.
LEMMA MaybeNames ==
  ASSUME NEW d \in Defined, NEW e \in Maybe(d)
  PROVE  e[2] \in DeclaredNames(d)
  <1>1. GetDataType(d) \in Definitions BY DEF Defined
  <1>2. CASE GetDataType(d) = "kVariableDefinition"
    <2>1. e \in {<<scope_id[d], x, statement_id[x]>> : x \in Topmost(d, "kVariableName", {})}
      BY <1>2 DEF Maybe, Sure
    <2>2. PICK x \in Topmost(d, "kVariableName", {}) : e = <<scope_id[d], x, statement_id[x]>>
      BY <2>1
    <2> QED BY <1>2, <2>2 DEF DeclaredNames
  <1>3. CASE GetDataType(d) = "kClassDefinition"
    BY <1>3 DEF Maybe, Sure, DeclaredNames
  <1>4. CASE GetDataType(d) = "kFunctionDefinition"
    <2>1. CASE e = <<scope_id[d], FunctionName(d), statement_id[FunctionName(d)]>>
      BY <1>4, <2>1 DEF DeclaredNames
    <2>2. CASE e \in Sure(d)
      <3>1. PICK a \in ArgumentIRs(d) :
              e = <<scope_id[FunctionBody(d)], ArgumentName(a), statement_id[d]>>
        BY <1>4, <2>2 DEF Sure
      <3> QED BY <1>4, <3>1 DEF DeclaredNames
    <2> QED BY <1>4, <2>1, <2>2 DEF Maybe
  <1> QED BY <1>1, <1>2, <1>3, <1>4 DEF Definitions

\* What is still to come is in no table.
LEMMA Fresh ==
  ASSUME TreeInv, MarkedUnits, TableInv, Built, NEW d \in Defined, ToCome(work, d),
         NEW x \in DeclaredNames(d), NEW e \in Content(scopes)
  PROVE  e[2] # x
  <1>1. PICK c \in Defined : ~ToCome(work, c) /\ e \in Maybe(c) BY DEF TableInv
  <1>2. e[2] \in DeclaredNames(c) BY <1>1, MaybeNames
  <1> SUFFICES ASSUME e[2] = x PROVE FALSE OBVIOUS
  <1>3. d = c BY <1>2, OwnersApart
  <1> QED BY <1>1, <1>3

\* Once the scopes are built every IR that is left has one, with the openers around the IR.
LEMMA ScopeOf ==
  ASSUME TreeInv, ScopeInv, Built, NEW n \in Below(1)
  PROVE  /\ scope_id[n] \in 1..Len(scopes) /\ n \in IRs /\ Len(scopes) \in Nat
         /\ Opened(scopes, scope_id[n]) = Openers(n)
  <1>1. n \in IRs BY BelowSelf
  <1>2. scope_id[n] # 0 /\ scope_id[n] \in 0..Len(scopes) /\ Opened(scopes, scope_id[n]) = Openers(n)
    BY <1>1 DEF ScopeInv, ScopeIDs, Built
  <1>3. Len(scopes) \in Nat BY LenProperties DEF ScopeInv, Shaped
  <1> QED BY <1>1, <1>2, <1>3

\* A step that replaces the head of the worklist keeps it in order.
LEMMA CollectOrder ==
  ASSUME TreeInv, OrderInv, pc = "collect", pc' = "collect", work # <<>>,
         UNCHANGED <<root, marked>>, SameShape(scopes, scopes'),
         NEW v, NEW G, Replaced(work[1], v, G), work' = v \o Tail(work)
  PROVE  OrderInv'
  <1>1. work \in Seq(Work) /\ Ordered(work) BY DEF OrderInv
  <1>2. /\ v \in Seq(Work) /\ Ordered(v)
        /\ \A i \in 1..Len(v) :
             /\ v[i].node \in work[1].node..root[work[1].node].last /\ v[i].node \in Below(1)
             /\ v[i].do = "leave" => GetDataType(v[i].node) = "kClassDefinition"
    BY DEF Replaced
  <1>3. Ordered(work') /\ work' \in Seq(Work) BY <1>1, <1>2, OrderedNext
  <1>4. Joins(work', v, work)
    <2>1. v \in Seq(Work) BY <1>2
    <2> QED BY <1>1, <2>1, ElementsNext
  <1>5. ASSUME NEW k \in 1..Len(work')
        PROVE  /\ work'[k].node \in Below(1)
               /\ work'[k].do = "leave" => GetDataType(work'[k].node) = "kClassDefinition"
    <2>1. \/ \E i \in 1..Len(v) : work'[k] = v[i]
          \/ \E i \in 2..Len(work) : work'[k] = work[i]
      BY <1>4 DEF Joins
    <2>2. \A i \in 2..Len(work) : i \in 1..Len(work) BY <1>4 DEF Joins
    <2> QED BY <1>2, <2>1, <2>2 DEF OrderInv
  <1>6. \A s, t \in 1..Len(scopes') : s < t => scopes'[s].opener < scopes'[t].opener
    BY DEF SameShape, OrderInv
  <1> QED BY <1>3, <1>5, <1>6, SameOrder DEF OrderInv

\* A step that adds what it collects, and no more, keeps the tables' invariant.
LEMMA CollectTable ==
  ASSUME TreeInv, OrderInv, TableInv, pc = "collect", pc' = "collect", work # <<>>,
         UNCHANGED <<root, marked, scope_id, statement_id>>,
         NEW v, NEW G \in SUBSET Defined, Replaced(work[1], v, G), work' = v \o Tail(work),
         Tabled(scopes'), Single(scopes'),
         NEW N, Content(scopes') = Content(scopes) \cup N, N \subseteq UNION {Maybe(d) : d \in G},
         \A d \in G : Sure(d) \subseteq N
  PROVE  TableInv'
  <1>1. work \in Seq(Work) /\ Ordered(work) BY DEF OrderInv
  <1>2. \A d \in Defined : ToCome(work', d) <=> ToCome(work, d) /\ d \notin G
    <2>1. v \in Seq(Work) BY DEF Replaced
    <2>2. Joins(work', v, work) BY <1>1, <2>1, ElementsNext
    <2> QED BY <1>1, <2>2, ToComeNext
  <1>3. Built /\ Built' BY DEF Built
  <1>4. ~TooLarge BY <1>3 DEF TableInv
  <1>5. Content(scopes') \subseteq UNION {Maybe(d) : d \in {c \in Defined : ~ToCome(work', c)}}
    <2> SUFFICES ASSUME NEW e \in Content(scopes')
                 PROVE  \E d \in Defined : ~ToCome(work', d) /\ e \in Maybe(d)
      OBVIOUS
    <2>1. CASE e \in Content(scopes)
      <3>1. PICK d \in Defined : ~ToCome(work, d) /\ e \in Maybe(d) BY <1>3, <2>1 DEF TableInv
      <3> QED BY <1>2, <3>1
    <2>2. CASE e \in N
      <3>1. PICK d \in G : e \in Maybe(d) BY <2>2
      <3> QED BY <1>2, <3>1
    <2> QED BY <2>1, <2>2
  <1>6. \A d \in Defined : ~ToCome(work', d) => Sure(d) \subseteq Content(scopes')
    <2> SUFFICES ASSUME NEW d \in Defined, ~ToCome(work', d)
                 PROVE  Sure(d) \subseteq Content(scopes')
      OBVIOUS
    <2>1. CASE d \in G BY <2>1
    <2>2. CASE ~ToCome(work, d)
      <3>1. Sure(d) \subseteq Content(scopes) BY <1>3, <1>4, <2>2 DEF TableInv
      <3> QED BY <3>1
    <2> QED BY <1>2, <2>1, <2>2
  <1>7. /\ Defined' = Defined /\ TooLarge' = TooLarge /\ Content(scopes)' = Content(scopes')
        /\ \A d : Sure(d)' = Sure(d) /\ Maybe(d)' = Maybe(d)
        /\ \A d : ToCome(work, d)' <=> ToCome(work', d)
        /\ Tabled(scopes)' /\ Single(scopes)'
    BY SameNames
  <1>8. (Content(scopes) \subseteq UNION {Maybe(d) : d \in {c \in Defined : ~ToCome(work, c)}})'
    BY <1>5, <1>7
  <1>9. (\A d \in Defined : ~ToCome(work, d) => Sure(d) \subseteq Content(scopes))'
    BY <1>6, <1>7
  <1> QED BY <1>3, <1>4, <1>7, <1>8, <1>9 DEF TableInv

-----------------------------------------------------------------------------
(***************************************************************************)
(* The steps of the collection.                                            *)
(***************************************************************************)
LEMMA DefsSeq ==
  ASSUME NEW k \in Nat, NEW f, f = [i \in 1..k |-> f[i]]
  PROVE  f \in Seq(ToSet(f)) /\ Len(f) = k /\ DOMAIN f = 1..k
  <1>1. DOMAIN f = 1..k OBVIOUS
  <1>2. \A i \in 1..k : f[i] \in ToSet(f) BY <1>1 DEF ToSet
  <1>3. f \in [1..k -> ToSet(f)] BY <1>2
  <1>4. f \in Seq(ToSet(f)) BY <1>3, IsASeq
  <1> QED BY <1>1, <1>3, <1>4, LenProperties

\* The IR at the head of the list while definitions are collected.
LEMMA CollectHead ==
  ASSUME TreeInv, ScopeInv, OrderInv, TableInv, pc = "collect", work # <<>>
  PROVE  LET n == Head(work).node
         IN /\ work \in Seq(Work) /\ Ordered(work) /\ Head(work) = work[1] /\ work[1].node = n
            /\ n \in Below(1) /\ n \in IRs /\ scope_id[n] \in 1..Len(scopes)
            /\ Built /\ ~TooLarge /\ Shaped(scopes) /\ Tabled(scopes) /\ Single(scopes)
            /\ Tail(work) = <<>> \o Tail(work)
            /\ SameShape(scopes, scopes)
            /\ Head(work).do # "visit" => GetDataType(n) = "kClassDefinition"
  <1>1. work \in Seq(Work) /\ Ordered(work) BY DEF OrderInv
  <1>2. work[1] = Head(work) /\ Len(work) \in Nat \ {0} /\ work[1] \in Work BY <1>1, AfterHead
  <1>3. 1 \in 1..Len(work) BY <1>2
  <1>4. work[1].node \in Below(1) BY <1>3 DEF OrderInv
  <1>5. Built BY DEF Built
  <1>6. ~TooLarge BY <1>5 DEF TableInv
  <1>7. scope_id[work[1].node] \in 1..Len(scopes) /\ work[1].node \in IRs BY <1>4, <1>5, ScopeOf
  <1>8. Shaped(scopes) /\ Tabled(scopes) /\ Single(scopes) BY DEF ScopeInv, TableInv
  <1>9. Tail(work) = <<>> \o Tail(work) BY <1>1, LeavesOfTail, ConcatEmptySeq
  <1>10. SameShape(scopes, scopes) BY <1>8 DEF SameShape
  <1>11. work[1].do # "visit" => work[1].do = "leave" BY <1>2 DEF Work
  <1>12. work[1].do # "visit" => GetDataType(work[1].node) = "kClassDefinition"
    BY <1>3, <1>11 DEF OrderInv
  <1> QED BY <1>1, <1>2, <1>4, <1>5, <1>6, <1>7, <1>8, <1>9, <1>10, <1>12

\* The step at an IR that defines nothing.
LEMMA BelowTable ==
  ASSUME TreeInv, ScopeInv, OrderInv, TableInv, CollectBelow
  PROVE  OrderInv' /\ TableInv' /\ UNCHANGED <<root, marked, types>>
  <1> DEFINE n == Head(work).node
  <1>1. /\ pc = "collect" /\ pc' = "collect" /\ work # <<>> /\ Head(work).do = "visit"
        /\ GetDataType(n) \notin Definitions
        /\ work' = VisitKids(n) \o Tail(work)
        /\ UNCHANGED <<root, marked, scope_id, statement_id, scopes, types>>
    BY DEF CollectBelow, NextIs, tree
  <1>2. /\ Head(work) = work[1] /\ work[1].node = n /\ n \in Below(1)
        /\ Tabled(scopes) /\ Single(scopes) /\ SameShape(scopes, scopes)
    BY <1>1, CollectHead
  <1> HIDE DEF n
  <1>3. Replaced(work[1], VisitKids(n), {}) BY <1>1, <1>2, ReplaceBelow
  <1>4. OrderInv' BY <1>1, <1>2, <1>3, CollectOrder
  <1>5. TableInv'
    <2> DEFINE G == {}
    <2>1. Content(scopes') = Content(scopes) \cup G BY <1>1
    <2>2. G \in SUBSET Defined /\ G \subseteq UNION {Maybe(d) : d \in G} OBVIOUS
    <2>3. Tabled(scopes') /\ Single(scopes') BY <1>1, <1>2
    <2>4. \A d \in G : Sure(d) \subseteq G OBVIOUS
    <2>5. Replaced(work[1], VisitKids(n), G) BY <1>3
    <2> HIDE DEF G
    <2> QED BY <1>1, <2>1, <2>2, <2>3, <2>4, <2>5, CollectTable
  <1> QED BY <1>1, <1>4, <1>5

\* The step that enters a structure's body.
LEMMA BodyTable ==
  ASSUME TreeInv, MarkedUnits, ScopeInv, OrderInv, TableInv, CollectStructureBody
  PROVE  OrderInv' /\ TableInv' /\ UNCHANGED <<root, marked, types>>
  <1> DEFINE n == Head(work).node
             v == <<Visit(search_by_data_type(n, "kClassBody", {})[1]), Leave(n)>>
  <1>1. /\ pc = "collect" /\ pc' = "collect" /\ work # <<>> /\ Head(work).do = "visit"
        /\ GetDataType(n) = "kClassDefinition"
        /\ work' = v \o Tail(work)
        /\ UNCHANGED <<root, marked, scope_id, statement_id, scopes, types>>
    BY DEF CollectStructureBody, NextIs, tree
  <1>2. /\ Head(work) = work[1] /\ work[1].node = n /\ n \in Below(1)
        /\ Tabled(scopes) /\ Single(scopes) /\ SameShape(scopes, scopes)
    BY <1>1, CollectHead
  <1> HIDE DEF n
  <1>3. Replaced(work[1], v, {}) BY <1>1, <1>2, ReplaceStructure
  <1> HIDE DEF v
  <1>4. OrderInv' BY <1>1, <1>2, <1>3, CollectOrder
  <1>5. TableInv'
    <2> DEFINE G == {}
    <2>1. Content(scopes') = Content(scopes) \cup G BY <1>1
    <2>2. G \in SUBSET Defined /\ G \subseteq UNION {Maybe(d) : d \in G} OBVIOUS
    <2>3. Tabled(scopes') /\ Single(scopes') BY <1>1, <1>2
    <2>4. \A d \in G : Sure(d) \subseteq G OBVIOUS
    <2>5. Replaced(work[1], v, G) BY <1>3
    <2> HIDE DEF G
    <2> QED BY <1>1, <2>1, <2>2, <2>3, <2>4, <2>5, CollectTable
  <1> QED BY <1>1, <1>4, <1>5

\* Definitions with new names, of an IR that was still to come.
LEMMA AddNames ==
  ASSUME TreeInv, MarkedUnits, TableInv, Built, NEW d \in Defined, ToCome(work, d),
         Shaped(scopes), NEW s \in 1..Len(scopes), NEW defs, defs \in Seq(ToSet(defs)),
         \A i \in 1..Len(defs) : defs[i].node \in DeclaredNames(d),
         \A i, j \in 1..Len(defs) : defs[i].node = defs[j].node => i = j,
         NEW tt, tt = AddDefinitions(scopes, s, defs)
  PROVE  /\ SameShape(scopes, tt) /\ Tabled(tt) /\ Single(tt)
         /\ Content(tt) = Content(scopes) \cup Entries(s, defs)
  <1>1. Tabled(scopes) /\ Single(scopes) BY DEF TableInv
  <1>2. Extended(scopes, tt, s, defs) BY <1>1, AddTable
  <1>3. Content(tt) = Content(scopes) \cup Entries(s, defs) BY <1>1, <1>2, AddContent
  <1>4. \A i \in 1..Len(defs) : \A e \in Content(scopes) : e[2] # defs[i].node BY Fresh
  <1>5. Single(tt) BY <1>1, <1>2, <1>4, AddSingle
  <1> QED BY <1>2, <1>3, <1>5 DEF Extended

\* The step at a variable definition.
LEMMA VariableTable ==
  ASSUME TreeInv, MarkedUnits, ScopeInv, OrderInv, TableInv, CollectSimpleVariableDefinition
  PROVE  OrderInv' /\ TableInv' /\ UNCHANGED <<root, marked, types>>
  <1> DEFINE n == Head(work).node
             names == search_by_data_type(n, "kVariableName", {})
             top == Topmost(n, "kVariableName", {})
             D(t) == [i \in DOMAIN names |-> Def(names[i], t, statement_id[names[i]])]
  <1>1. /\ pc = "collect" /\ pc' = "collect" /\ work # <<>> /\ Head(work).do = "visit"
        /\ GetDataType(n) = "kVariableDefinition"
        /\ work' = Tail(work)
        /\ UNCHANGED <<root, marked, scope_id, statement_id, types>>
    BY DEF CollectSimpleVariableDefinition, NextIs, tree
  <1>2. \E t : scopes' = AddDefinitions(scopes, scope_id[n], D(t))
    BY Zenon DEF CollectSimpleVariableDefinition
  <1>3. PICK t : scopes' = AddDefinitions(scopes, scope_id[n], D(t)) BY <1>2
  <1>4. /\ work \in Seq(Work) /\ Ordered(work)
        /\ Head(work) = work[1] /\ work[1].node = n /\ n \in Below(1) /\ n \in IRs
        /\ Shaped(scopes) /\ scope_id[n] \in 1..Len(scopes) /\ Built
        /\ Tail(work) = <<>> \o Tail(work)
    BY <1>1, CollectHead
  <1>5. /\ Len(names) \in Nat /\ DOMAIN names = 1..Len(names) /\ ToSet(names) = top
        /\ \A i \in 1..Len(names) : names[i] \in top
        /\ \A i, j \in 1..Len(names) : names[i] = names[j] => i = j
    BY <1>4, SearchFacts
  <1> DEFINE defs == D(t)
  <1>6. defs = [i \in 1..Len(names) |-> defs[i]]
        /\ \A i \in 1..Len(names) : /\ defs[i].node = names[i]
                                    /\ defs[i].id = statement_id[names[i]]
    BY <1>5 DEF Def
  <1>7. scopes' = AddDefinitions(scopes, scope_id[n], defs) BY <1>3
  <1> HIDE DEF D, defs, n, names, top
  <1>8. defs \in Seq(ToSet(defs)) /\ Len(defs) = Len(names) BY <1>5, <1>6, DefsSeq
  <1>9. n \in Defined BY <1>1, <1>4 DEF Defined, Definitions
  <1>10. Replaced(work[1], <<>>, {n}) BY <1>1, <1>4, ReplaceVariable
  <1>11. ToCome(work, n)
    <2>1. Len(work) \in Nat \ {0} /\ 1 \in 1..Len(work) BY <1>1, <1>4, AfterHead
    <2>2. Covers(work[1], n) BY <1>10 DEF Replaced
    <2> QED BY <2>1, <2>2 DEF ToCome
  <1>12. DeclaredNames(n) = top /\ Sure(n) = Entries(scope_id[n], defs) /\ Maybe(n) = Sure(n)
    <2>1. DeclaredNames(n) = top BY <1>1 DEF DeclaredNames, top
    <2>2. Sure(n) = {<<scope_id[n], x, statement_id[x]>> : x \in top} BY <1>1 DEF Sure, top
    <2>3. top = {names[i] : i \in 1..Len(names)} BY <1>5 DEF ToSet
    <2>4. Entries(scope_id[n], defs) = {<<scope_id[n], names[i], statement_id[names[i]]>> : i \in 1..Len(names)}
      BY <1>6, <1>8 DEF Entries
    <2>5. Maybe(n) = Sure(n) BY <1>1 DEF Maybe
    <2> QED BY <2>1, <2>2, <2>3, <2>4, <2>5
  <1>13. /\ SameShape(scopes, scopes') /\ Tabled(scopes') /\ Single(scopes')
         /\ Content(scopes') = Content(scopes) \cup Entries(scope_id[n], defs)
    <2>1. \A i \in 1..Len(defs) : defs[i].node \in DeclaredNames(n) BY <1>5, <1>6, <1>8, <1>12
    <2>2. \A i, j \in 1..Len(defs) : defs[i].node = defs[j].node => i = j BY <1>5, <1>6, <1>8
    <2> QED BY <1>4, <1>7, <1>8, <1>9, <1>11, <2>1, <2>2, AddNames
  <1>14. work' = <<>> \o Tail(work) BY <1>1, <1>4
  <1>15. OrderInv' BY <1>1, <1>10, <1>13, <1>14, CollectOrder
  <1>16. TableInv'
    <2>1. {n} \in SUBSET Defined BY <1>9
    <2>2. Entries(scope_id[n], defs) \subseteq UNION {Maybe(d) : d \in {n}} BY <1>12
    <2>3. \A d \in {n} : Sure(d) \subseteq Entries(scope_id[n], defs) BY <1>12
    <2> QED BY <1>1, <1>10, <1>13, <1>14, <2>1, <2>2, <2>3, CollectTable
  <1> QED BY <1>1, <1>15, <1>16

\* The step that leaves a structure.
LEMMA StructureTable ==
  ASSUME TreeInv, MarkedUnits, ScopeInv, OrderInv, TableInv, CollectStructureDefinition
  PROVE  OrderInv' /\ TableInv'
  <1> DEFINE n == Head(work).node
             D(t) == <<Def(n, t, statement_id[n])>>
  <1>1. /\ pc = "collect" /\ pc' = "collect" /\ work # <<>> /\ Head(work).do = "leave"
        /\ work' = Tail(work)
        /\ UNCHANGED <<root, marked, scope_id, statement_id>>
    BY DEF CollectStructureDefinition, NextIs, tree
  <1>2. \E t : scopes' = AddDefinitions(scopes, scope_id[n], D(t))
    BY Zenon DEF CollectStructureDefinition
  <1>3. PICK t : scopes' = AddDefinitions(scopes, scope_id[n], D(t)) BY <1>2
  <1>4. /\ work \in Seq(Work) /\ Ordered(work)
        /\ Head(work) = work[1] /\ work[1].node = n /\ n \in Below(1) /\ n \in IRs
        /\ Shaped(scopes) /\ scope_id[n] \in 1..Len(scopes) /\ Built
        /\ Tail(work) = <<>> \o Tail(work)
        /\ GetDataType(n) = "kClassDefinition"
    BY <1>1, CollectHead
  <1> DEFINE defs == D(t)
  <1>5. defs = [i \in 1..1 |-> defs[i]] /\ defs[1].node = n /\ defs[1].id = statement_id[n]
    BY DEF Def
  <1>6. scopes' = AddDefinitions(scopes, scope_id[n], defs) BY <1>3
  <1> HIDE DEF D, defs, n
  <1>7. defs \in Seq(ToSet(defs)) /\ Len(defs) = 1 BY <1>5, DefsSeq
  <1>8. n \in Defined BY <1>4 DEF Defined, Definitions
  <1>9. Replaced(work[1], <<>>, {n}) BY <1>1, <1>4, ReplaceLeave
  <1>10. ToCome(work, n)
    <2>1. Len(work) \in Nat \ {0} /\ 1 \in 1..Len(work) BY <1>1, <1>4, AfterHead
    <2>2. Covers(work[1], n) BY <1>9 DEF Replaced
    <2> QED BY <2>1, <2>2 DEF ToCome
  <1>11. DeclaredNames(n) = {n} /\ Sure(n) = Entries(scope_id[n], defs) /\ Maybe(n) = Sure(n)
    <2>1. DeclaredNames(n) = {n} /\ Maybe(n) = Sure(n) BY <1>4 DEF DeclaredNames, Maybe
    <2>2. Sure(n) = {<<scope_id[n], n, statement_id[n]>>} BY <1>4 DEF Sure
    <2>3. 1..1 = {1} OBVIOUS
    <2>4. Entries(scope_id[n], defs) = {<<scope_id[n], n, statement_id[n]>>}
      BY <1>5, <1>7, <2>3 DEF Entries
    <2> QED BY <2>1, <2>2, <2>4
  <1>12. /\ SameShape(scopes, scopes') /\ Tabled(scopes') /\ Single(scopes')
         /\ Content(scopes') = Content(scopes) \cup Entries(scope_id[n], defs)
    <2>1. \A i \in 1..Len(defs) : defs[i].node \in DeclaredNames(n) BY <1>5, <1>7, <1>11
    <2>2. \A i, j \in 1..Len(defs) : defs[i].node = defs[j].node => i = j BY <1>7
    <2> QED BY <1>4, <1>6, <1>7, <1>8, <1>10, <2>1, <2>2, AddNames
  <1>13. work' = <<>> \o Tail(work) BY <1>1, <1>4
  <1>14. OrderInv' BY <1>1, <1>9, <1>12, <1>13, CollectOrder
  <1>15. TableInv'
    <2>1. {n} \in SUBSET Defined BY <1>8
    <2>2. Entries(scope_id[n], defs) \subseteq UNION {Maybe(d) : d \in {n}} BY <1>11
    <2>3. \A d \in {n} : Sure(d) \subseteq Entries(scope_id[n], defs) BY <1>11
    <2> QED BY <1>1, <1>9, <1>12, <1>13, <2>1, <2>2, <2>3, CollectTable
  <1> QED BY <1>14, <1>15

\* The definitions of the arguments, in the scope of the body.
ArgumentDefs(n, ts, defs) ==
  defs = [i \in DOMAIN Arguments(n) |->
            Def(ArgumentName(Arguments(n)[i]), ts[i], statement_id[n])]

\* The arguments, added to the scope of the function's body.
LEMMA ArgumentTable ==
  ASSUME TreeInv, MarkedUnits, ScopeInv, TableInv, Built, NEW n \in Defined, ToCome(work, n),
         GetDataType(n) = "kFunctionDefinition", Bodies(n) # {},
         NEW ts, NEW defs, ArgumentDefs(n, ts, defs)
  PROVE  LET ss == AddDefinitions(scopes, scope_id[FunctionBody(n)], defs)
         IN /\ SameShape(scopes, ss) /\ Tabled(ss) /\ Single(ss)
            /\ Content(ss) = Content(scopes) \cup Sure(n)
  <1> DEFINE args == Arguments(n)
             b == FunctionBody(n)
             s == scope_id[b]
             ss == AddDefinitions(scopes, s, defs)
  <1>1. n \in Below(1) /\ n \in IRs BY BelowSelf DEF Defined
  <1>2. /\ Len(args) \in Nat /\ DOMAIN args = 1..Len(args) /\ ToSet(args) = ArgumentIRs(n)
        /\ \A i \in 1..Len(args) : args[i] \in ArgumentIRs(n)
        /\ \A i, j \in 1..Len(args) : args[i] = args[j] => i = j
    BY <1>1, SearchFacts DEF Arguments, ArgumentIRs
  <1>3. /\ defs = [i \in 1..Len(args) |-> defs[i]]
        /\ \A i \in 1..Len(args) : /\ defs[i].node = ArgumentName(args[i])
                                   /\ defs[i].id = statement_id[n]
    BY <1>2 DEF Def, ArgumentDefs
  <1>4. Shaped(scopes) BY DEF ScopeInv
  <1>5. s \in 1..Len(scopes)
    <2>1. b \in Below(n) BY <1>1, FunctionBodyFacts
    <2>2. b \in Below(1) BY <1>1, <2>1, BelowSelf
    <2> QED BY <2>2, ScopeOf
  <1>6. ss = AddDefinitions(scopes, s, defs) OBVIOUS
  <1>7. Sure(n) = {<<s, ArgumentName(a), statement_id[n]>> : a \in ArgumentIRs(n)} BY DEF Sure
  <1>8. \A i \in 1..Len(args) : ArgumentName(args[i]) \in DeclaredNames(n)
    BY <1>2 DEF DeclaredNames
  <1> DEFINE ds == [i \in 1..Len(args) |-> defs[i]]
  <1>9. defs = ds BY <1>3
  <1> HIDE DEF args, b, s, ss, ds
  <1>10. defs \in Seq(ToSet(defs)) /\ Len(defs) = Len(args)
    <2>1. ds = [i \in 1..Len(args) |-> ds[i]] BY DEF ds
    <2>2. ds \in Seq(ToSet(ds)) /\ Len(ds) = Len(args) BY <1>2, <2>1, DefsSeq
    <2> QED BY <1>9, <2>2
  <1>11. Entries(s, defs) = Sure(n)
    <2>1. Entries(s, defs) = {<<s, ArgumentName(args[i]), statement_id[n]>> : i \in 1..Len(args)}
      BY <1>3, <1>10 DEF Entries
    <2>2. ArgumentIRs(n) = {args[i] : i \in 1..Len(args)} BY <1>2 DEF ToSet
    <2> QED BY <1>7, <2>1, <2>2
  <1>12. \A i \in 1..Len(defs) : defs[i].node \in DeclaredNames(n) BY <1>3, <1>8, <1>10
  <1>13. \A i, j \in 1..Len(defs) : defs[i].node = defs[j].node => i = j
    <2> SUFFICES ASSUME NEW i \in 1..Len(defs), NEW j \in 1..Len(defs), defs[i].node = defs[j].node
                 PROVE  i = j
      OBVIOUS
    <2>1. ArgumentName(args[i]) = ArgumentName(args[j]) /\ args[i] \in ArgumentIRs(n)
          /\ args[j] \in ArgumentIRs(n)
      BY <1>2, <1>3, <1>10
    <2>2. args[i] = args[j] BY <1>1, <2>1, ArgumentsApart
    <2> QED BY <1>2, <1>10, <2>2
  <1>14. /\ SameShape(scopes, ss) /\ Tabled(ss) /\ Single(ss)
         /\ Content(ss) = Content(scopes) \cup Entries(s, defs)
    BY <1>4, <1>5, <1>6, <1>10, <1>12, <1>13, AddNames
  <1> QED BY <1>11, <1>14 DEF ss, s, b

\* The definition of the function itself, after those of its arguments.
LEMMA FunctionNameTable ==
  ASSUME TreeInv, MarkedUnits, ScopeInv, TableInv, Built, NEW n \in Defined, ToCome(work, n),
         GetDataType(n) = "kFunctionDefinition",
         NEW ss, SameShape(scopes, ss), Tabled(ss), Single(ss),
         Content(ss) = Content(scopes) \cup Sure(n), NEW t,
         NEW tt, tt = AddDefinitions(ss, scope_id[n],
                        <<Def(FunctionName(n), t, statement_id[FunctionName(n)])>>)
  PROVE  /\ SameShape(scopes, tt) /\ Tabled(tt) /\ Single(tt)
         /\ Content(tt) = Content(scopes) \cup Maybe(n)
  <1> DEFINE x == FunctionName(n)
             D == <<Def(x, t, statement_id[x])>>
             s == scope_id[n]
  <1>1. n \in Below(1) BY DEF Defined
  <1>2. D = [i \in 1..1 |-> D[i]] /\ D[1].node = x /\ D[1].id = statement_id[x] BY DEF Def
  <1>3. tt = AddDefinitions(ss, s, D) OBVIOUS
  <1>4. Maybe(n) = Sure(n) \cup {<<s, x, statement_id[x]>>} BY DEF Maybe
  <1>5. x \in DeclaredNames(n) BY DEF DeclaredNames
  <1>6. s \in 1..Len(ss) /\ Shaped(ss) BY <1>1, ScopeOf DEF SameShape
  <1>7. GetDataType(x) = "kFunctionName" BY <1>1, FunctionNameFacts
  <1>8. \A e \in Sure(n) : e[2] # x
    <2> SUFFICES ASSUME NEW e \in Sure(n) PROVE e[2] # x OBVIOUS
    <2>1. PICK a \in ArgumentIRs(n) : e = <<scope_id[FunctionBody(n)], ArgumentName(a), statement_id[n]>>
      BY DEF Sure
    <2>2. GetDataType(ArgumentName(a)) = "kVariableName" BY <1>1, ArgumentFacts
    <2> QED BY <1>7, <2>1, <2>2
  <1> HIDE DEF D, x, s
  <1>9. D \in Seq(ToSet(D)) /\ Len(D) = 1 BY <1>2, DefsSeq
  <1>10. Entries(s, D) = {<<s, x, statement_id[x]>>}
    <2>1. 1..1 = {1} OBVIOUS
    <2> QED BY <1>2, <1>9, <2>1 DEF Entries
  <1>11. Extended(ss, tt, s, D) BY <1>3, <1>6, <1>9, AddTable
  <1>12. Content(tt) = Content(ss) \cup Entries(s, D) BY <1>6, <1>9, <1>11, AddContent
  <1>13. \A i \in 1..Len(D) : \A e \in Content(ss) : e[2] # D[i].node
    <2> SUFFICES ASSUME NEW e \in Content(ss) PROVE e[2] # x BY <1>2, <1>9
    <2>1. CASE e \in Content(scopes) BY <1>5, <2>1, Fresh
    <2>2. CASE e \in Sure(n) BY <1>8, <2>2
    <2> QED BY <2>1, <2>2
  <1>14. \A i, j \in 1..Len(D) : D[i].node = D[j].node => i = j BY <1>9
  <1>15. Single(tt) BY <1>6, <1>9, <1>11, <1>13, <1>14, AddSingle
  <1>16. SameShape(ss, tt) /\ Tabled(tt) BY <1>11 DEF Extended
  <1>17. SameShape(scopes, tt) BY <1>16 DEF SameShape
  <1> QED BY <1>4, <1>10, <1>12, <1>15, <1>16, <1>17

\* The step at a function.
LEMMA FunctionTable ==
  ASSUME TreeInv, MarkedUnits, ScopeInv, OrderInv, TableInv, CollectFunctionDefinition
  PROVE  /\ OrderInv' /\ TableInv' /\ UNCHANGED <<root, marked>>
         /\ \A t \in types' : t \in types \/ t.kind = "function"
  <1> DEFINE n == Head(work).node
             body == search_by_data_type(n, "kFunctionBody", {})
             v == IF Bodies(n) = {} THEN <<>> ELSE <<Visit(FunctionBody(n))>>
  <1>1. /\ pc = "collect" /\ pc' = "collect" /\ work # <<>> /\ Head(work).do = "visit"
        /\ GetDataType(n) = "kFunctionDefinition"
        /\ work' = (IF body = <<>> THEN <<>> ELSE <<Visit(body[1])>>) \o Tail(work)
        /\ UNCHANGED <<root, marked, scope_id, statement_id>>
    BY DEF CollectFunctionDefinition, NextIs, tree
  <1>2. \E ts : FunctionDefinition(n,
                  IF body = <<>> THEN scopes
                  ELSE AddDefinitions(scopes, scope_id[body[1]],
                         [i \in DOMAIN Arguments(n) |->
                            Def(ArgumentName(Arguments(n)[i]), ts[i], statement_id[n])]))
    BY Zenon DEF CollectFunctionDefinition, ArgumentScope
  <1>3. PICK ts : FunctionDefinition(n,
                  IF body = <<>> THEN scopes
                  ELSE AddDefinitions(scopes, scope_id[body[1]],
                         [i \in DOMAIN Arguments(n) |->
                            Def(ArgumentName(Arguments(n)[i]), ts[i], statement_id[n])]))
    BY <1>2
  <1> DEFINE defs == [i \in DOMAIN Arguments(n) |->
                        Def(ArgumentName(Arguments(n)[i]), ts[i], statement_id[n])]
             ss == IF body = <<>> THEN scopes
                   ELSE AddDefinitions(scopes, scope_id[body[1]], defs)
  <1>4. FunctionDefinition(n, ss) BY <1>3
  <1>5. ArgumentDefs(n, ts, defs) BY DEF ArgumentDefs
  <1>6. /\ work \in Seq(Work) /\ Ordered(work)
        /\ Head(work) = work[1] /\ work[1].node = n /\ n \in Below(1) /\ n \in IRs
        /\ Tabled(scopes) /\ Single(scopes) /\ SameShape(scopes, scopes) /\ Built
    BY <1>1, CollectHead
  <1>7. body = <<>> <=> Bodies(n) = {} BY <1>6, SearchFacts DEF Bodies
  <1>8. body[1] = FunctionBody(n) BY DEF FunctionBody
  <1>9. work' = v \o Tail(work) BY <1>1, <1>7, <1>8
  <1>10. n \in Defined BY <1>1, <1>6 DEF Defined, Definitions
  <1> HIDE DEF n, body, defs
  <1>11. Replaced(work[1], v, {n}) BY <1>1, <1>6, ReplaceFunction
  <1>12. ToCome(work, n)
    <2>1. Len(work) \in Nat \ {0} /\ 1 \in 1..Len(work) BY <1>1, <1>6, AfterHead
    <2>2. Covers(work[1], n) BY <1>11 DEF Replaced
    <2> QED BY <2>1, <2>2 DEF ToCome
  <1>13. /\ SameShape(scopes, ss) /\ Tabled(ss) /\ Single(ss)
         /\ Content(ss) = Content(scopes) \cup Sure(n)
    <2>1. CASE Bodies(n) = {}
      <3>1. ss = scopes BY <1>7, <2>1
      <3>2. Sure(n) = {} BY <1>1, <2>1 DEF Sure
      <3> QED BY <1>6, <3>1, <3>2
    <2>2. CASE Bodies(n) # {}
      <3>1. ss = AddDefinitions(scopes, scope_id[FunctionBody(n)], defs) BY <1>7, <1>8, <2>2
      <3> HIDE DEF ss
      <3> QED BY <1>1, <1>5, <1>6, <1>10, <1>12, <2>2, <3>1, ArgumentTable
    <2> QED BY <2>1, <2>2
  <1> HIDE DEF ss, v
  <1>14. \E N : /\ SameShape(scopes, scopes') /\ Tabled(scopes') /\ Single(scopes')
                /\ Content(scopes') = Content(scopes) \cup N
                /\ Sure(n) \subseteq N /\ N \subseteq Maybe(n)
    <2>1. CASE scopes' = ss BY <1>13, <2>1 DEF Maybe
    <2>2. ASSUME NEW t, scopes' = AddDefinitions(ss, scope_id[n],
                   <<Def(FunctionName(n), t, statement_id[FunctionName(n)])>>)
          PROVE  /\ SameShape(scopes, scopes') /\ Tabled(scopes') /\ Single(scopes')
                 /\ Content(scopes') = Content(scopes) \cup Maybe(n)
      BY <1>1, <1>6, <1>10, <1>12, <1>13, <2>2, FunctionNameTable
    <2>3. Sure(n) \subseteq Maybe(n) BY DEF Maybe
    <2>4. \/ scopes' = ss
          \/ \E t : scopes' = AddDefinitions(ss, scope_id[n],
                   <<Def(FunctionName(n), t, statement_id[FunctionName(n)])>>)
      BY <1>4 DEF FunctionDefinition, FunctionName
    <2> QED BY <2>1, <2>2, <2>3, <2>4
  <1>15. PICK N : /\ SameShape(scopes, scopes') /\ Tabled(scopes') /\ Single(scopes')
                  /\ Content(scopes') = Content(scopes) \cup N
                  /\ Sure(n) \subseteq N /\ N \subseteq Maybe(n)
    BY <1>14
  <1>16. OrderInv' BY <1>1, <1>9, <1>11, <1>15, CollectOrder
  <1>17. TableInv'
    <2>1. {n} \in SUBSET Defined BY <1>10
    <2>2. N \subseteq UNION {Maybe(d) : d \in {n}} BY <1>15
    <2>3. \A d \in {n} : Sure(d) \subseteq N BY <1>15
    <2> QED BY <1>1, <1>9, <1>11, <1>15, <2>1, <2>2, <2>3, CollectTable
  <1>18. \A t \in types' : t \in types \/ t.kind = "function" BY <1>4 DEF FunctionDefinition
  <1> QED BY <1>1, <1>16, <1>17, <1>18

-----------------------------------------------------------------------------
(***************************************************************************)
(* The other steps.                                                        *)
(***************************************************************************)
LEMMA EmptyTables ==
  ASSUME NEW ss, Shaped(ss), Tabled(ss)
  PROVE  Content(ss) = {} <=> \A s \in 1..Len(ss) : DOMAIN ss[s].table = {}
  BY InContent

\* A new scope has an empty table.
LEMMA EnterTable ==
  ASSUME ScopeInv, ScopeInv', TableInv, EnterScope
  PROVE  TableInv' /\ UNCHANGED types
  <1> DEFINE n == Head(work).node
             e == [type |-> GetScopeType(n), parent |-> g_scope_current_,
                   opener |-> n, table |-> <<>>]
  <1>1. /\ pc = "building" /\ pc' = "building" /\ scopes' = Append(scopes, e) /\ UNCHANGED types
    BY DEF EnterScope, NextIs
  <1>2. ~Built /\ ~Built' BY <1>1 DEF Built
  <1>3. Shaped(scopes) /\ Tabled(scopes) /\ Content(scopes) = {} /\ types = {}
    BY <1>2 DEF ScopeInv, TableInv
  <1>4. Shaped(scopes)' BY DEF ScopeInv
  <1>5. \A s \in 1..Len(scopes) : DOMAIN scopes[s].table = {} BY <1>3, EmptyTables
  <1>6. e.table = <<>> /\ "table" \in DOMAIN e OBVIOUS
  <1> HIDE DEF e
  <1>7. /\ Len(scopes) \in Nat /\ Len(scopes') = Len(scopes) + 1 /\ scopes'[Len(scopes) + 1] = e
        /\ \A s \in 1..Len(scopes) : scopes'[s] = scopes[s]
    <2>1. scopes \in Seq(ToSet(scopes)) BY <1>3 DEF Shaped
    <2> QED BY <1>1, <2>1, AppendElement
  <1>8. \A s \in 1..Len(scopes') : s \in 1..Len(scopes) \/ s = Len(scopes) + 1 BY <1>7
  <1>9. <<>> \in Seq(ToSet(<<>>)) /\ DOMAIN <<>> = {} OBVIOUS
  <1>10. \A s \in 1..Len(scopes') : /\ "table" \in DOMAIN scopes'[s]
                                    /\ scopes'[s].table \in Seq(ToSet(scopes'[s].table))
                                    /\ DOMAIN scopes'[s].table = {}
    BY <1>3, <1>5, <1>6, <1>7, <1>8, <1>9 DEF Tabled
  <1>11. Tabled(scopes') /\ Single(scopes') BY <1>10 DEF Tabled, Single
  <1>12. Shaped(scopes') BY <1>4 DEF Shaped
  <1>13. Content(scopes') = {} BY <1>10, <1>11, <1>12, EmptyTables
  <1>14. Tabled(scopes)' /\ Single(scopes)' /\ (Content(scopes) = {})'
    BY <1>11, <1>13 DEF Tabled, Single, Content
  <1> QED BY <1>1, <1>2, <1>3, <1>14 DEF TableInv

\* Before the scopes are built there is nothing in the tables.
LEMMA UnbuiltTable ==
  ASSUME TableInv, ~Built, ~Built', UNCHANGED <<scopes, types>>
  PROVE  TableInv'
  <1>1. Tabled(scopes) /\ Single(scopes) /\ Content(scopes) = {} /\ types = {} BY DEF TableInv
  <1>2. Tabled(scopes)' /\ Single(scopes)' /\ (Content(scopes) = {})' /\ types' = {}
    BY <1>1 DEF Tabled, Single, Content
  <1> QED BY <1>2 DEF TableInv

\* In the beginning every definition is still to come, and the tables are empty.
LEMMA StartCollectTable ==
  ASSUME TreeInv, TableInv, StartCollect
  PROVE  TableInv' /\ UNCHANGED types
  <1>1. /\ pc = "building" /\ pc' = "collect"
        /\ UNCHANGED <<root, marked, scope_id, statement_id, scopes, types>>
        /\ work' = IF TooLarge THEN <<>> ELSE <<Visit(1)>>
    BY DEF StartCollect, tree, TooLarge
  <1>2. ~Built /\ Built' BY <1>1 DEF Built
  <1>3. Tabled(scopes') /\ Single(scopes') /\ Content(scopes') = {} BY <1>1, <1>2 DEF TableInv
  <1>4. ~TooLarge => \A d \in Defined : ToCome(work', d)
    <2> SUFFICES ASSUME ~TooLarge, NEW d \in Defined PROVE ToCome(work', d) OBVIOUS
    <2>1. work' = <<Visit(1)>> BY <1>1
    <2>2. Len(work') = 1 /\ work'[1].do = "visit" /\ work'[1].node = 1 BY <2>1 DEF Visit
    <2>3. d \in Below(1) BY DEF Defined
    <2> QED BY <2>2, <2>3 DEF ToCome, Covers
  <1>5. /\ Defined' = Defined /\ TooLarge' = TooLarge /\ Content(scopes)' = Content(scopes')
        /\ \A d : Sure(d)' = Sure(d) /\ Maybe(d)' = Maybe(d)
        /\ \A d : ToCome(work, d)' <=> ToCome(work', d)
        /\ Tabled(scopes)' /\ Single(scopes)'
    BY <1>1, <1>3, SameNames
  <1>6. (~TooLarge => \A d \in Defined : ToCome(work, d))' BY <1>4, <1>5
  <1>7. (TooLarge => work = <<>>)' BY <1>1, <1>5
  <1>8. (Content(scopes) = {})' BY <1>3, <1>5
  <1> QED BY <1>1, <1>2, <1>5, <1>6, <1>7, <1>8 DEF TableInv

\* A step that touches neither tables nor worklist.
LEMMA BuiltTable ==
  ASSUME TableInv, Built, Built', UNCHANGED <<root, marked, scope_id, statement_id, scopes, work>>,
         pc' \notin {"collect", "assert", "crash"} => work = <<>>
  PROVE  TableInv'
  <1>1. /\ Defined' = Defined /\ TooLarge' = TooLarge /\ Content(scopes)' = Content(scopes)
        /\ \A d : Sure(d)' = Sure(d) /\ Maybe(d)' = Maybe(d)
        /\ \A d : ToCome(work, d)' <=> ToCome(work, d)
        /\ Tabled(scopes)' /\ Single(scopes)'
    BY SameNames DEF TableInv
  <1>2. (TooLarge => work = <<>>)' BY <1>1 DEF TableInv
  <1>3. (Content(scopes) \subseteq UNION {Maybe(d) : d \in {c \in Defined : ~ToCome(work, c)}})'
    BY <1>1 DEF TableInv
  <1>4. (~TooLarge => \A d \in Defined : ~ToCome(work, d) => Sure(d) \subseteq Content(scopes))'
    BY <1>1 DEF TableInv
  <1> QED BY <1>1, <1>2, <1>3, <1>4 DEF TableInv

\* A step outside the walks.
LEMMA QuietOrder ==
  ASSUME OrderInv, UNCHANGED scopes, pc' \notin {"building", "collect"}
  PROVE  OrderInv'
  BY DEF OrderInv

-----------------------------------------------------------------------------
(***************************************************************************)
(* What MarkFixMe marks are the fix units with a FIXME, as the text has    *)
(* them; statement ids are set in the beginning.                           *)
(***************************************************************************)
LEMMA MarkedAreUnits ==
  ASSUME MarkInv
  PROVE  MarkedUnits
  BY DEF MarkInv, MarkedUnits, Marks, Lexical!FixUnits

\* MarkFixMe marks the units of the FIXMEs, all of them in its one step.
LEMMA MarkFixMeMarks ==
  ASSUME TreeInv, MarkInv, MarkFixMe
  PROVE  MarkInv'
  <1>1. /\ pc = "mark" /\ pc' = "build" /\ root' = root
        /\ marked' = {n \in FixUnits : NeedFixing(n)}
    BY DEF MarkFixMe
  <1>2. marked = {} BY <1>1 DEF MarkInv
  <1>3. /\ 1 \in IRs /\ IRs = 1..Len(root) /\ Len(root) \in Nat /\ root[1].last = Len(root)
        /\ \A n \in IRs : root[n].last \in Nat /\ n..root[n].last \subseteq IRs /\ n \in Nat
    BY TreeFacts, RootFacts
  <1>4. /\ Below(1) = IRs /\ \A n : Below(n) = n..root[n].last
        /\ \A n : GetDataType(n) = root[n].data_type /\ GetString(n) = root[n].word
    BY <1>2, <1>3 DEF Below, GetDataType, GetString
  <1>5. FixUnits = Topmost(1, "kFixUnit", {}) BY <1>3, SearchFacts DEF FixUnits
  <1>6. FixUnits = {n \in IRs : /\ root[n].data_type = "kFixUnit"
                                /\ \A a \in Above(n) : root[a].data_type # "kFixUnit"}
    <2>1. \A n \in IRs : Above(n) \subseteq IRs BY <1>3 DEF Above
    <2> QED BY <1>4, <1>5, <2>1 DEF Topmost
  <1>7. \A n \in IRs : \A a \in IRs : a \in Above(n) <=> a # n /\ Lexical!Within(n, a)
    BY <1>3 DEF Above, Lexical!Within
  <1>8. FixUnits = Lexical!FixUnits
    <2>1. \A n \in IRs : Above(n) \subseteq IRs BY <1>3 DEF Above
    <2> QED BY <1>6, <1>7, <2>1 DEF Lexical!FixUnits, Lexical!Places, IRs
  <1>9. \A n \in IRs : NeedFixing(n) <=> \E m \in Lexical!Fixmes : Lexical!Within(m, n)
    BY <1>3, <1>4 DEF NeedFixing, IsFixme, Lexical!Fixmes, Lexical!Within, Lexical!Places
  <1>10. FixUnits \subseteq IRs BY <1>6
  <1>11. marked' = Marks BY <1>1, <1>8, <1>9, <1>10 DEF Marks
  <1>12. Marks' = Marks
    BY <1>1 DEF Marks, Lexical!Fixmes, Lexical!Within, Lexical!Places, Lexical!FixUnits
  <1> QED BY <1>1, <1>11, <1>12 DEF MarkInv

\* A step that marks nothing.
LEMMA SameMarks ==
  ASSUME MarkInv, UNCHANGED <<root, marked>>, pc = "mark" <=> pc' = "mark"
  PROVE  MarkInv'
  <1>1. Marks' = Marks
    BY DEF Marks, Lexical!Fixmes, Lexical!Within, Lexical!Places, Lexical!FixUnits
  <1> QED BY <1>1 DEF MarkInv

\* Nothing is marked in the beginning.
LEMMA InitMarks ==
  ASSUME Init
  PROVE  MarkInv
  BY DEF Init, InitTree, MarkInv

\* The statement ids of a program's source, as Init gives them.
LEMMA InitIds ==
  ASSUME Init
  PROVE  IdInv
  <1>1. marked = {} /\ source \in Sources /\ statement_id \in StatementIDs(source)
    BY DEF Init, InitTree
  <1>0. source \in Source BY <1>1 DEF Sources
  <1> DEFINE count == [n \in IRs |-> Cardinality(MadeBefore(n))]
             late == [n \in IRs |-> count[n] + IF GetString(n) = "FIXME" THEN Len(root) ELSE 0]
  <1>2. CASE source = "translated"
    <2>1. StatementIDs(source) = {count} BY Zenon, <1>2 DEF StatementIDs
    <2>2. statement_id = count BY <1>1, <2>1
    <2>3. \A n \in IRs : statement_id[n] = Cardinality(MadeBefore(n)) BY <2>2
    <2> QED BY <1>0, <1>2, <2>3 DEF IdInv
  <1>3. CASE source = "extracted"
    <2>1. StatementIDs(source) = {late} BY Zenon, <1>3 DEF StatementIDs
    <2>2. statement_id = late BY <1>1, <2>1
    <2>3. \A n \in IRs : statement_id[n] = Cardinality(MadeBefore(n))
                                           + IF root[n].word = "FIXME" THEN Len(root) ELSE 0
      BY <1>1, <2>2 DEF GetString
    <2>4. \A n \in IRs : root[n].data_type # "kFixUnit" BY <1>1, <1>3 DEF Sources, GetDataType
    <2> QED BY <1>0, <1>3, <2>3, <2>4 DEF IdInv
  <1>4. CASE source \notin {"translated", "extracted"} BY <1>0, <1>4 DEF IdInv
  <1> QED BY <1>2, <1>3, <1>4

\* A step that leaves the ids alone.
LEMMA SameIds ==
  ASSUME IdInv, UNCHANGED <<root, source, statement_id>>
  PROVE  IdInv'
  <1>1. IRs' = IRs /\ \A n : MadeBefore(n)' = MadeBefore(n) BY DEF MadeBefore, IRs
  <1>2. \A n : Cardinality(MadeBefore(n))' = Cardinality(MadeBefore(n)) BY <1>1
  <1> QED BY <1>1, <1>2 DEF IdInv

-----------------------------------------------------------------------------
(***************************************************************************)
(* The scope of an IR is that of its innermost opener.                     *)
(***************************************************************************)
LEMMA OpenerIs ==
  ASSUME TreeInv, ScopeInv, Built, NEW n \in Below(1)
  PROVE  /\ Opener(n) = scopes[scope_id[n]].opener /\ Opener(n) \in Openers(n)
         /\ \A a \in Openers(n) : a \in Nat /\ a <= Opener(n)
  <1> DEFINE s == scope_id[n]
             o == scopes[s].opener
  <1>1. s \in 1..Len(scopes) /\ Opened(scopes, s) = Openers(n) BY ScopeOf
  <1>2. Shaped(scopes) /\ Nested(scopes) BY DEF ScopeInv
  <1>3. Openers(n) = {o} \cup Opened(scopes, scopes[s].parent) BY <1>1, <1>2, OpenedEquation
  <1>4. o \in Nat /\ \A a \in Opened(scopes, scopes[s].parent) : a \in Nat /\ a < o
    BY <1>1, <1>2 DEF Nested
  <1> HIDE DEF o
  <1>5. o \in Openers(n) /\ \A a \in Openers(n) : a \in Nat /\ a <= o BY <1>3, <1>4
  <1>6. \E x \in Openers(n) : \A y \in Openers(n) : x >= y BY <1>5
  <1>7. Opener(n) = CHOOSE x \in Openers(n) : \A y \in Openers(n) : x >= y BY DEF Opener, Max
  <1>8. Opener(n) \in Openers(n) /\ \A y \in Openers(n) : Opener(n) >= y BY <1>6, <1>7
  <1>9. Opener(n) = o BY <1>5, <1>8
  <1> QED BY <1>5, <1>9 DEF o

\* Two IRs share a scope exactly when the same scopes open around them.
LEMMA SameScope ==
  ASSUME TreeInv, ScopeInv, OrderInv, Built, NEW d \in Below(1), NEW e \in Below(1)
  PROVE  scope_id[d] = scope_id[e] <=> Openers(d) = Openers(e)
  <1>1. /\ scope_id[d] \in 1..Len(scopes) /\ Opened(scopes, scope_id[d]) = Openers(d)
        /\ scope_id[e] \in 1..Len(scopes) /\ Opened(scopes, scope_id[e]) = Openers(e)
        /\ Len(scopes) \in Nat
    BY ScopeOf
  <1>2. ASSUME Openers(d) = Openers(e) PROVE scope_id[d] = scope_id[e]
    <2>1. Opener(d) = Opener(e) BY <1>2 DEF Opener
    <2>2. scopes[scope_id[d]].opener = scopes[scope_id[e]].opener /\ Opener(d) \in Nat
          /\ Opener(d) = scopes[scope_id[d]].opener
      BY <2>1, OpenerIs
    <2>3. ~(scope_id[d] < scope_id[e]) /\ ~(scope_id[e] < scope_id[d])
      BY <1>1, <2>2 DEF OrderInv
    <2> QED BY <1>1, <2>3
  <1> QED BY <1>1, <1>2

\* An IR in the scope that b opens stands below b.
LEMMA InScopeOf ==
  ASSUME TreeInv, NEW b \in Below(1), b \in Openers(b), NEW n \in Below(1), n # b,
         Openers(n) = Openers(b)
  PROVE  n \in Below(b) /\ b < n
  <1>1. b \in Openers(n) OBVIOUS
  <1>2. b \in Above(n) BY <1>1 DEF Openers
  <1>3. b < n /\ n <= root[b].last /\ b \in IRs /\ b \in Nat /\ n \in IRs
    BY <1>2, BelowSelf, AboveIs
  <1>4. b <= n
    <2>1. n \in Nat BY BelowSelf
    <2> QED BY <1>3, <2>1
  <1> QED BY <1>3, <1>4, AroundSeen

\* What the structure c has below it is collected when c is left.
LEMMA InsideCollected ==
  ASSUME TreeInv, NEW w \in Seq(Work), w # <<>>, Ordered(w), w[1].do # "visit",
         NEW d \in Below(1), w[1].node < d, d <= root[w[1].node].last
  PROVE  ~ToCome(w, d)
  <1> SUFFICES ASSUME NEW i \in 1..Len(w), Covers(w[i], d) PROVE FALSE BY DEF ToCome
  <1> DEFINE c == w[1].node
  <1>1. /\ c \in IRs /\ Len(w) \in Nat \ {0}
        /\ \A j \in 2..Len(w) :
              /\ w[j].node \in IRs
              /\ w[j].do = "visit" => root[c].last < w[j].node
              /\ w[j].do # "visit" => c \in Inside(root, w[j].node)
    BY AfterHead
  <1>2. d \in IRs /\ d \in Nat /\ c \in Nat /\ root[c].last \in Nat BY <1>1, BelowSelf, AboveIs
  <1>3. CASE i = 1 BY <1>2, <1>3 DEF Covers
  <1>4. CASE i # 1
    <2>1. i \in 2..Len(w) BY <1>1, <1>4
    <2>2. w[i].node \in IRs /\ w[i].node \in Nat BY <1>1, <2>1, AboveIs
    <2>3. CASE w[i].do = "visit"
      <3>1. d \in Below(w[i].node) BY <2>3 DEF Covers
      <3>2. w[i].node <= d BY <2>2, <3>1, BelowIs
      <3> QED BY <1>1, <1>2, <2>1, <2>2, <2>3, <3>2
    <2>4. CASE w[i].do # "visit"
      <3>1. d = w[i].node /\ c \in Inside(root, d) BY <1>1, <2>1, <2>4 DEF Covers
      <3>2. d < c BY <1>1, <1>2, <3>1, InsideIs
      <3> QED BY <1>2, <3>2
    <2> QED BY <2>3, <2>4
  <1> QED BY <1>3, <1>4

\* The names declared by the definitions of one kind.
LEMMA NamesInIs ==
  ASSUME TreeInv, NEW dt, NEW n
  PROVE  n \in NamesIn(dt) <=> \E d \in OfType(dt) : n \in Topmost(d, "kVariableName", {})
  <1>1. \A d \in OfType(dt) : d \in IRs BY BelowSelf DEF OfType
  <1>2. \A d \in OfType(dt) :
          ToSet(search_by_data_type(d, "kVariableName", {})) = Topmost(d, "kVariableName", {})
    BY <1>1, SearchFacts
  <1> QED BY <1>2 DEF NamesIn

-----------------------------------------------------------------------------
(***************************************************************************)
(* MembersAreOwn of one structure c.                                       *)
(***************************************************************************)
OwnMembers(c, members) ==
  LET own == {n \in Below(c) : Openers(n) = Openers(c) \cup {Opener(n)}} \ {c}
  IN /\ \A m \in members : m \in own /\ Opener(m) # Opener(c)
     /\ \A n \in own \cap NamesIn("kVariableDefinition") : n \in members
     /\ \A n \in own \cap OfType("kClassDefinition") : n \in members

\* What the symbol table of a scope defines.
Table(s) == {d.node : d \in ToSet(scopes[s].table)}

\* A scope's table by its content.
LEMMA TableIs ==
  ASSUME ScopeInv, TableInv, NEW s \in 1..Len(scopes), NEW m
  PROVE  m \in Table(s) <=> \E id : <<s, m, id>> \in Content(scopes)
  <1>1. Shaped(scopes) /\ Tabled(scopes) BY DEF ScopeInv, TableInv
  <1>2. ASSUME m \in Table(s) PROVE \E id : <<s, m, id>> \in Content(scopes)
    <2>1. PICK i \in DOMAIN scopes[s].table : m = scopes[s].table[i].node
      BY <1>2 DEF Table, ToSet
    <2> QED BY <1>1, <2>1, InContent
  <1>3. ASSUME NEW id, <<s, m, id>> \in Content(scopes) PROVE m \in Table(s)
    <2>1. PICK t \in 1..Len(scopes) : \E i \in DOMAIN scopes[t].table :
            <<s, m, id>> = <<t, scopes[t].table[i].node, scopes[t].table[i].id>>
      BY <1>1, <1>3, InContent
    <2>2. PICK i \in DOMAIN scopes[t].table :
            <<s, m, id>> = <<t, scopes[t].table[i].node, scopes[t].table[i].id>>
      BY <2>1
    <2> QED BY <2>2 DEF Table, ToSet
  <1> QED BY <1>2, <1>3

\* A name in the scope of the body of a structure is declared in that body.
LEMMA BodyDeclares ==
  ASSUME TreeInv, MarkedUnits, ScopeInv, OrderInv, Built, NEW b \in Below(1), b \in Openers(b),
         GetDataType(b) = "kClassBody", NEW d \in Defined, NEW m, NEW id,
         <<scope_id[b], m, id>> \in Maybe(d)
  PROVE  m \in Below(b) /\ b < m /\ Openers(m) = Openers(b)
  <1>1. d \in Below(1) /\ d \in IRs /\ GetDataType(d) \in Definitions BY BelowSelf DEF Defined
  <1>2. d # b BY <1>1 DEF Definitions
  <1>3. m \in DeclaredNames(d)
    <2> DEFINE e == <<scope_id[b], m, id>>
    <2>1. e \in Maybe(d) /\ e[2] = m OBVIOUS
    <2> HIDE DEF e
    <2>2. e[2] \in DeclaredNames(d) BY <2>1, MaybeNames
    <2> QED BY <2>1, <2>2
  <1>4. m \in Below(d) /\ m \in IRs BY <1>3, NamesBelow
  <1>5. CASE scope_id[b] = scope_id[d] /\ Openers(m) = Openers(d)
    <2>1. Openers(d) = Openers(b) BY <1>1, <1>5, SameScope
    <2>2. d \in Below(b) /\ b < d BY <1>1, <1>2, <2>1, InScopeOf
    <2>3. m # b /\ m \in Below(1)
      <3>1. b \in Nat /\ d \in Nat /\ d <= m /\ m \in Nat /\ m \in Below(1)
        BY <1>1, <1>4, BelowSelf
      <3> QED BY <2>2, <3>1
    <2>4. m \in Below(b) /\ b < m BY <1>5, <2>1, <2>3, InScopeOf
    <2> QED BY <1>5, <2>1, <2>4
  <1>6. CASE GetDataType(d) = "kVariableDefinition"
    <2>1. <<scope_id[b], m, id>> \in {<<scope_id[d], x, statement_id[x]>> : x \in Topmost(d, "kVariableName", {})}
      BY <1>6 DEF Maybe, Sure
    <2>2. PICK x \in Topmost(d, "kVariableName", {}) : <<scope_id[b], m, id>> = <<scope_id[d], x, statement_id[x]>>
      BY <2>1
    <2>3. scope_id[b] = scope_id[d] /\ m = x BY <2>2
    <2>4. GetDataType(m) = "kVariableName" BY <2>3 DEF Topmost
    <2>5. Openers(m) = Openers(d) BY <1>1, <1>4, <1>6, <2>4, VariableFacts
    <2> QED BY <1>5, <2>3, <2>5
  <1>7. CASE GetDataType(d) = "kClassDefinition"
    <2>1. <<scope_id[b], m, id>> = <<scope_id[d], d, statement_id[d]>> BY <1>7 DEF Maybe, Sure
    <2> QED BY <1>5, <2>1
  <1>8. CASE GetDataType(d) = "kFunctionDefinition"
    <2>1. CASE <<scope_id[b], m, id>> = <<scope_id[d], FunctionName(d), statement_id[FunctionName(d)]>>
      <3>1. scope_id[b] = scope_id[d] /\ m = FunctionName(d) BY <2>1
      <3>2. Openers(m) = Openers(d) BY <1>1, <1>8, <3>1, FunctionNameFacts
      <3> QED BY <1>5, <3>1, <3>2
    <2>2. CASE <<scope_id[b], m, id>> \in Sure(d)
      <3> DEFINE f == FunctionBody(d)
      <3>1. Bodies(d) # {} /\ \E a \in ArgumentIRs(d) : <<scope_id[b], m, id>> = <<scope_id[f], ArgumentName(a), statement_id[d]>>
        BY <1>8, <2>2 DEF Sure
      <3>2. scope_id[b] = scope_id[f] BY <3>1
      <3>3. f \in Below(d) /\ GetDataType(f) = "kFunctionBody" /\ f \in Openers(f)
        BY <1>1, <1>8, <3>1, FunctionBodyFacts
      <3>4. f \in Below(1) BY <1>1, <3>3, BelowSelf
      <3>5. Openers(f) = Openers(b) BY <3>2, <3>4, SameScope
      <3>6. f # b BY <3>3
      <3>7. b < f BY <3>4, <3>5, <3>6, InScopeOf
      <3>8. f < b
        <4>1. Openers(b) = Openers(f) BY <3>5
        <4> QED BY <3>3, <3>4, <3>6, <4>1, InScopeOf
      <3>9. f \in Nat /\ b \in Nat BY <3>4, BelowSelf
      <3> QED BY <3>7, <3>8, <3>9
    <2> QED BY <1>8, <2>1, <2>2 DEF Maybe
  <1> QED BY <1>1, <1>6, <1>7, <1>8 DEF Definitions

\* What a structure takes from its body's table as it is left are its own members.
LEMMA StructureMembers ==
  ASSUME TreeInv, MarkedUnits, ScopeInv, OrderInv, TableInv, pc = "collect",
         NEW c, work # <<>>, Head(work).do = "leave", Head(work).node = c
  PROVE  OwnMembers(c, Table(StructureScope(c)))
  <1> DEFINE b == search_by_data_type(c, "kClassBody", {})[1]
  <1>1. /\ work \in Seq(Work) /\ Ordered(work) /\ Head(work) = work[1] /\ work[1].node = c
        /\ c \in Below(1) /\ Built /\ ~TooLarge /\ GetDataType(c) = "kClassDefinition"
    BY CollectHead
  <1>2. /\ b \in Below(c) /\ b \in IRs /\ c < b /\ GetDataType(b) = "kClassBody"
        /\ Openers(b) = Openers(c) \cup {b} /\ b \notin Openers(c)
        /\ \A m \in Below(c) \ {c} : GetDataType(m) \in Definitions => m \in Below(b)
    BY <1>1, StructureFacts
  <1>3. StructureScope(c) = scope_id[b] BY DEF StructureScope
  <1> HIDE DEF b
  <1>4. b \in Below(1) /\ b \in Openers(b) /\ c \in Nat /\ b \in Nat BY <1>1, <1>2, BelowSelf
  <1>5. scope_id[b] \in 1..Len(scopes) BY <1>1, <1>4, ScopeOf
  <1>6. Opener(b) = b
    <2>1. Opener(b) \in Openers(b) /\ \A a \in Openers(b) : a \in Nat /\ a <= Opener(b)
      BY <1>1, <1>4, OpenerIs
    <2>2. \A a \in Openers(b) : a <= b
      <3>1. \A a \in Openers(b) : a = b \/ a \in Above(b) BY DEF Openers
      <3>2. \A a \in Above(b) : a \in Nat /\ a < b BY <1>2, <1>4, AboveIs
      <3> QED BY <1>4, <3>1, <3>2
    <2> QED BY <1>4, <2>1, <2>2
  <1>7. Opener(c) # b BY <1>1, <1>2, OpenerIs
  <1> DEFINE own == {n \in Below(c) : Openers(n) = Openers(c) \cup {Opener(n)}} \ {c}
  <1>8. ASSUME NEW m \in Table(StructureScope(c)) PROVE m \in own /\ Opener(m) # Opener(c)
    <2>1. PICK id : <<scope_id[b], m, id>> \in Content(scopes) BY <1>3, <1>5, TableIs
    <2>2. PICK d \in Defined : <<scope_id[b], m, id>> \in Maybe(d) BY <1>1, <2>1 DEF TableInv
    <2>3. m \in Below(b) /\ b < m /\ Openers(m) = Openers(b) BY <1>1, <1>2, <1>4, <2>2, BodyDeclares
    <2>4. Opener(m) = b BY <1>6, <2>3 DEF Opener
    <2>5. m \in Below(c) /\ m # c
      <3>1. /\ b <= root[c].last /\ b \in Below(c) /\ c \in IRs BY <1>1, <1>2, BelowSelf
      <3>2. root[b].last <= root[c].last /\ root[c].last \in Nat /\ root[b].last \in Nat
        <4>1. c <= b BY <1>2, <1>4
        <4>2. b <= b BY <1>4
        <4> QED BY <1>2, <3>1, <4>1, <4>2, Nesting
      <3>3. m \in Below(1) /\ b <= m /\ m <= root[b].last /\ m \in Nat
        BY <1>4, <2>3, BelowSelf
      <3>4. c <= m /\ m <= root[c].last /\ m # c BY <1>2, <1>4, <3>2, <3>3
      <3> QED BY <3>1, <3>3, <3>4, BelowIs
    <2> QED BY <1>2, <1>7, <2>3, <2>4, <2>5
  <1>9. ASSUME NEW n \in own, NEW d \in Defined, n \in Below(d), Openers(n) = Openers(d),
               NEW id, <<scope_id[d], n, id>> \in Sure(d), d \in Below(c), d # c
        PROVE  n \in Table(StructureScope(c))
    <2>1. d \in Below(b) /\ d \in Below(1)
      BY <1>2, <1>9 DEF Defined
    <2>2. b \in Openers(d)
      <3>1. b <= d /\ d <= root[b].last /\ d \in IRs /\ d \in Nat BY <1>4, <2>1, BelowSelf
      <3>2. d = b \/ b \in Above(d) BY <1>2, <1>4, <3>1, AboveIs
      <3>3. GetScopeType(b) # kScopeDefault BY <1>4 DEF Openers
      <3> QED BY <3>2, <3>3 DEF Openers
    <2>3. Openers(d) = Openers(b) BY <1>2, <1>9, <2>2
    <2>4. scope_id[d] = scope_id[b] BY <1>1, <1>4, <2>1, <2>3, SameScope
    <2>5. ~ToCome(work, d)
      <3>1. c < d /\ d <= root[c].last
        <4>1. c <= d /\ d <= root[c].last /\ d \in Nat BY <1>1, <1>9, BelowSelf
        <4> QED BY <1>4, <1>9, <4>1
      <3>2. work[1].do # "visit" BY <1>1
      <3> QED BY <1>1, <2>1, <3>1, <3>2, InsideCollected
    <2>6. <<scope_id[b], n, id>> \in Content(scopes) BY <1>1, <1>9, <2>4, <2>5 DEF TableInv
    <2> QED BY <1>3, <1>5, <2>6, TableIs
  <1>10. ASSUME NEW n \in own, n \in NamesIn("kVariableDefinition")
         PROVE  n \in Table(StructureScope(c))
    <2>1. PICK d \in OfType("kVariableDefinition") : n \in Topmost(d, "kVariableName", {})
      BY <1>10, NamesInIs
    <2>2. d \in Below(1) /\ GetDataType(d) = "kVariableDefinition" /\ d \in Defined /\ d \in IRs
      BY <2>1, BelowSelf DEF OfType, Defined, Definitions
    <2>3. n \in Below(d) /\ GetDataType(n) = "kVariableName" BY <2>1 DEF Topmost
    <2>4. Openers(n) = Openers(d) BY <2>2, <2>3, VariableFacts
    <2>5. <<scope_id[d], n, statement_id[n]>> \in Sure(d) BY <2>1, <2>2 DEF Sure
    <2>6. d # c BY <1>1, <2>2
    <2>7. d \in Below(c)
      <3>1. c \in IRs /\ d \in Nat /\ root[c].last \in Nat /\ root[d].last \in Nat /\ n \in IRs
            /\ c <= n /\ n <= root[c].last /\ d <= n /\ n <= root[d].last
            /\ c <= root[c].last
        BY <1>1, <1>10, <2>2, <2>3, BelowSelf
      <3>2. CASE c <= d
        <4>1. d <= root[c].last BY <2>2, <3>1, <3>2, Nesting
        <4> QED BY <2>2, <3>1, <3>2, <4>1, BelowIs
      <3>3. CASE d < c
        <4>1. d <= c BY <1>4, <3>1, <3>3
        <4>2. c <= root[d].last BY <2>2, <3>1, <4>1, Nesting
        <4>3. c \in Below(d) BY <1>1, <2>2, <4>1, <4>2, BelowIs
        <4> QED BY <1>1, <2>2, <2>6, <4>3, VariableFacts DEF Definitions
      <3> QED BY <1>4, <3>1, <3>2, <3>3
    <2> QED BY <1>9, <2>2, <2>3, <2>4, <2>5, <2>6, <2>7
  <1>11. ASSUME NEW n \in own, n \in OfType("kClassDefinition")
         PROVE  n \in Table(StructureScope(c))
    <2>1. n \in Below(1) /\ GetDataType(n) = "kClassDefinition" /\ n \in Defined /\ n \in Below(n)
      BY <1>11, BelowSelf DEF OfType, Defined, Definitions
    <2>2. <<scope_id[n], n, statement_id[n]>> \in Sure(n) BY <2>1 DEF Sure
    <2>3. n \in Below(c) /\ n # c BY <1>11
    <2> QED BY <1>9, <2>1, <2>2, <2>3
  <1> QED BY <1>8, <1>10, <1>11 DEF OwnMembers

\* A step whose new compound types, if any, have their own members.
LEMMA SameMembers ==
  ASSUME MembersAreOwn, UNCHANGED <<root, marked>>,
         \A t \in types' : t.kind = "compound" => t \in types \/ OwnMembers(t.at, t.members)
  PROVE  MembersAreOwn'
  <1>1. \A c, M : OwnMembers(c, M)' <=> OwnMembers(c, M)
    <2>1. \A n : Below(n)' = Below(n) /\ Openers(n)' = Openers(n) /\ Opener(n)' = Opener(n)
      BY DEF Below, Openers, Above, GetScopeType, Opener
    <2>2. \A n : GetDataType(n)' = GetDataType(n) /\ Above(n)' = Above(n)
      BY DEF GetDataType, Above
    <2>3. \A dt : OfType(dt)' = OfType(dt) BY <2>1, <2>2 DEF OfType
    <2>4. \A n, dt : search_by_data_type(n, dt, {})' = search_by_data_type(n, dt, {})
      BY DEF search_by_data_type, Topmost, Below, Above, GetDataType, InOrder
    <2>5. NamesIn("kVariableDefinition")' = NamesIn("kVariableDefinition")
      BY <2>3, <2>4 DEF NamesIn
    <2> QED BY <2>1, <2>3, <2>5 DEF OwnMembers
  <1>2. \A t \in types : t.kind = "compound" => OwnMembers(t.at, t.members)
    BY DEF MembersAreOwn, OwnMembers
  <1>3. (\A t \in types : t.kind = "compound" => OwnMembers(t.at, t.members))' BY <1>1, <1>2
  <1> QED BY <1>3 DEF MembersAreOwn, OwnMembers

CollectInv == OrderInv /\ MarkInv /\ IdInv /\ TableInv /\ MembersAreOwn

\* The invariant of the collection holds in the beginning,
LEMMA InitCollect == Init => CollectInv
  <1> SUFFICES ASSUME Init PROVE CollectInv OBVIOUS
  <1>1. pc = "mark" /\ scopes = <<>> /\ types = {} BY DEF Init, InitTree
  <1>2. ~Built BY <1>1 DEF Built
  <1>3. Len(scopes) = 0 /\ DOMAIN scopes = {} /\ 1..0 = {} BY <1>1
  <1>4. OrderInv BY <1>1, <1>3 DEF OrderInv
  <1>5. Tabled(scopes) /\ Single(scopes) /\ Content(scopes) = {}
    BY <1>3 DEF Tabled, Single, Content
  <1>6. TableInv BY <1>1, <1>2, <1>5 DEF TableInv
  <1>7. MembersAreOwn BY <1>1 DEF MembersAreOwn
  <1> QED BY <1>4, <1>6, <1>7, InitMarks, InitIds DEF CollectInv

\* every step of the walks keeps it,
LEMMA CollectingStep ==
  ASSUME IInv, CollectInv, IInv', BuildScopeTreeWithSymbolTable
  PROVE  OrderInv' /\ TableInv' /\ MembersAreOwn'
  <1> USE DEF IInv, CollectInv
  <1>1. UNCHANGED <<root, marked>> /\ MarkedUnits BY BuildStep, MarkedAreUnits
  <1>2. ASSUME \A t \in types' : t \in types \/ t.kind = "function" PROVE MembersAreOwn'
    <2>1. \A t \in types' : t.kind = "compound" => t \in types BY <1>2
    <2> QED BY <1>1, <2>1, SameMembers
  <1>3. CASE StartBuild
    <2>1. ~Built /\ ~Built' /\ UNCHANGED <<scopes, types>> BY <1>3 DEF StartBuild, Built
    <2> QED BY <1>2, <1>3, <2>1, StartOrder, UnbuiltTable
  <1>4. CASE EnterScope BY <1>2, <1>4, EnterOrder, EnterTable
  <1>5. CASE SetScopeID
    <2>1. ~Built /\ ~Built' /\ UNCHANGED <<scopes, types>> BY <1>5 DEF SetScopeID, NextIs, Built
    <2> QED BY <1>2, <1>5, <2>1, SetScopeOrder, UnbuiltTable
  <1>6. CASE ExitScope
    <2>1. ~Built /\ ~Built' /\ UNCHANGED <<scopes, types>> BY <1>6 DEF ExitScope, NextIs, Built
    <2> QED BY <1>2, <1>6, <2>1, ExitOrder, UnbuiltTable
  <1>7. CASE StartCollect BY <1>2, <1>7, StartOrder, StartCollectTable
  <1>8. CASE CollectBelow BY <1>2, <1>8, BelowTable
  <1>9. CASE CollectSimpleVariableDefinition BY <1>1, <1>2, <1>9, VariableTable
  <1>10. CASE TypeNotExist \/ ArgumentTypeNotExist
    <2>1. /\ pc = "collect" /\ pc' \in {"assert", "crash"}
          /\ UNCHANGED <<scope_id, statement_id, scopes, work, types>>
      BY <1>10 DEF TypeNotExist, ArgumentTypeNotExist, NextIs, tree
    <2>2. Built /\ Built' BY <2>1 DEF Built
    <2>3. TableInv' BY <1>1, <2>1, <2>2, BuiltTable
    <2>4. OrderInv' BY <2>1, QuietOrder
    <2> QED BY <1>2, <2>1, <2>3, <2>4
  <1>11. CASE CollectStructureBody BY <1>1, <1>2, <1>11, BodyTable
  <1>12. CASE CollectStructureDefinition
    <2> DEFINE c == Head(work).node
    <2>1. pc = "collect" /\ work # <<>> /\ Head(work).do = "leave"
      BY <1>12 DEF CollectStructureDefinition, NextIs
    <2>2. \A t \in types' : t \in types \/ (t.at = c /\ t.members = Table(StructureScope(c)))
      <3> DEFINE r == [kind |-> "compound", at |-> c,
                       members |-> {d.node : d \in ToSet(scopes[StructureScope(c)].table)},
                       word |-> GetString(search_by_data_type(c, "kClassName", {})[1])]
      <3>1. types' = types \cup {r} BY Zenon, <1>12 DEF CollectStructureDefinition
      <3>2. r.at = c /\ r.members = Table(StructureScope(c)) BY DEF Table
      <3> HIDE DEF r, c
      <3> SUFFICES ASSUME NEW t \in types', t \notin types
                   PROVE  t.at = c /\ t.members = Table(StructureScope(c))
        OBVIOUS
      <3>3. t = r BY <3>1
      <3> QED BY <3>2, <3>3
    <2> HIDE DEF c
    <2>3. OwnMembers(c, Table(StructureScope(c))) BY <1>1, <2>1, StructureMembers DEF c
    <2>4. \A t \in types' : t.kind = "compound" => t \in types \/ OwnMembers(t.at, t.members)
      BY <2>2, <2>3
    <2> QED BY <1>1, <1>12, <2>4, SameMembers, StructureTable
  <1>13. CASE CollectFunctionDefinition BY <1>1, <1>2, <1>13, FunctionTable
  <1> QED BY <1>3, <1>4, <1>5, <1>6, <1>7, <1>8, <1>9, <1>10, <1>11, <1>12, <1>13
          DEF BuildScopeTreeWithSymbolTable, ScopeTreeNext

\* and so does every step.
LEMMA NextCollect == IInv /\ IInv' /\ CollectInv /\ [Next]_vars => CollectInv'
  <1> SUFFICES ASSUME IInv, IInv', CollectInv, [Next]_vars PROVE CollectInv' OBVIOUS
  <1> USE DEF CollectInv
  <1>1. CASE MarkFixMe
    <2>1. pc = "mark" /\ pc' = "build" /\ UNCHANGED <<root, source, statement_id, scopes, types>>
      BY <1>1 DEF MarkFixMe, scopeTree
    <2>2. ~Built /\ ~Built' BY <2>1 DEF Built
    <2>3. types' = {} BY <2>1, <2>2 DEF TableInv
    <2>4. MembersAreOwn' BY <2>3 DEF MembersAreOwn
    <2>5. MarkInv' BY <1>1, MarkFixMeMarks DEF IInv
    <2>6. OrderInv' BY <2>1, QuietOrder
    <2> QED BY <2>1, <2>2, <2>4, <2>5, <2>6, SameIds, UnbuiltTable
  <1>2. CASE BuildScopeTreeWithSymbolTable
    <2>1. /\ UNCHANGED <<root, source, statement_id, marked>>
          /\ pc # "mark" /\ pc' # "mark"
      BY <1>2, BuildStep
    <2> QED BY <1>2, <2>1, CollectingStep, SameMarks, SameIds
  <1>3. CASE SelectFixStrategy \/ ApplyFix \/ Return
    <2>1. /\ UNCHANGED <<root, source, statement_id, marked, scope_id, scopes, types, work>>
          /\ pc # "mark" /\ pc' \in {"fix", "done"}
      BY <1>3 DEF SelectFixStrategy, ApplyFix, Return, tree, scopeTree
    <2>2. Built /\ Built' BY <1>3, <2>1 DEF SelectFixStrategy, ApplyFix, Return, Built
    <2>3. work = <<>> BY <1>3, <2>2 DEF SelectFixStrategy, ApplyFix, Return, TableInv
    <2>4. TableInv' BY <2>1, <2>2, <2>3, BuiltTable
    <2>5. OrderInv' BY <2>1, QuietOrder
    <2>6. MembersAreOwn' BY <2>1, SameMembers
    <2> QED BY <2>1, <2>4, <2>5, <2>6, SameMarks, SameIds
  <1>4. CASE UNCHANGED vars
    <2>1. UNCHANGED <<pc, root, source, statement_id, marked, scope_id, scopes, types, work>>
      BY <1>4 DEF vars, tree
    <2>2. TableInv'
      <3>1. CASE ~Built
        <4>1. ~Built' BY <2>1, <3>1 DEF Built
        <4> QED BY <2>1, <3>1, <4>1, UnbuiltTable
      <3>2. CASE Built
        <4>1. Built' BY <2>1, <3>2 DEF Built
        <4> QED BY <2>1, <3>2, <4>1, BuiltTable DEF TableInv
      <3> QED BY <3>1, <3>2
    <2>3. OrderInv'
      <3>1. Work' = Work /\ (Ordered(work') => Ordered(work)') /\ Below(1)' = Below(1)
            /\ \A n : GetDataType(n)' = GetDataType(n)
        BY <2>1, SameOrder
      <3> QED BY <2>1, <3>1 DEF OrderInv
    <2>4. MembersAreOwn' BY <2>1, SameMembers
    <2> QED BY <2>1, <2>2, <2>3, <2>4, SameMarks, SameIds
  <1> QED BY <1>1, <1>2, <1>3, <1>4 DEF Next

(***************************************************************************)
(* The symbol tables hold what the IRs collected so far declare, each once *)
(* and with the scope and the statement id it should have, while the rest  *)
(* of the program is still on the list of the traversal; the IRs marked    *)
(* are the fix units with a FIXME in them.                                 *)
(***************************************************************************)
THEOREM ValidatorCollects == Spec => []CollectInv
  <1>1. Init => CollectInv BY InitCollect
  <1>2. IInv /\ IInv' /\ CollectInv /\ [Next]_vars => CollectInv' BY NextCollect
  <1> QED BY <1>1, <1>2, ValidatorInvariant, PTL DEF Spec

(***************************************************************************)
(* The members of a structure are the names its body defines               *)
(* (CollectStructureDefinition), in every program.                         *)
(***************************************************************************)
THEOREM ValidatorMembers == Spec => []MembersAreOwn
  <1>1. CollectInv => MembersAreOwn BY DEF CollectInv
  <1> QED BY <1>1, ValidatorCollects, PTL

-----------------------------------------------------------------------------
(***************************************************************************)
(* EachDefinedOnce: in the end nothing is still to come.                   *)
(***************************************************************************)
LEMMA OncePlace ==
  ASSUME ScopeInv, TableInv, NEW s, NEW n, NEW id, <<s, n, id>> \in Content(scopes)
  PROVE  DefinedOnceIn(n, scopes[s].opener)
  <1>1. Shaped(scopes) /\ Tabled(scopes) /\ Single(scopes) BY DEF ScopeInv, TableInv
  <1>2. DOMAIN scopes = 1..Len(scopes) BY <1>1, LenProperties DEF Shaped
  <1>3. PICK t \in 1..Len(scopes) : \E i \in DOMAIN scopes[t].table :
          <<s, n, id>> = <<t, scopes[t].table[i].node, scopes[t].table[i].id>>
    BY <1>1, InContent
  <1>4. PICK i \in DOMAIN scopes[t].table :
          <<s, n, id>> = <<t, scopes[t].table[i].node, scopes[t].table[i].id>>
    BY <1>3
  <1>5. s = t /\ n = scopes[t].table[i].node BY <1>4
  <1>6. <<t, i>> \in Places(n) BY <1>2, <1>5 DEF Places
  <1>7. ASSUME NEW p \in Places(n) PROVE p = <<t, i>>
    <2>1. PICK u \in 1..Len(scopes) :
            p \in {u} \X {j \in DOMAIN scopes[u].table : scopes[u].table[j].node = n}
      BY <1>2 DEF Places
    <2>2. p = <<p[1], p[2]>> /\ p[1] = u /\ p[2] \in DOMAIN scopes[u].table
          /\ scopes[u].table[p[2]].node = n
      BY <2>1
    <2>3. u = t /\ p[2] = i BY <1>1, <1>5, <2>2 DEF Single
    <2> QED BY <2>2, <2>3
  <1>8. Places(n) = {<<t, i>>} BY <1>6, <1>7
  <1>9. <<t, i>>[1] = s BY <1>5
  <1> QED BY <1>6, <1>8, <1>9 DEF DefinedOnceIn

\* A function body opens its own scope.
LEMMA OpenerOfOpener ==
  ASSUME TreeInv, ScopeInv, Built, NEW b \in Below(1), b \in Openers(b)
  PROVE  scopes[scope_id[b]].opener = b
  <1>1. /\ Opener(b) = scopes[scope_id[b]].opener /\ Opener(b) \in Openers(b)
        /\ \A a \in Openers(b) : a \in Nat /\ a <= Opener(b)
    BY OpenerIs
  <1>2. b \in IRs /\ b \in Nat BY BelowSelf
  <1>3. \A a \in Openers(b) : a = b \/ (a \in Nat /\ a < b) BY <1>2, AboveIs DEF Openers
  <1> QED BY <1>1, <1>2, <1>3

\* The first body inside a function is the one the collection takes.
LEMMA BodiesOf ==
  ASSUME TreeInv, MarkedUnits, NEW f \in OfType("kFunctionDefinition")
  PROVE  LET bodies == {b \in OfType("kFunctionBody") : f \in Above(b)}
         IN /\ bodies = {} <=> Bodies(f) = {}
            /\ bodies # {} => Min(bodies) = FunctionBody(f)
  <1> DEFINE bodies == {b \in OfType("kFunctionBody") : f \in Above(b)}
             F == FunctionBody(f)
  <1>1. f \in Below(1) /\ GetDataType(f) = "kFunctionDefinition" /\ f \in IRs
    BY BelowSelf DEF OfType
  <1>2. ASSUME NEW b \in bodies PROVE Bodies(f) # {} /\ F <= b /\ b \in Nat
    <2>1. b \in Below(1) /\ GetDataType(b) = "kFunctionBody" /\ f \in Above(b) BY <1>2 DEF OfType
    <2>2. b \in IRs /\ b \in Nat /\ f < b /\ b <= root[f].last /\ f \in Nat
      BY <1>1, <2>1, BelowSelf, AboveIs
    <2>3. f <= b /\ b # f BY <2>2
    <2>4. b \in Below(f) \ {f} BY <1>1, <2>1, <2>2, <2>3, AroundSeen
    <2> QED BY <1>1, <2>1, <2>2, <2>4, FunctionBodyFacts
  <1>3. ASSUME Bodies(f) # {} PROVE F \in bodies /\ F \in Nat
    <2>1. F \in Below(f) /\ F \in IRs /\ f < F /\ GetDataType(F) = "kFunctionBody"
      BY <1>1, <1>3, FunctionBodyFacts
    <2>2. F \in Below(1) /\ F <= root[f].last /\ F \in Nat BY <1>1, <2>1, BelowSelf, AboveIs
    <2>3. f \in Above(F) BY <1>1, <2>1, <2>2, AboveIs
    <2> QED BY <2>1, <2>2, <2>3 DEF OfType
  <1> HIDE DEF bodies, F
  <1>4. ASSUME bodies # {} PROVE Min(bodies) = F
    <2>1. F \in bodies /\ F \in Nat /\ \A b \in bodies : F <= b /\ b \in Nat BY <1>2, <1>3, <1>4
    <2>2. Min(bodies) = CHOOSE x \in bodies : \A y \in bodies : x <= y BY DEF Min
    <2>3. Min(bodies) \in bodies /\ \A y \in bodies : Min(bodies) <= y BY <2>1, <2>2
    <2>4. Min(bodies) <= F /\ F <= Min(bodies) /\ Min(bodies) \in Nat BY <2>1, <2>3
    <2> QED BY <2>1, <2>4
  <1> QED BY <1>2, <1>3, <1>4 DEF bodies, F

\* The tables' invariant, after the last definition is collected, says that each is there once.
LEMMA DefinedOnce ==
  ASSUME IInv, CollectInv
  PROVE  EachDefinedOnce
  <1> SUFFICES ASSUME Collected, ~TooLarge
               PROVE  /\ \A n \in NamesIn("kVariableDefinition") \cup OfType("kClassDefinition") :
                           DefinedOnceIn(n, Opener(n))
                      /\ \A f \in OfType("kFunctionDefinition") : \A a \in ToSet(Arguments(f)) :
                           LET bodies == {b \in OfType("kFunctionBody") : f \in Above(b)}
                           IN IF bodies = {} THEN Places(ArgumentName(a)) = {}
                              ELSE DefinedOnceIn(ArgumentName(a), Min(bodies))
    BY DEF EachDefinedOnce
  <1>1. TreeInv /\ ScopeInv /\ OrderInv /\ TableInv /\ MarkedUnits
    BY MarkedAreUnits DEF IInv, CollectInv
  <1>2. Built /\ work = <<>>
    <2>1. Built BY DEF Collected, Built
    <2> QED BY <1>1, <2>1 DEF TableInv, Collected
  <1>3. \A d : ~ToCome(work, d) BY <1>2 DEF ToCome
  <1>4. \A d \in Defined : Sure(d) \subseteq Content(scopes) BY <1>1, <1>2, <1>3 DEF TableInv
  <1>5. ASSUME NEW n \in NamesIn("kVariableDefinition") PROVE DefinedOnceIn(n, Opener(n))
    <2>1. PICK d \in OfType("kVariableDefinition") : n \in Topmost(d, "kVariableName", {})
      BY <1>1, NamesInIs
    <2>2. d \in Below(1) /\ GetDataType(d) = "kVariableDefinition" /\ d \in Defined
      BY DEF OfType, Defined, Definitions
    <2>3. n \in Below(d) /\ GetDataType(n) = "kVariableName" BY <2>1 DEF Topmost
    <2>4. Openers(n) = Openers(d) BY <1>1, <2>2, <2>3, VariableFacts
    <2>5. <<scope_id[d], n, statement_id[n]>> \in Content(scopes)
      BY <1>4, <2>1, <2>2 DEF Sure
    <2>6. scopes[scope_id[d]].opener = Opener(n)
      <3>1. Opener(d) = Opener(n) BY <2>4 DEF Opener
      <3> QED BY <1>1, <1>2, <2>2, <3>1, OpenerIs
    <2>7. DefinedOnceIn(n, scopes[scope_id[d]].opener) BY <1>1, <2>5, OncePlace
    <2> QED BY <2>6, <2>7
  <1>6. ASSUME NEW n \in OfType("kClassDefinition") PROVE DefinedOnceIn(n, Opener(n))
    <2>1. n \in Below(1) /\ GetDataType(n) = "kClassDefinition" /\ n \in Defined
      BY DEF OfType, Defined, Definitions
    <2>2. <<scope_id[n], n, statement_id[n]>> \in Content(scopes) BY <1>4, <2>1 DEF Sure
    <2>3. DefinedOnceIn(n, scopes[scope_id[n]].opener) BY <1>1, <2>2, OncePlace
    <2> QED BY <1>1, <1>2, <2>1, <2>3, OpenerIs
  <1>7. ASSUME NEW f \in OfType("kFunctionDefinition"), NEW a \in ToSet(Arguments(f))
        PROVE  LET bodies == {b \in OfType("kFunctionBody") : f \in Above(b)}
               IN IF bodies = {} THEN Places(ArgumentName(a)) = {}
                  ELSE DefinedOnceIn(ArgumentName(a), Min(bodies))
    <2> DEFINE bodies == {b \in OfType("kFunctionBody") : f \in Above(b)}
               x == ArgumentName(a)
    <2>1. f \in Below(1) /\ GetDataType(f) = "kFunctionDefinition" /\ f \in Defined /\ f \in IRs
      BY <1>1, BelowSelf DEF OfType, Defined, Definitions
    <2>2. a \in ArgumentIRs(f) BY <1>1, <2>1, SearchFacts DEF Arguments, ArgumentIRs
    <2>3. GetDataType(x) = "kVariableName" BY <1>1, <2>1, <2>2, ArgumentFacts
    <2>4. /\ bodies = {} <=> Bodies(f) = {}
          /\ bodies # {} => Min(bodies) = FunctionBody(f)
      BY <1>1, BodiesOf
    <2> HIDE DEF bodies
    <2>5. ASSUME bodies = {} PROVE Places(x) = {}
      <3> SUFFICES ASSUME NEW p \in Places(x) PROVE FALSE OBVIOUS
      <3>1. Shaped(scopes) /\ Tabled(scopes) BY <1>1 DEF ScopeInv, TableInv
      <3>2. DOMAIN scopes = 1..Len(scopes) BY <3>1, LenProperties DEF Shaped
      <3>3. PICK u \in 1..Len(scopes) :
              p \in {u} \X {j \in DOMAIN scopes[u].table : scopes[u].table[j].node = x}
        BY <3>2 DEF Places
      <3>4. p[2] \in DOMAIN scopes[u].table /\ scopes[u].table[p[2]].node = x BY <3>3
      <3> DEFINE e == <<u, scopes[u].table[p[2]].node, scopes[u].table[p[2]].id>>
      <3>5. e \in Content(scopes) /\ e[2] = x BY <3>1, <3>4, InContent
      <3> HIDE DEF e, x
      <3>6. PICK d \in Defined : e \in Maybe(d) BY <1>1, <1>2, <3>5 DEF TableInv
      <3>7. x \in DeclaredNames(d) BY <3>5, <3>6, MaybeNames
      <3>8. x \in DeclaredNames(f) BY <2>1, <2>2 DEF DeclaredNames, x
      <3>9. d = f BY <1>1, <2>1, <3>7, <3>8, OwnersApart
      <3>10. e = <<scope_id[f], FunctionName(f), statement_id[FunctionName(f)]>>
        BY <2>1, <2>4, <2>5, <3>6, <3>9 DEF Maybe, Sure
      <3>11. x = FunctionName(f) BY <3>5, <3>10
      <3>12. GetDataType(FunctionName(f)) = "kFunctionName" BY <1>1, <2>1, FunctionNameFacts
      <3> QED BY <2>3, <3>11, <3>12
    <2>6. ASSUME bodies # {} PROVE DefinedOnceIn(x, Min(bodies))
      <3> DEFINE F == FunctionBody(f)
      <3>1. Bodies(f) # {} /\ Min(bodies) = F BY <2>4, <2>6
      <3>2. <<scope_id[F], x, statement_id[f]>> \in Sure(f) BY <2>1, <2>2, <3>1 DEF Sure
      <3>3. <<scope_id[F], x, statement_id[f]>> \in Content(scopes) BY <1>4, <2>1, <3>2
      <3>4. DefinedOnceIn(x, scopes[scope_id[F]].opener) BY <1>1, <3>3, OncePlace
      <3>5. F \in Below(f) /\ F \in Openers(F) BY <1>1, <2>1, <3>1, FunctionBodyFacts
      <3>6. F \in Below(1) BY <1>1, <2>1, <3>5, BelowSelf
      <3>7. scopes[scope_id[F]].opener = F BY <1>1, <1>2, <3>5, <3>6, OpenerOfOpener
      <3> QED BY <3>1, <3>4, <3>7
    <2> QED BY <2>5, <2>6 DEF bodies
  <1> QED BY <1>5, <1>6, <1>7

(***************************************************************************)
(* Every variable, structure and argument of every program is defined      *)
(* exactly once and in the scope it belongs to, whatever the order in      *)
(* which the bodies are visited (BuildSymbolTables).                       *)
(***************************************************************************)
THEOREM ValidatorDefinesOnce == Spec => []EachDefinedOnce
  <1>1. IInv /\ CollectInv => EachDefinedOnce BY DefinedOnce
  <1> QED BY <1>1, ValidatorInvariant, ValidatorCollects, PTL

-----------------------------------------------------------------------------
(***************************************************************************)
(* LexicalScoping: the scopes.                                             *)
(***************************************************************************)
LEMMA ChainThrough ==
  ASSUME NEW ss, Shaped(ss)
  PROVE  \A s \in 0..Len(ss) : \A t \in ChainIn(ss, s) : ChainIn(ss, t) \subseteq ChainIn(ss, s)
  <1> DEFINE P(s) == \A t \in ChainIn(ss, s) : ChainIn(ss, t) \subseteq ChainIn(ss, s)
             G == {s \in Nat : P(s)}
  <1>0. Len(ss) \in Nat BY LenProperties DEF Shaped
  <1>1. ASSUME NEW s \in 0..Len(ss), \A t \in 0..(s - 1) : t \in G PROVE s \in G
    <2>1. CASE s = 0 BY <2>1, ChainEquation
    <2>2. CASE s # 0
      <3>1. s \in 1..Len(ss) /\ s \in Nat BY <1>0, <2>2
      <3>2. ss[s].parent \in 0..(s - 1) BY <3>1 DEF Shaped
      <3>3. ChainIn(ss, s) = {s} \cup ChainIn(ss, ss[s].parent) BY <3>1, ChainEquation
      <3>4. P(ss[s].parent) BY <1>1, <3>2
      <3>5. P(s) BY <3>3, <3>4
      <3> QED BY <3>1, <3>5
    <2> QED BY <2>1, <2>2
  <1>2. \A s \in 0..Len(ss) : s \in G
    <2> HIDE DEF G
    <2> QED BY <1>0, <1>1, StrongInduction
  <1> QED BY <1>2

\* The scope of d is around that of e when what is around d is around e.
LEMMA ChainIff ==
  ASSUME TreeInv, ScopeInv, OrderInv, Built, NEW d \in Below(1), NEW e \in Below(1)
  PROVE  scope_id[d] \in ChainIn(scopes, scope_id[e]) <=> Openers(d) \subseteq Openers(e)
  <1> DEFINE s == scope_id[d]
             t == scope_id[e]
  <1>1. /\ s \in 1..Len(scopes) /\ Opened(scopes, s) = Openers(d)
        /\ t \in 1..Len(scopes) /\ Opened(scopes, t) = Openers(e)
        /\ Len(scopes) \in Nat
    BY ScopeOf
  <1>2. Shaped(scopes) BY DEF ScopeInv
  <1>3. ASSUME s \in ChainIn(scopes, t) PROVE Openers(d) \subseteq Openers(e)
    <2>1. t \in 0..Len(scopes) BY <1>1
    <2>2. ChainIn(scopes, s) \subseteq ChainIn(scopes, t) BY <1>2, <1>3, <2>1, ChainThrough
    <2> QED BY <1>1, <2>2 DEF Opened
  <1>4. ASSUME Openers(d) \subseteq Openers(e) PROVE s \in ChainIn(scopes, t)
    <2>1. Opener(d) = scopes[s].opener /\ Opener(d) \in Openers(d) /\ Opener(d) \in Nat
      BY OpenerIs
    <2>2. scopes[s].opener \in Opened(scopes, t) BY <1>1, <1>4, <2>1
    <2>3. PICK r \in ChainIn(scopes, t) : scopes[r].opener = scopes[s].opener BY <2>2 DEF Opened
    <2>4. r \in 1..Len(scopes)
      <3>1. ChainIn(scopes, t) \subseteq 1..t
        <4>1. t \in 0..Len(scopes) /\ Len(scopes) <= Len(scopes) BY <1>1
        <4> QED BY <1>2, <4>1, SameChain
      <3> QED BY <1>1, <2>3, <3>1
    <2>5. ~(r < s) /\ ~(s < r) BY <1>1, <2>1, <2>3, <2>4 DEF OrderInv
    <2>6. r = s BY <1>1, <2>4, <2>5
    <2> QED BY <2>3, <2>6
  <1> QED BY <1>3, <1>4

\* The order of the statement ids of a translation: children before their parent.
LEMMA PostOrder ==
  ASSUME TreeInv, NEW x \in IRs, NEW n \in IRs, x # n, ~(n < x /\ x <= root[n].last)
  PROVE  /\ Cardinality(MadeBefore(x)) < Cardinality(MadeBefore(n)) <=> root[x].last < n
         /\ Cardinality(MadeBefore(x)) \in Nat /\ Cardinality(MadeBefore(n)) \in Nat
         /\ Cardinality(MadeBefore(x)) < Len(root) /\ Len(root) \in Nat
  <1>1. /\ IsFiniteSet(IRs) /\ IRs = 1..Len(root) /\ Len(root) \in Nat
        /\ \A m \in IRs : m \in Nat /\ root[m].last \in Nat /\ m <= root[m].last
        /\ \A a \in IRs : \A m \in IRs : a <= m /\ m <= root[a].last => root[m].last <= root[a].last
    <2>1. \A m \in IRs : m \in Nat /\ root[m].last \in m..Len(root) BY TreeFacts
    <2>2. \A a \in IRs : \A m \in a..root[a].last : root[m].last <= root[a].last BY TreeFacts
    <2> QED BY <2>1, <2>2, TreeFacts
  <1>2. /\ \A m \in IRs : m \in MadeBefore(x) <=> root[m].last < x \/ (x < m /\ m <= root[x].last)
        /\ \A m \in IRs : m \in MadeBefore(n) <=> root[m].last < n \/ (n < m /\ m <= root[n].last)
        /\ MadeBefore(x) \subseteq IRs /\ MadeBefore(n) \subseteq IRs
    BY DEF MadeBefore
  <1>3. /\ IsFiniteSet(MadeBefore(x)) /\ IsFiniteSet(MadeBefore(n))
        /\ Cardinality(MadeBefore(x)) \in Nat /\ Cardinality(MadeBefore(n)) \in Nat
    BY <1>1, <1>2, FS_Subset, FS_CardinalityType
  <1>4. Cardinality(MadeBefore(x)) < Len(root)
    <2>1. MadeBefore(x) # IRs BY <1>1, <1>2
    <2>2. Cardinality(IRs) = Len(root)
      <3>1. 1 \in Int /\ Len(root) \in Int BY <1>1
      <3>2. Cardinality(1..Len(root)) = IF 1 > Len(root) THEN 0 ELSE Len(root) - 1 + 1
        BY <3>1, FS_Interval
      <3> QED BY <1>1, <3>2
    <2>3. Cardinality(MadeBefore(x)) <= Cardinality(IRs)
          /\ (Cardinality(IRs) = Cardinality(MadeBefore(x)) => IRs = MadeBefore(x))
      BY <1>1, <1>2, FS_Subset
    <2> QED BY <1>1, <1>3, <2>1, <2>2, <2>3
  <1>5. ASSUME root[x].last < n
        PROVE  Cardinality(MadeBefore(x)) < Cardinality(MadeBefore(n))
    <2>1. ASSUME NEW m \in MadeBefore(x) PROVE m \in MadeBefore(n)
      <3>1. m \in IRs BY <1>2
      <3>2. CASE root[m].last < x BY <1>1, <1>2, <1>5, <3>1, <3>2
      <3>3. CASE x < m /\ m <= root[x].last
        <4>1. root[m].last <= root[x].last BY <1>1, <3>1, <3>3
        <4> QED BY <1>1, <1>2, <1>5, <3>1, <4>1
      <3> QED BY <1>2, <3>1, <3>2, <3>3
    <2>2. x \in MadeBefore(n) /\ x \notin MadeBefore(x) BY <1>1, <1>2, <1>5
    <2>3. MadeBefore(x) \in SUBSET MadeBefore(n) /\ MadeBefore(n) # MadeBefore(x) BY <2>1, <2>2
    <2>4. Cardinality(MadeBefore(x)) <= Cardinality(MadeBefore(n))
          /\ (Cardinality(MadeBefore(n)) = Cardinality(MadeBefore(x)) => MadeBefore(n) = MadeBefore(x))
      BY <1>3, <2>3, FS_Subset
    <2> QED BY <1>3, <2>3, <2>4
  <1>6. ASSUME ~(root[x].last < n)
        PROVE  ~(Cardinality(MadeBefore(x)) < Cardinality(MadeBefore(n)))
    <2>1. ASSUME NEW m \in MadeBefore(n) PROVE m \in MadeBefore(x)
      <3>1. m \in IRs BY <1>2
      <3>2. CASE x < n
        <4>1. root[n].last <= root[x].last BY <1>1, <1>6, <3>2
        <4>2. CASE n < m /\ m <= root[n].last BY <1>1, <1>2, <3>1, <3>2, <4>1, <4>2
        <4>3. CASE root[m].last < n
          <5>1. CASE x < m BY <1>1, <1>2, <1>6, <3>1, <4>3, <5>1
          <5>2. CASE m = x BY <1>6, <4>3, <5>2
          <5>3. CASE m < x
            <6>1. x <= root[m].last => root[x].last <= root[m].last BY <1>1, <3>1, <5>3
            <6> QED BY <1>1, <1>2, <1>6, <3>1, <4>3, <6>1
          <5> QED BY <1>1, <3>1, <5>1, <5>2, <5>3
        <4> QED BY <1>2, <3>1, <4>2, <4>3
      <3>3. CASE n < x
        <4>1. root[n].last < x BY <1>1, <3>3
        <4>2. n < m /\ m <= root[n].last => root[m].last <= root[n].last BY <1>1, <3>1
        <4> QED BY <1>1, <1>2, <3>1, <3>3, <4>1, <4>2
      <3> QED BY <1>1, <3>2, <3>3
    <2>2. MadeBefore(n) \in SUBSET MadeBefore(x) BY <2>1
    <2>3. Cardinality(MadeBefore(n)) <= Cardinality(MadeBefore(x)) BY <1>3, <2>2, FS_Subset
    <2> QED BY <1>3, <2>3
  <1> QED BY <1>1, <1>3, <1>4, <1>5, <1>6

-----------------------------------------------------------------------------
(***************************************************************************)
(* LexicalScoping: the FIXMEs, the text that is left, and what is visible. *)
(***************************************************************************)
LEMMA FixmeFacts ==
  ASSUME TreeInv, MarkInv, pc # "mark", NEW n \in Below(1), IsFixme(n)
  PROVE  /\ n \in Lexical!Sites /\ GetDataType(n) = kDataDefault
         /\ \A x \in Below(1) : ~(n < x /\ x <= root[n].last)
  <1>1. marked = Marks BY DEF MarkInv
  <1>2. n \in IRs /\ n \in Nat BY BelowSelf
  <1>3. \A x \in Below(1) : \A u \in marked : x <= u \/ x > root[u].last BY DEF Below
  <1>4. CASE n \in marked
    <2>1. \A x \in Below(1) : ~(n < x /\ x <= root[n].last)
      BY <1>2, <1>3, <1>4, BelowSelf, AboveIs
    <2>2. n \in Lexical!Sites BY <1>1, <1>4 DEF Marks, Lexical!Sites
    <2> QED BY <1>4, <2>1, <2>2 DEF GetDataType
  <1>5. CASE n \notin marked
    <2>1. root[n].word = "FIXME" BY <1>5 DEF IsFixme, GetString
    <2>2. root[n].last = n /\ root[n].data_type = kDataDefault
      BY <1>2, <2>1, GrammarAssumption DEF TreeInv, IRs
    <2>3. n \in Lexical!Fixmes BY <1>2, <2>1 DEF Lexical!Fixmes, Lexical!Places, IRs
    <2>4. ASSUME NEW u \in Lexical!FixUnits, Lexical!Within(n, u) PROVE FALSE
      <3>1. u \in marked BY <1>1, <2>3, <2>4 DEF Marks
      <3>2. u \in IRs BY <2>4 DEF Lexical!FixUnits, Lexical!Places, IRs
      <3>3. u \in Nat /\ root[u].last \in Nat BY <3>2, AboveIs
      <3>4. u <= n /\ n <= root[u].last BY <2>4 DEF Lexical!Within
      <3>5. n <= u \/ n > root[u].last BY <1>3, <3>1
      <3>6. n = u BY <1>2, <3>3, <3>4, <3>5
      <3> QED BY <1>5, <3>1, <3>6
    <2>5. n \in Lexical!Sites BY <2>3, <2>4 DEF Lexical!Sites
    <2>6. \A x \in Below(1) : ~(n < x /\ x <= root[n].last) BY <1>2, <2>2, BelowSelf
    <2> QED BY <1>5, <2>2, <2>5, <2>6 DEF GetDataType
  <1> QED BY <1>4, <1>5

\* The text the abstract specification sees is what MarkFixMe leaves of the program.
LEMMA TextIs ==
  ASSUME TreeInv, MarkInv, pc # "mark"
  PROVE  Lexical!Text = Below(1)
  <1>1. marked = Marks BY DEF MarkInv
  <1>2. 1 \in IRs /\ 1..root[1].last = IRs /\ Lexical!Places = IRs
    BY TreeFacts, RootFacts DEF Lexical!Places, IRs
  <1>3. ASSUME NEW x \in Below(1) PROVE x \in Lexical!Text
    <2>1. x \in IRs /\ x \in Nat BY BelowSelf
    <2>2. ASSUME NEW u \in Lexical!Sites, Lexical!Within(x, u) PROVE x = u
      <3>1. u <= x /\ x <= root[u].last BY <2>2 DEF Lexical!Within
      <3>2. u \in IRs BY <1>2 DEF Lexical!Sites, Lexical!Fixmes, Lexical!FixUnits
      <3>3. u \in Nat /\ root[u].last \in Nat BY <3>2, AboveIs
      <3>4. CASE u \in Lexical!Fixmes
        <4>1. root[u].last = u
          BY <3>2, <3>4, GrammarAssumption DEF TreeInv, IRs, Lexical!Fixmes
        <4> QED BY <2>1, <3>1, <3>3, <4>1
      <3>5. CASE u \in Marks
        <4>1. x <= u \/ x > root[u].last BY <1>1, <3>5 DEF Below
        <4> QED BY <2>1, <3>1, <3>3, <4>1
      <3> QED BY <3>4, <3>5 DEF Lexical!Sites, Marks
    <2> QED BY <1>2, <2>1, <2>2 DEF Lexical!Text
  <1>4. ASSUME NEW x \in Lexical!Text PROVE x \in Below(1)
    <2>1. x \in IRs /\ x \in Nat BY <1>2, AboveIs DEF Lexical!Text
    <2>2. ASSUME NEW u \in marked PROVE x <= u \/ x > root[u].last
      <3>1. u \in Lexical!Sites BY <1>1 DEF Marks, Lexical!Sites
      <3>2. u \in IRs BY DEF TreeInv
      <3>3. u \in Nat /\ root[u].last \in Nat BY <3>2, AboveIs
      <3>4. Lexical!Within(x, u) => x = u BY <3>1 DEF Lexical!Text
      <3> QED BY <2>1, <3>3, <3>4 DEF Lexical!Within
    <2> QED BY <1>2, <2>1, <2>2 DEF Below
  <1> QED BY <1>3, <1>4

\* The scopes around an IR in the text are the openers around it, itself aside when marked.
LEMMA ScopesAre ==
  ASSUME TreeInv, NEW x \in Below(1)
  PROVE  /\ Openers(x) \subseteq Lexical!Scopes(x)
         /\ Lexical!Scopes(x) \subseteq Openers(x) \cup {x}
         /\ x \notin marked => Lexical!Scopes(x) = Openers(x)
  <1>1. x \in IRs /\ x \in Nat /\ Lexical!Places = IRs /\ x <= root[x].last
    BY BelowSelf DEF Lexical!Places, IRs
  <1>2. Above(x) = {a \in IRs : a < x /\ x <= root[a].last} BY <1>1, AboveIs
  <1>3. \A a \in Above(x) : a \notin marked
    <2> SUFFICES ASSUME NEW a \in Above(x) PROVE a \notin marked OBVIOUS
    <2>1. a \in IRs /\ a < x /\ x <= root[a].last BY <1>2
    <2>2. a <= x BY <1>1, <2>1, AboveIs
    <2> QED BY <2>1, <2>2, AroundSeen
  <1>4. \A a \in Above(x) : GetScopeType(a) = root[a].scope_type BY <1>3 DEF GetScopeType
  <1>5. x \notin marked => GetScopeType(x) = root[x].scope_type BY DEF GetScopeType
  <1>6. GetScopeType(x) # kScopeDefault => root[x].scope_type # kScopeDefault
    BY DEF GetScopeType
  <1>7. \A a : a \in Lexical!Scopes(x) <=> (a \in Above(x) \/ a = x) /\ root[a].scope_type # kScopeDefault
    <2>1. \A a \in IRs : a \in Nat BY AboveIs
    <2>2. \A a \in IRs : a <= x <=> a < x \/ a = x BY <1>1, <2>1
    <2> QED BY <1>1, <1>2, <2>2 DEF Lexical!Scopes, Lexical!Within, kScopeDefault
  <1>8. \A a : a \in Openers(x) <=> (a \in Above(x) \/ a = x) /\ GetScopeType(a) # kScopeDefault
    BY DEF Openers
  <1> QED BY <1>4, <1>5, <1>6, <1>7, <1>8

\* A name is found by its scope when the text shows it there, wherever its id puts it.
LEMMA NameInScope ==
  ASSUME TreeInv, ScopeInv, OrderInv, MarkInv, Built,
         NEW n \in Below(1), IsFixme(n), NEW d \in Below(1), NEW x \in Below(1),
         Openers(x) = Openers(d), GetDataType(x) # kDataDefault
  PROVE  scope_id[d] \in ChainIn(scopes, scope_id[n])
         <=> Lexical!Scopes(x) \subseteq Lexical!Scopes(n)
  <1>0. pc # "mark" BY DEF Built
  <1>1. GetDataType(n) = kDataDefault /\ \A y \in Below(1) : ~(n < y /\ y <= root[n].last)
    BY <1>0, FixmeFacts
  <1>2. x # n /\ x \notin marked BY <1>1 DEF GetDataType
  <1>3. x \in IRs /\ n \in IRs /\ x \in Nat /\ n \in Nat BY BelowSelf
  <1>4. scope_id[d] \in ChainIn(scopes, scope_id[n]) <=> Openers(x) \subseteq Openers(n)
    BY ChainIff
  <1>5. /\ Lexical!Scopes(x) = Openers(x)
        /\ Openers(n) \subseteq Lexical!Scopes(n)
        /\ Lexical!Scopes(n) \subseteq Openers(n) \cup {n}
    BY <1>2, ScopesAre
  <1>6. n \notin Openers(x)
    <2>1. n \notin Above(x) BY <1>1, <1>3, AboveIs
    <2> QED BY <1>2, <2>1 DEF Openers
  <1> QED BY <1>4, <1>5, <1>6

\* In a tree that was put to ExtractStructure, a FIXME is younger than every other IR.
LEMMA ExtractedLast ==
  ASSUME TreeInv, MarkInv, IdInv, Built, source = "extracted",
         NEW n \in Below(1), IsFixme(n), NEW x \in Below(1), GetDataType(x) # kDataDefault
  PROVE  statement_id[x] < statement_id[n]
  <1>0. pc # "mark" BY DEF Built
  <1>1. GetDataType(n) = kDataDefault /\ \A y \in Below(1) : ~(n < y /\ y <= root[n].last)
    BY <1>0, FixmeFacts
  <1>2. x # n /\ root[x].data_type # kDataDefault BY <1>1 DEF GetDataType
  <1>3. x \in IRs /\ n \in IRs /\ x \in Nat /\ n \in Nat BY BelowSelf
  <1>4. /\ Cardinality(MadeBefore(x)) \in Nat /\ Cardinality(MadeBefore(n)) \in Nat
        /\ Cardinality(MadeBefore(x)) < Len(root) /\ Len(root) \in Nat
    BY <1>1, <1>2, <1>3, PostOrder
  <1>5. Marks = {} BY DEF IdInv, Marks, Lexical!FixUnits, Lexical!Places, IRs
  <1>6. marked = {} BY <1>0, <1>5 DEF MarkInv
  <1>7. root[n].word = "FIXME" BY <1>6 DEF IsFixme, GetString
  <1>8. root[x].word # "FIXME" BY <1>2, <1>3, GrammarAssumption DEF TreeInv, IRs
  <1>9. /\ statement_id[x] = Cardinality(MadeBefore(x)) + 0
        /\ statement_id[n] = Cardinality(MadeBefore(n)) + Len(root)
    BY <1>3, <1>7, <1>8 DEF IdInv
  <1> QED BY <1>4, <1>9

\* A name is visible by its scope and its id when the text shows it.
LEMMA NameVisible ==
  ASSUME TreeInv, ScopeInv, OrderInv, MarkInv, IdInv, Built, source # "copied",
         NEW n \in Below(1), IsFixme(n), NEW d \in Below(1), NEW x \in Below(1),
         Openers(x) = Openers(d), GetDataType(x) # kDataDefault
  PROVE  scope_id[d] \in ChainIn(scopes, scope_id[n]) /\ statement_id[x] < statement_id[n]
         <=> Lexical!Scopes(x) \subseteq Lexical!Scopes(n)
             /\ (source = "translated" => root[x].last < n)
  <1>0. pc # "mark" BY DEF Built
  <1>1. GetDataType(n) = kDataDefault /\ \A y \in Below(1) : ~(n < y /\ y <= root[n].last)
    BY <1>0, FixmeFacts
  <1>2. x # n BY <1>1
  <1>3. x \in IRs /\ n \in IRs BY BelowSelf
  <1>4. scope_id[d] \in ChainIn(scopes, scope_id[n])
        <=> Lexical!Scopes(x) \subseteq Lexical!Scopes(n)
    BY NameInScope
  <1>5. CASE source = "translated"
    <2>1. Cardinality(MadeBefore(x)) < Cardinality(MadeBefore(n)) <=> root[x].last < n
      BY <1>1, <1>2, <1>3, PostOrder
    <2>2. /\ statement_id[x] = Cardinality(MadeBefore(x))
          /\ statement_id[n] = Cardinality(MadeBefore(n))
      BY <1>3, <1>5 DEF IdInv
    <2> QED BY <1>4, <1>5, <2>1, <2>2
  <1>6. CASE source = "extracted"
    <2>1. statement_id[x] < statement_id[n] BY <1>6, ExtractedLast
    <2> QED BY <1>4, <1>6, <2>1
  <1>7. source \in {"translated", "extracted"} BY TreeAssumption DEF IdInv
  <1> QED BY <1>5, <1>6, <1>7

\* The names visible at n.
VisibleNames(n) == {d.node : d \in Visible(n)}

\* A name is visible when a scope of the chain has it with a smaller statement id.
LEMMA VisibleIs ==
  ASSUME ScopeInv, TableInv, NEW n, scope_id[n] \in 1..Len(scopes), NEW x
  PROVE  x \in VisibleNames(n) <=>
           \E s \in ChainIn(scopes, scope_id[n]) : \E id :
             <<s, x, id>> \in Content(scopes) /\ id < statement_id[n]
  <1>1. Shaped(scopes) /\ Tabled(scopes) BY DEF ScopeInv, TableInv
  <1>2. Chain(scope_id[n]) = ChainIn(scopes, scope_id[n]) BY DEF Chain, ChainIn
  <1>3. ChainIn(scopes, scope_id[n]) \subseteq 1..Len(scopes)
    <2>1. Len(scopes) \in Nat BY <1>1, LenProperties DEF Shaped
    <2>2. scope_id[n] \in 0..Len(scopes) /\ Len(scopes) <= Len(scopes) BY <2>1
    <2>3. ChainIn(scopes, scope_id[n]) \subseteq 1..scope_id[n] BY <1>1, <2>2, SameChain
    <2> QED BY <2>1, <2>3
  <1>4. ASSUME x \in VisibleNames(n)
        PROVE  \E s \in ChainIn(scopes, scope_id[n]) : \E id :
                 <<s, x, id>> \in Content(scopes) /\ id < statement_id[n]
    <2>1. PICK d \in Visible(n) : x = d.node BY <1>4 DEF VisibleNames
    <2>2. PICK s \in ChainIn(scopes, scope_id[n]) : d \in ToSet(scopes[s].table)
      BY <1>2, <2>1 DEF Visible
    <2>3. PICK i \in DOMAIN scopes[s].table : d = scopes[s].table[i] BY <2>2 DEF ToSet
    <2>4. d.id < statement_id[n] BY <2>1 DEF Visible
    <2>5. <<s, d.node, d.id>> \in Content(scopes) BY <1>1, <1>3, <2>2, <2>3, InContent
    <2> QED BY <2>1, <2>2, <2>4, <2>5
  <1>5. ASSUME NEW s \in ChainIn(scopes, scope_id[n]), NEW id,
               <<s, x, id>> \in Content(scopes), id < statement_id[n]
        PROVE  x \in VisibleNames(n)
    <2>1. PICK t \in 1..Len(scopes) : \E i \in DOMAIN scopes[t].table :
            <<s, x, id>> = <<t, scopes[t].table[i].node, scopes[t].table[i].id>>
      BY <1>1, <1>5, InContent
    <2>2. PICK i \in DOMAIN scopes[t].table :
            <<s, x, id>> = <<t, scopes[t].table[i].node, scopes[t].table[i].id>>
      BY <2>1
    <2>3. s = t /\ x = scopes[t].table[i].node /\ id = scopes[t].table[i].id BY <2>2
    <2>4. scopes[t].table[i] \in ToSet(scopes[t].table) BY DEF ToSet
    <2>5. scopes[t].table[i] \in Visible(n) BY <1>2, <1>5, <2>3, <2>4 DEF Visible
    <2> QED BY <2>3, <2>5 DEF VisibleNames
  <1> QED BY <1>4, <1>5

\* An IR of the program of data type dt that is left has that data type.
LEMMA SeenType ==
  ASSUME TreeInv, MarkedUnits, NEW a \in Below(1), NEW dt, dt # "kFixUnit", root[a].data_type = dt
  PROVE  GetDataType(a) = dt /\ a \notin marked
  BY DEF MarkedUnits, GetDataType

\* Every variable and structure that has to be visible at a FIXME is.
LEMMA DefinitionMust ==
  ASSUME IInv, CollectInv, pc = "fix", source # "copied", ~TooLarge,
         NEW n \in Below(1), IsFixme(n),
         NEW x \in Lexical!VisibleAt(n, Lexical!Variables \cup Lexical!Structures)
  PROVE  x \in VisibleNames(n)
  <1>1. /\ TreeInv /\ ScopeInv /\ OrderInv /\ TableInv /\ MarkInv /\ IdInv /\ MarkedUnits
        /\ Built /\ pc # "mark"
    BY MarkedAreUnits DEF IInv, CollectInv, Built
  <1>2. scope_id[n] \in 1..Len(scopes) BY <1>1, ScopeOf
  <1>3. /\ x \in Lexical!Variables \cup Lexical!Structures
        /\ Lexical!Scopes(x) \subseteq Lexical!Scopes(n)
        /\ source = "translated" => root[x].last < n
    BY DEF Lexical!VisibleAt
  <1>4. \A d \in Defined : Sure(d) \subseteq Content(scopes)
    <2>1. work = <<>> BY <1>1 DEF TableInv
    <2>2. \A d : ~ToCome(work, d) BY <2>1 DEF ToCome
    <2> QED BY <1>1, <1>3, <2>2 DEF TableInv
  <1>5. ASSUME NEW d \in Defined, d \in Below(1), x \in Below(1), Openers(x) = Openers(d),
               GetDataType(x) # kDataDefault, <<scope_id[d], x, statement_id[x]>> \in Sure(d)
        PROVE  x \in VisibleNames(n)
    <2>1. scope_id[d] \in ChainIn(scopes, scope_id[n]) /\ statement_id[x] < statement_id[n]
      BY <1>1, <1>3, <1>5, NameVisible
    <2>2. <<scope_id[d], x, statement_id[x]>> \in Content(scopes) BY <1>4, <1>5
    <2> QED BY <1>1, <1>2, <2>1, <2>2, VisibleIs
  <1>6. CASE x \in Lexical!Variables
    <2>1. /\ x \in Lexical!Text /\ root[x].data_type = "kVariableName"
          /\ \E a \in IRs : Lexical!Within(x, a) /\ root[a].data_type = "kVariableDefinition"
      BY <1>6 DEF Lexical!Variables, Lexical!Names, Lexical!Places, IRs
    <2>2. PICK a \in IRs : Lexical!Within(x, a) /\ root[a].data_type = "kVariableDefinition"
      BY <2>1
    <2>3. x \in Below(1) BY <1>1, <2>1, TextIs
    <2>4. a <= x /\ x <= root[a].last BY <2>2 DEF Lexical!Within
    <2>5. a \in Below(1) /\ x \in Below(a) BY <1>1, <2>3, <2>4, AroundSeen
    <2>6. GetDataType(a) = "kVariableDefinition" BY <1>1, <2>2, <2>5, SeenType
    <2>7. GetDataType(x) = "kVariableName" BY <1>1, <2>1, <2>3, SeenType
    <2>8. Openers(x) = Openers(a) /\ x \in Topmost(a, "kVariableName", {})
      BY <1>1, <2>5, <2>6, <2>7, VariableFacts
    <2>9. a \in Defined BY <2>5, <2>6 DEF Defined, Definitions
    <2>10. <<scope_id[a], x, statement_id[x]>> \in Sure(a) BY <2>6, <2>8 DEF Sure
    <2> QED BY <1>5, <2>3, <2>5, <2>7, <2>8, <2>9, <2>10 DEF kDataDefault
  <1>7. CASE x \in Lexical!Structures
    <2>1. x \in Lexical!Text /\ root[x].data_type = "kClassDefinition"
      BY <1>7 DEF Lexical!Structures
    <2>2. x \in Below(1) BY <1>1, <2>1, TextIs
    <2>3. GetDataType(x) = "kClassDefinition" BY <1>1, <2>1, <2>2, SeenType
    <2>4. x \in Defined /\ <<scope_id[x], x, statement_id[x]>> \in Sure(x)
      BY <2>2, <2>3 DEF Defined, Definitions, Sure
    <2> QED BY <1>5, <2>2, <2>3, <2>4 DEF kDataDefault
  <1> QED BY <1>3, <1>6, <1>7

\* The name of an argument is the first one in it.
LEMMA ArgumentFirst ==
  ASSUME TreeInv, NEW a \in IRs, NEW m \in Below(a), GetDataType(m) = "kVariableName"
  PROVE  ArgumentName(a) <= m
  <1> DEFINE N == {k \in Below(a) : GetDataType(k) = "kVariableName"}
  <1>1. Below(a) \in SUBSET IRs /\ IRs \in SUBSET Nat BY BelowFacts, TreeFacts
  <1>2. N \subseteq Nat /\ m \in N BY <1>1
  <1>3. PICK k \in N : \A c \in N : k <= c
    <2> HIDE DEF N
    <2> QED BY <1>2, LeastElement
  <1>4. ASSUME NEW c \in Above(k) \cap Below(a) PROVE GetDataType(c) \notin {} \cup {"kVariableName"}
    <2> SUFFICES ASSUME GetDataType(c) = "kVariableName" PROVE FALSE OBVIOUS
    <2>1. k <= c BY <1>3
    <2>2. c < k /\ c \in Nat /\ k \in Nat BY <1>1, <1>2, <1>3, AboveIs
    <2> QED BY <2>1, <2>2
  <1>5. k \in Topmost(a, "kVariableName", {}) BY <1>3, <1>4 DEF Topmost
  <1>6. ArgumentName(a) <= k /\ ArgumentName(a) \in IRs
    BY <1>5, SearchFacts DEF ArgumentName
  <1>7. k <= m /\ k \in Nat /\ m \in Nat BY <1>2, <1>3
  <1>8. ArgumentName(a) \in Nat BY <1>1, <1>6
  <1> HIDE DEF N
  <1> QED BY <1>6, <1>7, <1>8

\* What the text has of a function outside its body.
LEMMA HeaderIs ==
  ASSUME TreeInv, MarkInv, MarkedUnits, pc # "mark", NEW f \in Below(1)
  PROVE  Lexical!Header(f) =
           {m \in Below(f) : \A b \in Below(f) : GetDataType(b) = "kFunctionBody" =>
              ~(b <= m /\ m <= root[b].last)}
  <1>1. f \in IRs /\ f \in Nat /\ Lexical!Places = IRs /\ Lexical!Text = Below(1)
    BY BelowSelf, TextIs DEF Lexical!Places, IRs
  <1>2. Below(f) = {m \in Below(1) : f <= m /\ m <= root[f].last} BY <1>1, BelowIs
  <1>3. ASSUME NEW b \in Below(f), GetDataType(b) = "kFunctionBody" PROVE b \in Lexical!Bodies(f)
    <2>1. root[b].data_type = "kFunctionBody" BY <1>3, Typed DEF kDataDefault
    <2>2. b \in IRs /\ f <= b /\ b <= root[f].last BY <1>2, BelowSelf
    <2> QED BY <1>1, <2>1, <2>2 DEF Lexical!Bodies, Lexical!Within
  <1>4. ASSUME NEW m \in Below(1), NEW b \in Lexical!Bodies(f), Lexical!Within(m, b)
        PROVE  /\ b \in Below(f) /\ GetDataType(b) = "kFunctionBody"
               /\ b <= m /\ m <= root[b].last
    <2>1. b \in IRs /\ root[b].data_type = "kFunctionBody" /\ f <= b /\ b <= root[f].last
      BY <1>1 DEF Lexical!Bodies, Lexical!Within
    <2>2. b <= m /\ m <= root[b].last BY <1>4 DEF Lexical!Within
    <2>3. b \in Below(1) BY <2>1, <2>2, AroundSeen
    <2>4. GetDataType(b) = "kFunctionBody" BY <2>1, <2>3, SeenType
    <2> QED BY <1>2, <2>1, <2>2, <2>3, <2>4
  <1>5. ASSUME NEW m \in Lexical!Header(f)
        PROVE  /\ m \in Below(f)
               /\ \A b \in Below(f) : GetDataType(b) = "kFunctionBody" =>
                    ~(b <= m /\ m <= root[b].last)
    BY <1>1, <1>2, <1>3 DEF Lexical!Header, Lexical!Within
  <1>6. ASSUME NEW m \in Below(f),
               \A b \in Below(f) : GetDataType(b) = "kFunctionBody" =>
                 ~(b <= m /\ m <= root[b].last)
        PROVE  m \in Lexical!Header(f)
    <2>1. m \in Below(1) /\ f <= m /\ m <= root[f].last BY <1>2
    <2>2. \A b \in Lexical!Bodies(f) : ~Lexical!Within(m, b) BY <1>4, <1>6, <2>1
    <2> QED BY <1>1, <2>1, <2>2 DEF Lexical!Header, Lexical!Within
  <1> QED BY <1>5, <1>6

\* The arguments of a function in the text are those that are collected.
LEMMA DeclaredAre ==
  ASSUME TreeInv, MarkInv, MarkedUnits, pc # "mark",
         NEW f \in Below(1), GetDataType(f) = "kFunctionDefinition"
  PROVE  Lexical!Declared(f) = ArgumentIRs(f)
  <1>1. Below(f) \subseteq Below(1) /\ Below(f) \subseteq IRs /\ f \in IRs /\ f \in Nat
    BY BelowSelf
  <1>2. Below(f) = {m \in Below(1) : f <= m /\ m <= root[f].last} BY <1>1, BelowIs
  <1>3. \A m : m \in Lexical!Header(f) <=>
          m \in Below(f) /\ \A b \in Below(f) : GetDataType(b) = "kFunctionBody" =>
            ~(b <= m /\ m <= root[b].last)
    BY HeaderIs
  <1>4. ASSUME NEW a \in Lexical!Declared(f) PROVE a \in ArgumentIRs(f)
    <2>1. /\ a \in Lexical!Header(f) /\ root[a].data_type = "kFunctionArgument"
          /\ \A c \in Lexical!Header(f) \ {a} :
               Lexical!Within(a, c) => root[c].data_type # "kFunctionArgument"
      BY <1>4 DEF Lexical!Declared
    <2>2. a \in Below(f) /\ a \in Below(1) /\ a \in IRs BY <1>1, <1>3, <2>1
    <2>3. GetDataType(a) = "kFunctionArgument" BY <2>1, <2>2, SeenType
    <2>4. ASSUME NEW c \in Above(a) \cap Below(f)
          PROVE  GetDataType(c) \notin {"kFunctionBody"} \cup {"kFunctionArgument"}
      <3>1. c \in IRs /\ c < a /\ a <= root[c].last /\ c \in Nat /\ a \in Nat /\ root[c].last \in Nat
        BY <2>2, AboveIs
      <3>2. GetDataType(c) # "kFunctionBody" BY <1>3, <2>1, <3>1
      <3>3. c \in Lexical!Header(f)
        <4>1. ASSUME NEW b \in Below(f), GetDataType(b) = "kFunctionBody", b <= c, c <= root[b].last
              PROVE  FALSE
          <5>1. b \in IRs /\ b \in Nat BY <1>1, <4>1, TreeFacts
          <5>2. root[c].last <= root[b].last /\ root[b].last \in Nat
            <6>1. c <= c BY <3>1
            <6> QED BY <3>1, <4>1, <5>1, <6>1, Nesting
          <5>3. b <= a /\ a <= root[b].last BY <3>1, <4>1, <5>1, <5>2
          <5> QED BY <1>3, <2>1, <4>1, <5>3
        <4> QED BY <1>3, <4>1
      <3>4. Lexical!Within(a, c) /\ c # a BY <3>1 DEF Lexical!Within
      <3>5. root[c].data_type # "kFunctionArgument" BY <2>1, <3>3, <3>4
      <3>6. GetDataType(c) # "kFunctionArgument" BY <3>5 DEF GetDataType, kDataDefault
      <3> QED BY <3>2, <3>6
    <2> QED BY <2>2, <2>3, <2>4 DEF ArgumentIRs, Topmost
  <1>5. ASSUME NEW a \in ArgumentIRs(f) PROVE a \in Lexical!Declared(f)
    <2>1. a \in Below(f) /\ a \in IRs /\ root[a].data_type = "kFunctionArgument" BY ArgumentFacts
    <2>2. \A c \in Above(a) \cap Below(f) : GetDataType(c) \notin {"kFunctionBody", "kFunctionArgument"}
      BY DEF ArgumentIRs, Topmost
    <2>3. ASSUME NEW c \in Below(f), c <= a, a <= root[c].last, c # a PROVE c \in Above(a)
      BY <1>1, <2>1, <2>3, AboveIs
    <2>4. a \in Lexical!Header(f)
      <3>1. ASSUME NEW b \in Below(f), GetDataType(b) = "kFunctionBody", b <= a, a <= root[b].last
            PROVE  FALSE
        <4>1. b # a BY <2>1, <3>1, Typed DEF kDataDefault
        <4> QED BY <2>2, <2>3, <3>1, <4>1
      <3> QED BY <1>3, <2>1, <3>1
    <2>5. ASSUME NEW c \in Lexical!Header(f), c # a, Lexical!Within(a, c)
          PROVE  root[c].data_type # "kFunctionArgument"
      <3>1. c \in Below(f) /\ c \in Below(1) BY <1>1, <1>3
      <3>2. c \in Above(a) BY <2>3, <2>5, <3>1 DEF Lexical!Within
      <3>3. GetDataType(c) # "kFunctionArgument" BY <2>2, <3>1, <3>2
      <3> QED BY <3>1, <3>3, SeenType
    <2> QED BY <2>1, <2>4, <2>5 DEF Lexical!Declared
  <1> QED BY <1>4, <1>5

\* The names of the arguments of a function in the text are those that are collected.
LEMMA ArgumentsAre ==
  ASSUME TreeInv, MarkInv, MarkedUnits, pc # "mark",
         NEW f \in Below(1), GetDataType(f) = "kFunctionDefinition"
  PROVE  Lexical!Arguments(f) = {ArgumentName(a) : a \in ArgumentIRs(f)}
  <1>1. Below(f) \subseteq Below(1) /\ Below(f) \subseteq IRs /\ f \in IRs /\ f \in Nat
    BY BelowSelf
  <1>2. ASSUME NEW a \in ArgumentIRs(f)
        PROVE  {n \in Lexical!NamesOf(a, f) : \A m \in Lexical!NamesOf(a, f) : n <= m}
                 = {ArgumentName(a)}
    <2> DEFINE y == ArgumentName(a)
    <2>1. /\ a \in Below(f) /\ a \in IRs /\ y \in Below(a) /\ GetDataType(y) = "kVariableName"
          /\ \A b \in Below(f) : GetDataType(b) = "kFunctionBody" => ~(b <= y /\ y <= root[b].last)
      BY ArgumentFacts
    <2> HIDE DEF y
    <2>2. a \in Below(1) /\ a \in Nat /\ y \in Below(1) /\ y \in Nat /\ a <= y /\ y <= root[a].last
      BY <1>1, <2>1, BelowSelf
    <2>3. y \in Below(f)
      <3>1. f <= a /\ a <= root[f].last BY <1>1, <2>1, BelowIs
      <3>2. root[a].last <= root[f].last /\ root[a].last \in Nat /\ root[f].last \in Nat
        <4>1. a <= a BY <2>2
        <4> QED BY <1>1, <2>1, <3>1, <4>1, Nesting
      <3>3. f <= y /\ y <= root[f].last BY <1>1, <2>2, <3>1, <3>2
      <3> QED BY <1>1, <2>2, <3>3, BelowIs
    <2>4. y \in Lexical!Header(f) BY <2>1, <2>3, HeaderIs
    <2>5. root[y].data_type = "kVariableName" BY <2>1, Typed DEF kDataDefault
    <2>6. y \in Lexical!NamesOf(a, f) BY <2>2, <2>4, <2>5 DEF Lexical!NamesOf, Lexical!Within
    <2>7. ASSUME NEW m \in Lexical!NamesOf(a, f) PROVE y <= m /\ m \in Nat
      <3>1. m \in Below(f) /\ root[m].data_type = "kVariableName" /\ a <= m /\ m <= root[a].last
        BY HeaderIs DEF Lexical!NamesOf, Lexical!Within
      <3>2. m \in Below(1) /\ m \in Nat BY <1>1, <3>1, BelowSelf
      <3>3. m \in Below(a) BY <2>1, <3>1, <3>2, BelowIs
      <3>4. GetDataType(m) = "kVariableName" BY <3>1, <3>2, SeenType
      <3> QED BY <2>1, <3>2, <3>3, <3>4, ArgumentFirst DEF y
    <2>8. ASSUME NEW n \in Lexical!NamesOf(a, f), \A m \in Lexical!NamesOf(a, f) : n <= m
          PROVE  n = y
      <3>1. n <= y BY <2>6, <2>8
      <3> QED BY <2>2, <2>7, <3>1
    <2> QED BY <2>6, <2>7, <2>8 DEF y
  <1>3. Lexical!Declared(f) = ArgumentIRs(f) BY DeclaredAre
  <1>4. Lexical!Arguments(f) =
          UNION {{n \in Lexical!NamesOf(a, f) : \A m \in Lexical!NamesOf(a, f) : n <= m} :
                   a \in ArgumentIRs(f)}
    BY <1>3 DEF Lexical!Arguments
  <1>5. ASSUME NEW x \in Lexical!Arguments(f) PROVE x \in {ArgumentName(a) : a \in ArgumentIRs(f)}
    <2>1. PICK a \in ArgumentIRs(f) :
            x \in {n \in Lexical!NamesOf(a, f) : \A m \in Lexical!NamesOf(a, f) : n <= m}
      BY <1>4, <1>5
    <2>2. x = ArgumentName(a) BY <1>2, <2>1
    <2> QED BY <2>2
  <1>6. ASSUME NEW a \in ArgumentIRs(f) PROVE ArgumentName(a) \in Lexical!Arguments(f)
    <2>1. ArgumentName(a) \in {n \in Lexical!NamesOf(a, f) : \A m \in Lexical!NamesOf(a, f) : n <= m}
      BY <1>2
    <2> QED BY <1>4, <2>1
  <1> QED BY <1>5, <1>6

\* The body of a function is around a FIXME when its scope is.
LEMMA ArgumentVisible ==
  ASSUME TreeInv, ScopeInv, OrderInv, MarkInv, Built,
         NEW n \in Below(1), IsFixme(n), NEW f \in Below(1),
         GetDataType(f) = "kFunctionDefinition", Bodies(f) # {}, NEW a \in ArgumentIRs(f),
         scope_id[FunctionBody(f)] \in ChainIn(scopes, scope_id[n])
  PROVE  ArgumentName(a) \in Lexical!ArgumentsAt(n)
  <1> DEFINE x == ArgumentName(a)
             b == FunctionBody(f)
  <1>0. MarkedUnits /\ pc # "mark" BY MarkedAreUnits DEF Built
  <1>1. /\ b \in Below(f) /\ f < b /\ GetDataType(b) = "kFunctionBody" /\ b \in Openers(b)
    BY <1>0, FunctionBodyFacts
  <1>2. b \in Below(1) /\ b \in IRs /\ f \in IRs /\ n \in IRs
        /\ b \in Nat /\ f \in Nat /\ n \in Nat /\ b <= root[f].last
    BY <1>1, BelowSelf
  <1>3. Openers(b) \subseteq Openers(n) BY <1>2, ChainIff
  <1>4. GetDataType(n) = kDataDefault BY <1>0, FixmeFacts
  <1>5. b \in Above(n) BY <1>1, <1>3, <1>4 DEF Openers, kDataDefault
  <1>6. b < n /\ n <= root[b].last BY <1>2, <1>5, AboveIs
  <1>7. root[b].data_type = "kFunctionBody" /\ root[f].data_type = "kFunctionDefinition"
    BY <1>1, Typed DEF kDataDefault
  <1>8. x \in Lexical!Arguments(f) BY <1>0, ArgumentsAre
  <1> HIDE DEF x, b
  <1>9. b \in Lexical!Bodies(f)
    <2>1. f <= b BY <1>1, <1>2
    <2> QED BY <1>2, <1>7, <2>1 DEF Lexical!Bodies, Lexical!Within, Lexical!Places, IRs
  <1>10. Lexical!Within(n, b)
    <2>1. b <= n BY <1>2, <1>6
    <2> QED BY <1>6, <2>1 DEF Lexical!Within
  <1>11. x \in Lexical!ArgumentsAt(n)
    BY <1>2, <1>7, <1>8, <1>9, <1>10 DEF Lexical!ArgumentsAt, Lexical!Places, IRs
  <1> QED BY <1>11 DEF x

\* After ExtractStructure the arguments around a FIXME are found there.
LEMMA ArgumentMust ==
  ASSUME IInv, CollectInv, pc = "fix", source = "extracted", ~TooLarge,
         NEW n \in Below(1), IsFixme(n), NEW x \in Lexical!ArgumentsAt(n)
  PROVE  x \in VisibleNames(n)
  <1>1. /\ TreeInv /\ ScopeInv /\ OrderInv /\ TableInv /\ MarkInv /\ IdInv /\ MarkedUnits
        /\ Built /\ pc # "mark"
    BY MarkedAreUnits DEF IInv, CollectInv, Built
  <1>2. scope_id[n] \in 1..Len(scopes) BY <1>1, ScopeOf
  <1>3. GetDataType(n) = kDataDefault BY <1>1, FixmeFacts
  <1>4. n \in IRs /\ n \in Nat BY <1>1, BelowSelf
  <1>5. PICK f \in IRs : /\ root[f].data_type = "kFunctionDefinition" /\ x \in Lexical!Arguments(f)
                         /\ \E b \in Lexical!Bodies(f) : Lexical!Within(n, b)
    BY DEF Lexical!ArgumentsAt, Lexical!Places, IRs
  <1>6. PICK b \in IRs : /\ root[b].data_type = "kFunctionBody" /\ f <= b /\ b <= root[f].last
                         /\ b <= n /\ n <= root[b].last
    BY <1>5 DEF Lexical!Bodies, Lexical!Within, Lexical!Places, IRs
  <1>7. f \in Nat /\ b \in Nat /\ root[f].last \in Nat /\ root[b].last \in Nat
    BY <1>1, AboveIs
  <1>8. f <= n /\ n <= root[f].last
    <2>1. root[b].last <= root[f].last
      <3>1. b <= b BY <1>7
      <3> QED BY <1>1, <1>6, <3>1, Nesting
    <2> QED BY <1>4, <1>6, <1>7, <2>1
  <1>9. f \in Below(1) /\ b \in Below(1) BY <1>1, <1>6, <1>8, AroundSeen
  <1>10. GetDataType(f) = "kFunctionDefinition" /\ GetDataType(b) = "kFunctionBody"
    BY <1>1, <1>5, <1>6, <1>9, SeenType
  <1>11. b \in Below(f) /\ b # f BY <1>1, <1>6, <1>9, <1>10, BelowIs
  <1> DEFINE F == FunctionBody(f)
  <1>12. /\ Bodies(f) # {} /\ b \in Below(F)
         /\ F \in Below(f) /\ F \in IRs /\ f < F /\ GetDataType(F) = "kFunctionBody"
    BY <1>1, <1>9, <1>10, <1>11, FunctionBodyFacts
  <1> HIDE DEF F
  <1>13. F \in Below(1) /\ F \in Nat /\ root[F].last \in Nat BY <1>1, <1>9, <1>12, BelowSelf
  <1>14. F < n /\ n <= root[F].last
    <2>1. F <= b /\ b <= root[F].last BY <1>1, <1>12, <1>13, BelowSelf
    <2>2. root[b].last <= root[F].last
      <3>1. b <= b BY <1>7
      <3> QED BY <1>1, <1>12, <2>1, <3>1, Nesting
    <2>3. F # n BY <1>3, <1>12 DEF kDataDefault
    <2> QED BY <1>4, <1>6, <1>7, <1>13, <2>1, <2>2, <2>3
  <1>15. Openers(F) \subseteq Openers(n)
    <2> SUFFICES ASSUME NEW o \in Openers(F) PROVE o \in Above(n) BY DEF Openers
    <2>1. CASE o = F BY <1>1, <1>4, <1>12, <1>14, <2>1, AboveIs
    <2>2. CASE o # F
      <3>1. o \in Above(F) BY <2>2 DEF Openers
      <3>2. o \in IRs /\ o < F /\ F <= root[o].last BY <1>1, <1>12, <3>1, AboveIs
      <3>3. o \in Nat /\ root[o].last \in Nat BY <1>1, <3>2, AboveIs
      <3>4. root[F].last <= root[o].last
        <4>1. o <= F /\ F <= F BY <1>13, <3>2, <3>3
        <4> QED BY <1>1, <1>12, <3>2, <4>1, Nesting
      <3>5. o < n /\ n <= root[o].last BY <1>4, <1>13, <1>14, <3>2, <3>3, <3>4
      <3> QED BY <1>1, <1>4, <3>2, <3>5, AboveIs
    <2> QED BY <2>1, <2>2
  <1>16. scope_id[F] \in ChainIn(scopes, scope_id[n]) BY <1>1, <1>13, <1>15, ChainIff
  <1>17. statement_id[f] < statement_id[n] BY <1>1, <1>9, <1>10, ExtractedLast DEF kDataDefault
  <1>18. PICK a \in ArgumentIRs(f) : x = ArgumentName(a)
    BY <1>1, <1>5, <1>9, <1>10, ArgumentsAre
  <1>19. <<scope_id[F], x, statement_id[f]>> \in Sure(f) BY <1>10, <1>12, <1>18 DEF Sure, F
  <1>20. Sure(f) \subseteq Content(scopes)
    <2>1. work = <<>> BY <1>1 DEF TableInv
    <2>2. ~ToCome(work, f) BY <2>1 DEF ToCome
    <2>3. f \in Defined BY <1>9, <1>10 DEF Defined, Definitions
    <2> QED BY <1>1, <2>2, <2>3 DEF TableInv
  <1> QED BY <1>1, <1>2, <1>16, <1>17, <1>19, <1>20, VisibleIs

\* What is owed at a FIXME is found there.
LEMMA MustVisible ==
  ASSUME IInv, CollectInv, pc = "fix", NEW n \in Below(1), IsFixme(n)
  PROVE  Lexical!Must(n) \subseteq VisibleNames(n)
  <1> SUFFICES ASSUME NEW x \in Lexical!Must(n) PROVE x \in VisibleNames(n) OBVIOUS
  <1>1. CASE x \in Lexical!VisibleAt(n, Lexical!Variables \cup Lexical!Structures)
             /\ "definitions" \in Owed
    <2>1. ~TooLarge /\ source # "copied" BY <1>1 DEF Owed
    <2> QED BY <1>1, <2>1, DefinitionMust
  <1>2. CASE x \in Lexical!ArgumentsAt(n) /\ "arguments" \in Owed
    <2>1. ~TooLarge /\ source = "extracted" BY <1>2 DEF Owed
    <2> QED BY <1>2, <2>1, ArgumentMust
  <1> QED BY <1>1, <1>2 DEF Lexical!Must

\* Nothing is visible at a FIXME that the text does not allow there.
LEMMA VisibleMay ==
  ASSUME IInv, CollectInv, pc = "fix", NEW n \in Below(1), IsFixme(n)
  PROVE  VisibleNames(n) \subseteq Lexical!May(n)
  <1> SUFFICES ASSUME NEW x \in VisibleNames(n) PROVE x \in Lexical!May(n) OBVIOUS
  <1>1. /\ TreeInv /\ ScopeInv /\ OrderInv /\ TableInv /\ MarkInv /\ IdInv /\ MarkedUnits
        /\ Built /\ pc # "mark"
    BY MarkedAreUnits DEF IInv, CollectInv, Built
  <1>2. scope_id[n] \in 1..Len(scopes) BY <1>1, ScopeOf
  <1>0. PICK s \in ChainIn(scopes, scope_id[n]) : \E id :
          <<s, x, id>> \in Content(scopes) /\ id < statement_id[n]
    BY <1>1, <1>2, VisibleIs
  <1>3. PICK id : /\ s \in ChainIn(scopes, scope_id[n])
                  /\ <<s, x, id>> \in Content(scopes) /\ id < statement_id[n]
    BY <1>0
  <1>4. PICK d \in Defined : <<s, x, id>> \in Maybe(d) BY <1>1, <1>3 DEF TableInv
  <1>5. d \in Below(1) /\ GetDataType(d) \in Definitions /\ d \in IRs
    BY <1>1, BelowSelf DEF Defined
  <1>6. ASSUME <<s, id>> = <<scope_id[d], statement_id[x]>>, x \in Below(d),
               Openers(x) = Openers(d), GetDataType(x) # kDataDefault,
               x \in Lexical!Variables \cup Lexical!Structures \cup Lexical!Functions
        PROVE  x \in Lexical!May(n)
    <2>1. s = scope_id[d] /\ id = statement_id[x] /\ x \in Below(1) BY <1>1, <1>5, <1>6, BelowSelf
    <2>2. Lexical!Scopes(x) \subseteq Lexical!Scopes(n)
      BY <1>1, <1>3, <1>5, <1>6, <2>1, NameInScope
    <2>3. source = "translated" => root[x].last < n
      BY <1>1, <1>3, <1>5, <1>6, <2>1, NameVisible
    <2> QED BY <1>6, <2>2, <2>3 DEF Lexical!May, Lexical!VisibleAt
  <1>7. CASE GetDataType(d) = "kVariableDefinition"
    <2>1. <<s, x, id>> \in {<<scope_id[d], y, statement_id[y]>> : y \in Topmost(d, "kVariableName", {})}
      BY <1>4, <1>7 DEF Maybe, Sure
    <2>2. PICK y \in Topmost(d, "kVariableName", {}) : <<s, x, id>> = <<scope_id[d], y, statement_id[y]>>
      BY <2>1
    <2>3. x = y /\ <<s, id>> = <<scope_id[d], statement_id[x]>> BY <2>2
    <2>4. x \in Below(d) /\ GetDataType(x) = "kVariableName" BY <2>3 DEF Topmost
    <2>5. Openers(x) = Openers(d) BY <1>1, <1>5, <1>7, <2>4, VariableFacts
    <2>6. x \in Lexical!Variables
      <3>1. x \in Below(1) /\ d <= x /\ x <= root[d].last BY <1>1, <1>5, <2>4, BelowSelf
      <3>2. x \in Lexical!Text BY <1>1, <3>1, TextIs
      <3>3. root[x].data_type = "kVariableName" /\ root[d].data_type = "kVariableDefinition"
        BY <1>7, <2>4 DEF GetDataType, kDataDefault
      <3> QED BY <1>5, <3>1, <3>2, <3>3
              DEF Lexical!Variables, Lexical!Names, Lexical!Within, Lexical!Places, IRs
    <2> QED BY <1>6, <2>3, <2>4, <2>5, <2>6 DEF kDataDefault
  <1>8. CASE GetDataType(d) = "kClassDefinition"
    <2>1. <<s, x, id>> = <<scope_id[d], d, statement_id[d]>> BY <1>4, <1>8 DEF Maybe, Sure
    <2>2. x = d /\ <<s, id>> = <<scope_id[d], statement_id[x]>> BY <2>1
    <2>3. x \in Lexical!Structures
      <3>1. x \in Lexical!Text BY <1>1, <1>5, <2>2, TextIs
      <3>2. root[x].data_type = "kClassDefinition" BY <1>8, <2>2 DEF GetDataType, kDataDefault
      <3> QED BY <3>1, <3>2 DEF Lexical!Structures
    <2>4. x \in Below(d) BY <1>1, <1>5, <2>2, BelowSelf
    <2> QED BY <1>6, <1>8, <2>2, <2>3, <2>4 DEF kDataDefault
  <1>9. CASE GetDataType(d) = "kFunctionDefinition"
    <2>1. CASE <<s, x, id>> = <<scope_id[d], FunctionName(d), statement_id[FunctionName(d)]>>
      <3>1. x = FunctionName(d) /\ <<s, id>> = <<scope_id[d], statement_id[x]>> BY <2>1
      <3>2. x \in Below(d) /\ GetDataType(x) = "kFunctionName" /\ Openers(x) = Openers(d)
        BY <1>1, <1>5, <1>9, <3>1, FunctionNameFacts
      <3>3. x \in Lexical!Functions
        <4>1. x \in Below(1) /\ d <= x /\ x <= root[d].last BY <1>1, <1>5, <3>2, BelowSelf
        <4>2. x \in Lexical!Text BY <1>1, <4>1, TextIs
        <4>3. root[x].data_type = "kFunctionName" /\ root[d].data_type = "kFunctionDefinition"
          BY <1>9, <3>2 DEF GetDataType, kDataDefault
        <4> QED BY <1>5, <4>1, <4>2, <4>3
                DEF Lexical!Functions, Lexical!Names, Lexical!Within, Lexical!Places, IRs
      <3> QED BY <1>6, <3>1, <3>2, <3>3 DEF kDataDefault
    <2>2. CASE <<s, x, id>> \in Sure(d)
      <3>1. Bodies(d) # {} /\ \E a \in ArgumentIRs(d) :
              <<s, x, id>> = <<scope_id[FunctionBody(d)], ArgumentName(a), statement_id[d]>>
        BY <1>9, <2>2 DEF Sure
      <3>2. PICK a \in ArgumentIRs(d) :
              <<s, x, id>> = <<scope_id[FunctionBody(d)], ArgumentName(a), statement_id[d]>>
        BY <3>1
      <3>3. s = scope_id[FunctionBody(d)] /\ x = ArgumentName(a) /\ id = statement_id[d] BY <3>2
      <3>4. ArgumentName(a) \in Lexical!ArgumentsAt(n)
        BY <1>1, <1>3, <1>5, <1>9, <3>1, <3>3, ArgumentVisible
      <3> QED BY <3>3, <3>4 DEF Lexical!May
    <2> QED BY <1>4, <1>9, <2>1, <2>2 DEF Maybe
  <1> QED BY <1>5, <1>7, <1>8, <1>9 DEF Definitions

-----------------------------------------------------------------------------
(***************************************************************************)
(* The refinement mapping: what each FIXME replaced so far may use.        *)
(***************************************************************************)
Used ==
  [n \in {f.node : f \in ToSet(fixes)} |->
     UNION {{d.node : d \in f.uses} : f \in {g \in ToSet(fixes) : g.node = n}}]

\* Applying a fix is a step of the abstract specification.
LEMMA ApplyFixIsFix ==
  ASSUME IInv, CollectInv, ApplyFix
  PROVE  Lexical!Next
  <1>0. PICK n : n = decisions[1] OBVIOUS
  <1> DEFINE k == Len(fixes) + 1
  <1>1. TreeInv /\ FixInv /\ ScopeInv /\ MarkInv BY DEF IInv, CollectInv
  <1>2. /\ pc = "fix" /\ decisions # <<>>
        /\ var_maps' = IF -1 # scope_id[n] THEN Visible(n) ELSE var_maps
        /\ fixes' = Append(fixes, [node |-> n, uses |-> var_maps'])
    BY <1>0 DEF ApplyFix, GeneratorScope
  <1>3. /\ decisions \in Seq(IRs) /\ Len(fixes) + Len(decisions) = Len(AllFixmes)
        /\ \A i \in 1..Len(fixes) : fixes[i].node = AllFixmes[i]
        /\ \A i \in 1..Len(decisions) : decisions[i] = AllFixmes[Len(fixes) + i]
        /\ fixes \in Seq(ToSet(fixes))
    BY <1>1, <1>2 DEF FixInv
  <1>4. /\ Len(fixes) \in Nat /\ Len(fixes') = k /\ DOMAIN fixes = 1..Len(fixes) /\ DOMAIN fixes' = 1..k
        /\ fixes'[k] = [node |-> n, uses |-> var_maps']
        /\ \A i \in 1..Len(fixes) : fixes'[i] = fixes[i]
    BY <1>2, <1>3, AppendElement
  <1>5. Len(decisions) \in Nat \ {0} BY <1>2, <1>3, EmptySeq, LenProperties
  <1>6. /\ n = AllFixmes[k] /\ k \in 1..Len(AllFixmes) /\ 1..Len(fixes) \subseteq 1..Len(AllFixmes)
        /\ k \notin 1..Len(fixes) /\ n \in IRs
    BY <1>0, <1>3, <1>4, <1>5
  <1>7. \A i \in 1..Len(fixes) : fixes[i].node # n
    <2>1. \A i, j \in 1..Len(AllFixmes) : AllFixmes[i] = AllFixmes[j] => i = j
      BY <1>1, AllFixmesFacts
    <2> QED BY <1>3, <1>6, <2>1
  <1>8. n \in Below(1) /\ IsFixme(n)
    <2>1. {AllFixmes[i] : i \in 1..Len(AllFixmes)} = {m \in Below(1) : IsFixme(m)}
      BY <1>1, AllFixmesFacts
    <2> QED BY <1>6, <2>1
  <1>9. var_maps' = Visible(n)
    <2>1. Len(scopes) \in Nat BY <1>1, LenProperties DEF ScopeInv, Shaped
    <2>2. scope_id[n] \in 0..Len(scopes) BY <1>1, <1>6 DEF ScopeInv, ScopeIDs
    <2>3. scope_id[n] # -1 BY <2>1, <2>2
    <2> QED BY <1>2, <2>3
  <1> DEFINE e == [node |-> n, uses |-> Visible(n)]
  <1>10. e.node = n /\ e.uses = Visible(n) /\ fixes'[k] = e BY <1>4, <1>9
  <1> HIDE DEF e
  <1>11. ToSet(fixes') = ToSet(fixes) \cup {e}
    <2>1. 1..k = 1..Len(fixes) \cup {k} BY <1>4
    <2>2. ToSet(fixes) = {fixes[i] : i \in 1..Len(fixes)} /\ ToSet(fixes') = {fixes'[i] : i \in 1..k}
      BY <1>4 DEF ToSet
    <2> HIDE DEF k
    <2> QED BY <1>4, <1>10, <2>1, <2>2
  <1>12. \A f \in ToSet(fixes) : f.node # n BY <1>4, <1>7 DEF ToSet
  <1>13. DOMAIN Used = {f.node : f \in ToSet(fixes)} /\ DOMAIN Used' = {f.node : f \in ToSet(fixes')}
    BY DEF Used
  <1>14. n \notin DOMAIN Used /\ DOMAIN Used' = DOMAIN Used \cup {n}
    BY <1>10, <1>11, <1>12, <1>13
  <1>15. ASSUME NEW m \in DOMAIN Used PROVE Used'[m] = Used[m]
    <2>1. {g \in ToSet(fixes') : g.node = m} = {g \in ToSet(fixes) : g.node = m}
      BY <1>10, <1>11, <1>14, <1>15
    <2>2. m \in {f.node : f \in ToSet(fixes)} /\ m \in {f.node : f \in ToSet(fixes')}
      BY <1>13, <1>14, <1>15
    <2> QED BY <2>1, <2>2 DEF Used
  <1>16. Used'[n] = VisibleNames(n)
    <2>1. {g \in ToSet(fixes') : g.node = n} = {e} BY <1>10, <1>11, <1>12
    <2>2. n \in {f.node : f \in ToSet(fixes')} BY <1>13, <1>14
    <2>3. Used'[n] = UNION {{d.node : d \in f.uses} : f \in {g \in ToSet(fixes') : g.node = n}}
      BY <2>2 DEF Used
    <2>4. Used'[n] = {d.node : d \in e.uses} BY <2>1, <2>3
    <2> QED BY <1>10, <2>4 DEF VisibleNames
  <1>17. n \in Lexical!Sites BY <1>1, <1>2, <1>8, FixmeFacts
  <1>18. Lexical!Must(n) \subseteq VisibleNames(n) /\ VisibleNames(n) \subseteq Lexical!May(n)
    BY <1>2, <1>8, MustVisible, VisibleMay
  <1>19. n \in Lexical!Places BY <1>6 DEF Lexical!Places, IRs
  <1>20. Lexical!Fix(n)
    <2>1. /\ n \notin DOMAIN Used /\ DOMAIN Used' = DOMAIN Used \cup {n}
          /\ \A m \in DOMAIN Used : Used'[m] = Used[m]
          /\ n \in Lexical!Sites
          /\ Lexical!Must(n) \subseteq Used'[n]
          /\ Used'[n] \subseteq Lexical!May(n)
      BY <1>14, <1>15, <1>16, <1>17, <1>18
    <2> QED BY Zenon, <2>1 DEF Lexical!Fix, Used
  <1> QED BY <1>19, <1>20 DEF Lexical!Next

\* Every other step leaves the names in use alone.
LEMMA OtherStutters ==
  ASSUME MarkFixMe \/ BuildScopeTreeWithSymbolTable \/ SelectFixStrategy \/ Return \/ UNCHANGED vars
  PROVE  Used' = Used
  <1>1. fixes' = fixes
    BY BuildStep DEF MarkFixMe, SelectFixStrategy, Return, vars
  <1> QED BY <1>1 DEF Used

(***************************************************************************)
(* For every program and every interleaving of declarations, scopes and    *)
(* FIXMEs, whether its IRs were parsed, put to ExtractStructure or copied: *)
(* the names Validate may put in the place of a FIXME are visible there in *)
(* a lexically scoped language (LexicalScoping), and those it owes (Owed)  *)
(* are among them.                                                         *)
(***************************************************************************)
THEOREM ValidatorIsLexical == Spec => ImplementsLexicalScoping
  <1>1. ASSUME Init PROVE Lexical!Init
    <2>1. fixes = <<>> BY <1>1 DEF Init
    <2>2. ToSet(fixes) = {} BY <2>1 DEF ToSet
    <2>3. {f.node : f \in ToSet(fixes)} = {} BY <2>2
    <2>4. Used = [n \in {} |-> {}] BY <2>3 DEF Used
    <2> QED BY Zenon, <2>4 DEF Lexical!Init, Used
  <1>2. ASSUME IInv, CollectInv, [Next]_vars PROVE [Lexical!Next]_Used
    <2>1. CASE ApplyFix BY <1>2, <2>1, ApplyFixIsFix
    <2>2. CASE ~ApplyFix
      <3>1. Used' = Used BY <1>2, <2>2, OtherStutters DEF Next
      <3> QED BY <3>1
    <2> QED BY <2>1, <2>2
  <1>3. IInv /\ CollectInv /\ [Next]_vars => [Lexical!Next]_Used BY <1>2
  <1>4. Init => Lexical!Init BY <1>1
  <1> QED BY <1>3, <1>4, ValidatorInvariant, ValidatorCollects, PTL
          DEF Spec, ImplementsLexicalScoping, Lexical!Spec, Used
=============================================================================
