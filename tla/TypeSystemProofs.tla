-------------------------- MODULE TypeSystemProofs --------------------------
(***************************************************************************)
(* Proofs about TypeSystem, for every configuration, every set of names    *)
(* and any number of programs and definitions.                             *)
(***************************************************************************)
EXTENDS TypeSystem, SequenceTheorems, FiniteSetTheorems, TLAPS

AnyDefinition == [type : Nat, word : Name]
Resolvable ==
  DOMAIN s_builted_simple_types_ \cup DOMAIN compound_types_ \cup DOMAIN function_types_

(***************************************************************************)
(* The types of the state.                                                 *)
(***************************************************************************)
TypeOK ==
  /\ id \in Nat /\ id >= FirstTypeID
  /\ s_builted_simple_types_ = [i \in DOMAIN s_builted_simple_types_ |-> s_builted_simple_types_[i]]
  /\ stage \in {"idle", "collecting", "assert", "crash"}
  /\ compound_types_ \in [DOMAIN compound_types_ -> [name : Name, members : SUBSET Nat]]
  /\ function_types_ \in [DOMAIN function_types_ -> [name : Name, arg : Nat, ret : Nat]]
  /\ open \in Seq(SUBSET AnyDefinition)
  /\ closed \subseteq AnyDefinition

(***************************************************************************)
(* An id is given once: every id in use is below the counter, and no two   *)
(* maps have the same.                                                     *)
(***************************************************************************)
IdsGivenOnce ==
  /\ Resolvable \subseteq 0..(id - 1)
  /\ DOMAIN s_builted_simple_types_ \cap DOMAIN compound_types_ = {}
  /\ DOMAIN s_builted_simple_types_ \cap DOMAIN function_types_ = {}
  /\ DOMAIN compound_types_ \cap DOMAIN function_types_ = {}

(***************************************************************************)
(* A program begins with no types of its own, and finds the special types  *)
(* and the basic types by their names.                                     *)
(***************************************************************************)
TreeInv ==
  /\ stage = "idle" => /\ open = <<>>
                       /\ closed = {}
                       /\ DOMAIN compound_types_ = {}
                       /\ DOMAIN function_types_ = {}
  /\ stage # "idle" => /\ open # <<>>
                       /\ kAnyType \in DOMAIN s_builted_simple_types_
                       /\ bucket \in Searches(s_builted_simple_types_)

(***************************************************************************)
(* What a program has collected: every id leads to a type, every type that *)
(* is not basic was defined, and a definition has the type of its word.    *)
(***************************************************************************)
Meaning(d) ==
  \/ d.type = kAnyType
  \/ /\ d.type \in DOMAIN s_builted_simple_types_
     /\ d.word \in DOMAIN bucket
     /\ bucket[d.word] = d.type
  \/ d.type \in DOMAIN compound_types_ /\ compound_types_[d.type].name = d.word
  \/ d.type \in DOMAIN function_types_ /\ function_types_[d.type].name = d.word

CollectedInv ==
  /\ \A d \in Held : d.type \in Resolvable /\ Meaning(d)
  /\ \A c \in DOMAIN compound_types_ :
       /\ compound_types_[c].members \subseteq Resolvable
       /\ \E d \in Held : d.type = c /\ d.word = compound_types_[c].name
  /\ \A f \in DOMAIN function_types_ :
       /\ {function_types_[f].arg, function_types_[f].ret} \subseteq Resolvable
       /\ \E d \in Held : d.type = f /\ d.word = function_types_[f].name

IInv == TypeOK /\ IdsGivenOnce /\ TreeInv /\ CollectedInv

-----------------------------------------------------------------------------
Union(scopes) == UNION {scopes[i] : i \in DOMAIN scopes}

\* AddDefinition adds one definition to those of the open scopes.
LEMMA AddDefinitionAdds ==
  ASSUME NEW X, NEW o \in Seq(SUBSET X), o # <<>>, NEW d \in X
  PROVE  /\ AddDefinition(o, d) \in Seq(SUBSET X)
         /\ AddDefinition(o, d) # <<>>
         /\ Union(AddDefinition(o, d)) = Union(o) \cup {d}
<1> DEFINE p == AddDefinition(o, d)
<1>1. Len(o) \in Nat /\ Len(o) >= 1 /\ DOMAIN o = 1..Len(o) /\ 1 \in DOMAIN o
  BY EmptySeq, LenProperties
<1>2. p = [o EXCEPT ![1] = @ \cup {d}]
  BY DEF AddDefinition
<1>3. o[1] \in SUBSET X
  BY <1>1, ElementOfSeq
<1>4. p \in Seq(SUBSET X) /\ Len(p) = Len(o)
  BY <1>1, <1>2, <1>3, ExceptSeq
<1>5. DOMAIN p = DOMAIN o /\ p[1] = o[1] \cup {d} /\ \A i \in DOMAIN o : i # 1 => p[i] = o[i]
  BY <1>1, <1>2
<1> HIDE DEF p
<1>6. Union(p) = Union(o) \cup {d}
  <2>1. ASSUME NEW x \in Union(p) PROVE x \in Union(o) \cup {d}
    <3>1. PICK i \in DOMAIN o : x \in p[i]
      BY <1>5 DEF Union
    <3>2. x \in o[i] \/ x = d
      BY <1>5, <3>1
    <3> QED
      BY <3>2 DEF Union
  <2>2. ASSUME NEW x \in Union(o) PROVE x \in Union(p)
    <3>1. PICK i \in DOMAIN o : x \in o[i]
      BY DEF Union
    <3>2. x \in p[i]
      BY <1>5, <3>1
    <3> QED
      BY <1>5, <3>2 DEF Union
  <2>3. d \in Union(p)
    BY <1>1, <1>5 DEF Union
  <2> QED
    BY <2>1, <2>2, <2>3
<1>7. p # <<>>
  BY <1>1, <1>4, EmptySeq
<1> QED
  BY <1>4, <1>6, <1>7 DEF p

\* The same, of the scopes being collected.
LEMMA AddDefinitionToOpen ==
  ASSUME open \in Seq(SUBSET AnyDefinition), open # <<>>
  PROVE  \A d \in AnyDefinition : /\ AddDefinition(open, d) \in Seq(SUBSET AnyDefinition)
                                  /\ AddDefinition(open, d) # <<>>
                                  /\ Union(AddDefinition(open, d)) = Union(open) \cup {d}
BY AddDefinitionAdds

\* The scope of a body is opened with no definition in it.
LEMMA BodyAddsNothing ==
  ASSUME NEW X, NEW o \in Seq(SUBSET X)
  PROVE  /\ <<{}>> \o o \in Seq(SUBSET X)
         /\ <<{}>> \o o # <<>>
         /\ Union(<<{}>> \o o) = Union(o)
<1> DEFINE e == <<{}>>
<1> DEFINE p == e \o o
<1>1. e \in Seq(SUBSET X) /\ Len(e) = 1 /\ e[1] = {}
  OBVIOUS
<1> HIDE DEF e
<1>2. /\ p \in Seq(SUBSET X) /\ Len(p) = Len(e) + Len(o)
      /\ \A i \in 1..(Len(e) + Len(o)) : p[i] = IF i <= Len(e) THEN e[i] ELSE o[i - Len(e)]
  BY <1>1, ConcatProperties
<1> HIDE DEF p
<1>3. Len(o) \in Nat /\ DOMAIN o = 1..Len(o) /\ DOMAIN p = 1..(Len(o) + 1) /\ Len(p) = Len(o) + 1
  BY <1>1, <1>2, LenProperties
<1>4. p[1] = {} /\ \A i \in 1..Len(o) : p[i + 1] = o[i]
  <2>1. p[1] = {}
    BY <1>1, <1>2, <1>3
  <2>2. ASSUME NEW i \in 1..Len(o) PROVE p[i + 1] = o[i]
    <3>1. i + 1 \in 1..(1 + Len(o)) /\ ~(i + 1 <= 1) /\ (i + 1) - 1 = i
      BY <1>3
    <3>2. p[i + 1] = o[(i + 1) - 1]
      BY <1>1, <1>2, <3>1
    <3> QED
      BY <3>1, <3>2
  <2> QED
    BY <2>1, <2>2
<1>5. Union(p) = Union(o)
  <2>1. ASSUME NEW x \in Union(p) PROVE x \in Union(o)
    <3>1. PICK i \in 1..(Len(o) + 1) : x \in p[i]
      BY <1>3 DEF Union
    <3>2. i # 1 /\ i - 1 \in 1..Len(o) /\ (i - 1) + 1 = i
      BY <1>3, <1>4, <3>1
    <3>3. x \in o[i - 1]
      BY <1>4, <3>1, <3>2
    <3> QED
      BY <1>3, <3>2, <3>3 DEF Union
  <2>2. ASSUME NEW x \in Union(o) PROVE x \in Union(p)
    <3>1. PICK i \in 1..Len(o) : x \in o[i]
      BY <1>3 DEF Union
    <3>2. i + 1 \in 1..(Len(o) + 1) /\ x \in p[i + 1]
      BY <1>3, <1>4, <3>1
    <3> QED
      BY <1>3, <3>2 DEF Union
  <2> QED
    BY <2>1, <2>2
<1>6. p # <<>>
  BY <1>2, <1>3, EmptySeq
<1> QED
  BY <1>2, <1>5, <1>6 DEF p, e

\* The scope of a body is closed: its definitions are those that leave.
LEMMA BodyIsClosed ==
  ASSUME NEW X, NEW o \in Seq(SUBSET X), Len(o) > 1
  PROVE  /\ Tail(o) \in Seq(SUBSET X)
         /\ Tail(o) # <<>>
         /\ o[1] \in SUBSET X
         /\ o[1] \cup Union(Tail(o)) = Union(o)
<1> DEFINE p == Tail(o)
<1>1. Len(o) \in Nat /\ DOMAIN o = 1..Len(o) /\ o # <<>>
  BY LenProperties, EmptySeq
<1>2. /\ p \in Seq(SUBSET X) /\ Len(p) = Len(o) - 1
      /\ \A i \in 1..Len(p) : p[i] = o[i + 1]
  BY <1>1, HeadTailProperties
<1> HIDE DEF p
<1>3. DOMAIN p = 1..(Len(o) - 1)
  BY <1>2, LenProperties
<1>4. o[1] \in SUBSET X
  BY <1>1, ElementOfSeq
<1>5. o[1] \cup Union(p) = Union(o)
  <2>1. ASSUME NEW x \in Union(p) PROVE x \in Union(o)
    <3>1. PICK i \in 1..(Len(o) - 1) : x \in p[i]
      BY <1>3 DEF Union
    <3>2. i + 1 \in 1..Len(o) /\ x \in o[i + 1]
      BY <1>1, <1>2, <3>1
    <3> QED
      BY <1>1, <3>2 DEF Union
  <2>2. ASSUME NEW x \in Union(o) PROVE x \in o[1] \/ x \in Union(p)
    <3>1. PICK i \in 1..Len(o) : x \in o[i]
      BY <1>1 DEF Union
    <3>2. CASE i = 1
      BY <3>1, <3>2
    <3>3. CASE i # 1
      <4>1. i - 1 \in 1..(Len(o) - 1) /\ (i - 1) + 1 = i
        BY <1>1, <3>3
      <4>2. x \in p[i - 1]
        BY <1>2, <3>1, <4>1
      <4> QED
        BY <1>3, <4>1, <4>2 DEF Union
    <3> QED
      BY <3>2, <3>3
  <2>3. o[1] \subseteq Union(o)
    BY <1>1 DEF Union
  <2> QED
    BY <2>1, <2>2, <2>3
<1>6. p # <<>>
  BY <1>1, <1>2, EmptySeq
<1> QED
  BY <1>2, <1>4, <1>5, <1>6 DEF p

-----------------------------------------------------------------------------
\* init_basic_types takes its ids from the counter, and leaves it above them.
LEMMA BasicTypesBelow ==
  ASSUME id \in Nat, id >= FirstTypeID, DOMAIN s_builted_simple_types_ \subseteq 0..(id - 1)
  PROVE  /\ Cardinality(Lines) \in Nat
         /\ DOMAIN WithBasicTypes \subseteq 0..(id + Cardinality(Lines) - 1)
         /\ kAnyType \in DOMAIN WithBasicTypes
<1>1. IsFiniteSet(Lines) /\ Lines \subseteq Nat
  <2>1. DOMAIN BasicTypeStr = 1..Len(BasicTypeStr) /\ Len(BasicTypeStr) \in Nat
    BY TypeSystemAssumption, LenProperties DEF TypeSystemAssumption
  <2>2. IsFiniteSet(1..Len(BasicTypeStr))
    BY <2>1, FS_Interval
  <2>3. Lines \in SUBSET (1..Len(BasicTypeStr))
    BY <2>1 DEF Lines
  <2>4. IsFiniteSet(Lines)
    BY <2>2, <2>3, FS_Subset
  <2> QED
    BY <2>1, <2>3, <2>4
<1>2. Cardinality(Lines) \in Nat
  BY <1>1, FS_CardinalityType
<1>3. ASSUME NEW n \in Lines PROVE LineID(n) \in 0..(id + Cardinality(Lines) - 1)
  <2> DEFINE B == {m \in Lines : m < n}
  <2>1. B \in SUBSET Lines /\ B # Lines
    BY <1>1
  <2> HIDE DEF B
  <2>2. IsFiniteSet(B) /\ Cardinality(B) <= Cardinality(Lines) /\ Cardinality(Lines) # Cardinality(B)
    BY <1>1, <2>1, FS_Subset
  <2>3. Cardinality(B) \in Nat
    BY <2>2, FS_CardinalityType
  <2>4. LineID(n) = id + Cardinality(B)
    BY DEF LineID, B
  <2> QED
    BY <1>2, <2>2, <2>3, <2>4
<1>4. DOMAIN WithBasicTypes =
        DOMAIN s_builted_simple_types_ \cup {LineID(n) : n \in Lines} \cup SpecialTypes
  BY DEF WithBasicTypes
<1>5. SpecialTypes \subseteq 0..(id + Cardinality(Lines) - 1) /\ kAnyType \in SpecialTypes
  BY <1>2 DEF SpecialTypes, kAllTypes, kAllCompoundType, kAllFunction, kAnyType, FirstTypeID
<1>6. 0..(id - 1) \subseteq 0..(id + Cardinality(Lines) - 1)
  BY <1>2
<1> QED
  BY <1>2, <1>3, <1>4, <1>5, <1>6

\* GetTypeIDByStr: the id it finds for a word is that of a type of this name.
LEMMA FoundType ==
  ASSUME IInv, stage # "idle", NEW w \in Name, NEW t \in GetTypeIDByStr(w), t # kNotExist
  PROVE  t \in Nat /\ t \in Resolvable /\ Meaning(Definition(t, w))
<1>1. Definition(t, w).type = t /\ Definition(t, w).word = w
  BY DEF Definition
<1>2. Resolvable \subseteq Nat
  BY DEF IInv, IdsGivenOnce
<1>3. CASE w \in DOMAIN bucket
  <2>1. t = bucket[w]
    BY <1>3 DEF GetTypeIDByStr
  <2>2. bucket[w] \in DOMAIN s_builted_simple_types_
    BY <1>3 DEF IInv, TreeInv, Searches
  <2> QED
    BY <1>1, <1>2, <1>3, <2>1, <2>2 DEF Meaning, Resolvable
<1>4. CASE w \notin DOMAIN bucket
  <2>1. \/ t \in DOMAIN compound_types_ /\ compound_types_[t].name = w
        \/ t \in DOMAIN function_types_ /\ function_types_[t].name = w
    BY <1>4 DEF GetTypeIDByStr
  <2> QED
    BY <1>1, <1>2, <2>1 DEF Meaning, Resolvable
<1> QED
  BY <1>3, <1>4

\* The process starts with no types at all.
LEMMA InitIInv == Init => IInv
<1> SUFFICES ASSUME Init PROVE IInv
  OBVIOUS
<1>1. DOMAIN s_builted_simple_types_ = {} /\ DOMAIN compound_types_ = {}
      /\ DOMAIN function_types_ = {}
  BY DEF Init, NoTypes
<1>2. Held = {}
  BY DEF Init, Held
<1>3. TypeOK
  <2>1. s_builted_simple_types_ = [i \in DOMAIN s_builted_simple_types_ |-> s_builted_simple_types_[i]]
    BY <1>1 DEF Init, NoTypes
  <2>2. compound_types_ \in [DOMAIN compound_types_ -> [name : Name, members : SUBSET Nat]]
        /\ function_types_ \in [DOMAIN function_types_ -> [name : Name, arg : Nat, ret : Nat]]
    BY <1>1 DEF Init, NoTypes
  <2> QED
    BY <2>1, <2>2 DEF Init, TypeOK, FirstTypeID
<1>4. IdsGivenOnce
  BY <1>1 DEF IdsGivenOnce, Resolvable
<1>5. TreeInv
  BY <1>1 DEF Init, TreeInv
<1>6. CollectedInv
  BY <1>1, <1>2 DEF CollectedInv
<1> QED
  BY <1>3, <1>4, <1>5, <1>6 DEF IInv

\* A new program: the ids of the last one's types are not given again.
LEMMA NewTreeStep == IInv /\ NewTree => IInv'
<1> SUFFICES ASSUME IInv, NewTree PROVE IInv'
  OBVIOUS
<1>1. id \in Nat /\ id >= FirstTypeID /\ DOMAIN s_builted_simple_types_ \subseteq 0..(id - 1)
  BY DEF IInv, TypeOK, IdsGivenOnce, Resolvable
<1>2. /\ Cardinality(Lines) \in Nat
      /\ DOMAIN WithBasicTypes \subseteq 0..(id + Cardinality(Lines) - 1)
      /\ kAnyType \in DOMAIN WithBasicTypes
  BY <1>1, BasicTypesBelow
<1>3. /\ s_builted_simple_types_' = WithBasicTypes
      /\ id' = id + Cardinality(Lines)
      /\ bucket' \in Searches(s_builted_simple_types_')
  BY DEF NewTree, InitBasicTypes
<1>4. /\ DOMAIN compound_types_ = {} /\ DOMAIN function_types_ = {} /\ closed = {}
      /\ compound_types_' = compound_types_ /\ function_types_' = function_types_
      /\ closed' = {} /\ open' = <<{}>> /\ stage' = "collecting"
  BY DEF NewTree, IInv, TreeInv, typeSystem
<1>5. Held' = {}
  BY <1>4 DEF Held
<1>6. TypeOK'
  <2>1. WithBasicTypes = [i \in DOMAIN WithBasicTypes |-> WithBasicTypes[i]]
    BY DEF WithBasicTypes
  <2>2. open' \in Seq(SUBSET AnyDefinition)
    BY <1>4
  <2>3. (compound_types_ \in [DOMAIN compound_types_ -> [name : Name, members : SUBSET Nat]]
        /\ function_types_ \in [DOMAIN function_types_ -> [name : Name, arg : Nat, ret : Nat]])'
    BY <1>4 DEF IInv, TypeOK
  <2>4. id' \in Nat /\ id' >= FirstTypeID
    BY <1>1, <1>2, <1>3 DEF FirstTypeID
  <2> QED
    BY <1>3, <1>4, <2>1, <2>2, <2>3, <2>4 DEF TypeOK
<1>7. IdsGivenOnce'
  <2>1. Resolvable' = DOMAIN WithBasicTypes
    BY <1>3, <1>4 DEF Resolvable
  <2>2. Resolvable' \subseteq 0..(id' - 1)
    <3> DEFINE top == id + Cardinality(Lines) - 1
    <3>1. id' - 1 = top
      BY <1>1, <1>2, <1>3
    <3>2. DOMAIN WithBasicTypes \subseteq 0..top
      BY <1>2
    <3> HIDE DEF top
    <3> QED
      BY <2>1, <3>1, <3>2
  <2> QED
    BY <1>4, <2>2 DEF IdsGivenOnce
<1>8. TreeInv'
  BY <1>2, <1>3, <1>4 DEF TreeInv
<1>9. CollectedInv'
  BY <1>4, <1>5 DEF CollectedInv
<1> QED
  BY <1>6, <1>7, <1>8, <1>9 DEF IInv

\* A definition more, of a type that there is: no map has changed.
LEMMA DefinitionStep ==
  ASSUME IInv, stage # "idle", UNCHANGED <<shared, typeSystem>>, stage' \in {"collecting"},
         NEW D \in SUBSET AnyDefinition, \A d \in D : d.type \in Resolvable /\ Meaning(d),
         open' \in Seq(SUBSET AnyDefinition), open' # <<>>, closed' \subseteq AnyDefinition,
         Held' = Held \cup D
  PROVE  IInv'
<1>1. Resolvable' = Resolvable /\ \A d : Meaning(d)' <=> Meaning(d)
  BY DEF Resolvable, Meaning, shared, typeSystem
<1>2. TypeOK'
  BY DEF IInv, TypeOK, shared, typeSystem
<1>3. IdsGivenOnce'
  BY <1>1 DEF IInv, IdsGivenOnce, shared, typeSystem
<1>4. TreeInv'
  BY DEF IInv, TreeInv, shared, typeSystem
<1>5. CollectedInv'
  <2>1. \A d \in Held' : d.type \in Resolvable' /\ Meaning(d)'
    BY <1>1 DEF IInv, CollectedInv
  <2>2. compound_types_' = compound_types_ /\ function_types_' = function_types_ /\ Held \subseteq Held'
    BY DEF typeSystem
  <2> QED
    BY <1>1, <2>1, <2>2 DEF IInv, CollectedInv
<1> QED
  BY <1>2, <1>3, <1>4, <1>5 DEF IInv

\* Nothing but the stage changes: the process has ended.
LEMMA EndStep ==
  ASSUME IInv, stage # "idle", UNCHANGED <<shared, typeSystem, open, closed>>,
         stage' \in {"collecting", "assert", "crash"}
  PROVE  IInv'
<1>1. Resolvable' = Resolvable /\ Held' = Held /\ \A d : Meaning(d)' <=> Meaning(d)
  BY DEF Resolvable, Meaning, Held, shared, typeSystem
<1>2. TypeOK' /\ TreeInv'
  BY DEF IInv, TypeOK, TreeInv, shared, typeSystem
<1>3. IdsGivenOnce' /\ CollectedInv'
  BY <1>1 DEF IInv, IdsGivenOnce, CollectedInv, shared, typeSystem
<1> QED
  BY <1>2, <1>3 DEF IInv

\* A map that has grown has not changed the meaning of a definition.
LEMMA MeaningStays ==
  ASSUME UNCHANGED <<s_builted_simple_types_, bucket>>,
         DOMAIN compound_types_ \subseteq DOMAIN compound_types_',
         \A c \in DOMAIN compound_types_ : compound_types_'[c] = compound_types_[c],
         DOMAIN function_types_ \subseteq DOMAIN function_types_',
         \A f \in DOMAIN function_types_ : function_types_'[f] = function_types_[f]
  PROVE  Resolvable \subseteq Resolvable' /\ \A d : Meaning(d) => Meaning(d)'
<1>1. Resolvable \subseteq Resolvable'
  BY DEF Resolvable
<1>2. ASSUME NEW d, Meaning(d) PROVE Meaning(d)'
  BY <1>2 DEF Meaning
<1> QED
  BY <1>1, <1>2

\* CreateCompoundType: the id is new, and the members are types there are.
LEMMA StructureStep ==
  ASSUME IInv, NEW name \in Name, CollectStructureDefinition(name)
  PROVE  IInv'
<1> DEFINE members == {d.type : d \in open[1]}
<1> DEFINE rec == [name |-> name, members |-> members]
<1> DEFINE d0 == Definition(id, name)
<1>0. /\ compound_types_' = Put(compound_types_, id, rec)
      /\ function_types_' = function_types_
      /\ UNCHANGED <<s_builted_simple_types_, bucket, stage>>
      /\ id' = id + 1 /\ stage = "collecting"
      /\ open' = AddDefinition(Tail(open), d0)
      /\ closed' = closed \cup open[1]
      /\ Len(open) > 1
  BY DEF CollectStructureDefinition, gen_type_id
<1>1. id \in Nat /\ id \notin Resolvable /\ d0 \in AnyDefinition /\ d0.type = id /\ d0.word = name
  BY DEF IInv, TypeOK, IdsGivenOnce, AnyDefinition, Definition
<1>2. /\ Tail(open) \in Seq(SUBSET AnyDefinition) /\ Tail(open) # <<>>
      /\ open[1] \in SUBSET AnyDefinition /\ open[1] \cup Union(Tail(open)) = Union(open)
  BY <1>0, BodyIsClosed DEF IInv, TypeOK
<1> HIDE DEF d0
<1>3. /\ open' \in Seq(SUBSET AnyDefinition) /\ open' # <<>>
      /\ Union(open') = Union(Tail(open)) \cup {d0}
  <2> DEFINE o == Tail(open)
  <2>1. o \in Seq(SUBSET AnyDefinition) /\ o # <<>>
    BY <1>2
  <2>2. open' = AddDefinition(o, d0)
    BY <1>0
  <2> HIDE DEF o
  <2>3. /\ AddDefinition(o, d0) \in Seq(SUBSET AnyDefinition) /\ AddDefinition(o, d0) # <<>>
        /\ Union(AddDefinition(o, d0)) = Union(o) \cup {d0}
    BY <1>1, <2>1, AddDefinitionAdds
  <2> QED
    BY <2>2, <2>3 DEF o
<1>4. Held = closed \cup Union(open) /\ Held' = closed' \cup Union(open')
  BY DEF Held, Union
<1>5. Held' = Held \cup {d0} /\ open[1] \subseteq Held
  BY <1>0, <1>2, <1>3, <1>4
<1>6. members \subseteq Resolvable /\ members \subseteq Nat
  BY <1>2, <1>5 DEF IInv, CollectedInv, AnyDefinition
<1>7. rec \in [name : Name, members : SUBSET Nat] /\ rec.name = name /\ rec.members = members
  BY <1>6
<1> HIDE DEF rec, members
<1>8. /\ DOMAIN compound_types_' = DOMAIN compound_types_ \cup {id}
      /\ compound_types_'[id] = rec
      /\ \A c \in DOMAIN compound_types_ : compound_types_'[c] = compound_types_[c]
      /\ compound_types_' \in [DOMAIN compound_types_' -> [name : Name, members : SUBSET Nat]]
  <2>1. id \notin DOMAIN compound_types_
    BY <1>1 DEF Resolvable
  <2>2. compound_types_ \in [DOMAIN compound_types_ -> [name : Name, members : SUBSET Nat]]
    BY DEF IInv, TypeOK
  <2> DEFINE P == Put(compound_types_, id, rec)
  <2>3. /\ P \in [DOMAIN compound_types_ \cup {id} -> [name : Name, members : SUBSET Nat]]
        /\ P[id] = rec
        /\ \A c \in DOMAIN compound_types_ : c # id => P[c] = compound_types_[c]
    <3> DEFINE V == [name : Name, members : SUBSET Nat]
    <3> DEFINE S == DOMAIN compound_types_
    <3>1. compound_types_ \in [S -> V] /\ rec \in V
      BY <1>7, <2>2
    <3> HIDE DEF V, S
    <3>2. P \in [S \cup {id} -> V] /\ P[id] = rec /\ \A c \in S : c # id => P[c] = compound_types_[c]
      BY <3>1 DEF Put
    <3> QED
      BY <3>2 DEF V, S
  <2>4. compound_types_' = P
    BY <1>0
  <2> HIDE DEF P
  <2> QED
    BY <2>1, <2>3, <2>4
<1>9. Resolvable \subseteq Resolvable' /\ (\A d : Meaning(d) => Meaning(d)')
      /\ Resolvable' = Resolvable \cup {id}
  <2>1. Resolvable' = Resolvable \cup {id}
    BY <1>0, <1>8 DEF Resolvable
  <2> QED
    BY <1>0, <1>8, <2>1, MeaningStays
<1>10. TypeOK'
  BY <1>0, <1>1, <1>2, <1>3, <1>8 DEF IInv, TypeOK, FirstTypeID
<1>11. IdsGivenOnce'
  <2>1. Resolvable' \subseteq 0..(id' - 1)
    <3>1. Resolvable \subseteq 0..(id - 1)
      BY DEF IInv, IdsGivenOnce
    <3>2. 0..(id - 1) \cup {id} = 0..((id + 1) - 1)
      BY <1>1
    <3> QED
      BY <1>0, <1>1, <1>9, <3>1, <3>2
  <2> QED
    BY <1>0, <1>1, <1>8, <2>1 DEF IInv, IdsGivenOnce, Resolvable
<1>12. TreeInv'
  BY <1>0, <1>3 DEF IInv, TreeInv
<1>13. CollectedInv'
  <2>1. ASSUME NEW d \in Held' PROVE d.type \in Resolvable' /\ Meaning(d)'
    <3>1. CASE d \in Held
      BY <1>9, <3>1 DEF IInv, CollectedInv
    <3>2. CASE d = d0
      BY <1>1, <1>7, <1>8, <1>9, <3>2 DEF Meaning
    <3> QED
      BY <1>5, <3>1, <3>2
  <2>2. ASSUME NEW c \in DOMAIN compound_types_'
        PROVE  /\ compound_types_'[c].members \subseteq Resolvable'
               /\ \E d \in Held' : d.type = c /\ d.word = compound_types_'[c].name
    <3>1. CASE c = id
      BY <1>1, <1>5, <1>6, <1>7, <1>8, <1>9, <3>1
    <3>2. CASE c \in DOMAIN compound_types_
      BY <1>5, <1>8, <1>9, <3>2 DEF IInv, CollectedInv
    <3> QED
      BY <1>8, <3>1, <3>2
  <2>3. ASSUME NEW f \in DOMAIN function_types_'
        PROVE  /\ {function_types_'[f].arg, function_types_'[f].ret} \subseteq Resolvable'
               /\ \E d \in Held' : d.type = f /\ d.word = function_types_'[f].name
    BY <1>0, <1>5, <1>9 DEF IInv, CollectedInv
  <2> QED
    BY <2>1, <2>2, <2>3 DEF CollectedInv
<1> QED
  BY <1>10, <1>11, <1>12, <1>13 DEF IInv

\* CreateFunctionType: the id is new, and the types of the argument and of the
\* result are there.
LEMMA FunctionStep ==
  ASSUME IInv, stage = "collecting", NEW name \in Name, NEW w \in Name,
         NEW arg \in Nat, NEW ret \in Nat, arg \in Resolvable, ret \in Resolvable,
         Meaning(Definition(arg, w)),
         function_types_' = Put(function_types_, id, [name |-> name, arg |-> arg, ret |-> ret]),
         id' = id + 1,
         open' = AddDefinition(open, Definition(id, name)),
         closed' = closed \cup {Definition(arg, w)},
         UNCHANGED <<s_builted_simple_types_, bucket, stage, compound_types_>>
  PROVE  IInv'
<1> DEFINE rec == [name |-> name, arg |-> arg, ret |-> ret]
<1> DEFINE d0 == Definition(id, name)
<1> DEFINE d1 == Definition(arg, w)
<1>1. /\ id \in Nat /\ id \notin Resolvable
      /\ d0 \in AnyDefinition /\ d0.type = id /\ d0.word = name
      /\ d1 \in AnyDefinition /\ d1.type = arg /\ Meaning(d1)
  BY DEF IInv, TypeOK, IdsGivenOnce, AnyDefinition, Definition
<1> HIDE DEF d0, d1
<1>2. open \in Seq(SUBSET AnyDefinition) /\ open # <<>>
  BY DEF IInv, TypeOK, TreeInv
<1>3. /\ open' \in Seq(SUBSET AnyDefinition) /\ open' # <<>>
      /\ Union(open') = Union(open) \cup {d0}
  <2>1. open' = AddDefinition(open, d0)
    BY DEF d0
  <2>2. /\ AddDefinition(open, d0) \in Seq(SUBSET AnyDefinition) /\ AddDefinition(open, d0) # <<>>
        /\ Union(AddDefinition(open, d0)) = Union(open) \cup {d0}
    BY <1>1, <1>2, AddDefinitionToOpen
  <2> QED
    BY <2>1, <2>2
<1>4. Held = closed \cup Union(open) /\ Held' = closed' \cup Union(open')
  BY DEF Held, Union
<1>5. Held' = Held \cup {d0, d1}
  BY <1>3, <1>4 DEF d1
<1>6. rec \in [name : Name, arg : Nat, ret : Nat] /\ rec.name = name /\ rec.arg = arg /\ rec.ret = ret
  OBVIOUS
<1>7. /\ DOMAIN function_types_' = DOMAIN function_types_ \cup {id}
      /\ function_types_'[id] = rec
      /\ \A f \in DOMAIN function_types_ : function_types_'[f] = function_types_[f]
      /\ function_types_' \in [DOMAIN function_types_' -> [name : Name, arg : Nat, ret : Nat]]
  <2>1. id \notin DOMAIN function_types_
    BY <1>1 DEF Resolvable
  <2>2. function_types_ \in [DOMAIN function_types_ -> [name : Name, arg : Nat, ret : Nat]]
    BY DEF IInv, TypeOK
  <2> DEFINE P == Put(function_types_, id, rec)
  <2>3. function_types_' = P
    OBVIOUS
  <2> HIDE DEF rec
  <2>4. /\ P \in [DOMAIN function_types_ \cup {id} -> [name : Name, arg : Nat, ret : Nat]]
        /\ P[id] = rec
        /\ \A f \in DOMAIN function_types_ : f # id => P[f] = function_types_[f]
    <3> DEFINE V == [name : Name, arg : Nat, ret : Nat]
    <3> DEFINE S == DOMAIN function_types_
    <3>1. function_types_ \in [S -> V] /\ rec \in V
      BY <1>6, <2>2
    <3> HIDE DEF V, S
    <3>2. P \in [S \cup {id} -> V] /\ P[id] = rec /\ \A f \in S : f # id => P[f] = function_types_[f]
      BY <3>1 DEF Put
    <3> QED
      BY <3>2 DEF V, S
  <2> HIDE DEF P
  <2> QED
    BY <2>1, <2>3, <2>4
<1> HIDE DEF rec
<1>9. Resolvable \subseteq Resolvable' /\ (\A d : Meaning(d) => Meaning(d)')
      /\ Resolvable' = Resolvable \cup {id}
  <2>1. Resolvable' = Resolvable \cup {id}
    BY <1>7 DEF Resolvable
  <2> QED
    BY <1>7, <2>1, MeaningStays
<1>10. TypeOK'
  BY <1>1, <1>3, <1>7 DEF IInv, TypeOK, FirstTypeID, d1
<1>11. IdsGivenOnce'
  <2>1. Resolvable' \subseteq 0..(id' - 1)
    <3>1. Resolvable \subseteq 0..(id - 1)
      BY DEF IInv, IdsGivenOnce
    <3>2. 0..(id - 1) \cup {id} = 0..((id + 1) - 1)
      BY <1>1
    <3> QED
      BY <1>1, <1>9, <3>1, <3>2
  <2> QED
    BY <1>1, <1>7, <2>1 DEF IInv, IdsGivenOnce, Resolvable
<1>12. TreeInv'
  BY <1>3 DEF IInv, TreeInv
<1>13. CollectedInv'
  <2>1. ASSUME NEW d \in Held' PROVE d.type \in Resolvable' /\ Meaning(d)'
    <3>1. CASE d \in Held
      BY <1>9, <3>1 DEF IInv, CollectedInv
    <3>2. CASE d = d0
      BY <1>1, <1>6, <1>7, <1>9, <3>2 DEF Meaning
    <3>3. CASE d = d1
      BY <1>1, <1>9, <3>3
    <3> QED
      BY <1>5, <3>1, <3>2, <3>3
  <2>2. ASSUME NEW c \in DOMAIN compound_types_'
        PROVE  /\ compound_types_'[c].members \subseteq Resolvable'
               /\ \E d \in Held' : d.type = c /\ d.word = compound_types_'[c].name
    BY <1>5, <1>9 DEF IInv, CollectedInv
  <2>3. ASSUME NEW f \in DOMAIN function_types_'
        PROVE  /\ {function_types_'[f].arg, function_types_'[f].ret} \subseteq Resolvable'
               /\ \E d \in Held' : d.type = f /\ d.word = function_types_'[f].name
    <3>1. CASE f = id
      BY <1>1, <1>5, <1>6, <1>7, <1>9, <3>1
    <3>2. CASE f \in DOMAIN function_types_
      BY <1>5, <1>7, <1>9, <3>2 DEF IInv, CollectedInv
    <3> QED
      BY <1>7, <3>1, <3>2
  <2> QED
    BY <2>1, <2>2, <2>3 DEF CollectedInv
<1> QED
  BY <1>10, <1>11, <1>12, <1>13 DEF IInv

\* Every definition of a program, and every program, keeps the types in order.
LEMMA NextIInv == IInv /\ [Next]_vars => IInv'
<1> SUFFICES ASSUME IInv, [Next]_vars PROVE IInv'
  OBVIOUS
<1>0. /\ open \in Seq(SUBSET AnyDefinition) /\ closed \subseteq AnyDefinition
      /\ (stage # "idle" => open # <<>> /\ kAnyType \in Resolvable)
  BY DEF IInv, TypeOK, TreeInv, Resolvable
<1>1. CASE NewTree
  BY <1>1, NewTreeStep
<1>2. ASSUME NEW w \in Name, CollectVariable(w) PROVE IInv'
  <2>1. stage = "collecting" /\ UNCHANGED <<shared, typeSystem, closed>>
    BY <1>2 DEF CollectVariable, Collecting
  <2>2. PICK t \in GetTypeIDByStr(w) :
          \/ stage' = "assert" /\ UNCHANGED open
          \/ /\ UNCHANGED stage
             /\ open' = AddDefinition(open, Definition(IF t = kNotExist THEN kAnyType ELSE t, w))
    BY <1>2 DEF CollectVariable
  <2>3. CASE stage' = "assert" /\ UNCHANGED open
    BY <2>1, <2>3, EndStep
  <2>4. CASE /\ UNCHANGED stage
             /\ open' = AddDefinition(open, Definition(IF t = kNotExist THEN kAnyType ELSE t, w))
    <3> DEFINE u == IF t = kNotExist THEN kAnyType ELSE t
    <3> DEFINE d == Definition(u, w)
    <3>1. u \in Nat /\ u \in Resolvable /\ Meaning(d)
      <4>1. CASE t = kNotExist
        BY <4>1, <1>0, <2>1 DEF Meaning, Definition, kAnyType
      <4>2. CASE t # kNotExist
        BY <4>2, <2>1, FoundType
      <4> QED
        BY <4>1, <4>2
    <3> HIDE DEF u
    <3>2. d \in AnyDefinition /\ d.type \in Resolvable /\ Meaning(d)
      BY <3>1 DEF AnyDefinition, Definition
    <3>3. open' = AddDefinition(open, d)
      BY <2>4 DEF u
    <3> HIDE DEF d
    <3>4. /\ AddDefinition(open, d) \in Seq(SUBSET AnyDefinition) /\ AddDefinition(open, d) # <<>>
          /\ Union(AddDefinition(open, d)) = Union(open) \cup {d}
      <4>1. open \in Seq(SUBSET AnyDefinition) /\ open # <<>>
        BY <1>0, <2>1
      <4>2. d \in AnyDefinition
        BY <3>2
      <4> QED
        BY <4>1, <4>2, AddDefinitionToOpen
    <3>5. Held' = Held \cup {d}
      BY <2>1, <3>3, <3>4 DEF Held, Union
    <3>6. {d} \in SUBSET AnyDefinition /\ \A x \in {d} : x.type \in Resolvable /\ Meaning(x)
      BY <3>2
    <3> QED
      BY <1>0, <2>1, <2>4, <3>3, <3>4, <3>5, <3>6, DefinitionStep
  <2> QED
    BY <2>2, <2>3, <2>4
<1>3. CASE CollectStructureBody
  <2>1. /\ stage = "collecting" /\ stage' = stage /\ UNCHANGED <<shared, typeSystem, closed>>
        /\ open' = <<{}>> \o open
    BY <1>3 DEF CollectStructureBody, Collecting
  <2>2. /\ open' \in Seq(SUBSET AnyDefinition) /\ open' # <<>> /\ Union(open') = Union(open)
    BY <1>0, <2>1, BodyAddsNothing
  <2>3. Held' = Held \cup {}
    BY <2>1, <2>2 DEF Held, Union
  <2>4. {} \in SUBSET AnyDefinition /\ \A x \in {} : x.type \in Resolvable /\ Meaning(x)
    OBVIOUS
  <2>5. stage # "idle" /\ stage' \in {"collecting"} /\ closed' \subseteq AnyDefinition
    BY <1>0, <2>1
  <2> QED
    BY <2>1, <2>2, <2>3, <2>4, <2>5, DefinitionStep
<1>4. ASSUME NEW name \in Name, CollectStructureDefinition(name) PROVE IInv'
  BY <1>4, StructureStep
<1>5. ASSUME NEW name \in Name, NEW w \in Name, NEW v \in Name,
             CollectFunctionDefinition(name, w, v)
      PROVE  IInv'
  <2>1. /\ stage = "collecting"
        /\ UNCHANGED <<s_builted_simple_types_, bucket, compound_types_>>
    BY <1>5 DEF CollectFunctionDefinition, Collecting
  <2>2. PICK arg \in GetTypeIDByStr(w), ret \in GetTypeIDByStr(v) :
          IF arg = kNotExist
          THEN stage' = "crash" /\ UNCHANGED <<id, function_types_, open, closed>>
          ELSE /\ CreateFunctionType(name, ret, arg, open)
               /\ closed' = closed \cup {Definition(arg, w)}
               /\ UNCHANGED stage
    BY <1>5 DEF CollectFunctionDefinition
  <2>3. CASE arg = kNotExist
    <3>1. stage' = "crash" /\ UNCHANGED <<shared, typeSystem, open, closed>>
      BY <2>1, <2>2, <2>3 DEF shared, typeSystem
    <3> QED
      BY <2>1, <3>1, EndStep
  <2>4. CASE arg # kNotExist
    <3>1. arg \in Nat /\ arg \in Resolvable /\ Meaning(Definition(arg, w))
      BY <2>1, <2>4, FoundType
    <3>2. /\ CreateFunctionType(name, ret, arg, open)
          /\ closed' = closed \cup {Definition(arg, w)}
          /\ UNCHANGED stage
      BY <2>2, <2>4
    <3>3. CASE ret = kNotExist
      <4> DEFINE d == Definition(arg, w)
      <4>1. d \in AnyDefinition /\ d.type \in Resolvable /\ Meaning(d)
        BY <3>1 DEF AnyDefinition, Definition
      <4>2. open' = open /\ UNCHANGED <<shared, typeSystem>>
        BY <2>1, <3>2, <3>3 DEF CreateFunctionType, shared, typeSystem
      <4> HIDE DEF d
      <4>3. closed' = closed \cup {d} /\ closed' \subseteq AnyDefinition
        BY <1>0, <3>2, <4>1 DEF d
      <4>4. Held' = Held \cup {d}
        BY <4>2, <4>3 DEF Held
      <4>5. {d} \in SUBSET AnyDefinition /\ \A x \in {d} : x.type \in Resolvable /\ Meaning(x)
        BY <4>1
      <4> QED
        BY <1>0, <2>1, <3>2, <4>2, <4>3, <4>4, <4>5, DefinitionStep
    <3>4. CASE ret # kNotExist
      <4>1. ret \in Nat /\ ret \in Resolvable
        BY <2>1, <3>4, FoundType
      <4>2. /\ function_types_' = Put(function_types_, id, [name |-> name, arg |-> arg, ret |-> ret])
            /\ id' = id + 1
            /\ open' = AddDefinition(open, Definition(id, name))
        BY <3>2, <3>4 DEF CreateFunctionType, gen_type_id
      <4> QED
        BY <2>1, <3>1, <3>2, <4>1, <4>2, FunctionStep
    <3> QED
      BY <3>3, <3>4
  <2> QED
    BY <2>3, <2>4
<1>6. CASE DestroyTree
  <2>1. /\ compound_types_' = NoTypes /\ function_types_' = NoTypes
        /\ open' = <<>> /\ closed' = {} /\ stage' = "idle"
        /\ UNCHANGED shared
    BY <1>6 DEF DestroyTree
  <2>2. DOMAIN compound_types_' = {} /\ DOMAIN function_types_' = {} /\ Held' = {}
    BY <2>1 DEF NoTypes, Held
  <2>3. compound_types_' \in [DOMAIN compound_types_' -> [name : Name, members : SUBSET Nat]]
        /\ function_types_' \in [DOMAIN function_types_' -> [name : Name, arg : Nat, ret : Nat]]
    BY <2>1, <2>2 DEF NoTypes
  <2>4. TypeOK' /\ TreeInv'
    BY <2>1, <2>2, <2>3 DEF IInv, TypeOK, TreeInv, shared
  <2>5. IdsGivenOnce' /\ CollectedInv'
    BY <2>1, <2>2 DEF IInv, IdsGivenOnce, CollectedInv, Resolvable, shared
  <2> QED
    BY <2>4, <2>5 DEF IInv
<1>7. CASE UNCHANGED vars
  <2>1. Resolvable' = Resolvable /\ Held' = Held /\ \A d : Meaning(d)' <=> Meaning(d)
    BY <1>7 DEF Resolvable, Meaning, Held, vars, shared, typeSystem
  <2>2. TypeOK' /\ TreeInv'
    BY <1>7 DEF IInv, TypeOK, TreeInv, vars, shared, typeSystem
  <2>3. IdsGivenOnce' /\ CollectedInv'
    BY <1>7, <2>1 DEF IInv, IdsGivenOnce, CollectedInv, vars, shared, typeSystem
  <2> QED
    BY <2>2, <2>3 DEF IInv
<1> QED
  BY <1>1, <1>2, <1>3, <1>4, <1>5, <1>6, <1>7 DEF Next

(***************************************************************************)
(* The invariant of the types of all programs.                             *)
(***************************************************************************)
THEOREM TypesInvariant == Spec => []IInv
BY InitIInv, NextIInv, PTL DEF Spec

\* The search of the basic types ends at a type of the name.
LEMMA BucketNames ==
  ASSUME IInv, NEW d \in Held, d.word \in DOMAIN bucket
  PROVE  s_builted_simple_types_[bucket[d.word]] = d.word
<1>1. stage # "idle"
  BY DEF IInv, TreeInv, Held
<1> QED
  BY <1>1 DEF IInv, TreeInv, Searches

(***************************************************************************)
(* Whatever programs were validated before, every id that a symbol table   *)
(* or a type of this program holds is of one type of one kind, basic or    *)
(* defined by this program, with the name the program has for it: the      *)
(* GetTypePtrByID of the generator never yields null for it.               *)
(***************************************************************************)
THEOREM TypesResolve == Spec => []HeldTypesResolve
<1>1. IInv => HeldTypesResolve
  <2> SUFFICES ASSUME IInv PROVE HeldTypesResolve
    OBVIOUS
  <2>1. ASSUME NEW t \in HeldTypes PROVE t \in Resolvable
    <3> DEFINE A == {d.type : d \in Held}
    <3> DEFINE B == UNION {compound_types_[c].members : c \in DOMAIN compound_types_}
    <3> DEFINE C == {function_types_[f].arg : f \in DOMAIN function_types_}
    <3> DEFINE E == {function_types_[f].ret : f \in DOMAIN function_types_}
    <3>1. HeldTypes = A \cup C \cup E \cup B
      BY DEF HeldTypes
    <3>2. A \subseteq Resolvable /\ B \subseteq Resolvable
      BY DEF IInv, CollectedInv
    <3>3. C \subseteq Resolvable /\ E \subseteq Resolvable
      BY DEF IInv, CollectedInv
    <3> HIDE DEF A, B, C, E
    <3> QED
      BY <3>1, <3>2, <3>3
  <2>2. \A t \in HeldTypes : IsBasicType(t) \/ IsCompoundType(t) \/ IsFunctionType(t)
    BY <2>1 DEF Resolvable, IsBasicType, IsCompoundType, IsFunctionType
  <2>3. \A t \in HeldTypes : /\ IsBasicType(t) => ~IsCompoundType(t) /\ ~IsFunctionType(t)
                             /\ IsCompoundType(t) => ~IsFunctionType(t)
    BY DEF IInv, IdsGivenOnce, IsBasicType, IsCompoundType, IsFunctionType
  <2>4. ASSUME NEW d \in Held PROVE d.type = kAnyType \/ NameOf(d.type) = d.word
    <3>1. Meaning(d)
      BY DEF IInv, CollectedInv
    <3>2. CASE d.type \in DOMAIN s_builted_simple_types_ /\ d.word \in DOMAIN bucket
               /\ bucket[d.word] = d.type
      BY <3>2, BucketNames DEF NameOf, IsBasicType
    <3>3. CASE d.type \in DOMAIN compound_types_ /\ compound_types_[d.type].name = d.word
      BY <3>3 DEF NameOf, IsBasicType, IsCompoundType, IInv, IdsGivenOnce
    <3>4. CASE d.type \in DOMAIN function_types_ /\ function_types_[d.type].name = d.word
      BY <3>4 DEF NameOf, IsBasicType, IsCompoundType, IInv, IdsGivenOnce
    <3> QED
      BY <3>1, <3>2, <3>3, <3>4 DEF Meaning
  <2>5. ASSUME NEW t \in HeldTypes
        PROVE  IsBasicType(t) \/ \E d \in Held : d.type = t /\ d.word = NameOf(t)
    <3>1. CASE t \in DOMAIN compound_types_
      BY <3>1 DEF NameOf, IsBasicType, IsCompoundType, IInv, IdsGivenOnce, CollectedInv
    <3>2. CASE t \in DOMAIN function_types_
      BY <3>2 DEF NameOf, IsBasicType, IsCompoundType, IInv, IdsGivenOnce, CollectedInv
    <3> QED
      BY <2>1, <3>1, <3>2 DEF Resolvable, IsBasicType
  <2> QED
    BY <2>2, <2>3, <2>4, <2>5 DEF HeldTypesResolve
<1> QED
  BY <1>1, TypesInvariant, PTL

(***************************************************************************)
(* A definition of a basic type has the id that GetTypeIDByStr finds for   *)
(* the name, as long as its program lives, although every program puts the *)
(* name into the shared map once more.                                     *)
(***************************************************************************)
THEOREM TypesAreTheSame == Spec => []SameNameSameType
<1>1. IInv => SameNameSameType
  <2> SUFFICES ASSUME IInv, NEW d \in Held, IsBasicType(d.type), d.type # kAnyType
               PROVE  GetTypeIDByStr(d.word) = {d.type}
    BY DEF SameNameSameType
  <2>1. Meaning(d)
    BY DEF IInv, CollectedInv
  <2>2. d.word \in DOMAIN bucket /\ bucket[d.word] = d.type
    BY <2>1 DEF Meaning, IsBasicType, IInv, IdsGivenOnce
  <2> QED
    BY <2>2 DEF GetTypeIDByStr
<1> QED
  BY <1>1, TypesInvariant, PTL
=============================================================================
