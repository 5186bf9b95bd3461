----------------------------- MODULE IRLibrary -----------------------------
(***************************************************************************)
(* The library of IRs the mutator takes its replacements from              *)
(* (srcs/internal/srcs/mutate.cpp: IRLibrary, Mutator::AddIRToLibrary and  *)
(* the two places that read the library).                                  *)
(*                                                                         *)
(* For each IR type the library holds a vector of IRs and the set of the   *)
(* hashes of their texts.  The IRs are shared pointers into whole trees: a *)
(* stored IR may lie below another stored IR, and hash(ir) prints the tree *)
(* as it is when it is called.  So the hash of a stored IR is only stable  *)
(* if nobody changes the tree: ExtractStructure must have run before, and  *)
(* strategy_replace_with_constraint, which takes the children off a stored *)
(* IR to copy it alone, must have put them back.                           *)
(*                                                                         *)
(* The recursion of SaveIRRecursive is the stack of calls still to make.   *)
(***************************************************************************)
EXTENDS Naturals, Sequences, FiniteSets

CONSTANTS
  IRNode,        \* IR nodes of all programs, after ExtractStructure
  Root,          \* roots of the trees that TranslateToIR returns
  Nil,           \* nullptr
  IRTYPE,        \* IR types
  Type,          \* Type[x]: IR type of x
  Left, Right,   \* children, Nil if absent
  TreeOf,        \* TreeOf[x]: the nodes of the tree below x, x included
  Text,          \* Text[x]: hash of x's text once the tree is extracted
  RawText,       \* RawText[x]: hash of x's text as parsed
  CutText,       \* hash of a text that misses the children of some IR
  kMaxIRNumForOneType

Texts == {Text[x] : x \in IRNode} \cup {RawText[x] : x \in IRNode} \cup {CutText}
ChildIRs(x) == {Left[x], Right[x]} \ {Nil}

ASSUME LibraryAssumption ==
  /\ Root \subseteq IRNode
  /\ Nil \notin IRNode
  /\ Type \in [IRNode -> IRTYPE]
  /\ Left \in [IRNode -> IRNode \cup {Nil}]
  /\ Right \in [IRNode -> IRNode \cup {Nil}]
  /\ TreeOf \in [IRNode -> SUBSET IRNode]
  /\ \A x \in IRNode : x \in TreeOf[x] /\ \A y \in TreeOf[x] : ChildIRs(y) \subseteq TreeOf[x]
  /\ kMaxIRNumForOneType \in Nat \ {0}

VARIABLES
  ir_library_,       \* [IRTYPE -> Seq(IRNode)]
  ir_library_hash_,  \* [IRTYPE -> SUBSET Texts]
  calls,             \* the calls of SaveIRRecursive still to make, next first
  extracted,         \* the nodes ExtractStructure has been applied to
  detached,          \* the nodes whose children are taken off
  borrowed           \* the IR strategy_replace_with_constraint is copying, or Nil

library_vars == <<ir_library_, ir_library_hash_, calls, extracted, detached, borrowed>>

\* hash(ir): prints the tree below x as it is now.
HashOf(x) ==
  IF TreeOf[x] \cap detached # {} THEN CutText
  ELSE IF x \in extracted THEN Text[x]
  ELSE RawText[x]

\* A slip: the left child is passed over.
ChildCallsRight(x) == IF Right[x] # Nil THEN <<Right[x]>> ELSE <<>>

\* The children SaveIRRecursive goes on with, the left one first.
ChildCalls(x) ==
  (IF Left[x] # Nil THEN <<Left[x]>> ELSE <<>>)
    \o (IF Right[x] # Nil THEN <<Right[x]>> ELSE <<>>)

Full(t) == Len(ir_library_[t]) >= kMaxIRNumForOneType

Idle == calls = <<>> /\ borrowed = Nil

-----------------------------------------------------------------------------
LibraryInit ==
  /\ ir_library_ = [t \in IRTYPE |-> <<>>]
  /\ ir_library_hash_ = [t \in IRTYPE |-> {}]
  /\ calls = <<>>
  /\ extracted = {}
  /\ detached = {}
  /\ borrowed = Nil

\* Callers pass a tree that was parsed just now, so it is not extracted yet.
AddIRToLibrary(r) ==
  /\ Idle
  /\ r \notin extracted
  /\ extracted' = extracted \cup TreeOf[r]
  /\ calls' = <<r>>
  /\ UNCHANGED <<ir_library_, ir_library_hash_, detached, borrowed>>

\* The text is known for this type: return, the children are not visited.
SaveKnown ==
  /\ calls # <<>>
  /\ LET cur == calls[1] IN HashOf(cur) \in ir_library_hash_[Type[cur]]
  /\ calls' = Tail(calls)
  /\ UNCHANGED <<ir_library_, ir_library_hash_, extracted, detached, borrowed>>

\* push_back, insert the hash, recurse into the children.
SaveNew ==
  /\ calls # <<>>
  /\ LET cur == calls[1]
         t == Type[cur]
     IN /\ HashOf(cur) \notin ir_library_hash_[t]
        /\ ~Full(t)
        /\ ir_library_' = [ir_library_ EXCEPT ![t] = Append(@, cur)]
        /\ ir_library_hash_' = [ir_library_hash_ EXCEPT ![t] = @ \cup {HashOf(cur)}]
        /\ calls' = ChildCalls(cur) \o Tail(calls)
  /\ UNCHANGED <<extracted, detached, borrowed>>

\* A slip: the evicted IR makes room, but cur is not pushed back.
EvictedOnly(v, i, cur) == [k \in 1..(Len(v) - 1) |-> IF k = i THEN v[Len(v)] ELSE v[k]]

\* What eviction of index i leaves: i is swapped to the back, popped and its
\* hash erased; then cur is pushed back.
Evicted(v, i, cur) == [v EXCEPT ![i] = v[Len(v)], ![Len(v)] = cur]

\* A slip: the hash of the IR that was at the back is erased, not the hash of
\* the one that was swapped there.
HashesLessBack(t, i) == ir_library_hash_[t] \ {HashOf(ir_library_[t][Len(ir_library_[t])])}

\* A slip: the hash of the evicted IR is not erased.
HashesAll(t, i) == ir_library_hash_[t]

\* The hashes that are left when index i is evicted.
HashesLess(t, i) == ir_library_hash_[t] \ {HashOf(ir_library_[t][i])}

\* The vector is full: a random IR makes room.
SaveEvict(i) ==
  /\ calls # <<>>
  /\ LET cur == calls[1]
         t == Type[cur]
         v == ir_library_[t]
     IN /\ HashOf(cur) \notin ir_library_hash_[t]
        /\ Full(t)
        /\ i \in 1..Len(v)
        /\ ir_library_' = [ir_library_ EXCEPT ![t] = Evicted(v, i, cur)]
        /\ ir_library_hash_' = [ir_library_hash_ EXCEPT
                                  ![t] = HashesLess(t, i) \cup {HashOf(cur)}]
        /\ calls' = ChildCalls(cur) \o Tail(calls)
  /\ UNCHANGED <<extracted, detached, borrowed>>

\* strategy_replace_with_constraint: GetRandomIR, then both children off ...
DetachChildren(t, i) ==
  /\ Idle
  /\ i \in 1..Len(ir_library_[t])
  /\ borrowed' = ir_library_[t][i]
  /\ detached' = IF ChildIRs(ir_library_[t][i]) = {} THEN detached
                  ELSE detached \cup {ir_library_[t][i]}
  /\ UNCHANGED <<ir_library_, ir_library_hash_, calls, extracted>>

\* ... and on again once the bare IR is copied.
RestoreChildren ==
  /\ borrowed # Nil
  /\ detached' = detached \ {borrowed}
  /\ borrowed' = Nil
  /\ UNCHANGED <<ir_library_, ir_library_hash_, calls, extracted>>

Slots == 1..kMaxIRNumForOneType

LibraryNext ==
  \/ \E r \in Root : AddIRToLibrary(r)
  \/ SaveKnown
  \/ SaveNew
  \/ \E i \in Slots : SaveEvict(i)
  \/ \E t \in IRTYPE, i \in Slots : DetachChildren(t, i)
  \/ RestoreChildren

LibrarySpec == LibraryInit /\ [][LibraryNext]_library_vars

-----------------------------------------------------------------------------
TypeOK ==
  /\ ir_library_ \in [IRTYPE -> Seq(IRNode)]
  /\ ir_library_hash_ \in [IRTYPE -> SUBSET Texts]
  /\ calls \in Seq(IRNode)
  /\ extracted \subseteq IRNode
  /\ detached \subseteq IRNode
  /\ borrowed \in IRNode \cup {Nil}

(***************************************************************************)
(* Unless a strategy is copying an IR, the hashes kept for a type are the  *)
(* hashes the stored IRs have now, and no two stored IRs of one type have  *)
(* the same text.  A hash that outlives its IR would keep the text out of  *)
(* the library for ever; a hash erased too early lets it in twice.         *)
(***************************************************************************)
HashesMatchContents ==
  borrowed = Nil =>
    \A t \in IRTYPE :
      LET v == ir_library_[t] IN
      /\ ir_library_hash_[t] = {HashOf(v[i]) : i \in 1..Len(v)}
      /\ \A i, j \in 1..Len(v) : HashOf(v[i]) = HashOf(v[j]) => i = j

(***************************************************************************)
(* A vector holds IRs of its own type, at most kMaxIRNumForOneType.        *)
(***************************************************************************)
PoolsBounded ==
  \A t \in IRTYPE :
    /\ Len(ir_library_[t]) <= kMaxIRNumForOneType
    /\ \A i \in 1..Len(ir_library_[t]) : Type[ir_library_[t][i]] = t

(***************************************************************************)
(* Whenever no call is pending, each child of a stored IR has a type for   *)
(* which the library is not empty, although the child itself may have been *)
(* evicted and the early return of SaveIRRecursive skips the children of a *)
(* text it knows.  So strategy_replace, looking for another child for an   *)
(* IR whose text is in the library, never falls back to the empty IR.      *)
(***************************************************************************)
ChildTypesAvailable ==
  calls = <<>> =>
    \A t \in IRTYPE : \A i \in 1..Len(ir_library_[t]) :
      \A c \in ChildIRs(ir_library_[t][i]) : ir_library_[Type[c]] # <<>>

(***************************************************************************)
(* No step shrinks a vector: eviction always replaces.  A type for which   *)
(* GetRandomIR once had an answer has one for ever.                        *)
(***************************************************************************)
PoolsNeverShrink ==
  [][\A t \in IRTYPE : Len(ir_library_'[t]) >= Len(ir_library_[t])]_library_vars

Pool == INSTANCE IRPool WITH
          Capacity <- kMaxIRNumForOneType, pool <- ir_library_hash_

(***************************************************************************)
(* The library implements IRPool: seen from outside, the hashes of a type  *)
(* are a bounded set in which a new text takes the place of at most one    *)
(* other text, and only when the set is full.                              *)
(***************************************************************************)
RefinesPool == Pool!Spec
=============================================================================
