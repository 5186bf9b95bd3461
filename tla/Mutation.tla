------------------------------ MODULE Mutation ------------------------------
(***************************************************************************)
(* Mutator::MutateIRs (srcs/internal/srcs/mutate.cpp): the mutants of one  *)
(* test case.  For every IR of the test case that may be mutated, MutateIR *)
(* makes variants of that IR out of the library; each variant is put in    *)
(* the place of the IR in a copy of the whole test case, and the copy is   *)
(* kept if its structure is new.                                           *)
(*                                                                         *)
(* IRs are shared pointers that are changed in place, so the module has a  *)
(* heap: which trees share nodes, and who changes whose nodes, is what can *)
(* go wrong.  A number is a node, 0 is nullptr.  A node no pointer leads   *)
(* to is freed.  Statement and scope ids are left out (the copies do not   *)
(* keep them, the validator sets them again), and so are floating point    *)
(* literals, which no parse tree yields.                                   *)
(***************************************************************************)
EXTENDS Naturals, Sequences, FiniteSets, FiniteSetsExt

CONSTANTS
  Heap0,         \* nodes of the library, of the empty IR and of the test cases
  TestCase,      \* roots of the test cases
  Stored,        \* Stored[t]: the IRs the library holds for type t
  EmptyIR,       \* the static empty_ir of GetRandomIR
  kUnknown,      \* IR type
  StringData,    \* data of string leaves; NoData is std::monostate
  IntData,       \* data of integer leaves
  NoData,
  FrozenData,    \* kVariableDefinition, kVariableType, kClassDefinition
  kFixUnit, kDataDefault,
  Hash(_),       \* ducking_hash of a text, 64 bits
  HashBits,      \* 32: what MutateIRs keeps of a hash
  kConstraintReplaceTimes  \* 6

NoOp == <<"", "", "">>

ASSUME MutationAssumption ==
  /\ DOMAIN Heap0 \subseteq Nat \ {0}
  /\ TestCase \cup {EmptyIR} \cup UNION {Stored[t] : t \in DOMAIN Stored}
       \subseteq DOMAIN Heap0
  /\ {"'x'", "FIXME"} \subseteq StringData
  /\ "1" \in IntData
  /\ kConstraintReplaceTimes \in Nat
  /\ HashBits \in Nat

VARIABLES
  heap,         \* [node -> [type, op, data, dt, left, right]]
  root,         \* root of the test case
  irs,          \* irs_to_mutate still to visit, the current one first
  tries,        \* calls of strategy_replace_with_constraint for the current IR
  variants,     \* new_variants still to use
  new_ir_tree, backup, record_,
  res, res_hash,
  origin,       \* history: for each of res the IR that was replaced and by what
  pc

vars == <<heap, root, irs, tries, variants, new_ir_tree, backup, record_, res,
          res_hash, origin, pc>>

-----------------------------------------------------------------------------
Kids(h, x) == {h[x].left, h[x].right} \ {0}

\* The nodes of the tree below x.
Under(h, x) ==
  LET under[y \in DOMAIN h] == {y} \cup UNION {under[c] : c \in Kids(h, y)}
  IN IF x = 0 THEN {} ELSE under[x]

\* No node is a child twice.
OneParent(h) ==
  \A y, z \in DOMAIN h :
    /\ h[y].left = h[z].left /\ h[y].left # 0 => y = z
    /\ h[y].right = h[z].right /\ h[y].right # 0 => y = z
    /\ h[y].left = h[z].right => h[y].left = 0

StoredIRs == {EmptyIR} \cup UNION {Stored[t] : t \in DOMAIN Stored}
LibraryNodes == UNION {Under(Heap0, x) : x \in StoredIRs}

\* Test cases and library before the call: trees, with nodes numbered children
\* first, where the test cases, just parsed, share nothing with the library; an IR
\* is stored for its own type, and the empty IR has no children.
ASSUME HeapAssumption ==
  /\ Len(Heap0) \in Nat /\ DOMAIN Heap0 = 1..Len(Heap0)
  /\ Heap0 = [y \in DOMAIN Heap0 |-> Heap0[y]]
  /\ \A y \in DOMAIN Heap0 :
       /\ Heap0[y] = [type |-> Heap0[y].type, op |-> Heap0[y].op, data |-> Heap0[y].data,
                      dt |-> Heap0[y].dt, left |-> Heap0[y].left, right |-> Heap0[y].right]
       /\ Kids(Heap0, y) \subseteq 1..(y - 1)
       /\ Kids(Heap0, y) \cap LibraryNodes # {} => y \in LibraryNodes
       /\ Kids(Heap0, y) \cap TestCase = {}
  /\ OneParent(Heap0)
  /\ TestCase \cap LibraryNodes = {}
  /\ \A t \in DOMAIN Stored : \A y \in Stored[t] : Heap0[y].type = t
  /\ Kids(Heap0, EmptyIR) = {}

\* GetAllChildren and CollectAllIRs: children before their parent.
CollectAllIRs(h, x) ==
  LET all[y \in DOMAIN h \cup {0}] ==
        IF y = 0 THEN <<>> ELSE all[h[y].left] \o all[h[y].right] \o <<y>>
  IN all[x]

\* ToString: data alone, or prefix, left, middle, right, suffix.
IRToString(h, x) ==
  LET Word(w) == IF w = "" THEN <<>> ELSE <<w>>
      text[y \in DOMAIN h \cup {0}] ==
        IF y = 0 THEN <<>>
        ELSE IF h[y].data # NoData THEN Word(h[y].data)
        ELSE Word(h[y].op[1]) \o text[h[y].left] \o Word(h[y].op[2])
               \o text[h[y].right] \o Word(h[y].op[3])
  IN text[x]

\* Heap h with the new nodes of more.
Allocate(h, more) ==
  [y \in DOMAIN h \cup DOMAIN more |-> IF y \in DOMAIN h THEN h[y] ELSE more[y]]

\* deep_copy: Copied(h, x).at is the copy of x in Copied(h, x).heap, where
\* the copies of the nodes S below x take the next free numbers.
Copied(h, x) ==
  LET S == Under(h, x)
      free == Max(DOMAIN h)
      At(y) == IF y = 0 THEN 0 ELSE free + Cardinality({z \in S : z <= y})
      copies == [c \in {At(y) : y \in S} |->
                   LET y == CHOOSE z \in S : At(z) = c
                   IN [h[y] EXCEPT !.left = At(@), !.right = At(@)]]
  IN [heap |-> Allocate(h, copies), at |-> At(x), of |-> [y \in S |-> At(y)]]

\* ExtractStructure below x goes on to the children that are no fix units.
Visited(h, x) ==
  LET seen[y \in DOMAIN h] ==
        {y} \cup UNION {seen[c] : c \in {k \in Kids(h, y) : h[k].dt # kFixUnit}}
  IN seen[x]

FixUnits(h, x) ==
  {c \in UNION {Kids(h, y) : y \in Visited(h, x)} : h[c].dt = kFixUnit}

FixMe == [type |-> kUnknown, op |-> NoOp, data |-> "FIXME", dt |-> kDataDefault,
          left |-> 0, right |-> 0]

Sample(n) ==
  IF n.dt = kDataDefault /\ n.data \in StringData THEN "'x'"
  ELSE IF n.data \in IntData THEN "1"
  ELSE n.data

\* ExtractStructure: below x a child that is a fix unit is exchanged for a new
\* FIXME leaf, and the data of the other leaves become samples.
ExtractStructure(h, x) ==
  LET units == FixUnits(h, x)
      free == Max(DOMAIN h)
      At(c) == IF c \in units THEN free + Cardinality({z \in units : z <= c}) ELSE c
      Extracted(y) == IF Kids(h, y) = {} THEN [h[y] EXCEPT !.data = Sample(h[y])]
                      ELSE [h[y] EXCEPT !.left = At(@), !.right = At(@)]
  IN Allocate([y \in DOMAIN h |-> IF y \in Visited(h, x) THEN Extracted(y) ELSE h[y]],
              [c \in {At(u) : u \in units} |-> FixMe])

can_be_mutated(x) == \A y \in Under(heap, x) : heap[y].dt \notin FrozenData

should_mutate(x) ==
  /\ heap[x].type # kUnknown
  /\ Kids(heap, x) # {}
  /\ can_be_mutated(x)

\* GetRandomIR: any IR stored for the type.
RandomIRs(t) ==
  IF t \in DOMAIN Stored /\ Stored[t] # {} THEN Stored[t] ELSE {EmptyIR}

StoredNodes == UNION {Under(heap, x) : x \in StoredIRs}

\* What is left of heap h when the pointers keep their targets alive.
Alive(h, pointers) ==
  LET nodes == StoredNodes \cup UNION {Under(h, x) : x \in pointers}
  IN [y \in nodes |-> h[y]]

PointersOf(s) == {s[k] : k \in DOMAIN s}

\* The value of the tree below x with v in the place of node old.
Substituted(h, x, old, v) ==
  LET value[y \in DOMAIN h \cup {0}] ==
        IF y = 0 THEN <<>>
        ELSE IF y = old THEN v
        ELSE <<h[y].type, h[y].op, h[y].data, h[y].dt, value[h[y].left], value[h[y].right]>>
  IN value[x]

\* The tree below x as a value.
Value(h, x) == Substituted(h, x, 0, <<>>)

-----------------------------------------------------------------------------
Init ==
  /\ root \in TestCase
  /\ heap = [y \in DOMAIN Heap0 \ UNION {Under(Heap0, x) : x \in TestCase \ {root}}
               |-> Heap0[y]]
  /\ irs = CollectAllIRs(Heap0, root)
  /\ tries = 0
  /\ variants = <<>>
  /\ new_ir_tree = 0
  /\ backup = 0
  /\ record_ = 0
  /\ res = <<>>
  /\ res_hash = {Hash(IRToString(Heap0, root))}
  /\ origin = <<>>
  /\ pc = "loop"

\* ir == root || !should_mutate(ir).
SkipIR ==
  /\ pc = "loop"
  /\ irs # <<>>
  /\ irs[1] = root \/ ~should_mutate(irs[1])
  /\ irs' = Tail(irs)
  /\ UNCHANGED <<heap, root, tries, variants, new_ir_tree, backup, record_, res,
                 res_hash, origin, pc>>

\* Enters MutateIR.
MutateIR ==
  /\ pc = "loop"
  /\ irs # <<>>
  /\ irs[1] # root
  /\ should_mutate(irs[1])
  /\ tries' = 0
  /\ pc' = "mutate"
  /\ UNCHANGED <<heap, root, irs, variants, new_ir_tree, backup, record_, res,
                 res_hash, origin>>

\* A slip: the right children are not compared.
FitsLeft(x, y) ==
  /\ heap[x].op # NoOp
  /\ (heap[x].left = 0) = (heap[y].left = 0)
  /\ (heap[x].right = 0) = (heap[y].right = 0)
  /\ heap[x].left # 0 => heap[heap[x].left].type = heap[heap[y].left].type

\* The tests of strategy_replace_with_constraint for x and the stored IR y.
\* m_convertable_map_ is always empty: only equal types are convertible.
Fits(x, y) ==
  /\ heap[x].op # NoOp
  /\ (heap[x].left = 0) = (heap[y].left = 0)
  /\ (heap[x].right = 0) = (heap[y].right = 0)
  /\ heap[x].left # 0 => heap[heap[x].left].type = heap[heap[y].left].type
  /\ heap[x].right # 0 => heap[heap[x].right].type = heap[heap[y].right].type

ConstraintFails ==
  /\ pc = "mutate"
  /\ tries < kConstraintReplaceTimes
  /\ \E y \in RandomIRs(heap[irs[1]].type) : ~Fits(irs[1], y)
  /\ tries' = tries + 1
  /\ UNCHANGED <<heap, root, irs, variants, new_ir_tree, backup, record_, res,
                 res_hash, origin, pc>>

\* The stored IR without its children is copied, then given copies of the
\* children of the current IR.
ConstraintReplaces ==
  /\ pc = "mutate"
  /\ tries < kConstraintReplaceTimes
  /\ \E y \in RandomIRs(heap[irs[1]].type) :
       LET x == irs[1]
           bare == Max(DOMAIN heap) + 1
           h0 == Allocate(heap, [z \in {bare} |-> [heap[y] EXCEPT !.left = 0, !.right = 0]])
           l == IF heap[x].left = 0 THEN [heap |-> h0, at |-> 0] ELSE Copied(h0, heap[x].left)
           r == IF heap[x].right = 0 THEN [heap |-> l.heap, at |-> 0]
                ELSE Copied(l.heap, heap[x].right)
       IN /\ Fits(x, y)
          /\ heap' = [r.heap EXCEPT ![bare].left = l.at, ![bare].right = r.at]
          /\ variants' = Append(variants, bare)
  /\ tries' = tries + 1
  /\ UNCHANGED <<root, irs, new_ir_tree, backup, record_, res, res_hash, origin, pc>>

\* A slip: the stored IR itself becomes the child.
WithChildAliased(h, at, side, y) == [h EXCEPT ![at][side] = y]

\* The copy at of the current IR gets a copy of stored IR y as its child.
WithChild(h, at, side, y) ==
  LET copy == Copied(h, y) IN [copy.heap EXCEPT ![at][side] = copy.at]

Replaceable(side) ==
  LET c == heap[irs[1]][side] IN c # 0 /\ heap[c].type # kUnknown

\* strategy_replace, randint 0 and 1.
ReplaceChild(side) ==
  /\ pc = "mutate"
  /\ tries = kConstraintReplaceTimes
  /\ Replaceable(side)
  /\ \E y \in RandomIRs(heap[heap[irs[1]][side]].type) :
       LET copy == Copied(heap, irs[1])
           h == WithChild(copy.heap, copy.at, side, y)
       IN /\ variants' = Append(variants, copy.at)
          /\ heap' = Alive(h, {root, record_, copy.at} \cup PointersOf(variants)
                                \cup PointersOf(res))
  /\ pc' = "variants"
  /\ UNCHANGED <<root, irs, tries, new_ir_tree, backup, record_, res, res_hash, origin>>

\* strategy_replace, randint 2.
ReplaceBoth ==
  /\ pc = "mutate"
  /\ tries = kConstraintReplaceTimes
  /\ Replaceable("left")
  /\ Replaceable("right")
  /\ \E y \in RandomIRs(heap[heap[irs[1]].left].type),
         z \in RandomIRs(heap[heap[irs[1]].right].type) :
       LET copy == Copied(heap, irs[1])
           h == WithChild(WithChild(copy.heap, copy.at, "right", z), copy.at, "left", y)
       IN /\ variants' = Append(variants, copy.at)
          /\ heap' = Alive(h, {root, record_, copy.at} \cup PointersOf(variants)
                                \cup PointersOf(res))
  /\ pc' = "variants"
  /\ UNCHANGED <<root, irs, tries, new_ir_tree, backup, record_, res, res_hash, origin>>

\* strategy_replace returns nullptr.
ReplaceNothing ==
  /\ pc = "mutate"
  /\ tries = kConstraintReplaceTimes
  /\ ~(Replaceable("left") /\ Replaceable("right"))
  /\ pc' = "variants"
  /\ UNCHANGED <<heap, root, irs, tries, variants, new_ir_tree, backup, record_, res,
                 res_hash, origin>>

\* A slip: record_ is only set while it is null.
CopyTreeRecordOnce ==
  /\ pc = "variants"
  /\ variants # <<>>
  /\ LET copy == Copied(heap, root) IN
     /\ heap' = copy.heap
     /\ new_ir_tree' = copy.at
     /\ record_' = IF record_ = 0 THEN copy.of[irs[1]] ELSE record_
  /\ pc' = "replace"
  /\ UNCHANGED <<root, irs, tries, variants, backup, res, res_hash, origin>>

\* deep_copy_with_record(root, ir): record_ is the copy of ir.
CopyTree ==
  /\ pc = "variants"
  /\ variants # <<>>
  /\ LET copy == Copied(heap, root) IN
     /\ heap' = copy.heap
     /\ new_ir_tree' = copy.at
     /\ record_' = copy.of[irs[1]]
  /\ pc' = "replace"
  /\ UNCHANGED <<root, irs, tries, variants, backup, res, res_hash, origin>>

\* locate_parent: the nodes of the tree that have old as a child.
Parents(h, tree, old) == {p \in Under(h, tree) : old \in Kids(h, p)}

\* A slip: the IR is replaced in the test case instead of its copy.
ReplaceInRoot ==
  /\ pc = "replace"
  /\ \E p \in Parents(heap, root, irs[1]) :
       LET side == IF heap[p].left = irs[1] THEN "left" ELSE "right"
       IN heap' = [heap EXCEPT ![p][side] = variants[1]]
  /\ origin' = Append(origin, <<irs[1], Value(heap, variants[1])>>)
  /\ variants' = Tail(variants)
  /\ pc' = "backup"
  /\ UNCHANGED <<root, irs, tries, new_ir_tree, backup, record_, res, res_hash>>

\* replace(new_ir_tree, record_, i).
Replace ==
  /\ pc = "replace"
  /\ \E p \in Parents(heap, new_ir_tree, record_) :
       LET side == IF heap[p].left = record_ THEN "left" ELSE "right"
       IN heap' = [heap EXCEPT ![p][side] = variants[1]]
  /\ origin' = Append(origin, <<irs[1], Value(heap, variants[1])>>)
  /\ variants' = Tail(variants)
  /\ pc' = "backup"
  /\ UNCHANGED <<root, irs, tries, new_ir_tree, backup, record_, res, res_hash>>

\* A slip: the tree is kept itself, and then extracted.
BackupAliased ==
  /\ pc = "backup"
  /\ heap' = ExtractStructure(heap, new_ir_tree)
  /\ backup' = new_ir_tree
  /\ pc' = "dedup"
  /\ UNCHANGED <<root, irs, tries, variants, new_ir_tree, record_, res, res_hash, origin>>

Backup ==
  /\ pc = "backup"
  /\ LET copy == Copied(heap, new_ir_tree) IN
     /\ heap' = ExtractStructure(copy.heap, new_ir_tree)
     /\ backup' = copy.at
  /\ pc' = "dedup"
  /\ UNCHANGED <<root, irs, tries, variants, new_ir_tree, record_, res, res_hash, origin>>

tmp_hash == Hash(IRToString(heap, new_ir_tree)) % 2^HashBits

\* The end of the loop body frees the tree and, with the last variant, goes
\* on with the next IR.
EndOfBody(pointers) ==
  /\ heap' = Alive(heap, {root, record_} \cup PointersOf(variants)
                           \cup PointersOf(res) \cup pointers)
  /\ new_ir_tree' = 0
  /\ backup' = 0
  /\ pc' = "variants"
  /\ UNCHANGED <<root, irs, tries, variants, record_>>

DropKnown ==
  /\ pc = "dedup"
  /\ tmp_hash \in res_hash
  /\ origin' = SubSeq(origin, 1, Len(origin) - 1)
  /\ EndOfBody({})
  /\ UNCHANGED <<res, res_hash>>

\* A slip: the hash is looked up as 32 bits and kept as 64.
KeepNewWide ==
  /\ pc = "dedup"
  /\ tmp_hash \notin res_hash
  /\ res_hash' = res_hash \cup {Hash(IRToString(heap, new_ir_tree))}
  /\ res' = Append(res, backup)
  /\ EndOfBody({backup})
  /\ UNCHANGED origin

KeepNew ==
  /\ pc = "dedup"
  /\ tmp_hash \notin res_hash
  /\ res_hash' = res_hash \cup {tmp_hash}
  /\ res' = Append(res, backup)
  /\ EndOfBody({backup})
  /\ UNCHANGED origin

NextIR ==
  /\ pc = "variants"
  /\ variants = <<>>
  /\ irs' = Tail(irs)
  /\ pc' = "loop"
  /\ UNCHANGED <<heap, root, tries, variants, new_ir_tree, backup, record_, res,
                 res_hash, origin>>

Return ==
  /\ pc = "loop"
  /\ irs = <<>>
  /\ pc' = "done"
  /\ UNCHANGED <<heap, root, irs, tries, variants, new_ir_tree, backup, record_, res,
                 res_hash, origin>>

Next ==
  \/ SkipIR
  \/ MutateIR
  \/ ConstraintFails
  \/ ConstraintReplaces
  \/ \E side \in {"left", "right"} : ReplaceChild(side)
  \/ ReplaceBoth
  \/ ReplaceNothing
  \/ CopyTree
  \/ Replace
  \/ Backup
  \/ DropKnown
  \/ KeepNew
  \/ NextIR
  \/ Return

Spec == Init /\ [][Next]_vars

-----------------------------------------------------------------------------
\* Roots of the trees that must be apart, the library's aside.
Trees == <<root>> \o res \o variants
           \o (IF new_ir_tree = 0 THEN <<>> ELSE <<new_ir_tree>>)
           \o (IF backup = 0 THEN <<>> ELSE <<backup>>)

(***************************************************************************)
(* The test case, the library, each mutant and each variant not used yet   *)
(* have no node in common, and none of them holds a node twice: the        *)
(* validator may change one of them without changing another.              *)
(***************************************************************************)
TreesApart ==
  /\ \A i, j \in DOMAIN Trees :
       i # j => Under(heap, Trees[i]) \cap Under(heap, Trees[j]) = {}
  /\ \A i \in DOMAIN Trees :
       /\ Under(heap, Trees[i]) \cap StoredNodes = {}
       /\ Cardinality(Under(heap, Trees[i])) = Len(CollectAllIRs(heap, Trees[i]))

(***************************************************************************)
(* replace() finds the parent of record_: deep_copy_with_record recorded a *)
(* node of this copy, not of an earlier one, and not its root.             *)
(***************************************************************************)
RecordHasParent == pc = "replace" => Parents(heap, new_ir_tree, record_) # {}

(***************************************************************************)
(* A mutant is the test case with one IR replaced by one variant and       *)
(* nothing else changed, literals included: the structure is extracted     *)
(* from another copy.                                                      *)
(***************************************************************************)
MutantsAreSubstitutions ==
  \A k \in DOMAIN res :
    Value(heap, res[k]) = Substituted(heap, root, origin[k][1], origin[k][2])

\* Nodes n and y are made by the same production, as far as the IR tells: same
\* type, same operator, children of the same types, where an empty IR may stand
\* in for a child.
SameProduction(n, y) ==
  LET SameChild(side) ==
        LET c == heap[n][side]
            d == heap[y][side]
        IN /\ (c = 0) = (d = 0)
           /\ c # 0 => heap[c].type \in {heap[d].type, heap[EmptyIR].type}
  IN /\ heap[n].type = heap[y].type
     /\ heap[n].op = heap[y].op
     /\ SameChild("left") /\ SameChild("right")

(***************************************************************************)
(* Every node of a mutant is made by a production that the test case or    *)
(* the library has.  strategy_replace_with_constraint puts the operator of *)
(* a stored IR over children it never had, strategy_replace children under *)
(* an operator that never had them; the types keep both in the grammar.    *)
(***************************************************************************)
ProductionsKnown ==
  \A k \in DOMAIN res : \A n \in Under(heap, res[k]) :
    \E y \in StoredNodes \cup Under(heap, root) : SameProduction(n, y)

(***************************************************************************)
(* No two mutants have the same structure, although hashes are kept with   *)
(* half of their bits.                                                     *)
(***************************************************************************)
StructuresDistinct ==
  \A i, j \in DOMAIN res :
    i # j => IRToString(ExtractStructure(heap, res[i]), res[i])
               # IRToString(ExtractStructure(heap, res[j]), res[j])

(***************************************************************************)
(* No step changes a node of the test case, of the library or of a mutant  *)
(* already made.                                                           *)
(***************************************************************************)
FinishedTreesFixed ==
  [][\A x \in StoredNodes \cup UNION {Under(heap, t) : t \in {root} \cup PointersOf(res)} :
       heap'[x] = heap[x]]_vars
=============================================================================
