----------------------------- MODULE TypeSystem -----------------------------
(***************************************************************************)
(* TypeSystem (srcs/internal/srcs/var_definition.cpp): the types a program *)
(* uses, by id.  Every ScopeTree, one for each program validated, makes a  *)
(* TypeSystem; the ids come from one counter and the basic types go into   *)
(* one map that all of them share, the structures and functions into maps  *)
(* that go with the tree.  A definition in a symbol table holds an id, and *)
(* the generator finds the type again by it.                               *)
(*                                                                         *)
(* ScopeTree has the walk over the program and stands types by themselves; *)
(* here are the ids, over many programs, and a program is the definitions  *)
(* the walk meets, in any order.  No builtin structure, builtin function,  *)
(* simple_var_types_ or pointer type is ever made by the code: they are    *)
(* left out.                                                               *)
(***************************************************************************)
EXTENDS Naturals, Sequences, FiniteSets

CONSTANTS
  BasicTypeStr,   \* GetBasicTypeStr() of the configuration
  Name,           \* what a program may call a type
  MaxTrees,       \* bound: programs validated
  MaxDefinitions  \* bound: definitions of a program

kNotExist == 0
kAllTypes == 1
kAllCompoundType == 2
kAllFunction == 3
kAnyType == 6
SpecialTypes == {kAllTypes, kAllCompoundType, kAllFunction, kAnyType}
SpecialName(i) ==
  CASE i = kAllTypes -> "SpecialType::kAllTypes"
    [] i = kAllCompoundType -> "SpecialType::kAllCompoundType"
    [] i = kAllFunction -> "SpecialType::kAllFunction"
    [] i = kAnyType -> "SpecialType::kAnyType"

ASSUME TypeSystemAssumption ==
  /\ BasicTypeStr \in Seq(STRING)
  /\ Name \subseteq STRING
  /\ Name \cap {SpecialName(i) : i \in SpecialTypes} = {}
  /\ {MaxTrees, MaxDefinitions} \subseteq Nat

VARIABLES
  id,                       \* static counter of gen_type_id
  s_builted_simple_types_,  \* static: the name of each basic type
  bucket,                   \* where a search of that unordered map for a name ends
  trees,                    \* programs seen so far
  stage,                    \* "idle", "collecting", or "assert" and "crash"
  IsWeakType,
  compound_types_,          \* [name, members] of each structure
  function_types_,          \* [name, arg, ret] of each function
  open,                     \* definitions in the scopes being collected, innermost first
  closed                    \* and in the others

shared == <<id, s_builted_simple_types_, bucket>>
typeSystem == <<compound_types_, function_types_>>
vars == <<shared, trees, stage, IsWeakType, typeSystem, open, closed>>

NoTypes == [i \in {} |-> <<>>]
Put(f, k, v) == [x \in DOMAIN f \cup {k} |-> IF x = k THEN v ELSE f[x]]
Lines == {n \in DOMAIN BasicTypeStr : BasicTypeStr[n] # ""}

\* A Definition: its type, and the word the program has for the type.
Definition(t, w) == [type |-> t, word |-> w]
Held == closed \cup UNION {open[i] : i \in DOMAIN open}

-----------------------------------------------------------------------------
FirstTypeID == 10

Init ==
  /\ id = FirstTypeID
  /\ s_builted_simple_types_ = NoTypes
  /\ bucket = NoTypes
  /\ trees = 0
  /\ stage = "idle"
  /\ IsWeakType \in BOOLEAN
  /\ compound_types_ = NoTypes
  /\ function_types_ = NoTypes
  /\ open = <<>>
  /\ closed = {}

\* init_basic_types: a new id for every line, and the special types again.
LineID(n) == id + Cardinality({m \in Lines : m < n})
WithBasicTypes ==
  [i \in DOMAIN s_builted_simple_types_ \cup {LineID(n) : n \in Lines} \cup SpecialTypes |->
     IF i \in SpecialTypes THEN SpecialName(i)
     ELSE IF i >= id THEN BasicTypeStr[CHOOSE n \in Lines : LineID(n) = i]
     ELSE s_builted_simple_types_[i]]

\* The ids the search of an unordered map for each name may end at.
Searches(m) ==
  LET names == {m[i] : i \in DOMAIN m}
  IN {b \in [names -> DOMAIN m] : \A w \in names : m[b[w]] = w}

InitBasicTypes ==
  /\ s_builted_simple_types_' = WithBasicTypes
  /\ id' = id + Cardinality(Lines)
  /\ bucket' \in Searches(s_builted_simple_types_')

\* ScopeTree(), by BuildTree: a TypeSystem with no types of its own.
NewTree ==
  /\ stage = "idle"
  /\ trees < MaxTrees
  /\ InitBasicTypes
  /\ trees' = trees + 1
  /\ stage' = "collecting"
  /\ open' = <<{}>>
  /\ UNCHANGED <<IsWeakType, typeSystem, closed>>

\* GetTypeIDByStr: what it may return.  The maps of structures and functions
\* change with every definition, and the order of a search with them.
GetTypeIDByStr(w) ==
  LET Named(m) == {i \in DOMAIN m : m[i].name = w}
  IN IF w \in DOMAIN bucket THEN {bucket[w]}
     ELSE IF Named(compound_types_) # {} THEN Named(compound_types_)
     ELSE IF Named(function_types_) # {} THEN Named(function_types_)
     ELSE {kNotExist}

IsBasicType(t) == t \in DOMAIN s_builted_simple_types_
IsCompoundType(t) == t \in DOMAIN compound_types_
IsFunctionType(t) == t \in DOMAIN function_types_

\* GetTypePtrByID(t)->name, of a type that exists.
NameOf(t) ==
  IF IsBasicType(t) THEN s_builted_simple_types_[t]
  ELSE IF IsCompoundType(t) THEN compound_types_[t].name
  ELSE function_types_[t].name

\* The id in use is the counter, which goes on by one.
gen_type_id == id' = id + 1

Collecting == stage = "collecting" /\ Cardinality(Held) + Len(open) <= MaxDefinitions
AddDefinition(scopes, d) == [scopes EXCEPT ![1] = @ \cup {d}]

-----------------------------------------------------------------------------
\* CollectSimpleVariableDefinition, of a variable with a declared type.
CollectVariable(w) ==
  /\ Collecting
  /\ \E t \in GetTypeIDByStr(w) :
       IF t = kNotExist /\ ~IsWeakType THEN stage' = "assert" /\ UNCHANGED open
       ELSE /\ open' = AddDefinition(open, Definition(IF t = kNotExist THEN kAnyType ELSE t, w))
            /\ UNCHANGED stage
  /\ UNCHANGED <<shared, trees, IsWeakType, typeSystem, closed>>

\* A slip: the body of a structure gets a TypeSystem of its own.
CollectStructureBodyAfresh ==
  /\ Collecting
  /\ InitBasicTypes
  /\ open' = <<{}>> \o open
  /\ UNCHANGED <<trees, stage, IsWeakType, typeSystem, closed>>

\* CollectStructureDefinition collects the body first ...
CollectStructureBody ==
  /\ Collecting
  /\ open' = <<{}>> \o open
  /\ UNCHANGED <<shared, trees, stage, IsWeakType, typeSystem, closed>>

\* ... then CreateCompoundType takes the types of its definitions.
CollectStructureDefinition(name) ==
  /\ stage = "collecting"
  /\ Len(open) > 1
  /\ compound_types_' =
       Put(compound_types_, id, [name |-> name, members |-> {d.type : d \in open[1]}])
  /\ gen_type_id
  /\ open' = AddDefinition(Tail(open), Definition(id, name))
  /\ closed' = closed \cup open[1]
  /\ UNCHANGED <<s_builted_simple_types_, bucket, trees, stage, IsWeakType, function_types_>>

\* CreateFunctionType and AddDefinition, unless there is no return type.
CreateFunctionType(name, ret, arg, scopes) ==
  IF ret = kNotExist THEN open' = scopes /\ UNCHANGED <<id, function_types_>>
  ELSE /\ function_types_' = Put(function_types_, id, [name |-> name, arg |-> arg, ret |-> ret])
       /\ gen_type_id
       /\ open' = AddDefinition(scopes, Definition(id, name))

\* CollectFunctionDefinition, with one argument and a body that defines it.
CollectFunctionDefinition(name, w, v) ==
  /\ Collecting
  /\ \E arg \in GetTypeIDByStr(w), ret \in GetTypeIDByStr(v) :
       IF arg = kNotExist
       THEN stage' = "crash" /\ UNCHANGED <<id, function_types_, open, closed>>
       ELSE /\ CreateFunctionType(name, ret, arg, open)
            /\ closed' = closed \cup {Definition(arg, w)}
            /\ UNCHANGED stage
  /\ UNCHANGED <<s_builted_simple_types_, bucket, trees, IsWeakType, compound_types_>>

\* A slip: the types of a program are static as well.
DestroyTreeButTypes ==
  /\ stage = "collecting"
  /\ Len(open) = 1
  /\ open' = <<>>
  /\ closed' = {}
  /\ stage' = "idle"
  /\ UNCHANGED <<shared, trees, IsWeakType, typeSystem>>

\* Validate returns: the scope tree goes, its TypeSystem and symbol tables with it.
DestroyTree ==
  /\ stage = "collecting"
  /\ Len(open) = 1
  /\ compound_types_' = NoTypes
  /\ function_types_' = NoTypes
  /\ open' = <<>>
  /\ closed' = {}
  /\ stage' = "idle"
  /\ UNCHANGED <<shared, trees, IsWeakType>>

Next ==
  \/ NewTree
  \/ \E w \in Name : CollectVariable(w)
  \/ CollectStructureBody
  \/ \E name \in Name : CollectStructureDefinition(name)
  \/ \E name, w, v \in Name : CollectFunctionDefinition(name, w, v)
  \/ DestroyTree

Spec == Init /\ [][Next]_vars

-----------------------------------------------------------------------------
\* Every id that a definition, a structure or a function holds.
HeldTypes ==
  {d.type : d \in Held}
    \cup {function_types_[f].arg : f \in DOMAIN function_types_}
    \cup {function_types_[f].ret : f \in DOMAIN function_types_}
    \cup UNION {compound_types_[c].members : c \in DOMAIN compound_types_}

(***************************************************************************)
(* An id held anywhere is the id of one type of one kind: the generator    *)
(* asks for the kind in one map and reads the type from another without a  *)
(* test.  That of a definition is a type of the name the program has for   *)
(* it, or kAnyType.  And all are basic types or types the program defined  *)
(* itself, whatever was validated before it.                               *)
(***************************************************************************)
HeldTypesResolve ==
  /\ \A t \in HeldTypes : IsBasicType(t) \/ IsCompoundType(t) \/ IsFunctionType(t)
  /\ \A t \in HeldTypes : IsBasicType(t) => ~IsCompoundType(t) /\ ~IsFunctionType(t)
  /\ \A t \in HeldTypes : IsCompoundType(t) => ~IsFunctionType(t)
  /\ \A d \in Held : d.type = kAnyType \/ NameOf(d.type) = d.word
  /\ \A t \in HeldTypes : IsBasicType(t) \/ \E d \in Held : d.type = t /\ d.word = NameOf(t)

(***************************************************************************)
(* "ASSERT_TRUE(type_system->GetTypeIDByStr("INT") ==                      *)
(* def_a.value().type)" (tests/validation_test.cc:71): a definition of a   *)
(* basic type has the id that a search for the name ends at, although the  *)
(* map has the name once for every program so far.  With two ids for one   *)
(* name, a variable could not be passed to a function that takes its type. *)
(***************************************************************************)
SameNameSameType ==
  \A d \in Held : IsBasicType(d.type) /\ d.type # kAnyType => GetTypeIDByStr(d.word) = {d.type}
=============================================================================
