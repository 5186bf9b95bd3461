------------------------ MODULE ExpressionGeneration ------------------------
(***************************************************************************)
(* ExpressionGenerator (srcs/internal/srcs/typesystem.cpp): the text that  *)
(* takes the place of a FIXME.  From the definitions visible at the FIXME  *)
(* collect_satisfiable_types computes, for every type, the variables,      *)
(* structures and functions an expression of it can be made from;          *)
(* generate_expression_by_type_core picks one of them by weight and calls  *)
(* itself for the arguments of a function, until gen_counter_ stops it.    *)
(*                                                                         *)
(* The text is left out, it never steers the generator.  The recursion is  *)
(* the list work of what is still to be generated, next first.  A random   *)
(* number is any value it can have: a branch is taken if some value of     *)
(* choice leads to it.  Pointer types are left out: no code creates one.   *)
(***************************************************************************)
EXTENDS SatisfiableFunctions, Sequences, FiniteSets, FiniteSetsExt

CONSTANTS
  SimpleType,    \* builtin simple types, kAnyType included
  Compound,      \* type ids of structures
  Members,       \* Members[c]: the types of the members of c
  v_arg_types_,  \* v_arg_types_[f]: f's argument types in their order
  Free,          \* the functions that are not methods
  kAllTypes,
  MaxGen,        \* 50: gen_counter_ beyond which only numbers are generated
  FewExpr,       \* 3: gen_counter_ beyond which expressions get less weight
  PreferVar      \* 15: gen_counter_ beyond which variables are preferred

ASSUME TypesAssumption ==
  /\ TypeID = SimpleType \cup Compound \cup Function
  /\ IsFiniteSet(TypeID)
  /\ SimpleType \cap Compound = {}
  /\ SimpleType \cap Function = {}
  /\ Compound \cap Function = {}
  /\ kAllTypes \notin TypeID
  /\ Members \in [Compound -> SUBSET TypeID]
  /\ v_arg_types_ \in [Function -> Seq(SimpleType \cup Compound)]
  /\ \A f \in Function : Args[f] = {v_arg_types_[f][i] : i \in 1..Len(v_arg_types_[f])}
  /\ Ret \in [Function -> SimpleType \cup Compound]
  /\ Free \subseteq Function
  /\ {MaxGen, FewExpr, PreferVar} \subseteq Nat

VARIABLES
  IsWeakType,            \* of the configuration
  simple_var_map,        \* types of the simple variables visible, by keys
  compound_var_map,      \* types of the structures visible
  function_map,          \* types of the functions visible
  all_satisfiable_types, \* for each type the keys of the three maps above
  gen_counter_,
  function_gen_counter_,
  work,                  \* expressions and calls still to generate
  outcome                \* "running", "done", or the assertion that failed

scope == <<IsWeakType, simple_var_map, compound_var_map, function_map,
           all_satisfiable_types>>
vars == <<scope, passes, gen_counter_, function_gen_counter_, work, outcome>>

Gen(t, by) == [kind |-> "gen", type |-> t, by |-> by]
CallOf(f, by) == [kind |-> "call", type |-> f, by |-> by]
Item == [kind : {"gen", "call"}, type : TypeID \cup {kAllTypes},
         by : {"root", "function", "method"}]

-----------------------------------------------------------------------------
\* The compounds get_all_types_from_compound_type and
\* get_class_member_by_type_no_duplicate visit from c, through the set visit.
Visited(c) ==
  {d \in Compound :
     \A S \in SUBSET Compound :
       (c \in S /\ \A e \in S : Members[e] \cap Compound \subseteq S) => d \in S}

\* A slip: the argument types of a method are taken for types of members.
TypesAroundMember(m) ==
  IF m \in Function
  THEN (IF IsWeakType THEN {m, Ret[m]} \cup Args[m] ELSE {})
  ELSE {m}

\* The type of a member, or, in a weakly typed language, of what a method
\* member returns.
TypesOfMember(m) ==
  IF m \in Function THEN (IF IsWeakType THEN {m, Ret[m]} ELSE {}) ELSE {m}

\* calc_possible_types_from_structure, get_all_types_from_compound_type.
TypesOfStructure(c) ==
  UNION {TypesOfMember(m) : m \in UNION {Members[d] : d \in Visited(c)}}

\* current_types: what calc_satisfiable_functions starts from.
AvailableTypes == simple_var_map \cup UNION {TypesOfStructure(c) : c \in compound_var_map}

\* A slip: every function in scope is taken for one that can be called.
AllFunctionsCallable == function_map

\* What calc_satisfiable_functions returned.
CallableFunctions == res

\* collect_satisfiable_types: what an expression of each type is made from.
CollectSatisfiableTypes ==
  [t \in TypeID |->
     [simple |-> {t} \cap simple_var_map,
      structure |-> {c \in compound_var_map : t = c \/ t \in TypesOfStructure(c)},
      function |-> {f \in CallableFunctions : Ret[f] = t}]]

NoSources == [simple |-> {}, structure |-> {}, function |-> {}]
SimpleSources(t) == all_satisfiable_types[t].simple
StructureSources(t) == all_satisfiable_types[t].structure
FunctionSources(t) == all_satisfiable_types[t].function

\* The keys of all_satisfiable_types.
SatisfiableTypes == {t \in TypeID : all_satisfiable_types[t] # NoSources}

-----------------------------------------------------------------------------
(***************************************************************************)
(* generate_expression_by_type_core.  The operators below are evaluated    *)
(* after gen_counter_++, so they take the counter as a parameter.          *)
(***************************************************************************)
\* x < 2^31: nothing is left of it after more than 30 places.
ShiftRight(x, k) == IF k > 30 THEN 0 ELSE x \div 2^k

ExpressionSize(t, n, counter) ==
  IF t \in Function \cup Compound \/ counter > PreferVar THEN 0
  ELSE LET size == 2 * (IF n \div 2 = 0 THEN 1 ELSE n \div 2) IN
       IF counter > FewExpr THEN ShiftRight(size, 2) ELSE size

\* function_gen_counter_ >> 2, by which the weight of functions is shifted.
FunctionShift == IF function_gen_counter_ > 2 THEN function_gen_counter_ \div 4 ELSE 0

FunctionSize(t) ==
  ShiftRight(8 * Cardinality(FunctionSources(t)), FunctionShift)

StructureSize(t) == 8 * Cardinality(StructureSources(t))

SimpleSize(t, counter) ==
  64 * Cardinality(SimpleSources(t)) * (IF counter > PreferVar THEN 2^16 ELSE 1)

\* total_size, which leaves expression_size out.
TotalSize(t, counter) == SimpleSize(t, counter) + FunctionSize(t) + StructureSize(t)

\* The branches some choice \in 0..total_size-1 leads to.
Branches(t, counter) ==
  LET sources == SimpleSources(t) \cup StructureSources(t) \cup FunctionSources(t)
      p0 == ExpressionSize(t, Cardinality(sources), counter)
      p1 == FunctionSize(t)
      p2 == StructureSize(t)
      total == TotalSize(t, counter)
  IN {b \in {"number", "expression", "function", "structure", "simple"} :
        \/ b = "number" /\ total = 0
        \/ b = "expression" /\ p0 > 0 /\ total > 0
        \/ b = "function" /\ p1 > 0 /\ p0 < total
        \/ b = "structure" /\ p2 > 0 /\ p0 + p1 < total
        \/ b = "simple" /\ p0 + p1 + p2 < total}

\* The type that kAllTypes becomes: a random key, and for a function type its
\* return type two times out of three.
Resolved(t) ==
  IF t = kAllTypes /\ SatisfiableTypes # {}
  THEN SatisfiableTypes \cup {Ret[f] : f \in SatisfiableTypes \cap Function}
  ELSE {t}

(***************************************************************************)
(* get_class_member_by_type: methods of visited structures whose return    *)
(* type is t are called on the way, one per structure.  A structure with   *)
(* another way to t tosses a coin, one without calls.                      *)
(***************************************************************************)
Methods(d, t) == {m \in Members[d] \cap Function : m # t /\ Ret[m] = t}
Solves(d, t) == \E e \in Visited(d) : t \in Members[e] \/ Methods(e, t) # {}
OtherWay(d, t) == t \in Members[d] \/ \E e \in Members[d] \cap Compound : Solves(e, t)

CallingSets(c, t) ==
  LET able == {d \in Visited(c) : Methods(d, t) # {}}
  IN {S \in SUBSET able : \A d \in able \ S : OtherWay(d, t)}

\* The sequences of method calls: one method for each structure of a set.
MethodCalls(c, t) ==
  UNION {{s \in [1..Cardinality(S) -> UNION {Methods(d, t) : d \in S}] :
            \E order \in [1..Cardinality(S) -> S] :
              /\ \A d \in S : \E i \in DOMAIN order : order[i] = d
              /\ \A i \in DOMAIN s : s[i] \in Methods(order[i], t)} :
         S \in CallingSets(c, t)}

-----------------------------------------------------------------------------
Init ==
  /\ InitPasses
  /\ IsWeakType \in BOOLEAN
  /\ simple_var_map \in SUBSET SimpleType
  /\ compound_var_map \in SUBSET Compound
  /\ function_map \in SUBSET Free
  /\ gen_counter_ = 0
  /\ function_gen_counter_ = 0
  /\ all_satisfiable_types = [t \in TypeID |-> NoSources]
  /\ work = <<>>
  /\ outcome = "called"

\* GenerateExpression, always called with kAllTypes by a new generator:
\* collect_satisfiable_types asks which functions can be called.
CollectTypes ==
  /\ outcome = "called"
  /\ calc_satisfiable_functions(function_map, AvailableTypes)
  /\ outcome' = "collecting"
  /\ UNCHANGED <<scope, gen_counter_, function_gen_counter_, work>>

CollectFunctions ==
  /\ outcome = "collecting"
  /\ Passes
  /\ UNCHANGED <<scope, gen_counter_, function_gen_counter_, work, outcome>>

\* The cache is filled for the scope, and the generation begins.
Start ==
  /\ outcome = "collecting"
  /\ done
  /\ all_satisfiable_types' = CollectSatisfiableTypes
  /\ work' = <<Gen(kAllTypes, "root")>>
  /\ outcome' = "running"
  /\ UNCHANGED <<IsWeakType, simple_var_map, compound_var_map, function_map, passes,
                 gen_counter_, function_gen_counter_>>

Running == outcome = "running" /\ work # <<>>
Head1 == work[1]
Rest == Tail(work)

\* gen_counter_ > 50: a number, without counting.
LimitReached ==
  /\ Running
  /\ Head1.kind = "gen"
  /\ gen_counter_ > MaxGen
  /\ work' = Rest
  /\ UNCHANGED <<scope, passes, gen_counter_, function_gen_counter_, outcome>>

\* A slip: the limit is one call higher.
EnterOnceMore ==
  /\ Running
  /\ Head1.kind = "gen"
  /\ gen_counter_ <= MaxGen + 1
  /\ gen_counter_' = gen_counter_ + 1
  /\ UNCHANGED <<scope, passes, function_gen_counter_>>

\* The call of generate_expression_by_type_core for the next item counts.
Enter ==
  /\ Running
  /\ Head1.kind = "gen"
  /\ gen_counter_ <= MaxGen
  /\ gen_counter_' = gen_counter_ + 1
  /\ UNCHANGED <<scope, passes, function_gen_counter_>>

\* No key for the type, or nothing left to draw from: a number.
GenerateNumber ==
  /\ Enter
  /\ \E t \in Resolved(Head1.type) :
       t \in SatisfiableTypes => "number" \in Branches(t, gen_counter_ + 1)
  /\ work' = Rest
  /\ UNCHANGED outcome

\* choice < prob[0]: assert(false).
GenerateExpression ==
  /\ Enter
  /\ \E t \in Resolved(Head1.type) \cap SatisfiableTypes :
       "expression" \in Branches(t, gen_counter_ + 1)
  /\ outcome' = "assert(false)"
  /\ UNCHANGED work

GenerateFunctionCall ==
  /\ Enter
  /\ \E t \in Resolved(Head1.type) \cap SatisfiableTypes :
       /\ "function" \in Branches(t, gen_counter_ + 1)
       /\ \E f \in FunctionSources(t) : work' = <<CallOf(f, "function")>> \o Rest
  /\ UNCHANGED outcome

\* structure_member_gen_handler: a member of the structure, or the structure.
GenerateMember ==
  /\ Enter
  /\ \E t \in Resolved(Head1.type) \cap SatisfiableTypes :
       /\ "structure" \in Branches(t, gen_counter_ + 1)
       /\ \E c \in StructureSources(t) :
            IF ~Solves(c, t) /\ t # c
            THEN outcome' = "assert(member_type == compound_type)" /\ UNCHANGED work
            ELSE /\ \E ms \in MethodCalls(c, t) :
                      work' = [i \in DOMAIN ms |-> CallOf(ms[i], "method")] \o Rest
                 /\ UNCHANGED outcome

GenerateVariable ==
  /\ Enter
  /\ \E t \in Resolved(Head1.type) \cap SatisfiableTypes :
       /\ "simple" \in Branches(t, gen_counter_ + 1)
       /\ IF SimpleSources(t) = {}
          THEN outcome' = "assert(!simple_var_map[type].empty())" /\ UNCHANGED work
          ELSE work' = Rest /\ UNCHANGED outcome

\* A slip: the arguments are generated by generate_expression_by_type, which
\* resets the counters.
CallFunctionAfresh ==
  /\ Running
  /\ Head1.kind = "call"
  /\ gen_counter_' = 0
  /\ function_gen_counter_' = 0
  /\ work' = [i \in DOMAIN v_arg_types_[Head1.type] |->
                Gen(v_arg_types_[Head1.type][i], Head1.by)] \o Rest
  /\ UNCHANGED <<scope, passes, outcome>>

\* function_call_gen_handler: the name, then the arguments from left to right.
CallFunction ==
  /\ Running
  /\ Head1.kind = "call"
  /\ function_gen_counter_' = function_gen_counter_ + Len(v_arg_types_[Head1.type])
  /\ work' = [i \in DOMAIN v_arg_types_[Head1.type] |->
                Gen(v_arg_types_[Head1.type][i], Head1.by)] \o Rest
  /\ UNCHANGED <<scope, passes, gen_counter_, outcome>>

Finish ==
  /\ outcome = "running"
  /\ work = <<>>
  /\ outcome' = "done"
  /\ UNCHANGED <<scope, passes, gen_counter_, function_gen_counter_, work>>

Next ==
  \/ CollectTypes
  \/ CollectFunctions
  \/ Start
  \/ LimitReached
  \/ GenerateNumber
  \/ GenerateExpression
  \/ GenerateFunctionCall
  \/ GenerateMember
  \/ GenerateVariable
  \/ CallFunction
  \/ Finish

Spec == Init /\ [][Next]_vars
FairSpec == Spec /\ WF_vars(Next)

-----------------------------------------------------------------------------
Outcome == {"called", "collecting", "running", "done", "assert(false)",
            "assert(member_type == compound_type)",
            "assert(!simple_var_map[type].empty())"}

TypeOK ==
  /\ PassesTypeOK
  /\ IsWeakType \in BOOLEAN
  /\ simple_var_map \in SUBSET SimpleType
  /\ compound_var_map \in SUBSET Compound
  /\ function_map \in SUBSET Function
  /\ all_satisfiable_types \in
       [TypeID -> [simple : SUBSET simple_var_map, structure : SUBSET compound_var_map,
                   function : SUBSET function_map]]
  /\ gen_counter_ \in 0..(MaxGen + 1)
  /\ function_gen_counter_ \in Nat
  /\ work \in Seq(Item)
  /\ outcome \in Outcome

(***************************************************************************)
(* Whatever is in scope and whatever is drawn, the draw never leads to a   *)
(* branch with nothing in it: the assertions that the picked structure     *)
(* has a member of the type, and that there is a variable of the type,     *)
(* hold although total_size, the filters and all_satisfiable_types are     *)
(* computed in three different places.                                     *)
(***************************************************************************)
BranchesHaveSources == outcome \in {"called", "collecting", "running", "done", "assert(false)"}

(***************************************************************************)
(* An argument of a function in scope always has a type an expression can  *)
(* be made of, at any depth: a number is never used for want of a          *)
(* variable.  (It need not be so for the methods of structures, which      *)
(* calc_satisfiable_functions does not see.)                               *)
(***************************************************************************)
ArgumentsSatisfiable ==
  \A i \in 1..Len(work) :
    work[i].kind = "gen" /\ work[i].by = "function" => work[i].type \in SatisfiableTypes

(***************************************************************************)
(* Only the call for the FIXME itself reads its IR, when gen_counter_ is   *)
(* 0.  The arguments of a method are generated without one (nullptr), at   *)
(* any depth, so the counter must never be 0 again before they are done.   *)
(***************************************************************************)
NullIRIsNotRead ==
  gen_counter_ = 0 =>
    \A i \in 1..Len(work) : work[i].kind = "gen" => work[i].by = "root"

MostArguments == Max({0} \cup {Len(v_arg_types_[f]) : f \in Function})

\* The calls that one call of generate_expression_by_type_core may lead to: one
\* function, or a method for each structure on the way to a member.
MostCalls ==
  Max({1} \cup {Cardinality({d \in Visited(c) : Methods(d, t) # {}}) :
                 c \in Compound, t \in TypeID})

(***************************************************************************)
(* The weight of functions, a size_t of 64 bits, is shifted by a quarter   *)
(* of function_gen_counter_, which grows with every argument of every      *)
(* call and which nothing tests; methods keep their weight.  What bounds   *)
(* it is the limit of gen_counter_: with the code's 51 calls the shift is  *)
(* less than 64, and so defined, as long as a call leads to five           *)
(* arguments at most.                                                      *)
(***************************************************************************)
ShiftIsBounded == function_gen_counter_ <= (MaxGen + 1) * MostCalls * MostArguments

(***************************************************************************)
(* Functions whose arguments need functions do not recurse for ever.       *)
(***************************************************************************)
Termination == <>(outcome \notin {"called", "collecting", "running"})

(***************************************************************************)
(* typesystem.cpp:1513 asserts that the branch for operators, which has    *)
(* no handler any more, is never taken.                                    *)
(***************************************************************************)
NoExpressionBranch == outcome # "assert(false)"
=============================================================================
