-------------------------- MODULE SemanticValidator --------------------------
(***************************************************************************)
(* SemanticValidator::Validate (srcs/internal/srcs/typesystem.cpp): a      *)
(* FIXME in a program gives way to an expression made of what is visible   *)
(* there.  MarkFixMe turns every fix unit with a FIXME in it into a single *)
(* FIXME, ScopeTree finds out what is defined where, SelectFixStrategy     *)
(* lists the FIXMEs, and ApplyFix asks the generator for an expression for *)
(* each.                                                                   *)
(*                                                                         *)
(* What the generator makes of the visible definitions is the subject of   *)
(* ExpressionGeneration; here a fix is the set of definitions it may use.  *)
(***************************************************************************)
EXTENDS ScopeTree, Integers

VARIABLES
  decisions,           \* fix_decisions still to apply
  fixes,               \* [node, uses] for every FIXME replaced
  current_fix_scope_,  \* the scope the last generator filled the caches for
  var_maps             \* static cache of the visible definitions

generator == <<current_fix_scope_, var_maps>>
vars == <<pc, tree, work, scope_id, scopes, g_scope_current_, types, decisions, fixes,
          generator>>
scopeTree == <<scope_id, scopes, g_scope_current_, types>>

Init ==
  /\ InitTree
  /\ pc = "mark"
  /\ decisions = <<>>
  /\ fixes = <<>>
  /\ current_fix_scope_ = -1
  /\ var_maps = {}

\* FIXME is the text of leaves only.
IsFixme(n) == GetString(n) = "FIXME"
NeedFixing(n) == \E m \in Below(n) : IsFixme(m)

\* The fix units MarkFixMe looks at: none below another.
FixUnits == ToSet(search_by_data_type(1, "kFixUnit", {}))

MarkFixMe ==
  /\ pc = "mark"
  /\ marked' = {n \in FixUnits : NeedFixing(n)}
  /\ pc' = "build"
  /\ UNCHANGED <<root, IsWeakType, source, statement_id, work, scopeTree, decisions, fixes,
                 generator>>

BuildScopeTreeWithSymbolTable == ScopeTreeNext /\ UNCHANGED <<decisions, fixes, generator>>

\* A slip: the search ends at the first FIXME.
FirstFixme ==
  InOrder({n \in Below(1) : IsFixme(n) /\ \A m \in Below(1) : m < n => ~IsFixme(m)})

\* SelectFixStrategy: the FIXMEs in the order of the text.
AllFixmes == InOrder({n \in Below(1) : IsFixme(n)})

SelectFixStrategy ==
  /\ pc = "collect"
  /\ work = <<>>
  /\ decisions' = AllFixmes
  /\ pc' = "fix"
  /\ UNCHANGED <<tree, work, scopeTree, fixes, generator>>

\* collect_all_var_definition_by_type; no builtin type has a name.
Visible(n) ==
  {d \in UNION {ToSet(scopes[s].table) : s \in Chain(scope_id[n])} :
     d.id < statement_id[n]}

\* A slip: one generator for all FIXMEs, which keeps its scope.
GeneratorKept == current_fix_scope_

\* ApplyFix makes a new generator, whose current_fix_scope_ is -1.
GeneratorScope == -1

\* The caches outlive the generator; they are filled again when the scope is
\* not the generator's.
ApplyFix ==
  /\ pc = "fix"
  /\ decisions # <<>>
  /\ LET n == decisions[1] IN
     /\ var_maps' = IF GeneratorScope # scope_id[n] THEN Visible(n) ELSE var_maps
     /\ current_fix_scope_' = scope_id[n]
     /\ fixes' = Append(fixes, [node |-> n, uses |-> var_maps'])
  /\ decisions' = Tail(decisions)
  /\ UNCHANGED <<pc, tree, work, scopeTree>>

\* Validate returns kSuccess.
Return ==
  /\ pc = "fix"
  /\ decisions = <<>>
  /\ pc' = "done"
  /\ UNCHANGED <<tree, work, scopeTree, decisions, fixes, generator>>

Next ==
  \/ MarkFixMe
  \/ BuildScopeTreeWithSymbolTable
  \/ SelectFixStrategy
  \/ ApplyFix
  \/ Return

Spec == Init /\ [][Next]_vars

-----------------------------------------------------------------------------
(***************************************************************************)
(* ApplyFix asserts that its IR is still a FIXME: no FIXME is fixed twice; *)
(* and when Validate returns none is left, wherever MarkFixMe or the       *)
(* library put it.                                                         *)
(***************************************************************************)
EachFixmeOnce ==
  /\ IsInjective([i \in DOMAIN fixes |-> fixes[i].node])
  /\ pc = "done" => {f.node : f \in ToSet(fixes)} = {n \in Below(1) : IsFixme(n)}

(***************************************************************************)
(* The names a fix may use are visible at the FIXME in a lexically scoped  *)
(* language, although they are found by scope ids from one traversal,      *)
(* statement ids given when the IRs were made, and caches that outlive the *)
(* generator.  What is visible is offered, too, but for what the code does *)
(* not owe:                                                                *)
(*   - nothing in a program too large for its names to be collected;       *)
(*   - nothing in a program made by deep_copy, as all mutants are: the ids *)
(*     are left uninitialised, and any name may be missing;                *)
(*   - no argument in a program as parsed: arguments have the statement id *)
(*     of their whole function, which is greater than that of a FIXME in   *)
(*     the body, and are never offered there.                              *)
(* Only in a program as parsed do the ids tell the order of the text.      *)
(***************************************************************************)
Owed ==
  IF TooLarge \/ source = "copied" THEN {}
  ELSE {"definitions"} \cup {k \in {"arguments"} : source = "extracted"}
Lexical == INSTANCE LexicalScoping WITH
  program <- root,
  ordered <- source = "translated",
  owed <- Owed,
  used <- [n \in {f.node : f \in ToSet(fixes)} |->
             UNION {{d.node : d \in f.uses} : f \in {g \in ToSet(fixes) : g.node = n}}]
ImplementsLexicalScoping == Lexical!Spec

(***************************************************************************)
(* "ASSERT_LT(def_a.value().statement_id, def_b.value().statement_id)"     *)
(* (tests/validation_test.cc:72): the definitions of variables in a symbol *)
(* table have statement ids in the order of the text.                      *)
(***************************************************************************)
VariablesInOrder ==
  Collected =>
    \A s \in DOMAIN scopes : \A i, j \in DOMAIN scopes[s].table :
      LET a == scopes[s].table[i]
          b == scopes[s].table[j]
      IN /\ {a.node, b.node} \subseteq NamesIn("kVariableDefinition")
         /\ a.node < b.node
         => a.id < b.id
=============================================================================
