------------------------------ MODULE ScopeTree ------------------------------
(***************************************************************************)
(* The scopes of a program and the definitions in them                     *)
(* (srcs/internal/srcs/var_definition.cpp).  ScopeTree::BuildTree makes a  *)
(* scope for every IR that opens one and tells each IR its scope;          *)
(* BuildSymbolTables collects the definitions of variables, structures and *)
(* functions in the symbol tables of the scopes.  A definition carries the *)
(* statement id of an IR, by which a later step tells what is defined      *)
(* before what.                                                            *)
(*                                                                         *)
(* The recursions are the list work of the IRs still to visit, next first. *)
(* IRs of unknown type, which only hold the children of a rule together,   *)
(* are left out: they have neither data type nor scope type, and every     *)
(* traversal passes through them.  So an IR has any number of children.    *)
(* A program is the sequence of its IRs in the order of the text, each     *)
(* with the last IR below it; an IR is its place in the sequence.  A name  *)
(* is the IR it stands at; type names are words.                           *)
(*                                                                         *)
(* The grammar is external.  What is assumed of it is what the code        *)
(* asserts or takes for granted: the root opens the global scope and is no *)
(* fix unit; what GrammarAssumption says of the definitions.               *)
(***************************************************************************)
EXTENDS Naturals, Sequences, FiniteSets, SequencesExt

CONSTANTS
  Program,     \* the programs to validate
  BasicType,   \* BasicTypes of the configuration
  Source,      \* how the IRs of a program may have been made
  Garbage,     \* what an uninitialised statement id may be
  kMaxNodes    \* 250: IRs beyond which no definition is collected

kDataDefault == "kDataDefault"
kScopeDefault == "kScopeDefault"
Definitions == {"kVariableDefinition", "kClassDefinition", "kFunctionDefinition"}

ASSUME TreeAssumption ==
  /\ \A r \in Program :
       /\ Len(r) \in Nat \ {0} /\ DOMAIN r = 1..Len(r)
       /\ r[1].last = Len(r) /\ r[1].scope_type # kScopeDefault
       /\ r[1].data_type # "kFixUnit"
       /\ \A n \in DOMAIN r :
            /\ r[n].last \in n..Len(r)
            /\ \A m \in n..r[n].last : r[m].last <= r[n].last
  /\ Source \subseteq {"translated", "extracted", "copied"}
  /\ Garbage \subseteq Nat
  /\ kMaxNodes \in Nat

\* The IRs below n in program r, and those of them around m.
Inside(r, n) == (n + 1)..r[n].last
Between(r, n, m) == {a \in Inside(r, n) : a < m /\ m <= r[a].last}

\* A variable definition has no other definition in it, as find_define_type
\* would take it for that one; its names are in the scope it is in.
VariableShape(r, n) ==
  /\ \A m \in Inside(r, n) : r[m].data_type \notin Definitions
  /\ \A m \in Inside(r, n) : r[m].data_type = "kVariableName" =>
       /\ \A a \in Between(r, n, m) \cup {m} : r[a].scope_type = kScopeDefault
       /\ \A a \in Between(r, n, m) : r[a].data_type # "kVariableName"

\* "A structure definition should have body": one that opens a scope, with all
\* definitions in it, and that is not itself put to the fixing.
StructureShape(r, n) ==
  \E b \in Inside(r, n) :
    /\ r[b].data_type = "kClassBody" /\ r[b].scope_type # kScopeDefault
    /\ \A a \in Between(r, n, b) :
         r[a].scope_type = kScopeDefault /\ r[a].data_type # "kFixUnit"
    /\ \A m \in Inside(r, n) :
         r[m].data_type \in Definitions \cup {"kClassBody"} => m \in b..r[b].last

\* A function has a name, no definitions but in its body, if it has one, and
\* "assert(arg_name_ir)": arguments with a name.
FunctionShape(r, n) ==
  LET Outside(dt) == {m \in Inside(r, n) :
                        /\ r[m].data_type = dt
                        /\ \A a \in Between(r, n, m) : r[a].data_type # "kFunctionBody"}
      inBody == {m \in Inside(r, n) : r[m].data_type \in Definitions \cup {"kFunctionBody"}}
  IN /\ Outside("kFunctionName") # {}
     /\ \A m \in Outside("kFunctionName") : \A a \in Between(r, n, m) \cup {m} :
          r[a].scope_type = kScopeDefault /\ r[a].data_type # "kFixUnit"
     /\ inBody # {} => \E b \in inBody :
          /\ r[b].data_type = "kFunctionBody" /\ r[b].scope_type # kScopeDefault
          /\ inBody \subseteq b..r[b].last
     /\ \A m \in Outside("kFunctionArgument") :
          /\ \A a \in Inside(r, m) : r[a].data_type # "kFunctionBody"
          /\ \E x \in Inside(r, m) : /\ r[x].data_type = "kVariableName"
                                     /\ \A a \in Between(r, m, x) : r[a].data_type # "kFixUnit"

\* A FIXME is a leaf, and stands for no name.
ASSUME GrammarAssumption ==
  \A r \in Program : \A n \in DOMAIN r :
    /\ r[n].word = "FIXME" => r[n].last = n /\ r[n].data_type = kDataDefault
    /\ r[n].data_type = "kVariableDefinition" => VariableShape(r, n)
    /\ r[n].data_type = "kClassDefinition" => StructureShape(r, n)
    /\ r[n].data_type = "kFunctionDefinition" => FunctionShape(r, n)

VARIABLES
  pc,
  root,
  IsWeakType,        \* of the configuration
  source,            \* how the IRs of root were made
  statement_id,      \* statement_id_ of each IR
  marked,            \* the IRs that MarkFixMe has replaced by a FIXME
  work,              \* what the current traversal has still to do
  scope_id,          \* scope_id_ of each IR, 0 before BuildTree
  scopes,            \* scope_id_map_: [type, parent, opener, table]
  g_scope_current_,  \* 0 is nullptr
  types              \* types created for this program

tree == <<root, IsWeakType, source, statement_id, marked>>

-----------------------------------------------------------------------------
IRs == DOMAIN root

\* The tree as it is after MarkFixMe: a marked IR has nothing below it.
Below(n) ==
  {m \in n..root[n].last : \A u \in marked : m <= u \/ m > root[u].last}
Above(n) == {a \in 1..(n - 1) : n <= root[a].last}
GetDataType(n) == IF n \in marked THEN kDataDefault ELSE root[n].data_type
GetScopeType(n) == IF n \in marked THEN kScopeDefault ELSE root[n].scope_type
GetString(n) == IF n \in marked THEN "FIXME" ELSE root[n].word

InOrder(S) ==
  [i \in 1..Cardinality(S) |-> CHOOSE n \in S : Cardinality({m \in S : m < n}) = i - 1]
Kids(n) == InOrder({m \in Below(n) \ {n} : Above(m) \cap Below(n) = {n}})

\* search_by_data_type: the topmost IRs of data type dt below n, none below an
\* IR of a data type in forbid.
Topmost(n, dt, forbid) ==
  {m \in Below(n) : /\ GetDataType(m) = dt
                    /\ \A a \in Above(m) \cap Below(n) : GetDataType(a) \notin forbid \cup {dt}}
search_by_data_type(n, dt, forbid) == InOrder(Topmost(n, dt, forbid))

\* The IRs TranslateNode has made when it makes n: children before their parent.
MadeBefore(n) == {m \in IRs : root[m].last < n \/ (n < m /\ m <= root[n].last)}

\* The IRs whose statement id is read after a translation: by MarkFixMe, by the
\* symbol tables, and by what is visible at a FIXME.
Numbered ==
  {n \in IRs : GetDataType(n) \in {"kVariableName", "kFunctionName", "kFunctionDefinition",
                                   "kClassDefinition", "kFixUnit"}
                 \/ GetString(n) = "FIXME"}

\* Statement ids: a counter for the IRs TranslateNode makes; the FIXMEs that
\* ExtractStructure puts in are made later; deep_copy leaves the id of the copy
\* uninitialised.
StatementIDs(s) ==
  LET count == [n \in IRs |-> Cardinality(MadeBefore(n))]
  IN CASE s = "translated" -> {count}
       [] s = "extracted" ->
            {[n \in IRs |-> count[n] + IF GetString(n) = "FIXME" THEN Len(root) ELSE 0]}
       [] s = "copied" ->
            {[n \in IRs |-> IF n \in Numbered THEN g[n] ELSE 0] : g \in [Numbered -> Garbage]}

\* A tree whose structure was extracted has no fix unit left.
Sources ==
  {s \in Source : s = "extracted" => \A n \in IRs : GetDataType(n) # "kFixUnit"}

InitTree ==
  /\ root \in Program
  /\ IsWeakType \in BOOLEAN
  /\ marked = {}
  /\ source \in Sources
  /\ statement_id \in StatementIDs(source)
  /\ work = <<>>
  /\ scope_id = [n \in IRs |-> 0]
  /\ scopes = <<>>
  /\ g_scope_current_ = 0
  /\ types = {}

-----------------------------------------------------------------------------
Visit(n) == [do |-> "visit", node |-> n]
Leave(n) == [do |-> "leave", node |-> n]
VisitKids(n) == [i \in DOMAIN Kids(n) |-> Visit(Kids(n)[i])]
NextIs(stage, what) == pc = stage /\ work # <<>> /\ Head(work).do = what

StartBuild ==
  /\ pc = "build"
  /\ work' = <<Visit(1)>>
  /\ pc' = "building"
  /\ UNCHANGED <<tree, scope_id, scopes, g_scope_current_, types>>

\* BuildScopeTreeImpl, EnterScope and GenScope.
EnterScope ==
  /\ NextIs("building", "visit")
  /\ LET n == Head(work).node IN
     /\ GetScopeType(n) # kScopeDefault
     /\ scopes' = Append(scopes, [type |-> GetScopeType(n), parent |-> g_scope_current_,
                                  opener |-> n, table |-> <<>>])
     /\ g_scope_current_' = Len(scopes')
     /\ scope_id' = [scope_id EXCEPT ![n] = g_scope_current_']
     /\ work' = VisitKids(n) \o <<Leave(n)>> \o Tail(work)
  /\ UNCHANGED <<pc, tree, types>>

\* BuildScopeTreeImpl for an IR that opens no scope.
SetScopeID ==
  /\ NextIs("building", "visit")
  /\ LET n == Head(work).node IN
     /\ GetScopeType(n) = kScopeDefault
     /\ scope_id' = [scope_id EXCEPT ![n] = g_scope_current_]
     /\ work' = VisitKids(n) \o Tail(work)
  /\ UNCHANGED <<pc, tree, scopes, g_scope_current_, types>>

\* A slip: only the scope of a block is left again.
ExitBlock ==
  /\ NextIs("building", "leave")
  /\ g_scope_current_' = IF scopes[g_scope_current_].type = "kScopeStatement"
                         THEN scopes[g_scope_current_].parent
                         ELSE g_scope_current_
  /\ work' = Tail(work)
  /\ UNCHANGED <<pc, tree, scope_id, scopes, types>>

ExitScope ==
  /\ NextIs("building", "leave")
  /\ g_scope_current_' = scopes[g_scope_current_].parent
  /\ work' = Tail(work)
  /\ UNCHANGED <<pc, tree, scope_id, scopes, types>>

\* BuildSymbolTables: a program that is too large keeps its tables empty.
StartCollect ==
  /\ pc = "building"
  /\ work = <<>>
  /\ work' = IF Cardinality(Below(1)) > kMaxNodes THEN <<>> ELSE <<Visit(1)>>
  /\ pc' = "collect"
  /\ UNCHANGED <<tree, scope_id, scopes, g_scope_current_, types>>

-----------------------------------------------------------------------------
AnyType == [kind |-> "any", word |-> "", at |-> 1, members |-> {}]
Basic(w) == [kind |-> "basic", word |-> w, at |-> 1, members |-> {}]

\* GetTypeIDByStr: a basic type, else a structure, else a function.  The maps
\* are unordered: of several types with the same name it may be any.
GetTypeIDByStr(w) ==
  LET Named(k) == {t \in types : t.kind = k /\ t.word = w}
  IN IF w \in BasicType THEN {Basic(w)}
     ELSE IF Named("compound") # {} THEN Named("compound")
     ELSE Named("function")

\* Scope::AddDefinition; the node is the name that is defined.
Def(n, t, id) == [node |-> n, type |-> t, id |-> id]
AddDefinitions(ss, s, defs) == [ss EXCEPT ![s].table = @ \o defs]

\* collect_definition goes down to the definitions.
CollectBelow ==
  /\ NextIs("collect", "visit")
  /\ GetDataType(Head(work).node) \notin Definitions
  /\ work' = VisitKids(Head(work).node) \o Tail(work)
  /\ UNCHANGED <<pc, tree, scope_id, scopes, g_scope_current_, types>>

\* The types CollectSimpleVariableDefinition may give the variables of n.
VariableTypes(n) ==
  LET type_node == search_by_data_type(n, "kVariableType", {})
  IN IF type_node = <<>> THEN {AnyType}
     ELSE IF IsWeakType /\ GetTypeIDByStr(GetString(type_node[1])) = {} THEN {AnyType}
     ELSE GetTypeIDByStr(GetString(type_node[1]))

CollectSimpleVariableDefinition ==
  /\ NextIs("collect", "visit")
  /\ LET n == Head(work).node
         names == search_by_data_type(n, "kVariableName", {})
     IN /\ GetDataType(n) = "kVariableDefinition"
        /\ \E t \in VariableTypes(n) :
             scopes' = AddDefinitions(scopes, scope_id[n],
                         [i \in DOMAIN names |-> Def(names[i], t, statement_id[names[i]])])
  /\ work' = Tail(work)
  /\ UNCHANGED <<pc, tree, scope_id, g_scope_current_, types>>

\* assert(type != kNotExist).
TypeNotExist ==
  /\ NextIs("collect", "visit")
  /\ GetDataType(Head(work).node) = "kVariableDefinition"
  /\ VariableTypes(Head(work).node) = {}
  /\ pc' = "assert"
  /\ UNCHANGED <<tree, work, scope_id, scopes, g_scope_current_, types>>

\* CollectStructureDefinition up to the recursion into the body, ...
CollectStructureBody ==
  /\ NextIs("collect", "visit")
  /\ LET n == Head(work).node IN
     /\ GetDataType(n) = "kClassDefinition"
     /\ work' = <<Visit(search_by_data_type(n, "kClassBody", {})[1]), Leave(n)>> \o Tail(work)
  /\ UNCHANGED <<pc, tree, scope_id, scopes, g_scope_current_, types>>

\* A slip: the members are taken from the scope around the structure.
StructureScopeAround(n) == scope_id[n]

StructureScope(n) == scope_id[search_by_data_type(n, "kClassBody", {})[1]]

\* ... and from there: CreateCompoundType and AddDefinition.
CollectStructureDefinition ==
  /\ NextIs("collect", "leave")
  /\ LET n == Head(work).node
         members == {d.node : d \in ToSet(scopes[StructureScope(n)].table)}
         new_class == [kind |-> "compound", at |-> n, members |-> members,
                       word |-> GetString(search_by_data_type(n, "kClassName", {})[1])]
     IN /\ types' = types \cup {new_class}
        /\ scopes' = AddDefinitions(scopes, scope_id[n], <<Def(n, new_class, statement_id[n])>>)
  /\ work' = Tail(work)
  /\ UNCHANGED <<pc, tree, scope_id, g_scope_current_>>

Arguments(n) == search_by_data_type(n, "kFunctionArgument", {"kFunctionBody"})
ArgumentType(a) ==
  LET type_node == search_by_data_type(a, "kVariableType", {})
  IN IF type_node = <<>> THEN {} ELSE GetTypeIDByStr(GetString(type_node[1]))
ArgumentName(a) == search_by_data_type(a, "kVariableName", {})[1]
ReturnTypes(n) ==
  LET type_node == search_by_data_type(n, "kFunctionReturnType", {"kFunctionBody"})
  IN IF type_node = <<>> THEN {} ELSE GetTypeIDByStr(GetString(type_node[1]))

\* A function without a return type that exists gets no definition.
FunctionDefinition(n, ss) ==
  LET name == search_by_data_type(n, "kFunctionName", {"kFunctionBody"})[1]
      new_function == [kind |-> "function", at |-> n, members |-> {}, word |-> GetString(name)]
  IN IF ReturnTypes(n) = {} THEN scopes' = ss /\ UNCHANGED types
     ELSE /\ types' = types \cup {new_function}
          /\ scopes' = AddDefinitions(ss, scope_id[n],
                         <<Def(name, new_function, statement_id[name])>>)

\* A slip: the arguments are defined where the function is.
ArgumentScopeAround(n, body) == scope_id[n]

ArgumentScope(n, body) == scope_id[body]

\* The definitions of the arguments carry the statement id of the function.
CollectFunctionDefinition ==
  /\ NextIs("collect", "visit")
  /\ LET n == Head(work).node
         args == Arguments(n)
         body == search_by_data_type(n, "kFunctionBody", {})
     IN /\ GetDataType(n) = "kFunctionDefinition"
        /\ \A i \in DOMAIN args : ArgumentType(args[i]) # {}
        /\ \E ts \in [DOMAIN args -> UNION {ArgumentType(args[i]) : i \in DOMAIN args}] :
             /\ \A i \in DOMAIN args : ts[i] \in ArgumentType(args[i])
             /\ LET defs == [i \in DOMAIN args |->
                               Def(ArgumentName(args[i]), ts[i], statement_id[n])]
                    ss == IF body = <<>> THEN scopes
                          ELSE AddDefinitions(scopes, ArgumentScope(n, body[1]), defs)
                IN FunctionDefinition(n, ss)
        /\ work' = (IF body = <<>> THEN <<>> ELSE <<Visit(body[1])>>) \o Tail(work)
  /\ UNCHANGED <<pc, tree, scope_id, g_scope_current_>>

\* The name of an argument's type is logged: GetTypePtrByID returned nullptr.
ArgumentTypeNotExist ==
  /\ NextIs("collect", "visit")
  /\ LET n == Head(work).node IN
     /\ GetDataType(n) = "kFunctionDefinition"
     /\ \E i \in DOMAIN Arguments(n) : ArgumentType(Arguments(n)[i]) = {}
  /\ pc' = "crash"
  /\ UNCHANGED <<tree, work, scope_id, scopes, g_scope_current_, types>>

ScopeTreeNext ==
  \/ StartBuild
  \/ EnterScope
  \/ SetScopeID
  \/ ExitScope
  \/ StartCollect
  \/ CollectBelow
  \/ CollectSimpleVariableDefinition
  \/ TypeNotExist
  \/ CollectStructureBody
  \/ CollectStructureDefinition
  \/ CollectFunctionDefinition
  \/ ArgumentTypeNotExist

-----------------------------------------------------------------------------
\* The scopes around scope s, s included.
Chain(s) ==
  LET chain[t \in 0..Len(scopes)] ==
        IF t = 0 THEN {} ELSE {t} \cup chain[scopes[t].parent]
  IN chain[s]

\* The IRs around n, n included, that open a scope, and the innermost of them.
Openers(n) == {a \in Above(n) \cup {n} : GetScopeType(a) # kScopeDefault}
Opener(n) == Max(Openers(n))

Collected == pc \notin {"mark", "build", "building", "collect", "assert", "crash"}
TooLarge == Cardinality(Below(1)) > kMaxNodes

(***************************************************************************)
(* The scopes around an IR that has a scope are those opened around it,    *)
(* whatever scopes were entered and left before; in the end every IR has a *)
(* scope, and all scopes have been left.                                   *)
(***************************************************************************)
ScopesMirrorTree ==
  /\ \A n \in IRs :
       scope_id[n] # 0 => {scopes[s].opener : s \in Chain(scope_id[n])} = Openers(n)
  /\ pc \notin {"mark", "build", "building"} =>
       g_scope_current_ = 0 /\ \A n \in Below(1) : scope_id[n] # 0

OfType(dt) == {n \in Below(1) : GetDataType(n) = dt}
NamesIn(dt) == UNION {ToSet(search_by_data_type(n, "kVariableName", {})) : n \in OfType(dt)}

\* The scopes that define n, and how often.
Places(n) ==
  UNION {{s} \X {i \in DOMAIN scopes[s].table : scopes[s].table[i].node = n} :
           s \in DOMAIN scopes}

\* n is defined once, in the scope that o opens.
DefinedOnceIn(n, o) == \E p \in Places(n) : Places(n) = {p} /\ scopes[p[1]].opener = o

(***************************************************************************)
(* Every variable and structure is defined exactly once, in the scope it   *)
(* stands in, although bodies are visited by a recursion of their own; an  *)
(* argument in the scope of the body of its function.                      *)
(***************************************************************************)
EachDefinedOnce ==
  Collected /\ ~TooLarge =>
    /\ \A n \in NamesIn("kVariableDefinition") \cup OfType("kClassDefinition") :
         DefinedOnceIn(n, Opener(n))
    /\ \A f \in OfType("kFunctionDefinition") : \A a \in ToSet(Arguments(f)) :
         LET bodies == {b \in OfType("kFunctionBody") : f \in Above(b)}
         IN IF bodies = {} THEN Places(ArgumentName(a)) = {}
            ELSE DefinedOnceIn(ArgumentName(a), Min(bodies))

(***************************************************************************)
(* The members of a structure are the names its body defines, not those    *)
(* around it or further in, although they are read back from a symbol      *)
(* table.                                                                  *)
(***************************************************************************)
MembersAreOwn ==
  \A t \in types : t.kind = "compound" =>
    LET own == {n \in Below(t.at) : Openers(n) = Openers(t.at) \cup {Opener(n)}} \ {t.at}
    IN /\ \A m \in t.members : m \in own /\ Opener(m) # Opener(t.at)
       /\ \A n \in own \cap NamesIn("kVariableDefinition") : n \in t.members
       /\ \A n \in own \cap OfType("kClassDefinition") : n \in t.members
=============================================================================
