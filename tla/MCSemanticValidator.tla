------------------------ MODULE MCSemanticValidator ------------------------
(***************************************************************************)
(* TLC instance of SemanticValidator: the programs of up to MaxStatements  *)
(* statements of the given forms.                                          *)
(***************************************************************************)
EXTENDS SemanticValidator

CONSTANTS Form, MaxStatements, MaxNumbered

\* An IR over the IRs of its children, in the order of the text, with depths.
Scoped(dt, st, below) ==
  <<[depth |-> 0, data_type |-> dt, scope_type |-> st, word |-> ""]>>
    \o [i \in DOMAIN below |-> [below[i] EXCEPT !.depth = @ + 1]]
Rule(dt, below) == Scoped(dt, kScopeDefault, below)
Leaf(dt, w) == <<[Rule(dt, <<>>)[1] EXCEPT !.word = w]>>

Fixme == Leaf(kDataDefault, "FIXME")
Name == Leaf("kVariableName", "a")
Type(w) == Leaf("kVariableType", w)
Variable(w) == Rule("kVariableDefinition", Type(w) \o Name)
Use == Rule("kFixUnit", Leaf(kDataDefault, "1") \o Fixme)
Function(ret, arg, rest) ==
  Rule("kFunctionDefinition",
       Leaf("kFunctionReturnType", ret) \o Leaf("kFunctionName", "f")
         \o Rule("kFunctionArgument", Type(arg) \o Name) \o rest)
Body(below) == Scoped("kFunctionBody", "kScopeFunction", below)
Structure(w, below) ==
  Rule("kClassDefinition", Leaf("kClassName", w) \o Scoped("kClassBody", "kScopeClass", below))

Statement(form) ==
  CASE form = "variable" -> Variable("INT")
    [] form = "untyped" -> Rule("kVariableDefinition", Name \o Name)
    [] form = "of_struct" -> Variable("T")
    [] form = "of_function" -> Variable("f")
    [] form = "initialised" -> Rule("kVariableDefinition", Type("INT") \o Name \o Use)
    [] form = "use" -> Use
    [] form = "fixme" -> Fixme
    [] form = "literal" -> Rule("kFixUnit", Leaf(kDataDefault, "1"))
    [] form = "block" -> Scoped(kDataDefault, "kScopeStatement", Variable("INT") \o Use)
    [] form = "function" -> Function("INT", "INT", Body(Use))
    [] form = "taking" -> Function("INT", "T", Body(Variable("T")))
    [] form = "procedure" -> Function("VOID", "INT", Body(<<>>))
    [] form = "prototype" -> Function("INT", "INT", <<>>)
    [] form = "struct" -> Structure("T", Variable("INT"))
    [] form = "nested" -> Structure("U", Structure("T", Variable("INT")) \o Variable("T"))
    [] form = "method" -> Structure("T", Function("INT", "INT", Body(Use)))

\* Depths become the last IR below each.
LastBelow(text, n) ==
  Max({m \in n..Len(text) : \A k \in (n + 1)..m : text[k].depth > text[n].depth})
IRsOf(text) ==
  <<>> \o [n \in DOMAIN text |->
             [data_type |-> text[n].data_type, scope_type |-> text[n].scope_type,
              word |-> text[n].word, last |-> LastBelow(text, n)]]

Statements == UNION {[1..k -> Form] : k \in 1..MaxStatements}
Programs ==
  {IRsOf(Scoped(kDataDefault, "kScopeGlobal",
                FlattenSeq([i \in DOMAIN forms |-> Statement(forms[i])]))) :
     forms \in Statements}

\* Apart from the programs, which TLC then makes only once.
MCProgram == Programs

\* Copies of programs of which at most MaxNumbered statement ids are read.
MCInit ==
  /\ root \in Program
  /\ marked = {}
  /\ source \in Source
  /\ source = "copied" => Cardinality(Numbered) <= MaxNumbered
  /\ Init
MCSpec == MCInit /\ [][Next]_vars
=============================================================================
