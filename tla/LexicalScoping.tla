--------------------------- MODULE LexicalScoping ---------------------------
(***************************************************************************)
(* What the validator promises of the names it puts in the place of a      *)
(* FIXME: they are those that a lexically scoped language shows there.  A  *)
(* name is visible in the scope it is declared in and the scopes further   *)
(* in, from the end of its declaration on.  Nothing is said of symbol      *)
(* tables, statement ids or caches: only the text counts.  An argument is  *)
(* visible in the body of its function.                                    *)
(*                                                                         *)
(* A program is the sequence of its IRs in the order of the text, as in    *)
(* ScopeTree.                                                              *)
(***************************************************************************)
EXTENDS Naturals

VARIABLES
  program,
  ordered,   \* whether declarations count only from their end on
  owed,      \* what must be offered where it is visible, and not only may be
  used       \* used[n]: the names that may stand in the place of the FIXME n

Places == DOMAIN program
Within(n, a) == a <= n /\ n <= program[a].last
Scopes(n) == {a \in Places : Within(n, a) /\ program[a].scope_type # "kScopeDefault"}

\* The outermost fix units.  One with a FIXME in it is a single FIXME.
FixUnits ==
  {n \in Places : /\ program[n].data_type = "kFixUnit"
                  /\ \A a \in Places \ {n} : Within(n, a) => program[a].data_type # "kFixUnit"}
Fixmes == {n \in Places : program[n].word = "FIXME"}
Sites ==
  {n \in Fixmes : \A u \in FixUnits : ~Within(n, u)}
    \cup {u \in FixUnits : \E n \in Fixmes : Within(n, u)}

\* What is in a fix unit that is a single FIXME is not in the program any more.
Text == {n \in Places : \A u \in Sites : Within(n, u) => n = u}

\* The names below the IRs of data type dt.
Names(dt, name) ==
  {n \in Text : /\ program[n].data_type = name
                /\ \E a \in Places : Within(n, a) /\ program[a].data_type = dt}
Variables == Names("kVariableDefinition", "kVariableName")
Structures == {n \in Text : program[n].data_type = "kClassDefinition"}
Functions == Names("kFunctionDefinition", "kFunctionName")

\* The arguments of the function f: the first name of each outermost argument
\* outside its body.
Bodies(f) == {b \in Places : program[b].data_type = "kFunctionBody" /\ Within(b, f)}
Header(f) == {n \in Text : Within(n, f) /\ \A b \in Bodies(f) : ~Within(n, b)}
Declared(f) ==
  {a \in Header(f) : /\ program[a].data_type = "kFunctionArgument"
                     /\ \A c \in Header(f) \ {a} :
                          Within(a, c) => program[c].data_type # "kFunctionArgument"}
NamesOf(a, f) == {n \in Header(f) : program[n].data_type = "kVariableName" /\ Within(n, a)}
Arguments(f) ==
  UNION {{n \in NamesOf(a, f) : \A m \in NamesOf(a, f) : n <= m} : a \in Declared(f)}

\* The names of N that are visible at n.
VisibleAt(n, N) ==
  {d \in N : Scopes(d) \subseteq Scopes(n) /\ (ordered => program[d].last < n)}

\* The arguments of the functions whose body n is in.
ArgumentsAt(n) ==
  UNION {Arguments(f) : f \in {g \in Places : /\ program[g].data_type = "kFunctionDefinition"
                                              /\ \E b \in Bodies(g) : Within(n, b)}}

\* Whether a function is declared depends on its return type.
May(n) == VisibleAt(n, Variables \cup Structures \cup Functions) \cup ArgumentsAt(n)
Must(n) ==
  {d \in VisibleAt(n, Variables \cup Structures) : "definitions" \in owed}
    \cup {d \in ArgumentsAt(n) : "arguments" \in owed}

Init == used = [n \in {} |-> {}]

Fix(n) ==
  /\ n \notin DOMAIN used
  /\ DOMAIN used' = DOMAIN used \cup {n}
  /\ \A m \in DOMAIN used : used'[m] = used[m]
  /\ n \in Sites
  /\ Must(n) \subseteq used'[n]
  /\ used'[n] \subseteq May(n)

Next == \E n \in Places : Fix(n)

Spec == Init /\ [][Next]_used
=============================================================================
