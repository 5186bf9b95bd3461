# PolyGlot in TLA+

PolyGlot is a grammar-aware mutator that AFL++ loads as a library. It parses a
test case with ANTLR, translates the parse tree to a binary IR tree, replaces
parts of it by IRs from a library filled from a corpus, and, unless told to care
about syntax only, repairs the semantics of the mutants. This directory holds
TLA+ models of that code, TLC configurations that check them on small instances
and TLAPS proofs of what matters most for all instances.

Paths below are relative to the root of the repository; the C++ code is in
`srcs/`. `PROJECT.json` maps every definition to the lines it stands for.

## 1. Inventory

### Parts, state, operations

| part | code | state | operations |
|---|---|---|---|
| Session | `custom_mutator.cc`, `polyglot.cc` | `save_test_cases_`, `current_input_`, the mutator object | `afl_custom_init`, `_fuzz_count`, `_fuzz`, `_queue_new_entry`, `_deinit`; behind them `CreateInstance`, `Mutate`, `GetNextMutatedTestCase`, `AddToIRLibrary` |
| Configuration | `internal/srcs/configuration.cpp`, `polyglot.cc`, `utils/check_env_bin.cpp` | the singleton and `is_init_` | `Init`, `ConfigFileValidate`, `GetInstance`; `check_env`, which calls `ConfigFileValidate` alone |
| Frontend | `antlr/ir_translater.cpp` | statics of `TranslateToIR`: parser, error listener, counter, prediction cache | `TranslateToIR` |
| IR translation | `antlr/ir_translater.cpp`, `internal/srcs/ir.cpp` | recursion, the stack of collected items, the slots of a `OneIR` | `TranslateNode`, `ExtractOneIR`, `IR::ToString` |
| IR library | `internal/srcs/mutate.cpp` | per IR type a vector of shared IRs and the set of their hashes | `AddIRToLibrary`, `SaveIRRecursive`, `GetRandomIR` |
| Mutator | `internal/srcs/mutate.cpp` | the heap of shared IRs, `record_`, the hashes of the mutants | `MutateIRs`, `MutateIR`, two strategies, `deep_copy_with_record`, `replace`, `ExtractStructure` |
| Scope tree, symbol tables | `internal/srcs/var_definition.cpp` | tree of scopes, definitions by type and statement | `BuildTree`, `EnterScope`, `ExitScope`, `AddDefinition`, the collectors |
| Type system | `internal/srcs/var_definition.cpp` | type ids, static maps of builtin types | `gen_type_id`, `create_*_type`, `init_basic_types`, `get_all_types_from_compound_type` |
| Semantic validator | `internal/srcs/typesystem.cpp` | the IR tree, the FIXME marks, static caches of what is visible | `Validate`, `MarkFixMe`, `SelectFixStrategy`, `ApplyFix` |
| Expression generator | `internal/srcs/typesystem.cpp` | `gen_counter_`, `function_gen_counter_`, the sources of each type | `collect_satisfiable_types`, `calc_satisfiable_functions`, `generate_expression_by_type_core` and its handlers |
| Text | `internal/srcs/utils.cpp`, `internal/include/utils.h` | a string, changed in place | `trim_string`, `strip_string`, `Trim` |
| `corpus_evaluate` | `utils/corpus_evaluate.cpp`, `utils/corpus_evaluate_bin.cpp` | lists of files, counts of rules, the output directory | `CheckUnParsableFiles`, `CountTypesInCorpus`, `CheckMissingTypesInCorpus`, the copies |
| Other tools, tests, benchmarks | `antlr/antlr_tester.cpp`, `tests/`, `benchmarks/` | none of interest | single passes over files |

### How they interact

Everything runs in one thread, called by AFL++. `afl_custom_fuzz_count` calls
the frontend, the mutator and (without `SyntaxOnly`) the validator and saves the
mutants; `afl_custom_fuzz` hands them out one by one; in between AFL++ may call
`afl_custom_queue_new_entry`, which parses and adds to the IR library. The
validator builds a scope tree for each mutant and asks the expression generator
for the text in the place of each FIXME.

### What is hard here

* **Shared state across calls.** Statics in `TranslateToIR`, in the type system,
  the singleton configuration, `record_` of the mutator.
* **Aliasing.** IRs are shared pointers, changed in place; a stored IR lies below
  another stored IR, and hashes are computed from the tree as it is at that
  moment.
* **Interleaving of callbacks.** AFL++ uses the buffer of `current_input_` while
  it calls back.
* **Limits.** A vector of 512 IRs with random eviction, a cache thrown away after
  10001 parses, 32-bit hashes, `gen_counter_` as the only end of a recursion.
* **Loops and recursions that end only for a reason:** the fold of
  `TranslateNode`, the passes of `calc_satisfiable_functions`, the expression
  generator.
* **Text as identity.** Hashes, names of types and names of functions are what
  `ToString` prints, after `trim_string` has worked on it in place; blanks depend
  on the shape of the tree.
* **Failures half way.** `corpus_evaluate` and `Init` stop where an exception
  finds them, with what was done until then.
* **Assertions as error handling.** The build types add no `NDEBUG`
  (`CMakeLists.txt:31-32`), so each `assert` that fails ends the fuzzer.

`PROJECT.json` lists the hazards one by one with the line where each bites and
the property that would catch it.

## 2. Modules

| module | models | MC module, cfg | proofs |
|---|---|---|---|
| `IRTranslation` | `TranslateNode`, `ExtractOneIR` | `MCIRTranslation` | `IRTranslationProofs` |
| `IRLibrary` | `AddIRToLibrary`, `SaveIRRecursive`, borrowing of stored IRs | `MCIRLibrary` | `MutatorProofs` |
| `IRPool` | abstract specification of the library | (property of `MCIRLibrary`) | `MutatorProofs` |
| `Mutation` | `MutateIRs` and all it calls | `MCMutation` | `MutatorProofs` |
| `AntlrFrontend` | `TranslateToIR` over many calls | (extended by `CorpusEvaluation`) | `CorpusEvaluationProofs` |
| `Configuration` | `Configuration::Init` | (extended by the next) | `FuzzSessionProofs` |
| `FuzzSession` | AFL++ callbacks, `PolyGlotMutator`, from the configuration and the corpus on | `MCFuzzSession`, `ReadmeConfiguration.cfg` | `FuzzSessionProofs` |
| `SatisfiableFunctions` | `calc_satisfiable_functions` | (extended by the next) | `ExpressionGenerationProofs` |
| `ExpressionGeneration` | `collect_satisfiable_types`, which calls it, and the rest of `ExpressionGenerator` | `MCExpressionGeneration`, `ExpressionBranch.cfg` | `ExpressionGenerationProofs` |
| `ScopeTree` | `BuildTree`, `BuildSymbolTables`, the collectors of definitions | (extended by the next) | `SemanticValidatorProofs` |
| `SemanticValidator` | `Validate` over `ScopeTree` | `MCSemanticValidator`, `CopiedStatements.cfg` | `SemanticValidatorProofs` |
| `LexicalScoping` | abstract specification of what a fix may use | (property of `MCSemanticValidator`) | `SemanticValidatorProofs` |
| `TypeSystem` | `TypeSystem` over many programs | `MCTypeSystem` | `TypeSystemProofs` |
| `StringTrimming` | `trim_string`, `strip_string`, `Trim` | `MCStringTrimming.cfg` | `StringTrimmingProofs` |
| `CorpusEvaluation` | `corpus_evaluate` over `AntlrFrontend` | `MCCorpusEvaluation` | `CorpusEvaluationProofs` |

Definitions keep the names of the code. A definition introduced by the comment
"A slip:" is not part of the model: it is a plausible mistake in the definition
that follows it, and `PROJECT.json` ("mutants") says which property it breaks.

**`IRTranslation`.** A recursion of `TranslateNode` is an element of `frames`;
`stk` is the stack a call collects its children on, `slots` the `OneIR` that
`ExtractOneIR` is filling. `VisitTerminal`, `VisitRule`, `TranslateLiteral`,
`StoiThrows`, `StartFold`, `PopItem`, `PushUnknownIR`, `ReturnRuleIR` and
`ReturnNull` are the iterations and the ways out. A leaf, a terminal or a literal,
is its position in the program, and the text of an IR the sequence of positions
`ToString` prints. What is printed for a leaf is what the IR holds of it (`Held`):
the text of a terminal, the tokens of a string literal without the blanks between
them, and of an integer literal the int that `std::stoi` reads, which need not be
the one written (0x1F comes back as 0, 010 as 10, 1e3 as 1). `leaves` is a history
variable. `YieldPreserved` therefore says three things: `nullptr` is for programs
without tokens, each leaf is printed once and in order as what is held of it, and the
program comes back where its literals do.

**`IRLibrary`, `IRPool`.** `calls` is the recursion of `SaveIRRecursive`.
`hash(ir)` prints the tree as it is now: `HashOf` is the hash of the raw text
before extraction, of the extracted text after it, and of a cut text while
`strategy_replace_with_constraint` has taken the children off
(`DetachChildren`, `RestoreChildren`; only the two halves of one strategy call,
between which nothing is saved). Any IR may be evicted. `IRPool` says what the
mutator relies on: bounded sets of texts that are added to while there is room
and exchanged one for one when there is none; the map is the set of hashes.

**`Mutation`.** The heap is explicit; node 0 is `nullptr`, and a node that no
pointer reaches is dropped, as `shared_ptr` does. One action for each call that
matters in the loop of `MutateIRs`: attempts of
`strategy_replace_with_constraint`, the three forms of `strategy_replace`,
`deep_copy_with_record`, `replace`, the backup with `ExtractStructure`, and the
test of the 32-bit hash. `origin` is a history variable. The conversion table
`m_convertable_map_` is never filled and `lucky_enough_to_be_mutated` never
called. What is assumed of the heap before the call (`HeapAssumption`) is what the
callers do: the library keeps IRs of parsed trees, each under its own type, the test
case is parsed for itself, and what is parsed are trees.

**`AntlrFrontend`.** One action per stage of a call. Caches are numbered, so that
a simulator that refers to a freed one can be told. Programs are told apart by what
happens to them: bad UTF-8, characters the lexer does not know, a syntax error, a
literal `std::stoi` refuses, and no token at all (`Tokenless`), for which
`TranslateNode` returns `nullptr` although the grammar may accept it.

**`Configuration`, `FuzzSession`.** One action per step of `Init`; a file is
described by what the code looks at. Only when `Init` has returned true does
`CreateInstance` go on: `afl_custom_init` adds what parses of the corpus, of which
`get_all_files_in_dir` lists nothing if the path is a link or a file
(`file_list`). From then on there is one action per callback. AFL++ is external
and makes the calls the functions are written for: it takes as many mutants as it
was promised, queues the buffer it has just run, imports entries and ends the
session between two stages. The frontend's answer depends on the program alone,
which `AntlrFrontend` shows; `MutateIRs` returns any list of trees.

**`SatisfiableFunctions`.** One action for the call and one per iteration of the two
loops. It may be called any number of times.

**`ExpressionGeneration`.** `CollectTypes` calls `calc_satisfiable_functions` with the
functions and the types in scope, `CollectFunctions` are the passes of the loop, and
`Start` fills `all_satisfiable_types` with what it returned. `work` is the recursion
that follows: expressions and calls still to generate. Weights, shifts and
thresholds are the code's; a branch can be taken if some random number leads there.
Pointer types are left out, as no code creates one.

**`ScopeTree`, `SemanticValidator`.** A program is the sequence of its IRs in the
order of the text, each with the last IR below it; `work` is the recursion, the
IRs still to visit. IRs of unknown type only hold children together and are left
out, so `kMaxNodes` counts the IRs that are modelled. A name is the IR it stands
at, the name of a type is a word. `source` says where the statement ids come from:
counted by the parser (`translated`), with the FIXMEs of `ExtractStructure` made
later, as in the tests (`extracted`), or whatever memory held, as in the fuzzer,
which validates copies (`copied`). `var_maps` and `current_fix_scope_` are the
caches of the generator, static and of the object. `marked` is the set of fix units that
`MarkFixMe` has replaced. A fix is the set of definitions the generator may use;
what it makes of them is the subject of `ExpressionGeneration`. Of the grammar,
which is external, the models assume what the code asserts or takes for granted
(`TreeAssumption`, `GrammarAssumption`):

* the root opens the global scope and is no fix unit;
* a FIXME is a leaf without a data type, as `MarkFixMe` and `ExtractStructure` make it;
* inside the definition of a variable there is no other definition, as the collector
  does not go further (`var_definition.cpp:1069-1109`), and its names are in its scope,
  where `AddDefinition` puts them;
* a structure has a name and a body (asserted, `1256` and `1245`), the body opens a scope,
  as the members are read from that scope's table (`1272`), and the definitions inside
  are in the body, the only part that is visited further;
* a function has a name (`function_name_ir` is used without a test, `1443`), its
  arguments have names (asserted, `1483`), the body, if there is one, opens the scope the
  arguments are put in (`1520`), and only in the body are there further definitions.

A name without tokens would be a rule without an IR, so the early return for an empty
name is never taken.

**`LexicalScoping`.** What the validator promises: a FIXME gives way to something
made of the names that the text shows there. A name is visible in the scopes it is
declared in, from the end of its declaration on when the statement ids tell the
order; an argument is visible in the body of its function. What is used lies between
`Must` and `May`, as a function is declared or not by its return type. `May` is the
same for every program. Of what is visible, `Must` has only what is `owed`, and the
refinement says openly what the code does not owe (`Owed` in `SemanticValidator`):
nothing in a program of more than `kMaxNodes` IRs, which has no symbol tables; nothing
in a copy, whose statement ids are garbage; and no argument in a program as parsed,
where no FIXME in the body can use one (see section 5). In a program after
`ExtractStructure` arguments and definitions are owed, in a program as parsed the
definitions. Neither of the last two exceptions can be dropped: with copies owed their
definitions, or parsed programs their arguments, TLC finds a counterexample. The
refinement maps `used` to the fixes made so far.

**`TypeSystem`.** Here a program is just the definitions the collectors meet, so
that many programs can follow each other: `NewTree` and `DestroyTree` are the
birth and death of the `TypeSystem` of one, the basic types and the counter of ids
go on. The order in which a search meets the entries of an `unordered_map` is
chosen whenever the map changes (`bucket`, and the sets that `GetTypeIDByStr` may
return). `open` is the nesting of structures whose bodies are being collected.

**`StringTrimming`.** One action per character of each loop; `Rtrim` and `Ltrim` are
one step. Space, end of line, the three characters that end a line, and all
others are what the code tells apart; a tab behaves as an end of line. `from` is a
history variable: the place in the text that each character of the result comes
from.

**`CorpusEvaluation`.** The tool calls `TranslateToIR` for a file, the stages of
`AntlrFrontend` follow, and the tool goes on with the answer; both passes share the
static variables. An entry is a file or a directory. Reading a directory throws
(`ReadThrows`) or gives the empty text, by the standard library; the empty text has
no IR. An exception of the frontend or of the stream ends the tool, and the file
system may fail at each copy.

## 3. Runs

| run | bounds | states | shows |
|---|---|---|---|
| `ir_translation` | all rule nodes with up to 6 terminals and string literals, up to 3 children of any sort (string literals of one and two tokens, integer literals that come back, come back changed or are refused), all pairs of nodes with 3 children | 12 797 | leaves are held once and in order at each moment (`TokensHeldInOrder`), the result prints each leaf once and in order, as what the IR holds of it (`YieldPreserved`), each round of the fold takes two items, the translation ends |
| `ir_library` | 6 programs of 2 or 3 IRs with common texts, vectors of 2 | 22 555 | hashes are those of the stored IRs (`HashesMatchContents`), vectors never shrink; every type of a child of a stored IR has a stored IR; `IRPool` is implemented |
| `mutation` | 3 test cases of 5 to 7 IRs, 6 stored IRs and the empty one, 6 attempts as in the code, hashes of 16 and 8 bits | 10 553 | trees apart, mutants are substitutions, productions known, structures distinct, nothing finished is changed, `replace` finds its parent |
| `fuzz_session` | every kind of configuration file, 5 kinds of test cases, up to 2 mutants each | 123 058 | the singleton is complete when it can be had (`InitIsAllOrNothing`), both assertions of the session hold, every mutant is delivered once and unchanged |
| `expression_generation` | all scopes over 2 simple types, 2 structures, 4 functions and 2 methods | 36 104 | the passes over the functions leave the least fixed point, no branch without a source, arguments can be made, the null IR given for the arguments of methods is not read, `function_gen_counter_` is bounded by the calls and their arguments, the generator ends |
| `semantic_validator` | all programs of up to 3 statements of 16 forms, weak and strong typing, ids as parsed, as after `ExtractStructure`, and as in copies where at most 5 ids are read | 1 310 504 | scopes mirror the text and every IR gets one (`ScopesMirrorTree`), each definition lands once in its scope, members are the structure's own, every FIXME is fixed once, and what fixes may use implements `LexicalScoping`, with the exceptions of `Owed` |
| `type_system` | 2 programs of up to 3 definitions, 2 basic types, whose names programs may also define, and another name, weak and strong typing | 141 187 | every id held is that of one type (`HeldTypesResolve`), of this program, and one name has one id while a program lives although the map has it twice (`SameNameSameType`) |
| `string_trimming` | all texts of up to 6 characters of 4 kinds | 61 197 | the writes in place spare what is unread, tokens survive and stay apart, the text is canonical, a name comes out alike through both ways of stripping |
| `corpus_evaluation` | all corpora of up to 3 entries and 2 rules, files and directories, 8 programs: one for each way to fail, one with no token that the grammar accepts and one it refuses; the cache replaced after 2 parses, failures of the file system; names of entries are symmetric | 254 578 | the answer of the frontend depends on the program alone; no parse with a freed cache; what was copied are files with an IR, all of them on success; what is reported missing is in no file with an IR |
| `readme_configuration` | the file of the README | | finding 1 |
| `expression_branch` | as above, with the thresholds of the code | | finding 2 |
| `copied_statements` | programs of 2 statements, ids of copies | | finding 3 |

Why these bounds are enough. A `OneIR` has five slots, and ExtractOneIR can take
at most five items in a round: six children force a second round after every mix
of strings and IRs. Two IRs per vector let eviction hit the first, the last and a
child of another stored IR, at the root and inside a tree. In `Mutation` the test
cases have an IR of each kind the code tells apart: of unknown type, that may not
be mutated, without a right child, to be fixed, without a counterpart in the
library. Two replacements of the cache suffice, as the code treats all alike.
Functions that need the results of others have the lower ids, so
that a pass in the order of ids does not find them. Three statements
put a scope between a definition and its use; some of the larger forms together
exceed `kMaxNodes`, so that programs on both sides of that limit are met. Copied
ids multiply the states: of the copies, `semantic_validator` has those with at most
five ids that matter, among them a definition before and after a use in the same scope
and in another, and a function with a use in its body. The second program is the first to find a name
twice in the map of basic types, and every later one finds it in the same way; three
definitions allow a structure in a structure next to another type of its name. Six
characters are enough for two tokens of two with two blanks between them, or an end
of a statement with blanks on both sides. Three files let one that fails come
before, between and after others, and six parses replace the cache twice. Two
mutants are enough to tell an order of delivery from another and to queue one in
between.

Type correctness, the capacity of the vectors (`PoolsBounded`) and the types of the
IRs of rules (`RuleIRsTyped`) are left to the proofs where there are some.

`CHECK_DEADLOCK FALSE` is set where the code ends: a translation, a call, a
process or tool that has ended, a validation, a bound on the number of caches or of
programs. The library always goes on, and its run checks deadlock.

**Fairness.** `Termination` is checked in two runs (the translation; the passes
and the generation) under `WF_vars(Next)`: one
thread that is not suspended forever takes a next step if it has one. No choice
is assumed to be fair; in particular random numbers may be as unlucky as they
like. `Mutation` has no liveness property: its loops are bounded by `tries`,
`variants` and `irs`, which only get shorter.

## 4. Proofs

Each proof has the form: an inductive invariant, one lemma per action, and the
property as a consequence. The assumptions on the constants are the `ASSUME`s of
the modules, and TLC evaluates them in every run.

* **`IRTranslationProofs`.** For every grammar and every parse tree:
  `TranslationTypeOK`, `TokensAreHeldInOrder`, `TranslationPreservesYield`,
  `TranslationTypesRules`, `FoldMakesProgress`. The invariant says that what the
  frames, the slots and the stack hold are runs of leaves that tile all those visited
  so far (`1..cursor`) without gaps: `FrameChain` links the frames, `SlotShape` says which slots can
  be full together while `ExtractOneIR` pops from the right, `UnknownFirst` that
  an IR of unknown type is only ever the first item `ExtractOneIR` takes, which
  `FoldTakesTwo`, the reason why the fold ends, rests on. Yield alone is not inductive, as it speaks of the result
  only; `PrintedLeaves` turns the leaves tiled into what is printed, for any `stoi`.
* **`MutatorProofs`, of `IRLibrary`.** For every set of programs, types and every
  capacity: type correctness, `HashesAreOfContents`, `LibraryPoolsBounded`,
  `ChildTypesAreAvailable`, the action property `LibraryPoolsNeverShrink`, and
  `LibraryRefinesPool`, the refinement of `IRPool`. The invariant adds that trees
  in the library are extracted (`Extraction`), that only one stored IR has lost
  its children and no call is pending meanwhile (`Borrowing`), that hashes are of
  stored texts (`TextsKept`) and counted (`Counted`), and that a child whose type
  is not yet stored is among the pending calls (`ChildPending`).
* **`MutatorProofs`, of `Mutation`.** For every library, test case and hash function:
  all six properties of the run (`MutationTreesApart`, `MutationRecordHasParent`,
  `MutationFinishedTreesFixed`, `MutationProductionsKnown`,
  `MutationMutantsAreSubstitutions`, `MutationStructuresDistinct`). None is inductive:
  that a step leaves the mutants alone depends on nobody else having a pointer into
  them. `MInv` says so without naming pointers: the heap is a forest in which every
  node has one parent and a rank that gets smaller downwards (`Sound`), nothing outside
  the library points into it (`HeapOK`), and the test case, the mutants, the variants
  and the copies under way are different roots of the forest (`Apart`, `Grown`).
  Different roots have no node in common (`RootsApart`), so a lemma each for
  `deep_copy` (`OKCopy`), `replace`, `ExtractStructure` (`OKExtract`), the node
  `strategy_replace_with_constraint` starts with (`OKLeaf`) and the freeing of nodes
  (`OKAlive`) says what it does to one tree and that the other roots keep theirs
  (`Kept`). On `MInv` rest `PInv`, that each tree on its way to a mutant has known
  productions only and that a variant has the type of the IR it replaces; `SInv`, which
  follows the value of the copy from `deep_copy_with_record` to the backup; and `HInv`,
  that the hash of each mutant's structure is in `res_hash`, that no two of them are
  equal, and that what is hashed next is the structure of the backup.
* **`ExpressionGenerationProofs`.** For every sequence of calls, every finite set
  of types, every `Args` and `Ret`: `SatisfiableResult`, what
  `calc_satisfiable_functions` returns is the least fixed point. What was added so
  far is in every closed set (`NothingTooMuch`), and while a pass has erased nothing,
  no function it left behind is satisfied (`PassClean`). On it rest the theorems of
  the generator, for any scope and any depth of the recursion: `GeneratorTypeOK`,
  `GeneratorBranches`, `GeneratorArguments`, `GeneratorNullIR`, `GeneratorShift`.
  `GenInv` adds that the cache of sources was filled from that result (`Collected`),
  that a function still to be called is in it (`CallsKnown`), so that leastness gives
  each of its arguments a source; that nothing but the FIXME itself is generated
  before the first count (`OnlyRoot`); and, for the shift, that the arguments counted
  and the calls still to be made fit the budget of the calls counted
  (`WithinBudget`). `BranchesHaveSources` alone says nothing of the arguments that
  are still to come.
* **`CorpusEvaluationProofs`.** For every history of calls and every threshold:
  `FrontendForgets` (an IR exactly for the programs with a token and no error) and
  `FrontendCacheAlive`. `ListenerInv` says what the error
  listener holds at each stage of a call. Every step of the tool is a call of the
  frontend, a step of it, or none, so both hold of it as well (`ToolUsesFrontend`).
  For every corpus of files and directories and every grammar: `ToolSanitizes` and `ToolFindsMissing`. The invariant
  says of each pass what it has found of the files it has done (`CheckInv`,
  `CountInv`), and that what was copied and what is left are the files with an IR (`CopyInv`).
* **`FuzzSessionProofs`.** For every configuration file, corpus and list of mutants:
  `SessionConfigured`, `SessionKeepsPromise`, `SessionDeliversOnce`,
  `SessionBufferStable`. `ConfigurationInv` lists the fields that have a value before
  each statement of `Init`. The three of the session are inductive together with
  their types; `HandOver` is the lemma about sequences behind the delivery: a vector
  emptied from its end and the list of what was taken are one list.
* **`TypeSystemProofs`.** For every configuration and any number of programs and
  definitions: `TypesResolve`, `TypesAreTheSame`. The invariant: every id in use is
  below the counter and no two maps share one (`IdsGivenOnce`); a program starts with
  no types of its own (`TreeInv`); every id held leads to a type, members and
  signatures included, and a definition has the type its word stands for
  (`CollectedInv`).
* **`SemanticValidatorProofs`.** For programs of any size and any nesting, as parsed,
  extracted or copied: `ValidatorFixesOnce`, `ValidatorScopes` and `ValidatorCaches`
  (`FixesUseVisible`: a fix uses what is visible at its own FIXME; what the static
  caches held for another program is not used, as the scope a new generator remembers
  is -1, which no IR has). For the first, the
  fixes made are the beginning of the list of FIXMEs and the decisions the rest
  (`FixInv`). `ScopesMirrorTree` speaks only of IRs that have been visited. `ScopeInv`
  relates what is still to be visited to the scopes that are open: an IR in the list
  `work` stands before the Leaves of exactly the IRs that open a scope around it
  (`WorkOK`), the chain of scopes from `g_scope_current_` outwards is opened by the
  IRs whose Leaves are in the list, and both get smaller outwards (`Nested`), which
  is why `ExitScope` leaves the scope that its IR has opened. That no child is hidden
  by a marked IR between it and its parent is `AboveKid`. That at the end every IR has
  a scope is `Covered`: one without a scope is in `work` or below an IR in it, and a
  step replaces an IR by the kids that everything below it is below of (`BelowKid`).
  The second traversal, the collection of the definitions, has an invariant of its own
  (`CollectInv`, theorem `ValidatorCollects`), on which rest `ValidatorDefinesOnce`,
  `ValidatorMembers` and `ValidatorIsLexical`. Its parts: the list `work` is in the order
  of the text, so that scopes are numbered in the order of their openers and two IRs
  share a scope exactly when the same IRs open scopes around them (`OrderInv`); the IRs
  marked are the outermost fix units with a FIXME (`MarkInv`); the statement ids are
  those the IRs were made with (`IdInv`). `TableInv` is the heart: a definition is either
  still to come, at or below an IR in `work` (`ToCome`), or it is done. The tables hold
  for each one done what it must declare (`Sure`), nothing that no definition done may
  declare (`Maybe`; a function is declared or not by its return type), and no name
  twice. Each collector replaces the head of the list by a list that comes to the same
  definitions but for the one collected (`Replaced`); that this is so, in particular
  that what a collector does not visit holds no definition, is where the assumptions on
  the grammar are needed. `EachDefinedOnce` and `MembersAreOwn` are not inductive without
  it: neither says what has not been collected yet.
* **The refinement of `LexicalScoping`** (`ValidatorIsLexical`, in the same module).
  `ApplyFix` is a `Fix` of the abstract specification and every other step stutters.
  `ChainIff` turns the chain of scope ids into inclusion of the scopes in the text,
  `PostOrder` the comparison of statement ids, which count IRs made children first, into
  the order of the text: for an IR that does not lie below the other, an id is smaller
  exactly when the IR has ended before the other begins. With `TableInv` after the last
  definition, `MustVisible` and `VisibleMay` bound what is visible from both sides. For what is owed
  in an extracted tree, `ExtractedLast` says that its FIXMEs have ids above all others,
  and `ArgumentsAre` that the arguments the text shows are those the collector puts in
  the scope of the body. The theorem holds for every `Source`, copies included, but it
  promises less where `Owed` is smaller: of a copy and of an extracted tree only that
  what is used is in a scope around the FIXME (`NameInScope`), not that it is declared
  before it; of a copy not that anything is offered. More is false for copies, which is
  finding 3.
* **`StringTrimmingProofs`.** For every set of characters and texts of any length:
  `TrimmingReadsTheText`, `TrimmingIsCanonical`, `TrimmingKeepsTokens`,
  `TrimmingOfNames`. None of the four is inductive. The invariant says that
  `trim_string` writes behind the place where it reads (`Places`), that the flag tells
  whether the last character written is a blank, that one that is none was the last
  read, and that after the end of a statement no blank is next (`LastWritten`); and
  that what the properties say of the result holds of the characters written so far
  and the part of the text read (`Good`). `CutTrimmed` is the lemma for both ways to
  strip a name. `LinesInv` adds that an end of line that `trim_string` itself puts in
  is never the first character, as `strip_string` would not cut it there.

Some of these facts need induction: that the loop of `Mutate` yields a list
(`Kept`), that scopes made later do not change a chain (`SameChain`), that an
increasing sequence is monotone. The library's theorems for that take a predicate as a parameter, which no
installed prover can instantiate. The proofs use a set instead: the numbers for which
the claim fails have a least element, as `<` on the naturals is well-founded
(`WFMin`), and that element leads to a contradiction. That the recursive function in
`Chain` exists needs no induction, as an explicit one satisfies its equation
(`Outwards`). `InOrder` lists a
set by the rank of its elements, so that what it lists can be proved by counting
(`RankIsOnto`). In `Mutation` the recursion along the pointers of a tree is undone in
the same way: the rank of the nodes gives a function that satisfies the equation of
`Under`, `Substituted` or `IRToString` (`TextEquation`), and what holds of a node when it
holds of its children holds of all (`TreeInduction`).

Only model-checked: liveness (`Termination`; fairness and `ENABLED` are out of the
prover's reach), and the three findings, which are counterexamples.

## 5. Findings

1. `configuration.cpp:182` calls `BuiltinObjFile` optional and the sample file of
   `README.md:65-71` does not have it, but `Init` runs `assert(false)` when the key
   is missing (`readme_configuration`).
2. `generate_expression_by_type_core` weighs a branch for operators whose handler
   is commented out: `total_size` leaves `expression_size` out, but
   `choice < prob[0]` is tested first. A variable of a simple type in scope is
   enough to reach `assert(false)` (`expression_branch`). A comment in
   `tests/parse_mutate_test.cc:195` calls the test of this code flaky.
3. `tests/validation_test.cc:72` asserts that definitions have statement ids in
   the order of the text. The constructor `deep_copy` uses (`ir.cpp:88-102`) leaves
   `statement_id_` uninitialised, and what the fuzzer validates is copies
   (`mutate.cpp:145`, `polyglot.cc:77`), so what is visible at a FIXME depends on
   what memory held (`copied_statements`).

Observed while modelling: an integer literal is kept as the int that `std::stoi` reads
at its beginning (`ir_translater.cpp:128`), in decimal, so that 0x1F, 010 and 1e3 are
printed as 0, 10 and 1 (`Held`, `YieldPreserved`); one that `std::stoi` refuses
(`ir_translater.cpp:129`, in a grammar that marks integer literals) ends the fuzzer,
and `corpus_evaluate` before it has copied anything (`StoiThrows`,
`TranslateThrows`, `ToolTerminates`); `check_env` says that a configuration looks
good (`utils/check_env_bin.cpp:31`) without a look at `SyntaxOnly` and at the elements
of `BasicTypes`, on which `Init` may throw (`configuration.cpp:189`, `195`); an
`InitFileDir` that is a symbolic link passes the validation, which follows it, but
not `lstat` in `get_all_files_in_dir` (`utils.cpp:96`), and the fuzzer starts with an
empty library; the map of basic types gets an entry per basic type and program
validated and never loses one, so lookups by name slow down and the ids, which are
ints, run out in the end; with
51 calls that lead to six arguments each, `function_gen_counter_` can reach 306, and
a shift by 76 of a number of 64 bits is undefined (`ShiftIsBounded` has the bound;
up to five arguments keep it below 64); blanks within a string literal are
dropped like others; `res_hash` of `MutateIRs` starts with the 64-bit hash of the
raw test case, which no 32-bit hash of an extracted mutant is meant to meet; arguments carry the
statement id of their function, which is made after its body, so that no FIXME in
the body of a parsed function can use them (`var_definition.cpp:1523`), although
they are put in the scope of the body; the model has it as it is, `LexicalScoping` has
the arguments visible, and `Owed` is where the two differ (the program of
`tests/validation_test.cc:77` uses them there, but that test looks at the type of the
function only, so it promises nothing of them); an argument
of unknown type dereferences a null pointer in a log line even with weak typing
(`ArgumentTypeNotExist`), a variable of unknown type fails an assertion with strong
typing (`TypeNotExist`).

## 6. Plan

Done, in this order: `IRTranslation`, `IRLibrary` with `IRPool`,
`SatisfiableFunctions`, `ExpressionGeneration`, `Mutation`, `AntlrFrontend`,
`FuzzSession`, `Configuration`, the proofs of four of them, `ScopeTree`,
`SemanticValidator`; then `LexicalScoping`, `TypeSystem`, `CorpusEvaluation`,
`StringTrimming` with its proofs; then the compositions: the session with its
configuration and corpus, `corpus_evaluate` with the frontend, the generator with the
loop of `SatisfiableFunctions`.

Then proofs: the session and its configuration, the type system, the generator on
top of the passes, `corpus_evaluate` on top of the frontend, the names of
`StringTrimming`, and the scopes and FIXMEs of the validator.

After that the collection of the definitions, with `EachDefinedOnce` and
`MembersAreOwn`, and the refinement of `LexicalScoping`.

Last the heap of `Mutation`: the trees it keeps apart, then what the mutants are made
of, their values and their structures.

## 7. Not modelled

* Type inference and the old type system: commented out.
* Code that nothing calls or that has nothing to work on: the pointer types
  (`GeneratePointerType`, `update_pointer_var`), `CanDeriveFrom`,
  `GetLeastUpperCommonType`, `Scope::AddDefinition` with a scope type,
  `lucky_enough_to_be_mutated`, the builtin structures and functions.
* `ducking_hash` and random numbers: an injection, with the cut to 32 bits where the
  code cuts, and free choices.
* `antlr_tester`, which parses one file and prints; reading of files.
* ANTLR, yaml-cpp and AFL++: external, modelled only by how the code uses them. When
  AFL++ gives an entry up before it took all mutants is not in this repository; the
  assertion in `afl_custom_fuzz_count` would then fail.
