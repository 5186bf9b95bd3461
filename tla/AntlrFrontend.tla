---------------------------- MODULE AntlrFrontend ----------------------------
(***************************************************************************)
(* TranslateToIR (srcs/antlr/ir_translater.cpp) over many calls.  The      *)
(* function keeps its parser, the error listener, a counter and the cache  *)
(* of the parser's simulator in static variables.  So what a call answers  *)
(* may depend on the calls before, and every so often the cache has to be  *)
(* thrown away under the feet of the simulator that refers to it.          *)
(*                                                                         *)
(* One action per stage of a call.  The ANTLR runtime is external: the     *)
(* lexer and the parser report a syntax error to the listener and go on,   *)
(* the input stream throws IllegalArgumentException on bad UTF-8, and a    *)
(* simulator keeps a reference to the cache it was made with.  Programs    *)
(* are told apart by what happens to them.                                 *)
(***************************************************************************)
EXTENDS Naturals

CONSTANTS
  Program,      \* input programs
  BadUTF8,      \* those whose bytes are no UTF-8
  LexErrors,    \* those with characters the lexer does not know
  ParseErrors,  \* those with a syntax error
  Throwing,     \* those with a literal on which std::stoi throws
  Tokenless,    \* those without a token: empty, or only blanks and comments
  MaxParses,    \* 10000: parses after which the cache is replaced
  MaxCaches     \* bound on the number of caches made

None == "none"

ASSUME FrontendAssumption ==
  /\ BadUTF8 \cup LexErrors \cup ParseErrors \cup Throwing \cup Tokenless \subseteq Program
  /\ Tokenless \cap Throwing = {}
  /\ MaxParses \in Nat
  /\ MaxCaches \in Nat \ {0}
  /\ None \notin Program

VARIABLES
  pc,                    \* stage of the current call, "idle", or "terminated"
  input_program,         \* of the current or the last call
  answer,                \* of the last call: "ir", "nullptr", None during a call
  has_error_,            \* of s_error_lister
  init,
  s_counter,
  s_cache,               \* number of the cache alive, 0 before the first
  s_parser_interpreter,  \* number of the cache the simulator refers to
  parsed_with            \* history: whether all parses used a cache alive

vars == <<pc, input_program, answer, has_error_, init, s_counter, s_cache,
          s_parser_interpreter, parsed_with>>
statics == <<init, s_counter, s_cache, s_parser_interpreter, parsed_with>>

Init ==
  /\ pc = "idle"
  /\ input_program = None
  /\ answer = None
  /\ has_error_ = FALSE
  /\ init = FALSE
  /\ s_counter = 0
  /\ s_cache = 0
  /\ s_parser_interpreter = 0
  /\ parsed_with = "alive"

\* The first call makes the cache, the simulator and registers the listener.
TranslateToIR(p) ==
  /\ pc = "idle"
  /\ input_program' = p
  /\ answer' = None
  /\ init' = TRUE
  /\ s_cache' = IF init THEN s_cache ELSE 1
  /\ s_parser_interpreter' = IF init THEN s_parser_interpreter ELSE 1
  /\ pc' = "load"
  /\ UNCHANGED <<has_error_, s_counter, parsed_with>>

Answer(a) == answer' = a /\ pc' = "idle" /\ UNCHANGED input_program

\* ANTLRInputStream; IllegalArgumentException is caught.
LoadThrows ==
  /\ pc = "load"
  /\ input_program \in BadUTF8
  /\ Answer("nullptr")
  /\ UNCHANGED <<has_error_, statics>>

\* tokens.fill().
Lex ==
  /\ pc = "load"
  /\ input_program \notin BadUTF8
  /\ has_error_' = IF input_program \in LexErrors THEN TRUE ELSE has_error_
  /\ pc' = "parse"
  /\ UNCHANGED <<input_program, answer, statics>>

\* s_parser.program().
Parse ==
  /\ pc = "parse"
  /\ has_error_' = IF input_program \in ParseErrors THEN TRUE ELSE has_error_
  /\ parsed_with' = IF s_parser_interpreter = s_cache THEN parsed_with ELSE "freed"
  /\ pc' = "check"
  /\ UNCHANGED <<input_program, answer, init, s_counter, s_cache, s_parser_interpreter>>

\* A slip: the listener is not reset.
RejectWithoutReset ==
  /\ pc = "check"
  /\ has_error_
  /\ Answer("nullptr")
  /\ UNCHANGED <<has_error_, statics>>

Reject ==
  /\ pc = "check"
  /\ has_error_
  /\ has_error_' = FALSE
  /\ Answer("nullptr")
  /\ UNCHANGED statics

\* s_counter++ > 10000 is false.
Accept ==
  /\ pc = "check"
  /\ ~has_error_
  /\ s_counter <= MaxParses
  /\ s_counter' = s_counter + 1
  /\ pc' = "translate"
  /\ UNCHANGED <<input_program, answer, has_error_, init, s_cache, s_parser_interpreter,
                 parsed_with>>

\* A slip: the parser keeps the old simulator.
ReplaceCacheOnly ==
  /\ pc = "check"
  /\ ~has_error_
  /\ s_counter > MaxParses
  /\ s_cache < MaxCaches
  /\ s_counter' = 0
  /\ s_cache' = s_cache + 1
  /\ pc' = "translate"
  /\ UNCHANGED <<input_program, answer, has_error_, init, s_parser_interpreter, parsed_with>>

\* s_counter++ > 10000: a new cache, and a new simulator that refers to it.
ReplaceCache ==
  /\ pc = "check"
  /\ ~has_error_
  /\ s_counter > MaxParses
  /\ s_cache < MaxCaches
  /\ s_counter' = 0
  /\ s_cache' = s_cache + 1
  /\ s_parser_interpreter' = s_cache'
  /\ pc' = "translate"
  /\ UNCHANGED <<input_program, answer, has_error_, init, parsed_with>>

\* TranslateNode, see IRTranslation: nullptr for a parse tree without tokens,
\* which a grammar that accepts the empty program has.
Translate ==
  /\ pc = "translate"
  /\ input_program \notin Throwing
  /\ Answer(IF input_program \in Tokenless THEN "nullptr" ELSE "ir")
  /\ UNCHANGED <<has_error_, statics>>

\* std::out_of_range is no IllegalArgumentException: std::terminate.
TranslateThrows ==
  /\ pc = "translate"
  /\ input_program \in Throwing
  /\ pc' = "terminated"
  /\ UNCHANGED <<input_program, answer, has_error_, statics>>

Next ==
  \/ \E p \in Program : TranslateToIR(p)
  \/ LoadThrows
  \/ Lex
  \/ Parse
  \/ Reject
  \/ Accept
  \/ ReplaceCache
  \/ Translate
  \/ TranslateThrows

Spec == Init /\ [][Next]_vars

-----------------------------------------------------------------------------
TypeOK ==
  /\ pc \in {"idle", "load", "parse", "check", "translate", "terminated"}
  /\ input_program \in Program \cup {None}
  /\ answer \in {"ir", "nullptr", None}
  /\ has_error_ \in BOOLEAN
  /\ init \in BOOLEAN
  /\ s_counter \in 0..(MaxParses + 1)
  /\ s_cache \in 0..MaxCaches
  /\ s_parser_interpreter \in 0..MaxCaches
  /\ parsed_with \in {"alive", "freed"}

\* Programs that have no IR: those with an error and those without a token.
WithoutIR == BadUTF8 \cup LexErrors \cup ParseErrors \cup Tokenless

(***************************************************************************)
(* The answer depends on the program alone, not on the calls before: a     *)
(* program gets an IR iff it has no error and has a token, also right      *)
(* after one with an error, or without a token, which got none.            *)
(***************************************************************************)
AnswerDependsOnProgram ==
  /\ answer = "ir" => input_program \notin WithoutIR
  /\ answer = "nullptr" => input_program \in WithoutIR

(***************************************************************************)
(* No parse reads a cache that was thrown away.                            *)
(***************************************************************************)
ParsesWithLiveCache == parsed_with = "alive"
=============================================================================
