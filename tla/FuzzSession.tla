----------------------------- MODULE FuzzSession -----------------------------
(***************************************************************************)
(* A fuzzing session: AFL++ calls the functions of srcs/custom_mutator.cc, *)
(* which call PolyGlotMutator (srcs/polyglot.cc).  It begins with the      *)
(* Configuration and, if that can be read, the corpus.                     *)
(*                                                                         *)
(* For an entry of its queue AFL asks how many mutants there are           *)
(* (afl_custom_fuzz_count) and then takes that many, one call of           *)
(* afl_custom_fuzz each.  The buffer it gets is PolyGlotMutator's          *)
(* current_input_ itself.  AFL runs the target on it, and if that shows    *)
(* something new writes the buffer to a file, queues it and tells the      *)
(* mutator (afl_custom_queue_new_entry), in between two mutants.  Entries  *)
(* also come from other fuzzers, in between two stages.                    *)
(*                                                                         *)
(* AFL++ is external; its calls are the ones the functions are written     *)
(* for.  The frontend answers by the program alone (see AntlrFrontend);    *)
(* MutateIRs returns any list of trees (see Mutation).  A text stands for  *)
(* a program and for its tree.                                             *)
(***************************************************************************)
EXTENDS Configuration, Naturals, Sequences, SequencesExt

CONSTANTS
  Text,        \* test cases
  Parsable,    \* those TranslateToIR returns an IR for
  Large,       \* those with more than 1500 IRs
  CStr,        \* CStr[t]: t up to its first NUL byte
  Fixed,       \* Fixed[t]: what Validate makes of t
  InitFiles,   \* contents of the files in InitFileDir
  MaxMutants   \* bound on the mutants of one test case

ASSUME SessionAssumption ==
  /\ Parsable \cup Large \cup InitFiles \subseteq Text
  /\ CStr \in [Text -> Text]
  /\ Fixed \in [Text -> Text]
  /\ MaxMutants \in Nat

NoText == "no text"

VARIABLES
  mutator,            \* "none", "alive", "deleted"
  ir_library_,        \* the test cases whose IRs were added to the library
  save_test_cases_,
  current_input_,
  queue,              \* AFL: entries
  stage_left,         \* AFL: mutants still to take
  running,            \* AFL: the target runs on the buffer
  promised,           \* history: mutants kept in this stage
  delivered           \* history: mutants taken in this stage

afl == <<queue, stage_left, running>>
history == <<promised, delivered>>
session == <<mutator, ir_library_, save_test_cases_, current_input_, afl, history>>
vars == <<configuration, session>>

SyntaxOnly == file.SyntaxOnly = "true"

Init ==
  /\ InitConfiguration
  /\ mutator = "none"
  /\ ir_library_ = {}
  /\ save_test_cases_ = <<>>
  /\ current_input_ = NoText
  /\ queue \in {{t} : t \in Text}
  /\ stage_left = 0
  /\ running = FALSE
  /\ promised = <<>>
  /\ delivered = <<>>

\* CreateInstance begins with the configuration.
InitializeConfiguration == ConfigurationNext /\ UNCHANGED session

\* get_all_files_in_dir, which lists neither what a link leads to nor a file.
file_list == IF file.InitFileDir = "directory" THEN InitFiles ELSE {}

\* CreateInstance goes on with Initialize: every file that parses goes to the
\* library.
afl_custom_init ==
  /\ pc = "true"
  /\ mutator = "none"
  /\ mutator' = "alive"
  /\ ir_library_' = file_list \cap Parsable
  /\ UNCHANGED <<configuration, save_test_cases_, current_input_, afl, history>>

Idle == mutator = "alive" /\ stage_left = 0 /\ ~running

\* Mutate: the mutants that are saved, and in which form.
Keeps(t) == SyntaxOnly => t \notin Large /\ t \in Parsable
Saved(t) == IF SyntaxOnly THEN t ELSE Fixed[t]
Kept(mutants) ==
  LET kept[n \in 0..Len(mutants)] ==
        IF n = 0 THEN <<>>
        ELSE IF Keeps(mutants[n]) THEN Append(kept[n - 1], Saved(mutants[n]))
        ELSE kept[n - 1]
  IN kept[Len(mutants)]

\* Mutate returns 0 for a test case that does not parse or is too large.
FuzzCountNothing(buf) ==
  /\ Idle
  /\ buf \in queue
  /\ CStr[buf] \notin Parsable \/ CStr[buf] \in Large
  /\ stage_left' = 0
  /\ promised' = <<>>
  /\ delivered' = <<>>
  /\ UNCHANGED <<configuration, mutator, ir_library_, save_test_cases_, current_input_, queue,
                 running>>

\* A slip: the number of mutants is returned, not of those saved.
FuzzCountOfAll(buf, mutants) ==
  /\ Idle
  /\ buf \in queue
  /\ CStr[buf] \in Parsable \ Large
  /\ save_test_cases_' = save_test_cases_ \o Kept(mutants)
  /\ stage_left' = Len(mutants)
  /\ promised' = Kept(mutants)
  /\ delivered' = <<>>
  /\ UNCHANGED <<configuration, mutator, ir_library_, current_input_, queue, running>>

\* Mutate appends to save_test_cases_ and returns its size.
FuzzCount(buf, mutants) ==
  /\ Idle
  /\ buf \in queue
  /\ CStr[buf] \in Parsable \ Large
  /\ save_test_cases_' = save_test_cases_ \o Kept(mutants)
  /\ stage_left' = Len(save_test_cases_')
  /\ promised' = Kept(mutants)
  /\ delivered' = <<>>
  /\ UNCHANGED <<configuration, mutator, ir_library_, current_input_, queue, running>>

\* A slip: the mutant that is handed out stays, the others are dropped.
afl_custom_fuzz_front ==
  /\ mutator = "alive"
  /\ stage_left > 0
  /\ ~running
  /\ save_test_cases_ # <<>>
  /\ current_input_' = Last(save_test_cases_)
  /\ save_test_cases_' = Tail(save_test_cases_)
  /\ stage_left' = stage_left - 1
  /\ running' = TRUE
  /\ delivered' = Append(delivered, Last(save_test_cases_))
  /\ UNCHANGED <<configuration, mutator, ir_library_, queue, promised>>

\* GetNextMutatedTestCase: the last one is moved to current_input_.
afl_custom_fuzz ==
  /\ mutator = "alive"
  /\ stage_left > 0
  /\ ~running
  /\ save_test_cases_ # <<>>
  /\ current_input_' = Last(save_test_cases_)
  /\ save_test_cases_' = Front(save_test_cases_)
  /\ stage_left' = stage_left - 1
  /\ running' = TRUE
  /\ delivered' = Append(delivered, Last(save_test_cases_))
  /\ UNCHANGED <<configuration, mutator, ir_library_, queue, promised>>

\* A slip: the file is read into current_input_.
AddToIRLibraryInPlace(content) ==
  /\ ir_library_' = ir_library_ \cup ({CStr[content]} \cap Parsable)
  /\ current_input_' = CStr[content]

\* afl_custom_queue_new_entry and AddToIRLibrary.
AddToIRLibrary(content) ==
  /\ ir_library_' = ir_library_ \cup ({CStr[content]} \cap Parsable)
  /\ UNCHANGED current_input_

\* The run showed something new: the buffer becomes an entry.
NewEntry ==
  /\ running
  /\ current_input_ \notin queue
  /\ queue' = queue \cup {current_input_}
  /\ AddToIRLibrary(current_input_)
  /\ UNCHANGED <<configuration, mutator, save_test_cases_, stage_left, running, history>>

EndOfRun ==
  /\ running
  /\ running' = FALSE
  /\ UNCHANGED <<configuration, mutator, ir_library_, save_test_cases_, current_input_, queue,
                 stage_left, history>>

\* An entry of another fuzzer.
ImportEntry(t) ==
  /\ Idle
  /\ t \notin queue
  /\ queue' = queue \cup {t}
  /\ AddToIRLibrary(t)
  /\ UNCHANGED <<configuration, mutator, save_test_cases_, stage_left, running, history>>

afl_custom_deinit ==
  /\ Idle
  /\ mutator' = "deleted"
  /\ UNCHANGED <<configuration, ir_library_, save_test_cases_, current_input_, afl, history>>

MutantLists == UNION {[1..n -> Text] : n \in 0..MaxMutants}

Next ==
  \/ InitializeConfiguration
  \/ afl_custom_init
  \/ \E buf \in Text : FuzzCountNothing(buf)
  \/ \E buf \in Text, mutants \in MutantLists : FuzzCount(buf, mutants)
  \/ afl_custom_fuzz
  \/ NewEntry
  \/ EndOfRun
  \/ \E t \in Text : ImportEntry(t)
  \/ afl_custom_deinit

Spec == Init /\ [][Next]_vars

-----------------------------------------------------------------------------
(***************************************************************************)
(* Between two calls the number AFL was promised and has not taken is the  *)
(* number of test cases saved.  So neither assertion can fail: not the one *)
(* of GetNextMutatedTestCase that there is a test case, and not the one of *)
(* afl_custom_fuzz_count that none is left over.                           *)
(***************************************************************************)
PromiseIsKept == stage_left = Len(save_test_cases_)

(***************************************************************************)
(* Of the mutants kept for a stage AFL gets each exactly once, the last    *)
(* first; none is lost, doubled, or left over from another stage.          *)
(***************************************************************************)
EachMutantOnce == promised = save_test_cases_ \o Reverse(delivered)

(***************************************************************************)
(* As long as the target runs, the buffer holds the mutant it was started  *)
(* with, although the mutator is called meanwhile: what AFL queues is what *)
(* showed something new.                                                   *)
(***************************************************************************)
BufferIsStable == running => current_input_ = Last(delivered)
=============================================================================
