-------------------------- MODULE CorpusEvaluation --------------------------
(***************************************************************************)
(* The tool corpus_evaluate (srcs/utils/corpus_evaluate_bin.cpp and        *)
(* corpus_evaluate.cpp): it parses every file of a corpus twice, once to   *)
(* find those that do not parse, once to find the rules of the grammar no  *)
(* file has, and copies the others to a directory.                         *)
(*                                                                         *)
(* The directory is read three times, in any order.  Every file goes       *)
(* through the TranslateToIR of AntlrFrontend, whose static variables the  *)
(* two passes share: the tool makes the call, the frontend takes its       *)
(* steps, and the tool goes on with the answer.                            *)
(***************************************************************************)
EXTENDS AntlrFrontend, FiniteSets

CONSTANTS
  Entry,   \* names the corpus may have
  Rule     \* rules of the grammar, but for the unknown type

ASSUME EntryAssumption == None \notin Entry

VARIABLES
  corpus_dir,         \* "", "no_directory" or "directory"
  output_dir,         \* "", "absent", "not_creatable", "file", "directory" or "corpus"
  corpus,             \* [Entry present -> [regular, program, rules]]
  step,
  left,               \* entries the current loop has still to visit
  entry,              \* the one whose text TranslateToIR was called with, or None
  unparsable_files,
  type_count,
  missing_types,
  copied,             \* files of the corpus written to output_dir
  exit                \* exit status, "running", or the exception

input == <<corpus_dir, output_dir, corpus>>
results == <<unparsable_files, type_count, missing_types, copied>>
tool == <<input, step, left, entry, results, exit>>

\* What an entry may be.  An IR has at least the rule at its root.  What a
\* directory reads as, if it can be read, is the empty text.
Files ==
  {f \in [regular : BOOLEAN, program : Program, rules : SUBSET Rule] :
     /\ f.rules # {} <=> f.program \notin WithoutIR \cup Throwing
     /\ ~f.regular => f.program \in Tokenless \ (BadUTF8 \cup LexErrors)}

ToolInit ==
  /\ Init
  /\ corpus_dir \in {"", "no_directory", "directory"}
  /\ output_dir \in {"", "absent", "not_creatable", "file", "directory", "corpus"}
  /\ corpus \in UNION {[E -> Files] : E \in SUBSET Entry}
  /\ step = "start"
  /\ left = {}
  /\ entry = None
  /\ unparsable_files = {}
  /\ type_count = [r \in Rule |-> 0]
  /\ missing_types = {}
  /\ copied = {}
  /\ exit = "running"

Exit(status) == exit' = status /\ step' = "end"
Listing == DOMAIN corpus

\* The flags are checked, and CheckUnParsableFiles begins.
Start ==
  /\ step = "start"
  /\ IF corpus_dir # "directory" THEN Exit("1") /\ UNCHANGED left
     ELSE step' = "check" /\ left' = Listing /\ UNCHANGED exit
  /\ UNCHANGED <<vars, input, entry, results>>

\* ReadFileIntoString of a directory: an ifstream opens it, and its buffer
\* throws at the first read (libstdc++) or finds it empty (libc++), which is
\* TranslateEntry.
ReadThrows(e) ==
  /\ step \in {"check", "count"}
  /\ entry = None
  /\ e \in left
  /\ ~corpus[e].regular
  /\ Exit("ios_failure")
  /\ UNCHANGED <<vars, input, left, entry, results>>

\* Both passes: the text of an entry is read and translated.
TranslateEntry(e) ==
  /\ step \in {"check", "count"}
  /\ entry = None
  /\ e \in left
  /\ TranslateToIR(corpus[e].program)
  /\ entry' = e
  /\ left' = left \ {e}
  /\ UNCHANGED <<input, step, results, exit>>

\* The stages of the call.
Frontend ==
  /\ LoadThrows \/ Lex \/ Parse \/ Reject \/ Accept \/ ReplaceCache \/ Translate
       \/ TranslateThrows
  /\ UNCHANGED tool

\* An exception of TranslateToIR reaches main, in either pass.
ToolTerminates ==
  /\ exit = "running"
  /\ pc = "terminated"
  /\ Exit("out_of_range")
  /\ UNCHANGED <<vars, input, left, entry, results>>

Translated == entry # None /\ answer # None

CheckUnParsableFile ==
  /\ step = "check"
  /\ Translated
  /\ entry' = None
  /\ unparsable_files' =
       IF answer = "nullptr" THEN unparsable_files \cup {entry} ELSE unparsable_files
  /\ UNCHANGED <<vars, input, step, left, type_count, missing_types, copied, exit>>

\* CheckMissingTypesInCorpus: the directory is read again.
StartCount ==
  /\ step = "check"
  /\ left = {} /\ entry = None
  /\ step' = "count"
  /\ left' = Listing
  /\ type_count' = [r \in Rule |-> 0]
  /\ UNCHANGED <<vars, input, entry, unparsable_files, missing_types, copied, exit>>

\* A slip: the counts are those of the last file.
CountOfFile(e) == [r \in Rule |-> IF r \in corpus[e].rules THEN 1 ELSE 0]

\* A rule may occur many times in a file; only zero or not is told.
WithCounts(e) == [r \in Rule |-> type_count[r] + IF r \in corpus[e].rules THEN 1 ELSE 0]

CountTypes ==
  /\ step = "count"
  /\ Translated
  /\ entry' = None
  /\ type_count' = IF answer = "nullptr" THEN type_count ELSE WithCounts(entry)
  /\ UNCHANGED <<vars, input, step, left, unparsable_files, missing_types, copied, exit>>

CheckMissingTypes ==
  /\ step = "count"
  /\ left = {} /\ entry = None
  /\ missing_types' = {r \in Rule : type_count[r] = 0}
  /\ step' = IF output_dir = "" THEN "report" ELSE "output"
  /\ UNCHANGED <<vars, input, left, entry, unparsable_files, type_count, copied, exit>>

\* A slip: the files that do not parse stay in the list.
FilesToCopyAll == Listing

FilesToCopy == Listing \ unparsable_files

\* create_directory throws, unless the directory is made or is there.
PrepareOutput ==
  /\ step = "output"
  /\ CASE output_dir = "not_creatable" -> Exit("filesystem_error") /\ UNCHANGED left
       [] output_dir = "file" -> Exit("-1") /\ UNCHANGED left
       [] OTHER -> step' = "copy" /\ left' = FilesToCopy /\ UNCHANGED exit
  /\ UNCHANGED <<vars, input, entry, results>>

CopyFile(e) ==
  /\ step = "copy"
  /\ e \in left
  /\ output_dir # "corpus"
  /\ copied' = copied \cup {e}
  /\ left' = left \ {e}
  /\ UNCHANGED <<vars, input, step, entry, unparsable_files, type_count, missing_types, exit>>

\* copy_file throws: the file would be copied to itself, or the write fails.
CopyThrows(e) ==
  /\ step = "copy"
  /\ e \in left
  /\ Exit("filesystem_error")
  /\ UNCHANGED <<vars, input, left, entry, results>>

Report ==
  /\ step = "report" \/ (step = "copy" /\ left = {})
  /\ Exit("0")
  /\ UNCHANGED <<vars, input, left, entry, results>>

ToolNext ==
  \/ Start
  \/ \E e \in Entry : ReadThrows(e)
  \/ \E e \in Entry : TranslateEntry(e)
  \/ Frontend
  \/ ToolTerminates
  \/ CheckUnParsableFile
  \/ StartCount
  \/ CountTypes
  \/ CheckMissingTypes
  \/ PrepareOutput
  \/ \E e \in Entry : CopyFile(e)
  \/ \E e \in Entry : CopyThrows(e)
  \/ Report

ToolSpec == ToolInit /\ [][ToolNext]_<<vars, tool>>

-----------------------------------------------------------------------------
\* The files with an IR.
ParsableFiles == {e \in DOMAIN corpus : corpus[e].program \notin WithoutIR}

(***************************************************************************)
(* A tool that reports success has copied every file that has an IR and    *)
(* none of the others, neither one that does not parse nor one without a   *)
(* token nor a directory, although it reads the directory once to find     *)
(* those and again to find all; and what it has copied when it fails has   *)
(* an IR too.                                                              *)
(***************************************************************************)
OutputIsSanitized ==
  /\ copied \subseteq {e \in ParsableFiles : corpus[e].regular}
  /\ exit = "0" /\ output_dir # "" => copied = ParsableFiles

(***************************************************************************)
(* The rules reported missing are those that no file of the corpus that    *)
(* has an IR has (README.md:62: "to see what rules your corpus is not      *)
(* covering").                                                             *)
(***************************************************************************)
MissingTypesAreUncovered ==
  exit = "0" => missing_types = Rule \ UNION {corpus[e].rules : e \in ParsableFiles}
=============================================================================
