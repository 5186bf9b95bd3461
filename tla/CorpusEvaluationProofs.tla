----------------------- MODULE CorpusEvaluationProofs -----------------------
(***************************************************************************)
(* Proofs about AntlrFrontend and about CorpusEvaluation, which calls it:  *)
(* for every set of programs, every number of parses between two caches,   *)
(* every corpus and every grammar.                                         *)
(***************************************************************************)
EXTENDS CorpusEvaluation, TLAPS

(***************************************************************************)
(* A parse never starts with an error left over, and the errors of one are *)
(* those of its own program.                                               *)
(***************************************************************************)
ListenerInv ==
  /\ pc \in {"idle", "load", "translate", "terminated"} => ~has_error_
  /\ pc = "parse" => (has_error_ <=> input_program \in LexErrors)
  /\ pc = "check" => (has_error_ <=> input_program \in LexErrors \cup ParseErrors)
  /\ pc \notin {"idle", "load"} => input_program \notin BadUTF8
  /\ pc = "translate" => input_program \notin LexErrors \cup ParseErrors
  /\ pc # "idle" => answer = None /\ init
  /\ s_parser_interpreter = s_cache

IInv ==
  /\ TypeOK
  /\ ListenerInv
  /\ AnswerDependsOnProgram
  /\ ParsesWithLiveCache

\* A freshly started process is in order.
LEMMA InitIInv == Init => IInv
<1> SUFFICES ASSUME Init PROVE IInv
  OBVIOUS
<1>1. TypeOK
  <2>1. has_error_ \in BOOLEAN /\ init \in BOOLEAN
    BY Zenon DEF Init
  <2>2. s_counter \in 0..(MaxParses + 1) /\ s_cache \in 0..MaxCaches
        /\ s_parser_interpreter \in 0..MaxCaches
    BY FrontendAssumption DEF FrontendAssumption, Init
  <2> QED
    BY <2>1, <2>2, Zenon DEF Init, TypeOK, None
<1>2. ListenerInv /\ AnswerDependsOnProgram /\ ParsesWithLiveCache
  BY Zenon DEF Init, ListenerInv, AnswerDependsOnProgram, ParsesWithLiveCache, None
<1> QED
  BY <1>1, <1>2 DEF IInv

\* Every stage of a call of TranslateToIR keeps the statics in order.
LEMMA NextIInv == IInv /\ [Next]_vars => IInv'
<1> SUFFICES ASSUME IInv, [Next]_vars PROVE IInv'
  OBVIOUS
<1> USE FrontendAssumption
<1> USE DEF FrontendAssumption, IInv, TypeOK, ListenerInv, AnswerDependsOnProgram, WithoutIR,
           ParsesWithLiveCache
<1>1. ASSUME NEW p \in Program, TranslateToIR(p) PROVE IInv'
  BY <1>1 DEF TranslateToIR, None
<1>2. CASE LoadThrows
  BY <1>2 DEF LoadThrows, Answer, statics, None
<1>3. CASE Lex
  BY <1>3 DEF Lex, statics, None
<1>4. CASE Parse
  <2>1. TypeOK'
    BY <1>4 DEF Parse, None
  <2>2. (ListenerInv /\ AnswerDependsOnProgram /\ ParsesWithLiveCache)'
    BY <1>4, Zenon DEF Parse, None
  <2> QED
    BY <2>1, <2>2
<1>5. CASE Reject
  BY <1>5 DEF Reject, Answer, statics, None
<1>6. CASE Accept
  <2>1. TypeOK'
    BY <1>6 DEF Accept, None
  <2>2. (ListenerInv /\ AnswerDependsOnProgram /\ ParsesWithLiveCache)'
    BY <1>6, Zenon DEF Accept, None
  <2> QED
    BY <2>1, <2>2
<1>7. CASE ReplaceCache
  <2>1. TypeOK'
    BY <1>7 DEF ReplaceCache, None
  <2>2. (ListenerInv /\ AnswerDependsOnProgram /\ ParsesWithLiveCache)'
    BY <1>7, Zenon DEF ReplaceCache, None
  <2> QED
    BY <2>1, <2>2
<1>8. CASE Translate
  BY <1>8 DEF Translate, Answer, statics, None
<1>9. CASE TranslateThrows
  BY <1>9 DEF TranslateThrows, statics, None
<1>10. CASE UNCHANGED vars
  BY <1>10 DEF vars
<1> QED
  BY <1>1, <1>2, <1>3, <1>4, <1>5, <1>6, <1>7, <1>8, <1>9, <1>10 DEF Next

(***************************************************************************)
(* The invariant of the static variables of TranslateToIR.                 *)
(***************************************************************************)
THEOREM FrontendInvariant == Spec => []IInv
BY InitIInv, NextIInv, PTL DEF Spec

(***************************************************************************)
(* The static variables of TranslateToIR keep their types; the counter of  *)
(* parses stays within its limit.                                          *)
(***************************************************************************)
THEOREM FrontendTypeOK == Spec => []TypeOK
<1>1. IInv => TypeOK
  BY DEF IInv
<1> QED
  BY <1>1, FrontendInvariant, PTL

(***************************************************************************)
(* The error listener never carries an error from one call of              *)
(* TranslateToIR into the next: the answer is that of the program, an IR   *)
(* iff it has no error and has a token.                                    *)
(***************************************************************************)
THEOREM FrontendForgets == Spec => []AnswerDependsOnProgram
<1>1. IInv => AnswerDependsOnProgram
  BY DEF IInv
<1> QED
  BY <1>1, FrontendInvariant, PTL

(***************************************************************************)
(* The simulator of TranslateToIR never parses with a cache that the swap  *)
(* of caches has freed.                                                    *)
(***************************************************************************)
THEOREM FrontendCacheAlive == Spec => []ParsesWithLiveCache
<1>1. IInv => ParsesWithLiveCache
  BY DEF IInv
<1> QED
  BY <1>1, FrontendInvariant, PTL

-----------------------------------------------------------------------------
toolvars == <<vars, tool>>

Bad == {e \in DOMAIN corpus : corpus[e].program \in WithoutIR}

\* The entries the current loop is done with.
Done == DOMAIN corpus \ (left \cup {entry})

(***************************************************************************)
(* The state of the tool; the frontend works for the entry in hand.        *)
(***************************************************************************)
ToolTypeOK ==
  /\ DOMAIN corpus \subseteq Entry
  /\ corpus \in [DOMAIN corpus -> Files]
  /\ step \in {"start", "check", "count", "output", "report", "copy", "end"}
  /\ exit # "running" <=> step = "end"
  /\ left \subseteq DOMAIN corpus
  /\ type_count \in [Rule -> Nat]
  /\ entry # None => /\ entry \in DOMAIN corpus
                     /\ entry \notin left
                     /\ step \in {"check", "count", "end"}
                     /\ input_program = corpus[entry].program

(***************************************************************************)
(* What the loops have found: the first pass the files that do not parse,  *)
(* of those it is done with; the second the rules; both results stand when *)
(* the files are copied, and are still there when the tool succeeds.       *)
(***************************************************************************)
Covered(files) == UNION {corpus[e].rules : e \in files}
CheckInv ==
  /\ step = "start" => unparsable_files = {}
  /\ step = "check" => unparsable_files = Bad \cap Done
  /\ step \in {"count", "output", "report", "copy"} \/ exit = "0" => unparsable_files = Bad
CountInv ==
  /\ step = "count" => \A r \in Rule : type_count[r] = 0 <=> r \notin Covered(Done)
  /\ step \in {"output", "report", "copy"} \/ exit = "0" =>
       missing_types = Rule \ Covered(DOMAIN corpus)
CopyInv ==
  /\ step \in {"start", "check", "count", "output", "report"} => copied = {}
  /\ step = "report" => output_dir = ""
  /\ step = "copy" => copied \cup left = DOMAIN corpus \ Bad
  /\ OutputIsSanitized

ToolInv == IInv /\ ToolTypeOK /\ CheckInv /\ CountInv /\ CopyInv

\* An entry has rules only if it has an IR, and only a file has an IR.
LEMMA FileFacts ==
  ASSUME ToolTypeOK, NEW e \in DOMAIN corpus
  PROVE  /\ corpus[e].program \in Program
         /\ corpus[e].rules \subseteq Rule
         /\ corpus[e].rules # {} => corpus[e].program \notin WithoutIR
         /\ corpus[e].program \notin WithoutIR => corpus[e].regular
<1>1. corpus[e] \in Files
  BY DEF ToolTypeOK
<1> QED
  BY <1>1 DEF Files, WithoutIR

\* A step of the tool is a call of the frontend, a step of it, or none.
LEMMA ToolStepsFrontend == ToolTypeOK /\ [ToolNext]_toolvars => [Next]_vars
<1> SUFFICES ASSUME ToolTypeOK, [ToolNext]_toolvars PROVE [Next]_vars
  OBVIOUS
<1>1. ASSUME NEW e \in Entry, TranslateEntry(e) PROVE Next
  <2>1. e \in DOMAIN corpus /\ TranslateToIR(corpus[e].program)
    BY <1>1 DEF TranslateEntry, ToolTypeOK
  <2> QED
    BY <2>1, FileFacts DEF Next
<1>2. CASE Frontend
  BY <1>2 DEF Frontend, Next
<1>3. ASSUME NEW e \in Entry, ReadThrows(e) \/ CopyFile(e) \/ CopyThrows(e)
      PROVE UNCHANGED vars
  BY <1>3 DEF ReadThrows, CopyFile, CopyThrows
<1>4. CASE \/ Start \/ ToolTerminates \/ CheckUnParsableFile \/ StartCount \/ CountTypes
           \/ CheckMissingTypes \/ PrepareOutput \/ Report
  BY <1>4, Zenon DEF Start, ToolTerminates, CheckUnParsableFile, StartCount, CountTypes,
                     CheckMissingTypes, PrepareOutput, Report
<1>5. CASE UNCHANGED toolvars
  BY <1>5 DEF toolvars
<1> QED
  BY <1>1, <1>2, <1>3, <1>4, <1>5, Zenon DEF ToolNext

\* The tool starts with nothing found.
LEMMA ToolInitInv == ToolInit => ToolInv
<1> SUFFICES ASSUME ToolInit PROVE ToolInv
  OBVIOUS
<1>1. IInv
  BY InitIInv DEF ToolInit
<1>2. PICK E \in SUBSET Entry : corpus \in [E -> Files]
  BY DEF ToolInit
<1>3. DOMAIN corpus = E
  BY <1>2
<1>4. ToolTypeOK
  BY <1>2, <1>3 DEF ToolInit, ToolTypeOK
<1>5. CheckInv /\ CountInv /\ CopyInv
  BY DEF ToolInit, CheckInv, CountInv, CopyInv, OutputIsSanitized
<1> QED
  BY <1>1, <1>4, <1>5 DEF ToolInv

\* While the frontend works, the tool waits.
LEMMA ToolWaits ==
  ASSUME ToolInv, UNCHANGED <<tool, input_program>>
  PROVE  (ToolTypeOK /\ CheckInv /\ CountInv /\ CopyInv)'
<1>1. ToolTypeOK'
  BY DEF ToolInv, ToolTypeOK, tool, input, results
<1>2. Bad' = Bad /\ Done' = Done /\ ParsableFiles' = ParsableFiles
      /\ Covered(Done)' = Covered(Done) /\ Covered(DOMAIN corpus)' = Covered(DOMAIN corpus)
  BY DEF Bad, Done, ParsableFiles, Covered, tool, input
<1>3. CheckInv' /\ CountInv'
  BY <1>2 DEF ToolInv, CheckInv, CountInv, tool, input, results
<1>4. CopyInv'
  BY <1>2 DEF ToolInv, CopyInv, OutputIsSanitized, tool, input, results
<1> QED
  BY <1>1, <1>3, <1>4

\* A step within a call.
LEMMA FrontendStep ==
  ASSUME ToolInv, Frontend
  PROVE  (ToolTypeOK /\ CheckInv /\ CountInv /\ CopyInv)'
<1>1. UNCHANGED input_program
  BY Zenon DEF Frontend, LoadThrows, Lex, Parse, Reject, Accept, ReplaceCache, Translate,
               TranslateThrows, Answer
<1>2. UNCHANGED <<tool, input_program>>
  BY <1>1 DEF Frontend
<1> QED
  BY <1>2, ToolWaits

\* The tool ends without success: what it has copied stays.
LEMMA FailureStep ==
  ASSUME ToolInv, NEW status, status \notin {"0", "running"}, Exit(status),
         UNCHANGED <<vars, input, left, entry, results>>
  PROVE  (ToolTypeOK /\ CheckInv /\ CountInv /\ CopyInv)'
<1>1. ToolTypeOK'
  BY DEF ToolInv, ToolTypeOK, Exit, input, results, vars
<1>2. ParsableFiles' = ParsableFiles
  BY DEF ParsableFiles, input
<1>3. CheckInv' /\ CountInv' /\ CopyInv'
  BY <1>2 DEF ToolInv, CheckInv, CountInv, CopyInv, OutputIsSanitized, Exit, input, results
<1> QED
  BY <1>1, <1>3

\* Of the entry in hand, the answer tells whether it parses.
LEMMA AnswerTells ==
  ASSUME ToolInv, Translated
  PROVE  /\ entry \in DOMAIN corpus
         /\ answer = "nullptr" <=> entry \in Bad
<1>1. entry \in DOMAIN corpus /\ input_program = corpus[entry].program
  BY DEF ToolInv, ToolTypeOK, Translated
<1>2. answer \in {"ir", "nullptr"}
  BY DEF ToolInv, IInv, TypeOK, Translated
<1> QED
  BY <1>1, <1>2 DEF ToolInv, IInv, AnswerDependsOnProgram, Bad

\* The name of no file is the mark for none.
LEMMA NoneIsNoFile == ToolTypeOK => None \notin DOMAIN corpus
BY EntryAssumption DEF EntryAssumption, ToolTypeOK

\* Every step of the tool keeps its results in order.
LEMMA ToolNextInv == ToolInv /\ [ToolNext]_toolvars => ToolInv'
<1> SUFFICES ASSUME ToolInv, [ToolNext]_toolvars PROVE ToolInv'
  OBVIOUS
<1> DEFINE Goal == ToolTypeOK /\ CheckInv /\ CountInv /\ CopyInv
<1>0. IInv' /\ ToolTypeOK /\ None \notin DOMAIN corpus
  BY ToolStepsFrontend, NextIInv, NoneIsNoFile DEF ToolInv
<1> SUFFICES Goal'
  BY <1>0 DEF ToolInv
<1>1. CASE Start
  <2>1. CASE corpus_dir # "directory"
    <3>1. Exit("1") /\ UNCHANGED <<vars, input, left, entry, results>>
      BY <1>1, <2>1 DEF Start
    <3> QED
      BY <3>1, FailureStep
  <2>2. CASE corpus_dir = "directory"
    <3>1. /\ step = "start" /\ step' = "check" /\ left' = DOMAIN corpus
          /\ UNCHANGED <<vars, input, entry, results, exit>>
      BY <1>1, <2>2 DEF Start, Listing
    <3>2. entry = None /\ corpus' = corpus /\ Done' = {} /\ Bad' = Bad
      BY <3>1 DEF ToolInv, ToolTypeOK, Done, Bad, input
    <3>3. ToolTypeOK'
      BY <3>1, <3>2, <1>0 DEF ToolTypeOK, input, results
    <3>4. CheckInv' /\ CountInv'
      BY <3>1, <3>2 DEF ToolInv, ToolTypeOK, CheckInv, CountInv, results
    <3>5. CopyInv'
      BY <3>1, <3>2 DEF ToolInv, ToolTypeOK, CopyInv, OutputIsSanitized, ParsableFiles, results, input
    <3> QED
      BY <3>3, <3>4, <3>5
  <2> QED
    BY <2>1, <2>2
<1>2. ASSUME NEW e \in Entry, TranslateEntry(e) PROVE Goal'
  <2>1. /\ step \in {"check", "count"} /\ entry = None /\ e \in left /\ e \in DOMAIN corpus
        /\ input_program' = corpus[e].program
        /\ entry' = e /\ left' = left \ {e} /\ UNCHANGED <<input, step, results, exit>>
    BY <1>2 DEF TranslateEntry, TranslateToIR, ToolInv, ToolTypeOK
  <2>2. corpus' = corpus /\ Done' = Done /\ Bad' = Bad /\ Covered(Done)' = Covered(Done)
    BY <2>1, <1>0 DEF Done, Bad, Covered, input
  <2>3. ToolTypeOK'
    BY <2>1, <2>2, <1>0 DEF ToolTypeOK, input, results, None
  <2>4. CheckInv' /\ CountInv'
    BY <2>1, <2>2 DEF ToolInv, ToolTypeOK, CheckInv, CountInv, results, Covered
  <2>5. CopyInv'
    BY <2>1, <2>2 DEF ToolInv, ToolTypeOK, CopyInv, OutputIsSanitized, ParsableFiles, results, input
  <2> QED
    BY <2>3, <2>4, <2>5
<1>r. ASSUME NEW e \in Entry, ReadThrows(e) PROVE Goal'
  <2>1. Exit("ios_failure") /\ UNCHANGED <<vars, input, left, entry, results>>
    BY <1>r DEF ReadThrows
  <2> QED
    BY <2>1, FailureStep
<1>3. CASE Frontend
  BY <1>3, FrontendStep
<1>4. CASE ToolTerminates
  <2>1. Exit("out_of_range") /\ UNCHANGED <<vars, input, left, entry, results>>
    BY <1>4 DEF ToolTerminates
  <2> QED
    BY <2>1, FailureStep
<1>5. CASE CheckUnParsableFile
  <2>1. /\ step = "check" /\ Translated /\ entry' = None
        /\ unparsable_files' = IF entry \in Bad THEN unparsable_files \cup {entry} ELSE unparsable_files
        /\ UNCHANGED <<vars, input, step, left, type_count, missing_types, copied, exit>>
    BY <1>5, AnswerTells DEF CheckUnParsableFile
  <2>2. entry \in DOMAIN corpus /\ entry \notin left
    BY <2>1 DEF ToolInv, ToolTypeOK, Translated
  <2>3. corpus' = corpus /\ Done' = Done \cup {entry} /\ Bad' = Bad
    BY <2>1, <2>2, <1>0 DEF Done, Bad, input
  <2>4. ToolTypeOK'
    BY <2>1, <2>3, <1>0 DEF ToolTypeOK, input, vars
  <2>5. CheckInv'
    BY <2>1, <2>3 DEF ToolInv, ToolTypeOK, CheckInv
  <2>6. CountInv'
    BY <2>1 DEF ToolInv, ToolTypeOK, CountInv
  <2>7. CopyInv'
    BY <2>1, <2>3 DEF ToolInv, ToolTypeOK, CopyInv, OutputIsSanitized, ParsableFiles, input
  <2> QED
    BY <2>4, <2>5, <2>6, <2>7
<1>6. CASE StartCount
  <2>1. /\ step = "check" /\ left = {} /\ entry = None /\ step' = "count" /\ left' = DOMAIN corpus
        /\ type_count' = [r \in Rule |-> 0]
        /\ UNCHANGED <<vars, input, entry, unparsable_files, missing_types, copied, exit>>
    BY <1>6 DEF StartCount, Listing
  <2>2. corpus' = corpus /\ Done = DOMAIN corpus /\ Done' = {} /\ Bad' = Bad /\ Bad \subseteq DOMAIN corpus
    BY <2>1, <1>0 DEF Done, Bad, input
  <2>3. ToolTypeOK'
    BY <2>1, <2>2, <1>0 DEF ToolTypeOK, input, vars
  <2>4. CheckInv'
    BY <2>1, <2>2 DEF ToolInv, ToolTypeOK, CheckInv
  <2>5. CountInv'
    BY <2>1, <2>2 DEF ToolInv, ToolTypeOK, CountInv, Covered
  <2>6. CopyInv'
    BY <2>1, <2>2 DEF ToolInv, ToolTypeOK, CopyInv, OutputIsSanitized, ParsableFiles, input
  <2> QED
    BY <2>3, <2>4, <2>5, <2>6
<1>7. CASE CountTypes
  <2>1. /\ step = "count" /\ Translated /\ entry' = None
        /\ type_count' = IF entry \in Bad THEN type_count ELSE WithCounts(entry)
        /\ UNCHANGED <<vars, input, step, left, unparsable_files, missing_types, copied, exit>>
    BY <1>7, AnswerTells DEF CountTypes
  <2>2. entry \in DOMAIN corpus /\ entry \notin left
    BY <2>1 DEF ToolInv, ToolTypeOK, Translated
  <2>3. corpus' = corpus /\ Done' = Done \cup {entry} /\ Bad' = Bad
    BY <2>1, <2>2, <1>0 DEF Done, Bad, input
  <2>4. type_count' \in [Rule -> Nat]
        /\ \A r \in Rule : type_count'[r] = 0 <=> type_count[r] = 0 /\ r \notin corpus[entry].rules
    <3>1. CASE entry \in Bad
      BY <2>1, <2>2, <3>1, <1>0, FileFacts DEF ToolTypeOK, Bad
    <3>2. CASE entry \notin Bad
      BY <2>1, <3>2, <1>0 DEF ToolTypeOK, WithCounts
    <3> QED
      BY <3>1, <3>2
  <2>5. ToolTypeOK'
    BY <2>1, <2>3, <2>4, <1>0 DEF ToolTypeOK, input, vars
  <2>6. CheckInv'
    BY <2>1, <2>3 DEF ToolInv, ToolTypeOK, CheckInv
  <2>7. CountInv'
    <3>1. \A r : r \in Covered(Done)' <=> r \in Covered(Done) \/ r \in corpus[entry].rules
      BY <2>3 DEF Covered
    <3>2. \A r \in Rule : type_count[r] = 0 <=> r \notin Covered(Done)
      BY <2>1 DEF ToolInv, CountInv
    <3>3. \A r \in Rule : type_count'[r] = 0 <=> r \notin Covered(Done)'
      BY <2>4, <3>1, <3>2
    <3>4. step' = "count" /\ exit' # "0"
      BY <2>1 DEF ToolInv, ToolTypeOK
    <3> QED
      BY <3>3, <3>4 DEF CountInv
  <2>8. CopyInv'
    BY <2>1, <2>3 DEF ToolInv, ToolTypeOK, CopyInv, OutputIsSanitized, ParsableFiles, input
  <2> QED
    BY <2>5, <2>6, <2>7, <2>8
<1>8. CASE CheckMissingTypes
  <2>1. /\ step = "count" /\ left = {} /\ entry = None
        /\ missing_types' = {r \in Rule : type_count[r] = 0}
        /\ step' = IF output_dir = "" THEN "report" ELSE "output"
        /\ UNCHANGED <<vars, input, left, entry, unparsable_files, type_count, copied, exit>>
    BY <1>8 DEF CheckMissingTypes
  <2>2. corpus' = corpus /\ Done = DOMAIN corpus /\ Bad' = Bad
        /\ Covered(DOMAIN corpus)' = Covered(DOMAIN corpus)
    BY <2>1, <1>0 DEF Done, Bad, input, Covered
  <2>3. ToolTypeOK'
    BY <2>1, <2>2, <1>0 DEF ToolTypeOK, input, vars
  <2>4. CheckInv'
    BY <2>1, <2>2 DEF ToolInv, ToolTypeOK, CheckInv
  <2>5. CountInv'
    <3>1. missing_types' = Rule \ Covered(DOMAIN corpus)
      BY <2>1, <2>2 DEF ToolInv, CountInv
    <3>2. step' # "count"
      BY <2>1
    <3> QED
      BY <2>2, <3>1, <3>2 DEF CountInv
  <2>6. CopyInv'
    BY <2>1, <2>2 DEF ToolInv, ToolTypeOK, CopyInv, OutputIsSanitized, ParsableFiles, input
  <2> QED
    BY <2>3, <2>4, <2>5, <2>6
<1>9. CASE PrepareOutput
  <2>1. CASE output_dir = "not_creatable"
    <3>1. Exit("filesystem_error") /\ UNCHANGED <<vars, input, left, entry, results>>
      BY <1>9, <2>1 DEF PrepareOutput
    <3> QED
      BY <3>1, FailureStep
  <2>2. CASE output_dir = "file"
    <3>1. Exit("-1") /\ UNCHANGED <<vars, input, left, entry, results>>
      BY <1>9, <2>2 DEF PrepareOutput
    <3> QED
      BY <3>1, FailureStep
  <2>3. CASE output_dir \notin {"not_creatable", "file"}
    <3>1. /\ step = "output" /\ step' = "copy" /\ left' = DOMAIN corpus \ unparsable_files
          /\ UNCHANGED <<vars, input, entry, results, exit>>
      BY <1>9, <2>3 DEF PrepareOutput, FilesToCopy, Listing
    <3>2. corpus' = corpus /\ unparsable_files = Bad /\ Bad' = Bad /\ copied = {} /\ copied' = {}
          /\ Covered(DOMAIN corpus)' = Covered(DOMAIN corpus)
      BY <3>1 DEF ToolInv, CheckInv, CopyInv, Bad, input, results, Covered
    <3>3. ToolTypeOK'
      BY <3>1, <3>2, <1>0 DEF ToolTypeOK, input, results, vars
    <3>4. CheckInv' /\ CountInv'
      BY <3>1, <3>2 DEF ToolInv, ToolTypeOK, CheckInv, CountInv, results
    <3>5. CopyInv'
      BY <3>1, <3>2 DEF ToolInv, ToolTypeOK, CopyInv, OutputIsSanitized, ParsableFiles, input
    <3> QED
      BY <3>3, <3>4, <3>5
  <2> QED
    BY <2>1, <2>2, <2>3
<1>10. ASSUME NEW e \in Entry, CopyFile(e) PROVE Goal'
  <2>1. /\ step = "copy" /\ e \in left
        /\ copied' = copied \cup {e} /\ left' = left \ {e}
        /\ UNCHANGED <<vars, input, step, entry, unparsable_files, type_count, missing_types, exit>>
    BY <1>10 DEF CopyFile
  <2>2. corpus' = corpus /\ Bad' = Bad /\ ParsableFiles' = ParsableFiles
        /\ Covered(DOMAIN corpus)' = Covered(DOMAIN corpus)
    BY <2>1 DEF Bad, ParsableFiles, Covered, input
  <2>3. e \in ParsableFiles /\ corpus[e].regular
    BY <2>1, <1>0, FileFacts DEF ToolInv, CopyInv, Bad, ParsableFiles
  <2>4. ToolTypeOK'
    BY <2>1, <2>2, <1>0 DEF ToolTypeOK, input, vars
  <2>5. CheckInv' /\ CountInv'
    BY <2>1, <2>2 DEF ToolInv, ToolTypeOK, CheckInv, CountInv
  <2>6. CopyInv'
    BY <2>1, <2>2, <2>3 DEF ToolInv, ToolTypeOK, CopyInv, OutputIsSanitized, input
  <2> QED
    BY <2>4, <2>5, <2>6
<1>11. ASSUME NEW e \in Entry, CopyThrows(e) PROVE Goal'
  <2>1. Exit("filesystem_error") /\ UNCHANGED <<vars, input, left, entry, results>>
    BY <1>11 DEF CopyThrows
  <2> QED
    BY <2>1, FailureStep
<1>12. CASE Report
  <2>1. /\ step = "report" \/ (step = "copy" /\ left = {})
        /\ exit' = "0" /\ step' = "end"
        /\ UNCHANGED <<vars, input, left, entry, results>>
    BY <1>12 DEF Report, Exit
  <2>2. corpus' = corpus /\ Bad' = Bad /\ ParsableFiles' = ParsableFiles /\ output_dir' = output_dir
        /\ copied' = copied /\ Covered(DOMAIN corpus)' = Covered(DOMAIN corpus)
    BY <2>1 DEF Bad, ParsableFiles, Covered, input, results
  <2>3. ToolTypeOK'
    BY <2>1, <2>2, <1>0 DEF ToolTypeOK, input, results, vars
  <2>4. CheckInv' /\ CountInv'
    BY <2>1, <2>2 DEF ToolInv, ToolTypeOK, CheckInv, CountInv, results
  <2>5. CopyInv'
    <3>1. copied \subseteq ParsableFiles /\ ParsableFiles \subseteq DOMAIN corpus \ Bad
      BY DEF ToolInv, CopyInv, OutputIsSanitized, ParsableFiles, Bad
    <3>o. copied \subseteq {e \in ParsableFiles : corpus[e].regular}
      BY DEF ToolInv, CopyInv, OutputIsSanitized
    <3>2. output_dir # "" => copied = ParsableFiles
      BY <2>1, <3>1 DEF ToolInv, CopyInv
    <3> QED
      BY <2>1, <2>2, <3>o, <3>2 DEF CopyInv, OutputIsSanitized
  <2> QED
    BY <2>3, <2>4, <2>5
<1>13. CASE UNCHANGED toolvars
  <2>1. UNCHANGED <<tool, input_program>>
    BY <1>13 DEF toolvars, vars
  <2> QED
    BY <2>1, ToolWaits
<1> HIDE DEF Goal
<1> QED
  BY <1>1, <1>2, <1>r, <1>3, <1>4, <1>5, <1>6, <1>7, <1>8, <1>9, <1>10, <1>11, <1>12, <1>13
     DEF ToolNext

(***************************************************************************)
(* The invariant of corpus_evaluate and of the frontend under it.          *)
(***************************************************************************)
THEOREM ToolInvariant == ToolSpec => []ToolInv
BY ToolInitInv, ToolNextInv, PTL DEF ToolSpec, toolvars

(***************************************************************************)
(* Both passes of corpus_evaluate get from TranslateToIR the answers that  *)
(* the files deserve, whatever was parsed in between, and never from a     *)
(* cache that was freed.                                                   *)
(***************************************************************************)
THEOREM ToolUsesFrontend == ToolSpec => [](AnswerDependsOnProgram /\ ParsesWithLiveCache)
<1>1. ToolInv => AnswerDependsOnProgram /\ ParsesWithLiveCache
  BY DEF ToolInv, IInv
<1> QED
  BY <1>1, ToolInvariant, PTL

(***************************************************************************)
(* corpus_evaluate never copies an entry that has no IR, be it a file that *)
(* does not parse, one without a token or a directory, and if it succeeds  *)
(* it has copied every file that has one: the list of files made by the    *)
(* first pass still fits the directory as it is read the third time.       *)
(***************************************************************************)
THEOREM ToolSanitizes == ToolSpec => []OutputIsSanitized
<1>1. ToolInv => OutputIsSanitized
  BY DEF ToolInv, CopyInv
<1> QED
  BY <1>1, ToolInvariant, PTL

(***************************************************************************)
(* The rules that corpus_evaluate reports as missing are those that no     *)
(* file of the corpus that parses has.                                     *)
(***************************************************************************)
THEOREM ToolFindsMissing == ToolSpec => []MissingTypesAreUncovered
<1>1. ToolInv => MissingTypesAreUncovered
  <2> SUFFICES ASSUME ToolInv, exit = "0"
               PROVE  missing_types = Rule \ Covered(ParsableFiles)
    BY DEF MissingTypesAreUncovered, Covered
  <2>1. missing_types = Rule \ Covered(DOMAIN corpus)
    BY DEF ToolInv, CountInv
  <2>2. \A e \in DOMAIN corpus : corpus[e].rules # {} => e \in ParsableFiles
    BY FileFacts DEF ToolInv, ParsableFiles
  <2>3. Covered(DOMAIN corpus) = Covered(ParsableFiles)
    BY <2>2 DEF Covered, ParsableFiles
  <2> QED
    BY <2>1, <2>3
<1> QED
  BY <1>1, ToolInvariant, PTL
=============================================================================
