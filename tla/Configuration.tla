---------------------------- MODULE Configuration ----------------------------
(***************************************************************************)
(* The semantic configuration of the fuzzer                                *)
(* (srcs/internal/srcs/configuration.cpp): Configuration::Init reads and   *)
(* validates a YAML file and fills the singleton that GetInstance hands    *)
(* out.  It is called once, by PolyGlotMutator::CreateInstance (see        *)
(* FuzzSession), which asserts that it returns true.                       *)
(*                                                                         *)
(* A file is what the code looks at: whether it can be opened and parsed,  *)
(* and of each key whether it is there and has the form the code expects.  *)
(* A check that fails returns false; an exception of yaml-cpp other than   *)
(* BadFile is caught by nobody; an assertion ends the process.             *)
(***************************************************************************)
CONSTANT FileKind   \* the files considered

Field == {"is_weak_type_", "init_dir_path_", "built_in_object_file_path_",
          "syntax_only_", "basic_types_"}

AnyFile == [opens : BOOLEAN, parses : BOOLEAN,
            IsWeakType : {"absent", "bool", "other"},
            InitFileDir : {"absent", "directory", "link", "file", "nowhere", "other"},
            BasicTypes : {"absent", "strings", "nested", "other"},
            BuiltinObjFile : {"absent", "string", "other"},
            SyntaxOnly : {"absent", "true", "false", "other"}]

ASSUME FileAssumption == FileKind \subseteq AnyFile

VARIABLES
  file,      \* the file that POLYGLOT_CONFIG names
  filled,    \* the fields of the singleton that have a value
  is_init_,
  pc         \* the next statement of Init, "true" or "false" once it has
             \* returned, "exception" or "assert" if the process ended

configuration == <<file, filled, is_init_, pc>>

InitConfiguration ==
  /\ file \in FileKind
  /\ filled = {}
  /\ is_init_ = FALSE
  /\ pc = "load"

Goto(label) == pc' = label /\ UNCHANGED <<filled, is_init_, file>>
Fill(fs, label) == filled' = filled \cup fs /\ pc' = label /\ UNCHANGED <<is_init_, file>>

\* YAML::LoadFile throws BadFile or ParserException.
BadFile == pc = "load" /\ ~file.opens /\ Goto("false")
ParserException == pc = "load" /\ file.opens /\ ~file.parses /\ Goto("exception")
LoadFile == pc = "load" /\ file.opens /\ file.parses /\ Goto("validate")

\* ConfigFileValidate; of InitFileDir it asks only that it exists.
Valid ==
  /\ file.IsWeakType = "bool"
  /\ file.InitFileDir \in {"directory", "link", "file"}
  /\ file.BasicTypes \in {"strings", "nested"}

ConfigFileInvalid == pc = "validate" /\ ~Valid /\ Goto("false")

\* A slip: is_init_ is set as soon as the file is known to be valid.
ReadMandatoryKeysEarly ==
  /\ pc = "validate"
  /\ Valid
  /\ is_init_' = TRUE
  /\ filled' = filled \cup {"is_weak_type_", "init_dir_path_"}
  /\ pc' = "builtin"
  /\ UNCHANGED file

ReadMandatoryKeys ==
  pc = "validate" /\ Valid /\ Fill({"is_weak_type_", "init_dir_path_"}, "builtin")

ReadBuiltinObjFile ==
  /\ pc = "builtin"
  /\ \/ file.BuiltinObjFile = "string" /\ Fill({"built_in_object_file_path_"}, "syntax")
     \/ file.BuiltinObjFile = "other" /\ Goto("exception")
     \/ file.BuiltinObjFile = "absent" /\ Goto("assert")

\* An absent SyntaxOnly means false.
ReadSyntaxOnly ==
  /\ pc = "syntax"
  /\ \/ file.SyntaxOnly # "other" /\ Fill({"syntax_only_"}, "types")
     \/ file.SyntaxOnly = "other" /\ Goto("exception")

ReadBasicTypes ==
  /\ pc = "types"
  /\ \/ file.BasicTypes = "nested" /\ Goto("exception")
     \/ /\ file.BasicTypes = "strings"
        /\ filled' = filled \cup {"basic_types_"}
        /\ is_init_' = TRUE
        /\ pc' = "true"
        /\ UNCHANGED file

ConfigurationNext ==
  \/ BadFile
  \/ ParserException
  \/ LoadFile
  \/ ConfigFileInvalid
  \/ ReadMandatoryKeys
  \/ ReadBuiltinObjFile
  \/ ReadSyntaxOnly
  \/ ReadBasicTypes

ConfigurationSpec == InitConfiguration /\ [][ConfigurationNext]_configuration

-----------------------------------------------------------------------------
(***************************************************************************)
(* GetInstance only asserts is_init_: whoever gets the singleton finds     *)
(* every field filled, and a file that was refused has filled none.        *)
(***************************************************************************)
InitIsAllOrNothing ==
  /\ is_init_ => filled = Field
  /\ pc = "false" => filled = {}

(***************************************************************************)
(* "This is optional." (configuration.cpp:182, of BuiltinObjFile): a file  *)
(* that is right otherwise does not need the key.  The configuration that  *)
(* the README tells users to copy has no such key.                         *)
(***************************************************************************)
BuiltinObjFileIsOptional == file.BuiltinObjFile = "absent" => pc # "assert"
=============================================================================
