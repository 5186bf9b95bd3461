---------------------------- MODULE MCFuzzSession ----------------------------
(***************************************************************************)
(* TLC instance of FuzzSession: a program, one that has a FIXME, one that  *)
(* is too large, one that does not parse, and one that does not because    *)
(* of what follows a NUL byte; every kind of configuration file, and the   *)
(* file of the README.                                                     *)
(***************************************************************************)
EXTENDS FuzzSession

EveryFile == AnyFile
ReadmeFile == {[opens |-> TRUE, parses |-> TRUE, IsWeakType |-> "bool",
                InitFileDir |-> "directory", BasicTypes |-> "strings",
                BuiltinObjFile |-> "absent", SyntaxOnly |-> "absent"]}

MCCStr == [t \in Text |-> IF t = "nul" THEN "good" ELSE t]
MCFixed == [t \in Text |-> IF t = "fixme" THEN "good" ELSE t]
=============================================================================
