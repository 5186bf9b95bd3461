------------------------- MODULE MCCorpusEvaluation -------------------------
(***************************************************************************)
(* TLC instance of CorpusEvaluation and AntlrFrontend.  Nothing tells the  *)
(* names of the entries apart.                                             *)
(***************************************************************************)
EXTENDS CorpusEvaluation, TLC

Entries == Permutations(Entry)
=============================================================================
