---------------------------- MODULE MCTypeSystem ----------------------------
(***************************************************************************)
(* TLC instance of TypeSystem: two basic types and an empty line, as the   *)
(* configuration may have it.                                              *)
(***************************************************************************)
EXTENDS TypeSystem

MCBasicTypeStr == <<"INT", "", "FLOAT">>
=============================================================================
