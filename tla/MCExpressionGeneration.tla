----------------------- MODULE MCExpressionGeneration -----------------------
(***************************************************************************)
(* TLC instance of ExpressionGeneration: two simple types, a structure A   *)
(* with an int and a method, and a structure B with a member of type A and *)
(* a method.  The functions need each other's results, their own result, a *)
(* structure, or two arguments, and the ids of those that need are the     *)
(* lower ones: one pass of calc_satisfiable_functions does not find them.  *)
(***************************************************************************)
EXTENDS ExpressionGeneration

CONSTANTS int, str, A, B

join == 1
length == 2
trim == 3
take == 4
A_find == 5
B_name == 6

MCFunction == {join, length, trim, take, A_find, B_name}
MCFree == {join, length, trim, take}
MCTypeID == SimpleType \cup Compound \cup MCFunction
MCMembers == [c \in Compound |-> IF c = A THEN {int, A_find} ELSE {A, B_name}]
MCArgTypes == [f \in MCFunction |->
                 CASE f = join -> <<str, str>>
                   [] f = take -> <<A, int>>
                   [] f = B_name -> <<>>
                   [] OTHER -> <<str>>]
MCArgs == [f \in MCFunction |-> {MCArgTypes[f][i] : i \in DOMAIN MCArgTypes[f]}]
MCRet == [f \in MCFunction |-> IF f \in {length, A_find} THEN int ELSE str]
MCFunctionSets == SUBSET MCFree
=============================================================================
