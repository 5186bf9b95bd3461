---------------------------- MODULE MCIRLibrary ----------------------------
(***************************************************************************)
(* TLC instance of IRLibrary: programs of one statement over two           *)
(* expressions, where the expressions are shared texts, one program parsed *)
(* twice, and one whose root has the type of an expression.  With two IRs  *)
(* per type the pools overflow, at the root and in the middle of a tree.   *)
(***************************************************************************)
EXTENDS IRLibrary

\* Node <<p, k>> is node k of program p: 1 the root, 2 and 3 its children.
MCIRNode == ((1..4) \X (1..3)) \cup ((5..6) \X (1..2))
MCRoot == {x \in MCIRNode : x[2] = 1}
MCType == [x \in MCIRNode |->
             CASE x[1] <= 4 /\ x[2] = 1 -> "stmt"
               [] x[1] > 4 /\ x[2] = 2 -> "name"
               [] OTHER -> "expr"]
MCLeft == [x \in MCIRNode |-> IF x[2] = 1 THEN <<x[1], 2>> ELSE <<>>]
MCRight == [x \in MCIRNode |-> IF x[2] = 1 /\ x[1] <= 4 THEN <<x[1], 3>> ELSE <<>>]
MCNil == <<>>
MCUnder == [x \in MCIRNode |->
              IF x[2] = 1 THEN {y \in MCIRNode : y[1] = x[1]} ELSE {x}]

\* Program 4 is program 1 parsed again.  The expressions are a, b and c.
ExprOf == [x \in {y \in MCIRNode : y[2] > 1} |->
             CASE x \in {<<1, 2>>, <<4, 2>>, <<2, 3>>, <<5, 2>>} -> "a"
               [] x \in {<<1, 3>>, <<4, 3>>, <<3, 2>>, <<6, 2>>} -> "b"
               [] OTHER -> "c"]
MCText == [x \in MCIRNode |->
             IF x[2] > 1 THEN <<ExprOf[x]>>
             ELSE IF x[1] <= 4 THEN <<ExprOf[<<x[1], 2>>], ExprOf[<<x[1], 3>>]>>
             ELSE <<"e", ExprOf[<<x[1], 2>>]>>]
MCRawText == [x \in MCIRNode |-> <<"raw", x[1], x[2]>>]
MCCutText == <<"cut">>
=============================================================================
