----------------------------- MODULE MCMutation -----------------------------
(***************************************************************************)
(* TLC instance of Mutation.  The library holds a declaration, a sum with  *)
(* a FIXME and a call, which has no right child, and what is below them,   *)
(* but nothing of type "text".  The test cases are: an assignment and a    *)
(* difference with a name to fix; a pair with a text and a call, below a   *)
(* node of unknown type; an assignment that may not be mutated and a call. *)
(***************************************************************************)
EXTENDS Mutation

N(t, o, l, r) == [type |-> t, op |-> o, data |-> NoData, dt |-> kDataDefault,
                  left |-> l, right |-> r]
Leaf(t, d, dt) == [type |-> t, op |-> NoOp, data |-> d, dt |-> dt,
                   left |-> 0, right |-> 0]

MCHeap0 ==
  << Leaf("empty", "", kDataDefault),             \* 1: empty_ir
     Leaf("name", "'x'", kDataDefault),           \* 2
     Leaf("int", "1", kDataDefault),              \* 3
     N("stmt", <<"INT", "=", ";">>, 2, 3),        \* 4
     Leaf("name", "'x'", kDataDefault),           \* 5
     Leaf(kUnknown, "FIXME", kDataDefault),       \* 6
     N("stmt", <<"", "+", ";">>, 5, 6),           \* 7
     Leaf("name", "'x'", kDataDefault),           \* 8
     N("stmt", <<"", "()", ";">>, 8, 0),          \* 9
     Leaf("name", "a", kDataDefault),             \* 10: a = 7; c - 7;
     Leaf("int", "7", kDataDefault),              \* 11
     N("stmt", <<"", "=", ";">>, 10, 11),         \* 12
     Leaf("name", "c", kFixUnit),                 \* 13
     Leaf("int", "7", kDataDefault),              \* 14
     N("stmt", <<"", "-", ";">>, 13, 14),         \* 15
     N("program", NoOp, 12, 15),                  \* 16
     Leaf("name", "b", kDataDefault),             \* 17: b t b();
     Leaf("text", "t", kDataDefault),             \* 18
     N("pair", NoOp, 17, 18),                     \* 19
     Leaf("name", "b", kFixUnit),                 \* 20
     N("stmt", <<"", "()", ";">>, 20, 0),         \* 21
     N(kUnknown, NoOp, 19, 21),                   \* 22
     N("program", NoOp, 22, 0),                   \* 23
     Leaf("name", "d", "kVariableType"),          \* 24: d = 1; b();
     Leaf("int", "1", kDataDefault),              \* 25
     N("stmt", <<"", "=", ";">>, 24, 25),         \* 26
     Leaf("name", "b", kDataDefault),             \* 27
     N("stmt", <<"", "()", ";">>, 27, 0),         \* 28
     N("program", NoOp, 26, 28) >>                \* 29

MCTestCase == {16, 23, 29}
MCStored == [t \in {"stmt", "name", "int", kUnknown} |->
               CASE t = "stmt" -> {4, 7, 9} [] t = "name" -> {2} [] t = "int" -> {3}
                 [] t = kUnknown -> {6}]

\* A toy hash of 2 * HashBits bits: tokens are digits.
Code == [w \in {"'x'", "1", "INT", "=", ";", "FIXME", "+", "()", "a", "7", "c", "b", "t",
                "d", "-"} |->
           CASE w = "'x'" -> 1 [] w = "1" -> 2 [] w = "INT" -> 3 [] w = "=" -> 5
             [] w = ";" -> 7 [] w = "FIXME" -> 11 [] w = "+" -> 13 [] w = "()" -> 17
             [] w = "a" -> 19 [] w = "7" -> 23 [] w = "c" -> 29 [] w = "b" -> 31
             [] w = "t" -> 37 [] w = "d" -> 41 [] w = "-" -> 42]
MCHash(text) ==
  LET h[k \in 0..Len(text)] ==
        IF k = 0 THEN 1 ELSE (h[k - 1] * 43 + Code[text[k]]) % 2^(2 * HashBits)
  IN h[Len(text)]
=============================================================================
