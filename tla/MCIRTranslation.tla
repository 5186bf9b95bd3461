-------------------------- MODULE MCIRTranslation --------------------------
(***************************************************************************)
(* TLC instance of IRTranslation.  Symbols and nodes are tuples.  A rule   *)
(* node <<"rule", a, b, ...>> has the children named a, b, ...; the leaf   *)
(* nodes are a string literal of one token and one of two, an int literal  *)
(* in decimal, one that std::stoi reads as another, one that it refuses    *)
(* and a rule with no children.  The programs are all rule nodes of up to  *)
(* MaxChildren terminals and string literals, all rule nodes of up to      *)
(* MaxMixed children of every sort, and two-level programs made of a pair  *)
(* of them and <EOF>.                                                      *)
(***************************************************************************)
EXTENDS IRTranslation, TLC

CONSTANTS MaxChildren, MaxMixed, MaxNested

Tuples(S, n) == UNION {[1..k -> S] : k \in 0..n}

term == <<"terminal">>
eof == <<"eof">>
lit == <<"string">>
cat == <<"string", "two tokens">>
num == <<"int">>
hex == <<"int", "hexadecimal">>
big == <<"int", "too large">>
eps == <<"empty">>

Rule(cs) == <<"rule">> \o cs
Flat == {Rule(cs) : cs \in Tuples({term, lit}, MaxChildren)}
Mixed == {Rule(cs) : cs \in Tuples({term, eof, lit, cat, num, hex, big, eps}, MaxMixed)}
Inner == {Rule(cs) : cs \in Tuples({term, lit}, MaxNested)}
Nested == {Rule(<<a, term, b, eof>>) : a, b \in Inner}

MCProgram == Flat \cup Mixed \cup Nested
MCNode == {lit, cat, num, hex, big, eps} \cup Flat \cup Mixed \cup Inner \cup Nested
MCTerminal == {term}
MCEof == eof
MCChildren == [n \in MCNode |-> IF n[1] = "rule" THEN Tail(n) ELSE <<>>]
MCStringLiteral == {lit, cat}
MCIntLiteral == {num, hex, big}
MCIntFits == {num, hex}
MCText == {"x", "'a'", "'a' 'b'", "'a''b'", "31", "0x1F", "0", "4294967296"}
MCWritten ==
  (term :> "x") @@ (lit :> "'a'") @@ (cat :> "'a' 'b'") @@ (num :> "31")
    @@ (hex :> "0x1F") @@ (big :> "4294967296")
MCgetText == (cat :> "'a''b'") @@ MCWritten
MCstoi == (num :> "31") @@ (hex :> "0")
=============================================================================
