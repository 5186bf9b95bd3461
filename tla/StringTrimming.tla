--------------------------- MODULE StringTrimming ---------------------------
(***************************************************************************)
(* The text of an IR (IR::ToString, srcs/internal/srcs/ir.cpp): what       *)
(* ToStringImpl puts together, with a blank between any two pieces and     *)
(* often many, goes through trim_string (srcs/internal/srcs/utils.cpp),    *)
(* which drops blanks and begins lines, in place: it writes behind the     *)
(* place where it reads, and one place ahead of it.  Names are stripped    *)
(* once more before they are compared, by strip_string or by Trim.         *)
(*                                                                         *)
(* The history variable from tells where a character comes from.           *)
(***************************************************************************)
EXTENDS Integers, Sequences

CONSTANTS
  Char,         \* characters
  Space,
  Newline,
  Break,        \* ; { and }
  MaxLength     \* bound: length of a text

Blank == {Space, Newline}

ASSUME CharAssumption ==
  /\ Blank \subseteq Char
  /\ Space # Newline
  /\ Break \subseteq Char
  /\ Break \cap Blank = {}
  /\ MaxLength \in Nat

Text == UNION {[1..n -> Char] : n \in 0..MaxLength}

VARIABLES
  pc,            \* "trim", "ToString", "strip", "stripped"
  text,          \* what ToStringImpl made
  res,
  i,             \* the next character to read
  idx,           \* characters written
  expect_space,
  from           \* history

vars == <<pc, text, res, i, idx, expect_space, from>>

Init ==
  /\ pc = "trim"
  /\ text \in Text
  /\ res = text
  /\ i = 1
  /\ idx = 0
  /\ expect_space = FALSE
  /\ from = <<>>

\* A slip: whatever follows the end of a statement is replaced.
BreakLineAlways ==
  IF res[i] \in Break /\ i # Len(res) THEN [res EXCEPT ![i + 1] = Newline] ELSE res

\* A blank after the end of a statement or a brace becomes the end of a line.
BreakLine ==
  IF res[i] \in Break /\ i # Len(res) /\ res[i + 1] = Space
  THEN [res EXCEPT ![i + 1] = Newline]
  ELSE res

Trimming == pc = "trim" /\ i <= Len(res)

\* A blank that follows a blank, or nothing, is not written.
SkipSpace ==
  /\ Trimming
  /\ res[i] = Space
  /\ ~expect_space
  /\ res' = BreakLine
  /\ i' = i + 1
  /\ UNCHANGED <<pc, text, idx, expect_space, from>>

\* A slip: the flag is not taken back after a blank.
ExpectsAfter(c) == TRUE

Expects(c) == c # Space

\* A slip: the place is counted first, as for strings that begin at 1.
WriteAhead == [BreakLine EXCEPT ![IF idx + 2 <= Len(res) THEN idx + 2 ELSE idx + 1] = res[i]]

Write == [BreakLine EXCEPT ![idx + 1] = res[i]]

WriteCharacter ==
  /\ Trimming
  /\ res[i] # Space \/ expect_space
  /\ res' = Write
  /\ idx' = idx + 1
  /\ i' = i + 1
  /\ expect_space' = Expects(res[i])
  /\ from' = Append(from, i)
  /\ UNCHANGED <<pc, text>>

\* resize; ToString returns.
EndTrim ==
  /\ pc = "trim"
  /\ i > Len(res)
  /\ res' = SubSeq(res, 1, idx)
  /\ pc' = "ToString"
  /\ UNCHANGED <<text, i, idx, expect_space, from>>

\* strip_string, of the name of a function: from the end to the last character.
StartStrip ==
  /\ pc = "ToString"
  /\ pc' = "strip"
  /\ idx' = Len(res)
  /\ UNCHANGED <<text, res, i, expect_space, from>>

StripBlank ==
  /\ pc = "strip"
  /\ idx > 0 /\ res[idx] \in Blank
  /\ idx' = idx - 1
  /\ UNCHANGED <<pc, text, res, i, expect_space, from>>

\* A slip: resize(idx) for resize(idx + 1).
Resized(s) == SubSeq(s, 1, idx - 1)

StrippedTo(s) == SubSeq(s, 1, idx)

EndStrip ==
  /\ pc = "strip"
  /\ idx > 0 => res[idx] \notin Blank
  /\ res' = StrippedTo(res)
  /\ from' = StrippedTo(from)
  /\ pc' = "stripped"
  /\ UNCHANGED <<text, i, idx, expect_space>>

\* Trim, of the other names: Rtrim, then Ltrim.
Trim ==
  /\ pc = "ToString"
  /\ \E first \in 1..(Len(res) + 1), last \in 0..Len(res) :
       /\ \A k \in (last + 1)..Len(res) : res[k] \in Blank
       /\ last > 0 => res[last] \notin Blank
       /\ \A k \in 1..(first - 1) : k <= last => res[k] \in Blank
       /\ IF last = 0 THEN first = 1 ELSE first <= last /\ res[first] \notin Blank
       /\ res' = SubSeq(res, first, last)
       /\ from' = SubSeq(from, first, last)
  /\ pc' = "stripped"
  /\ UNCHANGED <<text, i, idx, expect_space>>

Next ==
  \/ SkipSpace
  \/ WriteCharacter
  \/ EndTrim
  \/ StartStrip
  \/ StripBlank
  \/ EndStrip
  \/ Trim

Spec == Init /\ [][Next]_vars

-----------------------------------------------------------------------------
(***************************************************************************)
(* trim_string never writes on a character it has still to read, but for   *)
(* the blanks it turns into ends of lines.                                 *)
(***************************************************************************)
UnreadIsIntact ==
  pc = "trim" =>
    \A k \in i..Len(res) : res[k] = text[k] \/ (text[k] = Space /\ res[k] = Newline)

Trimmed == pc \in {"ToString", "strip", "stripped"}

(***************************************************************************)
(* What ToString returns has no blank at the beginning, no two blanks in a *)
(* row, and none after the end of a statement: trimming it again would     *)
(* change nothing.                                                         *)
(***************************************************************************)
TextIsCanonical ==
  Trimmed =>
    \A k \in 1..Len(res) :
      res[k] = Space => k > 1 /\ res[k - 1] # Space /\ res[k - 1] \notin Break

(***************************************************************************)
(* The tokens of the program survive: every character of a token is there, *)
(* in order, and two characters are apart in the result if and only if     *)
(* they were apart before.  Nothing is glued together or torn apart.       *)
(***************************************************************************)
TokensSurvive ==
  Trimmed =>
    /\ Len(from) = Len(res)
    /\ \A k \in 1..(Len(from) - 1) : from[k] < from[k + 1]
    /\ \A k \in 1..Len(res) :
         \/ res[k] = text[from[k]]
         \/ res[k] = Newline /\ text[from[k]] = Space
    /\ \A p \in 1..Len(text) :
         text[p] \notin Blank => \E k \in 1..Len(from) : from[k] = p
    /\ \A k \in 1..(Len(res) - 1) :
         res[k] \notin Blank /\ res[k + 1] \notin Blank => from[k + 1] = from[k] + 1

(***************************************************************************)
(* A name between blanks, however many the IRs around it added, comes out  *)
(* as the name, by strip_string as well as by Trim: a function and its     *)
(* uses, a type and its uses have the same text.                           *)
(***************************************************************************)
NamesComeOutAlike ==
  pc = "stripped" =>
    \A p, q \in 1..Len(text) :
      /\ \A k \in 1..Len(text) : k < p \/ k > q => text[k] = Space
      /\ \A k \in p..q : text[k] \notin Blank
      /\ p <= q
      => Len(res) = q - p + 1 /\ \A k \in 1..Len(res) : res[k] = text[p + k - 1]
=============================================================================
