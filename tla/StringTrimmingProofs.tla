------------------------ MODULE StringTrimmingProofs ------------------------
(***************************************************************************)
(* Proofs about StringTrimming, for texts of any characters and length.    *)
(***************************************************************************)
EXTENDS StringTrimming, SequenceTheorems, WellFoundedInduction, TLAPS

Typed ==
  /\ pc \in {"trim", "ToString", "strip", "stripped"}
  /\ text \in Seq(Char)
  /\ res \in Seq(Char)
  /\ from \in Seq(Nat)
  /\ i \in Nat
  /\ idx \in Nat
  /\ expect_space \in BOOLEAN

(***************************************************************************)
(* What holds of the first n characters of res, when the first m of the    *)
(* text were read.                                                         *)
(***************************************************************************)
CanonicalTo(n) ==
  \A k \in 1..n : res[k] = Space => k > 1 /\ res[k - 1] # Space /\ res[k - 1] \notin Break
OriginTo(n) ==
  \A k \in 1..n :
    /\ from[k] \in 1..Len(text)
    /\ res[k] = text[from[k]] \/ (res[k] = Newline /\ text[from[k]] = Space)
OrderedTo(n) == \A k \in 1..(n - 1) : from[k] < from[k + 1]
KeptTo(m, n) == \A p \in 1..m : text[p] \notin Blank => \E k \in 1..n : from[k] = p
AdjacentTo(n) ==
  \A k \in 1..(n - 1) :
    res[k] \notin Blank /\ res[k + 1] \notin Blank => from[k + 1] = from[k] + 1

Good(m, n) ==
  /\ CanonicalTo(n)
  /\ OriginTo(n)
  /\ OrderedTo(n)
  /\ KeptTo(m, n)
  /\ AdjacentTo(n)

(***************************************************************************)
(* While trim_string runs it writes behind the place where it reads; the   *)
(* flag tells whether the last character written is a blank, and a last    *)
(* character that is none was the last read.  After the end of a statement *)
(* no blank is next.                                                       *)
(***************************************************************************)
Places ==
  /\ Len(res) = Len(text)
  /\ i \in 1..(Len(res) + 1)
  /\ idx <= i - 1
  /\ Len(from) = idx
  /\ \A k \in 1..idx : from[k] <= i - 1

LastWritten ==
  /\ expect_space <=> (idx > 0 /\ res[idx] # Space)
  /\ idx > 0 /\ res[idx] # Space => from[idx] = i - 1
  /\ idx > 0 /\ res[idx] \in Break /\ i <= Len(res) => res[i] # Space

TrimInv ==
  /\ Places
  /\ LastWritten
  /\ UnreadIsIntact
  /\ Good(i - 1, idx)

TrimmedInv ==
  /\ Len(from) = Len(res)
  /\ Good(Len(text), Len(res))

StripInv ==
  /\ idx <= Len(res)
  /\ \A k \in (idx + 1)..Len(res) : res[k] \in Blank

IInv ==
  /\ Typed
  /\ pc = "trim" => TrimInv
  /\ Trimmed => TrimmedInv
  /\ pc = "strip" => StripInv

-----------------------------------------------------------------------------
\* A text that ToStringImpl made, before the first character is read.
LEMMA InitIInv == Init => IInv
<1> SUFFICES ASSUME Init PROVE IInv
  OBVIOUS
<1>1. PICK n \in 0..MaxLength : text \in [1..n -> Char]
  BY DEF Init, Text
<1>2. text \in Seq(Char) /\ Len(text) = n /\ n \in Nat
  BY <1>1, CharAssumption DEF CharAssumption
<1>3. Typed
  BY <1>2, EmptySeq DEF Init, Typed
<1>4. TrimInv
  BY <1>2 DEF Init, TrimInv, Places, LastWritten, UnreadIsIntact, Good, CanonicalTo, OriginTo,
     OrderedTo, KeptTo, AdjacentTo
<1> QED
  BY <1>3, <1>4 DEF Init, IInv, Trimmed

\* The write ahead: only a blank at the next place, after the end of a statement.
LEMMA BreakLineEffect ==
  ASSUME Typed, i \in 1..Len(res)
  PROVE  /\ BreakLine \in Seq(Char)
         /\ Len(BreakLine) = Len(res)
         /\ \A k \in 1..Len(res) :
              \/ BreakLine[k] = res[k]
              \/ k = i + 1 /\ res[k] = Space /\ BreakLine[k] = Newline
         /\ i < Len(res) /\ res[i] \in Break => BreakLine[i + 1] # Space
<1>1. CASE res[i] \in Break /\ i # Len(res) /\ res[i + 1] = Space
  <2>1. i + 1 \in 1..Len(res) /\ Newline \in Char
    BY <1>1, CharAssumption DEF CharAssumption, Blank, Typed
  <2>2. BreakLine = [res EXCEPT ![i + 1] = Newline]
    BY <1>1 DEF BreakLine
  <2> QED
    BY <1>1, <2>1, <2>2, ExceptSeq, CharAssumption DEF Typed, CharAssumption
<1>2. CASE ~(res[i] \in Break /\ i # Len(res) /\ res[i + 1] = Space)
  BY <1>2 DEF BreakLine, Typed
<1> QED
  BY <1>1, <1>2

\* And the write behind.
LEMMA WriteEffect ==
  ASSUME Typed, i \in 1..Len(res), idx <= i - 1
  PROVE  /\ Write \in Seq(Char)
         /\ Len(Write) = Len(res)
         /\ \A k \in 1..idx : Write[k] = res[k]
         /\ Write[idx + 1] = res[i]
         /\ \A k \in (i + 1)..Len(res) :
              Write[k] = res[k] \/ (res[k] = Space /\ Write[k] = Newline)
         /\ i < Len(res) /\ res[i] \in Break => Write[i + 1] # Space
<1>1. idx + 1 \in 1..Len(res) /\ res[i] \in Char
  BY ElementOfSeq DEF Typed
<1>2. /\ Write \in Seq(Char)
      /\ Len(Write) = Len(res)
      /\ \A k \in 1..Len(res) : Write[k] = IF k = idx + 1 THEN res[i] ELSE BreakLine[k]
  <2> HIDE DEF BreakLine
  <2> QED
    BY <1>1, BreakLineEffect, ExceptSeq DEF Write
<1>3. \A k \in 1..idx : Write[k] = res[k]
  BY <1>1, <1>2, BreakLineEffect DEF Typed
<1>4. \A k \in (i + 1)..Len(res) : Write[k] = BreakLine[k]
  BY <1>1, <1>2 DEF Typed
<1>5. Write[idx + 1] = res[i]
  BY <1>1, <1>2
<1>6. \A k \in (i + 1)..Len(res) :
        Write[k] = res[k] \/ (res[k] = Space /\ Write[k] = Newline)
  BY <1>4, BreakLineEffect DEF Typed
<1>7. i < Len(res) /\ res[i] \in Break => Write[i + 1] # Space
  <2> SUFFICES ASSUME i < Len(res), res[i] \in Break PROVE Write[i + 1] # Space
    OBVIOUS
  <2>1. i + 1 \in (i + 1)..Len(res)
    BY DEF Typed
  <2> QED
    BY <2>1, <1>4, BreakLineEffect
<1> QED
  BY <1>2, <1>3, <1>5, <1>6, <1>7

-----------------------------------------------------------------------------
\* A blank that is skipped is no part of a token.
LEMMA SkipSpaceIInv == IInv /\ SkipSpace => IInv'
<1> SUFFICES ASSUME IInv, SkipSpace PROVE IInv'
  OBVIOUS
<1>1. /\ pc = "trim" /\ pc' = "trim" /\ Typed /\ TrimInv
      /\ i \in 1..Len(res) /\ i' = i + 1 /\ res[i] = Space /\ ~expect_space
      /\ UNCHANGED <<text, idx, expect_space, from>>
  BY DEF IInv, SkipSpace, Trimming, TrimInv, Places, Typed
<1>2. res' = res
  BY <1>1, CharAssumption DEF SkipSpace, BreakLine, CharAssumption, Blank
<1>3. Typed'
  BY <1>1, <1>2 DEF Typed
<1>4. Places'
  BY <1>1, <1>2 DEF TrimInv, Places, Typed
<1>5. LastWritten'
  BY <1>1, <1>2, CharAssumption DEF TrimInv, LastWritten, CharAssumption, Blank
<1>6. UnreadIsIntact'
  BY <1>1, <1>2 DEF TrimInv, UnreadIsIntact, Typed
<1>7. text[i] = Space
  BY <1>1, CharAssumption DEF TrimInv, UnreadIsIntact, CharAssumption, Typed
<1>8. KeptTo(i - 1, idx)'
  <2> SUFFICES ASSUME NEW p \in 1..i, text[p] \notin Blank PROVE \E k \in 1..idx : from[k] = p
    BY <1>1, <1>2 DEF KeptTo, Typed
  <2>1. p # i
    BY <1>7 DEF Blank
  <2> QED
    BY <1>1, <2>1 DEF TrimInv, Good, KeptTo, Typed
<1>9. (CanonicalTo(idx) /\ OriginTo(idx) /\ OrderedTo(idx) /\ AdjacentTo(idx))'
  BY <1>1, <1>2 DEF TrimInv, Good, CanonicalTo, OriginTo, OrderedTo, AdjacentTo
<1> QED
  BY <1>1, <1>3, <1>4, <1>5, <1>6, <1>8, <1>9 DEF IInv, TrimInv, Good, Trimmed

\* A character that is written is the next of the result, and the last read.
LEMMA WriteCharacterIInv == IInv /\ WriteCharacter => IInv'
<1> SUFFICES ASSUME IInv, WriteCharacter PROVE IInv'
  OBVIOUS
<1>1. /\ pc = "trim" /\ pc' = "trim" /\ Typed /\ TrimInv
      /\ i \in 1..Len(res) /\ i' = i + 1 /\ idx' = idx + 1 /\ idx <= i - 1
      /\ res[i] # Space \/ expect_space
      /\ res' = Write /\ expect_space' = (res[i] # Space) /\ from' = Append(from, i)
      /\ text' = text
  BY DEF IInv, WriteCharacter, Trimming, TrimInv, Places, Typed, Expects
<1>0. i \in Nat /\ idx \in Nat /\ Len(res) \in Nat /\ i' - 1 = i /\ idx' - 1 = idx
  BY <1>1 DEF Typed
<1>2. /\ res' \in Seq(Char)
      /\ Len(res') = Len(res)
      /\ \A k \in 1..idx : res'[k] = res[k]
      /\ res'[idx + 1] = res[i]
      /\ \A k \in (i + 1)..Len(res) :
           res'[k] = res[k] \/ (res[k] = Space /\ res'[k] = Newline)
      /\ i < Len(res) /\ res[i] \in Break => res'[i + 1] # Space
  BY <1>1, WriteEffect
<1>3. /\ from' \in Seq(Nat)
      /\ Len(from') = idx + 1
      /\ \A k \in 1..idx : from'[k] = from[k]
      /\ from'[idx + 1] = i
  BY <1>1, AppendProperties DEF Typed, TrimInv, Places
<1>4. Typed'
  BY <1>1, <1>2, <1>3 DEF Typed
<1>5. Places'
  BY <1>1, <1>2, <1>3 DEF TrimInv, Places, Typed
<1>6. LastWritten'
  <2>1. idx' > 0 /\ res'[idx'] = res[i] /\ from'[idx'] = i' - 1
    BY <1>0, <1>1, <1>2, <1>3
  <2>2. res'[idx'] \in Break /\ i' <= Len(res') => res'[i'] # Space
    BY <1>0, <1>1, <1>2, <2>1
  <2> QED
    BY <1>1, <2>1, <2>2 DEF LastWritten
<1>7. UnreadIsIntact'
  <2> SUFFICES ASSUME NEW k \in (i + 1)..Len(res)
               PROVE  res'[k] = text[k] \/ (text[k] = Space /\ res'[k] = Newline)
    BY <1>1, <1>2 DEF UnreadIsIntact, Typed
  <2>1. k \in i..Len(res)
    BY <1>0
  <2>2. res[k] = text[k] \/ (text[k] = Space /\ res[k] = Newline)
    BY <1>1, <2>1 DEF TrimInv, UnreadIsIntact
  <2> QED
    BY <1>2, <2>2, CharAssumption DEF CharAssumption
<1>8. CanonicalTo(idx)'
  <2> SUFFICES ASSUME NEW k \in 1..(idx + 1), res'[k] = Space
               PROVE  k > 1 /\ res'[k - 1] # Space /\ res'[k - 1] \notin Break
    BY <1>1 DEF CanonicalTo
  <2>1. CASE k \in 1..idx
    <3>1. k > 1 /\ res[k - 1] # Space /\ res[k - 1] \notin Break
      BY <1>1, <1>2, <2>1 DEF TrimInv, Good, CanonicalTo
    <3> QED
      BY <1>1, <1>2, <2>1, <3>1 DEF Typed
  <2>2. CASE k = idx + 1
    <3>1. expect_space /\ res[i] = Space
      BY <1>1, <1>2, <2>2
    <3>2. idx > 0 /\ res[idx] # Space /\ res[idx] \notin Break
      BY <1>1, <3>1 DEF TrimInv, LastWritten, Typed
    <3> QED
      BY <1>0, <1>2, <2>2, <3>2
  <2> QED
    BY <1>0, <2>1, <2>2
<1>9. OriginTo(idx)'
  <2> SUFFICES ASSUME NEW k \in 1..(idx + 1)
               PROVE  /\ from'[k] \in 1..Len(text)
                      /\ res'[k] = text[from'[k]]
                         \/ (res'[k] = Newline /\ text[from'[k]] = Space)
    BY <1>1 DEF OriginTo
  <2>1. CASE k \in 1..idx
    BY <1>1, <1>2, <1>3, <2>1 DEF TrimInv, Good, OriginTo
  <2>2. CASE k = idx + 1
    BY <1>1, <1>2, <1>3, <2>2 DEF TrimInv, Places, UnreadIsIntact, Typed
  <2> QED
    BY <1>0, <2>1, <2>2
<1>10. OrderedTo(idx)'
  <2> SUFFICES ASSUME NEW k \in 1..idx PROVE from'[k] < from'[k + 1]
    BY <1>0, <1>1 DEF OrderedTo
  <2>1. CASE k \in 1..(idx - 1)
    BY <1>1, <1>3, <2>1 DEF TrimInv, Good, OrderedTo, Typed
  <2>2. CASE k = idx
    <3>1. from[idx] <= i - 1 /\ from[idx] \in Nat
      BY <1>1, <2>2, ElementOfSeq DEF TrimInv, Places, Typed
    <3> QED
      BY <1>1, <1>3, <2>2, <3>1 DEF Typed
  <2> QED
    BY <1>0, <2>1, <2>2
<1>11. KeptTo(i - 1, idx)'
  <2> SUFFICES ASSUME NEW p \in 1..i, text[p] \notin Blank
               PROVE  \E k \in 1..(idx + 1) : from'[k] = p
    BY <1>0, <1>1 DEF KeptTo
  <2>1. CASE p = i
    BY <1>1, <1>3, <2>1 DEF Typed
  <2>2. CASE p \in 1..(i - 1)
    <3>1. PICK k \in 1..idx : from[k] = p
      BY <1>1, <2>2 DEF TrimInv, Good, KeptTo
    <3> QED
      BY <1>1, <1>3, <3>1 DEF Typed
  <2> QED
    BY <1>0, <2>1, <2>2
<1>12. AdjacentTo(idx)'
  <2> SUFFICES ASSUME NEW k \in 1..idx, res'[k] \notin Blank, res'[k + 1] \notin Blank
               PROVE  from'[k + 1] = from'[k] + 1
    BY <1>0, <1>1 DEF AdjacentTo
  <2>1. CASE k \in 1..(idx - 1)
    BY <1>1, <1>2, <1>3, <2>1 DEF TrimInv, Good, AdjacentTo, Typed
  <2>2. CASE k = idx
    <3>1. res[idx] # Space /\ idx > 0
      BY <1>1, <1>2, <2>2 DEF Blank, Typed
    <3>2. from[idx] = i - 1
      BY <1>1, <3>1 DEF TrimInv, LastWritten
    <3> QED
      BY <1>1, <1>3, <2>2, <3>2 DEF Typed
  <2> QED
    BY <1>0, <2>1, <2>2
<1> QED
  BY <1>1, <1>4, <1>5, <1>6, <1>7, <1>8, <1>9, <1>10, <1>11, <1>12 DEF IInv, TrimInv, Good, Trimmed

\* resize drops what was not written.
LEMMA EndTrimIInv == IInv /\ EndTrim => IInv'
<1> SUFFICES ASSUME IInv, EndTrim PROVE IInv'
  OBVIOUS
<1>1. /\ pc' = "ToString" /\ Typed /\ TrimInv
      /\ i - 1 = Len(text) /\ idx \in Nat /\ idx <= Len(res) /\ Len(from) = idx
      /\ res' = SubSeq(res, 1, idx) /\ UNCHANGED <<text, i, idx, expect_space, from>>
  BY DEF IInv, EndTrim, TrimInv, Places, Typed
<1>2. /\ res' \in Seq(Char) /\ Len(res') = idx
      /\ \A k \in 1..idx : res'[k] = res[k]
  <2>1. \A k \in 1..idx : res[k] \in Char
    BY <1>1, ElementOfSeq DEF Typed
  <2> QED
    BY <1>1, <2>1, SubSeqProperties
<1>3. Typed'
  BY <1>1, <1>2 DEF Typed
<1>4. CanonicalTo(Len(res))'
  <2> SUFFICES ASSUME NEW k \in 1..idx, res[k] = Space
               PROVE  k > 1 /\ res'[k - 1] # Space /\ res'[k - 1] \notin Break
    BY <1>2 DEF CanonicalTo
  <2>1. k > 1 /\ res[k - 1] # Space /\ res[k - 1] \notin Break
    BY <1>1 DEF TrimInv, Good, CanonicalTo
  <2>2. k - 1 \in 1..idx
    BY <1>1, <2>1
  <2> QED
    BY <1>2, <2>1, <2>2
<1>5. OriginTo(Len(res))' /\ OrderedTo(Len(res))' /\ KeptTo(Len(text), Len(res))'
  BY <1>1, <1>2 DEF TrimInv, Good, OriginTo, OrderedTo, KeptTo
<1>6. AdjacentTo(Len(res))'
  <2> SUFFICES ASSUME NEW k \in 1..(idx - 1), res'[k] \notin Blank, res'[k + 1] \notin Blank
               PROVE  from[k + 1] = from[k] + 1
    BY <1>1, <1>2 DEF AdjacentTo
  <2>1. k \in 1..idx /\ k + 1 \in 1..idx
    BY <1>1
  <2> QED
    BY <1>1, <1>2, <2>1 DEF TrimInv, Good, AdjacentTo
<1> QED
  BY <1>1, <1>2, <1>3, <1>4, <1>5, <1>6 DEF IInv, TrimmedInv, Good, Trimmed

\* Cutting blanks off the ends of a trimmed text leaves a trimmed text.
LEMMA CutTrimmed ==
  ASSUME Typed, TrimmedInv, NEW a \in Nat \ {0}, NEW b \in 0..Len(res),
         a = 1 \/ res[a] \notin Blank,
         a <= b + 1,
         \A k \in 1..Len(res) : k < a \/ k > b => res[k] \in Blank,
         res' = SubSeq(res, a, b), from' = SubSeq(from, a, b), text' = text
  PROVE  TrimmedInv' /\ res' \in Seq(Char) /\ from' \in Seq(Nat)
<1> DEFINE n == b - a + 1
<1>1. n \in Nat /\ Len(res) \in Nat /\ Len(from) = Len(res)
  BY DEF Typed, TrimmedInv
<1>2. /\ res' \in Seq(Char) /\ Len(res') = n
      /\ \A k \in 1..n : res'[k] = res[a + k - 1]
  <2>1. \A k \in a..b : res[k] \in Char
    <3> SUFFICES ASSUME NEW k \in a..b PROVE res[k] \in Char
      OBVIOUS
    <3>1. k \in 1..Len(res)
      BY <1>1
    <3> QED
      BY <3>1, ElementOfSeq DEF Typed
  <2> QED
    BY <1>1, <2>1, SubSeqProperties
<1>3. /\ from' \in Seq(Nat) /\ Len(from') = n
      /\ \A k \in 1..n : from'[k] = from[a + k - 1]
  <2>1. \A k \in a..b : from[k] \in Nat
    <3> SUFFICES ASSUME NEW k \in a..b PROVE from[k] \in Nat
      OBVIOUS
    <3>1. k \in 1..Len(from)
      BY <1>1
    <3> QED
      BY <3>1, ElementOfSeq DEF Typed
  <2> QED
    BY <1>1, <2>1, SubSeqProperties
<1> HIDE DEF n
<1>4. \A k \in 1..n : a + k - 1 \in 1..Len(res)
  BY <1>1 DEF n
<1>5. \A k \in 1..(n - 1) : /\ k \in 1..n /\ k + 1 \in 1..n
                            /\ a + k - 1 \in 1..(Len(res) - 1)
                            /\ a + (k + 1) - 1 = (a + k - 1) + 1
  BY <1>1 DEF n
<1>6. CanonicalTo(Len(res))'
  <2> SUFFICES ASSUME NEW k \in 1..n, res[a + k - 1] = Space
               PROVE  k > 1 /\ res'[k - 1] # Space /\ res'[k - 1] \notin Break
    BY <1>2 DEF CanonicalTo
  <2>1. a + k - 1 > 1 /\ res[(a + k - 1) - 1] # Space /\ res[(a + k - 1) - 1] \notin Break
    BY <1>4 DEF TrimmedInv, Good, CanonicalTo
  <2>2. k # 1
    BY <2>1 DEF Blank
  <2>3. k - 1 \in 1..n /\ a + (k - 1) - 1 = (a + k - 1) - 1 /\ k > 1
    BY <1>1, <2>2
  <2> QED
    BY <1>2, <2>1, <2>3
<1>7. OriginTo(Len(res))'
  BY <1>2, <1>3, <1>4 DEF TrimmedInv, Good, OriginTo
<1>8. OrderedTo(Len(res))'
  BY <1>2, <1>3, <1>5 DEF TrimmedInv, Good, OrderedTo
<1>9. KeptTo(Len(text), Len(res))'
  <2> SUFFICES ASSUME NEW p \in 1..Len(text), text[p] \notin Blank
               PROVE  \E k \in 1..n : from'[k] = p
    BY <1>2 DEF KeptTo
  <2>1. PICK k \in 1..Len(res) : from[k] = p
    BY DEF TrimmedInv, Good, KeptTo
  <2>2. res[k] \notin Blank
    BY <2>1 DEF TrimmedInv, Good, OriginTo, Blank
  <2>3. k - a + 1 \in 1..n /\ a + (k - a + 1) - 1 = k
    BY <1>1, <2>1, <2>2 DEF n
  <2> QED
    BY <1>3, <2>1, <2>3
<1>10. AdjacentTo(Len(res))'
  <2> SUFFICES ASSUME NEW k \in 1..(n - 1), res'[k] \notin Blank, res'[k + 1] \notin Blank
               PROVE  from'[k + 1] = from'[k] + 1
    BY <1>2 DEF AdjacentTo
  <2>1. res[a + k - 1] \notin Blank /\ res[(a + k - 1) + 1] \notin Blank
    BY <1>2, <1>5
  <2>2. from[(a + k - 1) + 1] = from[a + k - 1] + 1
    BY <1>5, <2>1 DEF TrimmedInv, Good, AdjacentTo
  <2> QED
    BY <1>3, <1>5, <2>2
<1> QED
  BY <1>2, <1>3, <1>6, <1>7, <1>8, <1>9, <1>10 DEF TrimmedInv, Good

\* strip_string looks for the last character from the end.
LEMMA StripIInv == IInv /\ (StartStrip \/ StripBlank \/ EndStrip) => IInv'
<1> SUFFICES ASSUME IInv, StartStrip \/ StripBlank \/ EndStrip PROVE IInv'
  OBVIOUS
<1>1. Typed /\ TrimmedInv
  BY DEF IInv, Trimmed, StartStrip, StripBlank, EndStrip
<1>2. CASE StartStrip
  <2>1. Typed' /\ TrimmedInv'
    BY <1>1, <1>2 DEF StartStrip, Typed, TrimmedInv, Good, CanonicalTo, OriginTo, OrderedTo,
       KeptTo, AdjacentTo
  <2>2. StripInv' /\ pc' = "strip"
    BY <1>1, <1>2 DEF StartStrip, StripInv, Typed
  <2> QED
    BY <2>1, <2>2 DEF IInv
<1>3. CASE StripBlank
  <2>1. Typed' /\ TrimmedInv'
    BY <1>1, <1>3 DEF StripBlank, Typed, TrimmedInv, Good, CanonicalTo, OriginTo, OrderedTo,
       KeptTo, AdjacentTo
  <2>2. StripInv' /\ pc' = "strip"
    BY <1>1, <1>3 DEF StripBlank, IInv, StripInv, Typed
  <2> QED
    BY <2>1, <2>2 DEF IInv
<1>4. CASE EndStrip
  <2>1. /\ StripInv /\ idx \in 0..Len(res) /\ pc' = "stripped"
        /\ res' = SubSeq(res, 1, idx) /\ from' = SubSeq(from, 1, idx)
        /\ UNCHANGED <<text, i, idx, expect_space>>
    BY <1>1, <1>4 DEF EndStrip, StrippedTo, IInv, StripInv, Typed
  <2>2. \A k \in 1..Len(res) : k < 1 \/ k > idx => res[k] \in Blank
    BY <1>1, <2>1 DEF StripInv, Typed
  <2>3. TrimmedInv' /\ res' \in Seq(Char) /\ from' \in Seq(Nat)
    BY <1>1, <2>1, <2>2, CutTrimmed
  <2> QED
    BY <1>1, <2>1, <2>3 DEF IInv, Typed
<1> QED
  BY <1>2, <1>3, <1>4

\* Trim cuts at both ends.
LEMMA TrimIInv == IInv /\ Trim => IInv'
<1> SUFFICES ASSUME IInv, Trim PROVE IInv'
  OBVIOUS
<1>1. /\ Typed /\ TrimmedInv /\ pc' = "stripped" /\ UNCHANGED <<text, i, idx, expect_space>>
  BY DEF IInv, Trimmed, Trim
<1>2. PICK first \in 1..(Len(res) + 1), last \in 0..Len(res) :
        /\ \A k \in (last + 1)..Len(res) : res[k] \in Blank
        /\ \A k \in 1..(first - 1) : k <= last => res[k] \in Blank
        /\ IF last = 0 THEN first = 1 ELSE first <= last /\ res[first] \notin Blank
        /\ res' = SubSeq(res, first, last)
        /\ from' = SubSeq(from, first, last)
  BY DEF Trim
<1>3. Len(res) \in Nat
  BY <1>1 DEF Typed
<1>4. first \in Nat \ {0} /\ first <= last + 1 /\ (first = 1 \/ res[first] \notin Blank)
  BY <1>2, <1>3
<1>5. \A k \in 1..Len(res) : k < first \/ k > last => res[k] \in Blank
  BY <1>2, <1>3
<1>6. TrimmedInv' /\ res' \in Seq(Char) /\ from' \in Seq(Nat)
  BY <1>1, <1>2, <1>4, <1>5, CutTrimmed
<1> QED
  BY <1>1, <1>6 DEF IInv, Typed

\* Every step of trim_string, strip_string and Trim keeps the invariant.
LEMMA NextIInv == IInv /\ [Next]_vars => IInv'
<1> SUFFICES ASSUME IInv, [Next]_vars PROVE IInv'
  OBVIOUS
<1>1. CASE UNCHANGED vars
  BY <1>1 DEF vars, IInv, Typed, TrimInv, Places, LastWritten, UnreadIsIntact, Trimmed, TrimmedInv,
     StripInv, Good, CanonicalTo, OriginTo, OrderedTo, KeptTo, AdjacentTo
<1>2. CASE Next
  BY <1>2, SkipSpaceIInv, WriteCharacterIInv, EndTrimIInv, StripIInv, TrimIInv DEF Next
<1> QED
  BY <1>1, <1>2

-----------------------------------------------------------------------------
(***************************************************************************)
(* The inductive invariant of ToString and of the stripping of names.      *)
(***************************************************************************)
THEOREM TrimmingInvariant == Spec => []IInv
BY InitIInv, NextIInv, PTL DEF Spec

(***************************************************************************)
(* trim_string, which works in place, never writes on what it has still to *)
(* read but for the blanks it turns into ends of lines.                    *)
(***************************************************************************)
THEOREM TrimmingReadsTheText == Spec => []UnreadIsIntact
<1>1. IInv => UnreadIsIntact
  BY DEF IInv, TrimInv, UnreadIsIntact
<1> QED
  BY <1>1, TrimmingInvariant, PTL

(***************************************************************************)
(* What ToString returns has no blank that trim_string would still drop or *)
(* replace.                                                                *)
(***************************************************************************)
THEOREM TrimmingIsCanonical == Spec => []TextIsCanonical
<1>1. IInv => TextIsCanonical
  BY DEF IInv, TrimmedInv, Good, CanonicalTo, TextIsCanonical
<1> QED
  BY <1>1, TrimmingInvariant, PTL

(***************************************************************************)
(* Every character of a token of the program is in the text that ToString  *)
(* returns, in order, with no two tokens glued together.                   *)
(***************************************************************************)
THEOREM TrimmingKeepsTokens == Spec => []TokensSurvive
<1>1. ASSUME IInv PROVE TokensSurvive
  <2> SUFFICES ASSUME Trimmed PROVE TokensSurvive
    BY DEF TokensSurvive
  <2>1. TrimmedInv
    BY <1>1 DEF IInv
  <2> QED
    BY <2>1 DEF TrimmedInv, Good, OriginTo, OrderedTo, KeptTo, AdjacentTo, TokensSurvive
<1> QED
  BY <1>1, TrimmingInvariant, PTL

-----------------------------------------------------------------------------
(***************************************************************************)
(* Names.  A blank that was turned into the end of a line follows the end  *)
(* of a statement, so it is never the first character: strip_string, which *)
(* cuts only at the end, may be used for names as well as Trim.            *)
(***************************************************************************)
NewLine(k) == res[k] = Newline /\ text[k] = Space

LinesInv ==
  /\ pc = "trim" => \A k \in i..Len(res) : NewLine(k) => k = i /\ idx > 0
  /\ (IF pc = "trim" THEN idx > 0 ELSE Len(res) > 0) /\ res[1] = Newline =>
       text[from[1]] # Space
  /\ pc = "stripped" /\ Len(res) > 0 => res[Len(res)] \notin Blank

LEMMA InitLinesInv == Init => LinesInv
<1> SUFFICES ASSUME Init PROVE LinesInv
  OBVIOUS
<1>1. \A k : ~NewLine(k)
  BY CharAssumption DEF Init, NewLine, CharAssumption
<1> QED
  BY <1>1 DEF Init, LinesInv

LEMMA ReadingLines ==
  ASSUME IInv, LinesInv, SkipSpace \/ WriteCharacter
  PROVE  LinesInv'
<1>1. CASE SkipSpace
  <2>1. /\ pc = "trim" /\ pc' = "trim" /\ Typed /\ i \in 1..Len(res) /\ i' = i + 1
        /\ res[i] = Space /\ UNCHANGED <<text, idx, from>>
    BY <1>1 DEF IInv, SkipSpace, Trimming, TrimInv, Places, Typed
  <2>2. res' = res
    BY <1>1, <2>1, CharAssumption DEF SkipSpace, BreakLine, CharAssumption, Blank
  <2>3. \A k \in i'..Len(res) : k \in i..Len(res) /\ k # i
    BY <2>1 DEF Typed
  <2>4. \A k \in i'..Len(res) : ~NewLine(k)
    BY <2>1, <2>3 DEF LinesInv
  <2>5. \A k \in i'..Len(res') : ~NewLine(k)'
    BY <2>1, <2>2, <2>4 DEF NewLine
  <2> QED
    BY <2>1, <2>2, <2>5 DEF LinesInv
<1>2. CASE WriteCharacter
  <2>1. /\ pc = "trim" /\ pc' = "trim" /\ Typed /\ TrimInv /\ i \in 1..Len(res)
        /\ i' = i + 1 /\ idx' = idx + 1 /\ idx <= i - 1 /\ Len(from) = idx
        /\ res' = Write /\ from' = Append(from, i) /\ text' = text
        /\ i \in Nat /\ idx \in Nat /\ Len(res) \in Nat
    BY <1>2 DEF IInv, WriteCharacter, Trimming, TrimInv, Places, Typed
  <2>2. /\ Len(res') = Len(res)
        /\ \A k \in 1..idx : res'[k] = res[k]
        /\ res'[idx + 1] = res[i]
        /\ \A k \in (i + 1)..Len(res) :
             res'[k] = res[k] \/ (k = i + 1 /\ res[k] = Space /\ res'[k] = Newline)
    <3>1. idx + 1 \in 1..Len(res) /\ res[i] \in Char
      BY <2>1, ElementOfSeq DEF Typed
    <3>2. \A k \in 1..Len(res) : Write[k] = IF k = idx + 1 THEN res[i] ELSE BreakLine[k]
      <4> HIDE DEF BreakLine
      <4> QED
        BY <2>1, <3>1, BreakLineEffect, ExceptSeq DEF Write
    <3>3. \A k \in (i + 1)..Len(res) : k \in 1..Len(res) /\ k # idx + 1
      BY <2>1
    <3>4. \A k \in (i + 1)..Len(res) : Write[k] = BreakLine[k]
      BY <3>2, <3>3
    <3>5. \A k \in (i + 1)..Len(res) :
            res'[k] = res[k] \/ (k = i + 1 /\ res[k] = Space /\ res'[k] = Newline)
      BY <2>1, <3>3, <3>4, BreakLineEffect
    <3> QED
      BY <2>1, <3>5, WriteEffect
  <2>3. ASSUME NEW k \in i'..Len(res'), NewLine(k)' PROVE k = i' /\ idx' > 0
    <3>1. k \in (i + 1)..Len(res) /\ k \in i..Len(res) /\ k # i
      BY <2>1, <2>2
    <3>2. ~NewLine(k)
      BY <2>1, <3>1 DEF LinesInv
    <3>3. res'[k] # res[k]
      BY <2>1, <2>3, <3>2 DEF NewLine
    <3> QED
      BY <2>1, <2>2, <3>1, <3>3
  <2>4. ASSUME res'[1] = Newline PROVE text'[from'[1]] # Space
    <3>0. Len(from') = idx + 1 /\ \A k \in 1..idx : from'[k] = from[k]
      BY <2>1, AppendProperties DEF Typed
    <3>1. from'[idx + 1] = i
      BY <2>1, AppendProperties DEF Typed
    <3>2. CASE idx = 0
      <4>1. res[i] = Newline /\ from'[1] = i
        BY <2>2, <2>4, <3>1, <3>2
      <4>2. i \in i..Len(res)
        BY <2>1
      <4>3. ~NewLine(i)
        BY <2>1, <3>2, <4>2 DEF LinesInv
      <4> QED
        BY <2>1, <4>1, <4>3 DEF NewLine
    <3>3. CASE idx # 0
      <4>1. 1 \in 1..idx /\ idx > 0
        BY <2>1, <3>3
      <4>2. res[1] = Newline /\ from'[1] = from[1]
        BY <2>2, <2>4, <3>0, <4>1
      <4> QED
        BY <2>1, <4>1, <4>2 DEF LinesInv
    <3> QED
      BY <3>2, <3>3
  <2> QED
    BY <2>1, <2>3, <2>4 DEF LinesInv
<1> QED
  BY <1>1, <1>2

LEMMA StrippingLines ==
  ASSUME IInv, LinesInv, EndTrim \/ StartStrip \/ StripBlank \/ EndStrip \/ Trim
  PROVE  LinesInv'
<1>1. CASE EndTrim
  <2>1. /\ pc = "trim" /\ pc' = "ToString" /\ Typed /\ idx \in Nat /\ idx <= Len(res)
        /\ res' = SubSeq(res, 1, idx) /\ UNCHANGED <<text, from>>
    BY <1>1 DEF IInv, EndTrim, TrimInv, Places, Typed
  <2>2. Len(res') = idx /\ \A k \in 1..idx : res'[k] = res[k]
    <3>1. \A k \in 1..idx : res[k] \in Char
      BY <2>1, ElementOfSeq DEF Typed
    <3> QED
      BY <2>1, <3>1, SubSeqProperties
  <2> QED
    BY <2>1, <2>2 DEF LinesInv
<1>2. CASE StartStrip \/ StripBlank
  BY <1>2 DEF StartStrip, StripBlank, LinesInv
<1>3. ASSUME NEW a \in Nat \ {0}, NEW b \in 0..Len(res), a <= b + 1, Typed, TrimmedInv,
             res' = SubSeq(res, a, b), from' = SubSeq(from, a, b), text' = text,
             pc # "trim", pc' = "stripped", a = 1 \/ res[a] \notin Blank,
             b > 0 => res[b] \notin Blank
      PROVE  LinesInv'
  <2> DEFINE n == b - a + 1
  <2>1. n \in Nat /\ Len(res) \in Nat /\ Len(from) = Len(res)
    BY <1>3 DEF Typed, TrimmedInv
  <2>2. \A k \in a..b : k \in 1..Len(res) /\ k \in 1..Len(from)
    BY <2>1
  <2>3. Len(res') = n /\ \A k \in 1..n : res'[k] = res[a + k - 1]
    <3>1. \A k \in a..b : res[k] \in Char
      BY <1>3, <2>2, ElementOfSeq DEF Typed
    <3> QED
      BY <1>3, <2>1, <3>1, SubSeqProperties
  <2>4. \A k \in 1..n : from'[k] = from[a + k - 1]
    <3>1. \A k \in a..b : from[k] \in Nat
      BY <1>3, <2>2, ElementOfSeq DEF Typed
    <3> QED
      BY <1>3, <2>1, <3>1, SubSeqProperties
  <2>5. ASSUME n > 0
        PROVE  /\ res'[n] \notin Blank
               /\ res'[1] = res[a] /\ from'[1] = from[a] /\ Len(res) > 0
    <3>1. 1 \in 1..n /\ n \in 1..n /\ a + 1 - 1 = a /\ a + n - 1 = b /\ b > 0
      BY <2>1, <2>5
    <3> QED
      BY <1>3, <2>1, <2>3, <2>4, <3>1
  <2>6. ASSUME n > 0, res'[1] = Newline PROVE text'[from'[1]] # Space
    <3>1. a = 1
      BY <1>3, <2>5, <2>6 DEF Blank
    <3> QED
      BY <1>3, <2>5, <2>6, <3>1 DEF LinesInv
  <2> HIDE DEF n
  <2> QED
    BY <1>3, <2>3, <2>5, <2>6 DEF LinesInv
<1>4. CASE EndStrip
  <2>1. /\ Typed /\ TrimmedInv /\ StripInv /\ idx \in 0..Len(res) /\ pc = "strip"
        /\ pc' = "stripped" /\ text' = text
        /\ res' = SubSeq(res, 1, idx) /\ from' = SubSeq(from, 1, idx)
        /\ idx > 0 => res[idx] \notin Blank
    BY <1>4 DEF EndStrip, StrippedTo, IInv, StripInv, Typed, Trimmed
  <2> QED
    BY <2>1, <1>3
<1>5. CASE Trim
  <2>1. Typed /\ TrimmedInv /\ pc = "ToString" /\ pc' = "stripped" /\ text' = text
    BY <1>5 DEF IInv, Trimmed, Trim
  <2>2. PICK first \in 1..(Len(res) + 1), last \in 0..Len(res) :
          /\ last > 0 => res[last] \notin Blank
          /\ IF last = 0 THEN first = 1 ELSE first <= last /\ res[first] \notin Blank
          /\ res' = SubSeq(res, first, last)
          /\ from' = SubSeq(from, first, last)
    BY <1>5 DEF Trim
  <2>3. Len(res) \in Nat
    BY <2>1 DEF Typed
  <2>4. first \in Nat \ {0} /\ first <= last + 1 /\ (first = 1 \/ res[first] \notin Blank)
    BY <2>2, <2>3
  <2> QED
    BY <1>3, <2>1, <2>2, <2>4
<1> QED
  BY <1>1, <1>2, <1>4, <1>5

(***************************************************************************)
(* Increasing numbers, by the least counterexample.                        *)
(***************************************************************************)
LEMMA LeastElement ==
  ASSUME NEW T, T \subseteq Nat, T # {}
  PROVE  \E x \in T : \A y \in T : x <= y
<1>1. PICK x \in T : \A y \in T : ~(<<y, x>> \in OpToRel(<, Nat))
  BY NatLessThanWellFounded, WFMin
<1>2. ASSUME NEW y \in T PROVE x <= y
  <2>1. ~(<<y, x>> \in OpToRel(<, Nat))
    BY <1>1
  <2>2. ~(y < x)
    BY <2>1 DEF OpToRel
  <2> QED
    BY <2>2
<1> QED
  BY <1>2

LEMMA IncreasingIsMonotone ==
  ASSUME NEW n \in Nat, NEW f \in [1..n -> Nat], \A k \in 1..(n - 1) : f[k] < f[k + 1],
         NEW j \in 1..n, NEW k \in 1..n, j <= k
  PROVE  f[j] <= f[k]
<1> DEFINE Bad == {l \in j..n : ~(f[j] <= f[l])}
<1>1. Bad \subseteq Nat
  OBVIOUS
<1>2. Bad = {}
  <2> SUFFICES ASSUME Bad # {} PROVE FALSE
    OBVIOUS
  <2>1. PICK l \in Bad : \A y \in Bad : l <= y
    <3> HIDE DEF Bad
    <3> QED
      BY <1>1, LeastElement
  <2>2. l \in j..n /\ ~(f[j] <= f[l])
    BY <2>1
  <2>3. l # j
    BY <2>2
  <2>4. l - 1 \in j..n /\ l - 1 \in 1..(n - 1) /\ (l - 1) + 1 = l /\ ~(l <= l - 1)
    BY <2>2, <2>3
  <2>5. l - 1 \notin Bad
    <3> HIDE DEF Bad
    <3> QED
      BY <2>1, <2>4
  <2>6. f[j] <= f[l - 1] /\ f[l - 1] < f[l]
    BY <2>4, <2>5
  <2>7. f[j] \in Nat /\ f[l - 1] \in Nat /\ f[l] \in Nat
    BY <2>2, <2>4
  <2> QED
    BY <2>2, <2>6, <2>7
<1>3. k \in j..n
  OBVIOUS
<1> QED
  BY <1>2, <1>3

LEMMA StepsOfOne ==
  ASSUME NEW n \in Nat, NEW f \in [1..n -> Nat], \A k \in 1..(n - 1) : f[k + 1] = f[k] + 1,
         NEW k \in 1..n
  PROVE  f[k] = f[1] + k - 1
<1> DEFINE Bad == {l \in 1..n : f[l] # f[1] + l - 1}
<1>1. Bad \subseteq Nat
  OBVIOUS
<1>0. f[1] \in Nat
  OBVIOUS
<1>2. Bad = {}
  <2> SUFFICES ASSUME Bad # {} PROVE FALSE
    OBVIOUS
  <2>1. PICK l \in Bad : \A y \in Bad : l <= y
    <3> HIDE DEF Bad
    <3> QED
      BY <1>1, LeastElement
  <2>2. l \in 1..n /\ f[l] # f[1] + l - 1
    BY <2>1
  <2>3. l # 1
    BY <1>0, <2>2
  <2>4. l - 1 \in 1..n /\ l - 1 \in 1..(n - 1) /\ (l - 1) + 1 = l /\ ~(l <= l - 1)
    BY <2>2, <2>3
  <2>5. l - 1 \notin Bad
    <3> HIDE DEF Bad
    <3> QED
      BY <2>1, <2>4
  <2>6. f[l - 1] = f[1] + (l - 1) - 1 /\ f[l] = f[l - 1] + 1
    BY <2>4, <2>5
  <2>7. f[l] = (f[1] + (l - 1) - 1) + 1
    BY <2>6
  <2>8. PICK c \in Nat : c = f[1]
    BY <1>0
  <2>9. (c + (l - 1) - 1) + 1 = c + l - 1
    BY <2>2
  <2> QED
    BY <2>2, <2>7, <2>8, <2>9
<1> QED
  BY <1>2

\* A name between blanks is what is left of the text.
LEMMA NameComesOut ==
  ASSUME IInv, LinesInv, pc = "stripped", NEW p \in 1..Len(text), NEW q \in 1..Len(text),
         \A k \in 1..Len(text) : k < p \/ k > q => text[k] = Space,
         \A k \in p..q : text[k] \notin Blank,
         p <= q
  PROVE  Len(res) = q - p + 1 /\ \A k \in 1..Len(res) : res[k] = text[p + k - 1]
<1> DEFINE n == Len(res)
<1>1. /\ n \in Nat /\ Len(text) \in Nat /\ Len(from) = n /\ from \in [1..n -> Nat]
      /\ Good(Len(text), n) /\ p \in Nat /\ q \in Nat
  BY DEF IInv, Typed, Trimmed, TrimmedInv
<1> HIDE DEF n
<1>2. ASSUME NEW k \in 1..n, res[k] \notin Blank PROVE from[k] \in p..q /\ res[k] = text[from[k]]
  <2>1. from[k] \in 1..Len(text) /\ res[k] = text[from[k]]
    BY <1>1, <1>2 DEF Good, OriginTo, Blank
  <2>2. text[from[k]] # Space
    BY <1>2, <2>1 DEF Blank
  <2> QED
    BY <1>1, <2>1, <2>2
<1>3. ASSUME NEW k \in 1..n, from[k] \in p..q PROVE res[k] \notin Blank
  <2>1. text[from[k]] \notin Blank
    BY <1>3
  <2> QED
    BY <1>1, <2>1 DEF Good, OriginTo, Blank
<1>4. PICK kp \in 1..n : from[kp] = p
  BY <1>1 DEF Good, KeptTo
<1>5. PICK kq \in 1..n : from[kq] = q
  BY <1>1 DEF Good, KeptTo
<1>6. n > 0 /\ 1 \in 1..n /\ n \in 1..n
  BY <1>1, <1>4
<1>7. res[n] \notin Blank
  BY <1>6 DEF LinesInv, n
<1>8. res[1] \notin Blank
  <2>1. res[1] # Space
    BY <1>1, <1>6 DEF Good, CanonicalTo
  <2>2. res[1] # Newline
    <3> SUFFICES ASSUME res[1] = Newline PROVE FALSE
      OBVIOUS
    <3>1. text[from[1]] # Space
      BY <1>6 DEF LinesInv, n
    <3>2. from[1] \in 1..Len(text) /\ text[from[1]] = Newline
      BY <1>1, <1>6, <3>1 DEF Good, OriginTo
    <3>3. from[1] \in p..q
      BY <1>1, <3>1, <3>2
    <3> QED
      BY <3>2, <3>3 DEF Blank
  <2> QED
    BY <2>1, <2>2 DEF Blank
<1>9. \A k \in 1..(n - 1) : from[k] < from[k + 1]
  BY <1>1 DEF Good, OrderedTo
<1>10. ASSUME NEW k \in 1..n PROVE from[1] <= from[k] /\ from[k] <= from[n]
  <2>1. 1 <= k /\ k <= n
    BY <1>1
  <2>2. from[1] <= from[k]
    BY <1>1, <1>6, <1>9, <2>1, IncreasingIsMonotone
  <2>3. from[k] <= from[n]
    BY <1>1, <1>6, <1>9, <2>1, IncreasingIsMonotone
  <2> QED
    BY <2>2, <2>3
<1>11. from[1] \in p..q /\ from[n] \in p..q
  BY <1>2, <1>6, <1>7, <1>8
<1>12. from[1] = p /\ from[n] = q
  BY <1>1, <1>4, <1>5, <1>10, <1>11
<1>13. \A k \in 1..n : from[k] \in p..q
  BY <1>1, <1>10, <1>12
<1>14. \A k \in 1..n : res[k] \notin Blank /\ res[k] = text[from[k]]
  BY <1>2, <1>3, <1>13
<1>15. \A k \in 1..(n - 1) : from[k + 1] = from[k] + 1
  BY <1>1, <1>14 DEF Good, AdjacentTo
<1>16. \A k \in 1..n : from[k] = p + k - 1
  BY <1>1, <1>12, <1>15, StepsOfOne
<1>17. n = q - p + 1
  BY <1>1, <1>6, <1>12, <1>16
<1> QED
  BY <1>14, <1>16, <1>17 DEF n

(***************************************************************************)
(* strip_string and Trim give the same text for the same name, however     *)
(* many blanks ToStringImpl put around it.                                 *)
(***************************************************************************)
THEOREM TrimmingOfNames == Spec => []NamesComeOutAlike
<1>1. LinesInv /\ IInv /\ [Next]_vars => LinesInv'
  <2> SUFFICES ASSUME LinesInv, IInv, [Next]_vars PROVE LinesInv'
    OBVIOUS
  <2>1. CASE UNCHANGED vars
    BY <2>1 DEF vars, LinesInv, NewLine
  <2>2. CASE Next
    BY <2>2, ReadingLines, StrippingLines DEF Next
  <2> QED
    BY <2>1, <2>2
<1>2. LinesInv /\ IInv => NamesComeOutAlike
  BY NameComesOut DEF NamesComeOutAlike
<1> QED
  BY <1>1, <1>2, InitLinesInv, TrimmingInvariant, PTL DEF Spec

=============================================================================
