------------------------- MODULE FuzzSessionProofs -------------------------
(***************************************************************************)
(* Proofs about Configuration and FuzzSession, for every set of files, of  *)
(* test cases and of corpus files, and for mutant lists of any length.     *)
(*                                                                         *)
(* The first part is induction over the naturals for sets and, from it,    *)
(* that a function with a recurrence over 0..n exists: the loop of         *)
(* PolyGlotMutator::Mutate is such a function (Kept).                      *)
(***************************************************************************)
EXTENDS FuzzSession, SequenceTheorems, WellFoundedInduction, TLAPS

\* A set of naturals that is not empty has a least element.
LEMMA LeastElement ==
  ASSUME NEW T, T \subseteq Nat, T # {}
  PROVE  \E x \in T : \A y \in T : x <= y
<1>1. PICK x \in T : \A y \in T : ~ (<<y, x>> \in OpToRel(<, Nat))
  BY NatLessThanWellFounded, WFMin
<1>2. ASSUME NEW y \in T PROVE x <= y
  <2>1. ~ (<<y, x>> \in OpToRel(<, Nat))
    BY <1>1
  <2>2. ~ (y < x)
    BY <2>1 DEF OpToRel
  <2> QED
    BY <2>2
<1> QED
  BY <1>2

\* Induction, for the members of a set.
LEMMA NatSetInduction ==
  ASSUME NEW S, 0 \in S, \A n \in Nat : n \in S => n + 1 \in S
  PROVE  Nat \subseteq S
<1> SUFFICES ASSUME Nat \ S # {} PROVE FALSE
  OBVIOUS
<1>1. PICK x \in Nat \ S : \A y \in Nat \ S : x <= y
  BY LeastElement
<1>2. x # 0 /\ x - 1 \in Nat /\ x - 1 \in S
  BY <1>1
<1> QED
  BY <1>1, <1>2

\* f starts at c and takes step D[i] to f[i].
Recurrence(f, n, c, D) == f[0] = c /\ \A i \in 1..n : f[i] = D[i][f[i - 1]]

\* There is a function with any given start and steps.
LEMMA FiniteRecursion ==
  ASSUME NEW S, NEW n \in Nat, NEW c \in S, NEW D \in [1..n -> [S -> S]]
  PROVE  \E f \in [0..n -> S] : Recurrence(f, n, c, D)
<1> DEFINE Good == {k \in Nat : k <= n => \E f \in [0..k -> S] : Recurrence(f, k, c, D)}
<1>1. 0 \in Good
  <2>1. [i \in 0..0 |-> c] \in [0..0 -> S] /\ Recurrence([i \in 0..0 |-> c], 0, c, D)
    BY DEF Recurrence
  <2> QED
    BY <2>1
<1>2. ASSUME NEW k \in Nat, k \in Good PROVE k + 1 \in Good
  <2> SUFFICES ASSUME k + 1 <= n
               PROVE  \E f \in [0..(k + 1) -> S] : Recurrence(f, k + 1, c, D)
    OBVIOUS
  <2>1. PICK f \in [0..k -> S] : Recurrence(f, k, c, D)
    BY <1>2
  <2> DEFINE g == [i \in 0..(k + 1) |-> IF i = k + 1 THEN D[k + 1][f[k]] ELSE f[i]]
  <2>2. g \in [0..(k + 1) -> S]
    OBVIOUS
  <2>3. g[0] = c
    BY <2>1 DEF Recurrence
  <2>4. ASSUME NEW i \in 1..(k + 1) PROVE g[i] = D[i][g[i - 1]]
    <3>1. CASE i = k + 1
      BY <3>1
    <3>2. CASE i # k + 1
      <4>1. i \in 1..k /\ i - 1 \in 0..(k + 1) /\ i - 1 # k + 1
        BY <3>2
      <4> QED
        BY <4>1, <2>1 DEF Recurrence
    <3> QED
      BY <3>1, <3>2
  <2> QED
    BY <2>2, <2>3, <2>4 DEF Recurrence
<1>3. n \in Good
  <2> HIDE DEF Good
  <2> QED
    BY <1>1, <1>2, NatSetInduction
<1> QED
  BY <1>3

-----------------------------------------------------------------------------
\* What is saved of a mutant is a test case.
LEMMA SavedType == \A t \in Text : Saved(t) \in Text
BY SessionAssumption DEF SessionAssumption, Saved

\* The loop of Mutate yields a list of test cases.
LEMMA KeptType ==
  ASSUME NEW m \in Seq(Text)
  PROVE  Kept(m) \in Seq(Text)
<1> DEFINE Def(f) == [n \in 0..Len(m) |->
                        IF n = 0 THEN <<>>
                        ELSE IF Keeps(m[n]) THEN Append(f[n - 1], Saved(m[n]))
                        ELSE f[n - 1]]
<1> DEFINE kept == CHOOSE f : f = Def(f)
<1> DEFINE D == [i \in 1..Len(m) |->
                   [x \in Seq(Text) |-> IF Keeps(m[i]) THEN Append(x, Saved(m[i])) ELSE x]]
<1>1. Len(m) \in Nat /\ \A i \in 1..Len(m) : m[i] \in Text /\ Saved(m[i]) \in Text
  BY SavedType
<1>2. PICK f \in [0..Len(m) -> Seq(Text)] : Recurrence(f, Len(m), <<>>, D)
  <2>1. D \in [1..Len(m) -> [Seq(Text) -> Seq(Text)]]
    BY <1>1
  <2>2. <<>> \in Seq(Text)
    OBVIOUS
  <2> HIDE DEF D
  <2> QED
    BY <2>1, <2>2, <1>1, FiniteRecursion
<1>3. f = Def(f)
  <2>1. ASSUME NEW i \in 1..Len(m) PROVE f[i] = Def(f)[i]
    <3>1. f[i] = D[i][f[i - 1]]
      <4> HIDE DEF D
      <4> QED
        BY <1>2 DEF Recurrence
    <3>2. i - 1 \in 0..Len(m) /\ i # 0 /\ i \in 0..Len(m)
      BY <1>1
    <3>3. f[i - 1] \in Seq(Text)
      BY <3>2
    <3> QED
      BY <3>1, <3>2, <3>3
  <2>2. f[0] = Def(f)[0]
    BY <1>2 DEF Recurrence
  <2>3. Def(f) = [i \in 0..Len(m) |-> Def(f)[i]]
    OBVIOUS
  <2> HIDE DEF Def
  <2>4. ASSUME NEW i \in 0..Len(m) PROVE f[i] = Def(f)[i]
    BY <2>1, <2>2, <1>1
  <2> QED
    BY <2>3, <2>4
<1>4. kept = Def(kept)
  <2> HIDE DEF Def
  <2> QED
    BY <1>3
<1> DEFINE Good == {k \in Nat : k <= Len(m) => kept[k] \in Seq(Text)}
<1>5. Kept(m) = kept[Len(m)]
  BY DEF Kept
<1> HIDE DEF kept
<1>6. 0 \in Good
  BY <1>4
<1>7. ASSUME NEW k \in Nat, k \in Good PROVE k + 1 \in Good
  <2> SUFFICES ASSUME k + 1 <= Len(m) PROVE kept[k + 1] \in Seq(Text)
    OBVIOUS
  <2>1. kept[k + 1] = IF Keeps(m[k + 1]) THEN Append(kept[k], Saved(m[k + 1])) ELSE kept[k]
    <3>1. k + 1 \in 0..Len(m) /\ k + 1 # 0 /\ (k + 1) - 1 = k
      BY <1>1
    <3> QED
      BY <1>4, <3>1
  <2>2. kept[k] \in Seq(Text)
    BY <1>7, <1>1
  <2>3. Saved(m[k + 1]) \in Text
    BY <1>1
  <2> QED
    BY <2>1, <2>2, <2>3
<1>8. Nat \subseteq Good
  <2> HIDE DEF Good
  <2> QED
    BY <1>6, <1>7, NatSetInduction
<1> QED
  BY <1>1, <1>5, <1>8


\* What is turned round has the same length and the same elements.
LEMMA ReverseType ==
  ASSUME NEW T, NEW d \in Seq(T)
  PROVE  /\ Reverse(d) \in Seq(T)
         /\ Len(Reverse(d)) = Len(d)
         /\ \A i \in 1..Len(d) : Reverse(d)[i] = d[(Len(d) - i) + 1]
<1>1. ASSUME NEW i \in 1..Len(d) PROVE d[(Len(d) - i) + 1] \in T
  <2>1. (Len(d) - i) + 1 \in 1..Len(d)
    OBVIOUS
  <2> QED
    BY <2>1
<1> QED
  BY <1>1 DEF Reverse

\* Taking the last of s and handing it over moves the border between the two
\* halves, and nothing else.
LEMMA HandOver ==
  ASSUME NEW T, NEW s \in Seq(T), NEW d \in Seq(T), s # <<>>
  PROVE  /\ Front(s) \in Seq(T)
         /\ Len(Front(s)) = Len(s) - 1
         /\ Last(s) \in T
         /\ Front(s) \o Reverse(Append(d, Last(s))) = s \o Reverse(d)
<1> DEFINE n == Len(s)
<1> DEFINE e == Append(d, Last(s))
<1>1. n \in Nat /\ n > 0 /\ Len(d) \in Nat
  BY EmptySeq
<1>2. Last(s) \in T
  BY <1>1 DEF Last
<1>3. Front(s) \in Seq(T) /\ Len(Front(s)) = n - 1 /\ \A i \in 1..(n - 1) : Front(s)[i] = s[i]
  <2>1. /\ SubSeq(s, 1, n - 1) \in Seq(T)
        /\ Len(SubSeq(s, 1, n - 1)) = n - 1
        /\ \A i \in 1..(n - 1) : SubSeq(s, 1, n - 1)[i] = s[i]
    <3>1. n - 1 \in Int /\ \A i \in 1..(n - 1) : s[i] \in T
      BY <1>1
    <3> HIDE DEF n
    <3>2. /\ SubSeq(s, 1, n - 1) \in Seq(T)
          /\ Len(SubSeq(s, 1, n - 1)) = IF 1 <= n - 1 THEN n - 1 - 1 + 1 ELSE 0
          /\ \A i \in 1..(n - 1 - 1 + 1) : SubSeq(s, 1, n - 1)[i] = s[1 + i - 1]
      BY <3>1, SubSeqProperties
    <3> QED
      BY <1>1, <3>2
  <2> QED
    BY <2>1 DEF Front
<1>4. e \in Seq(T) /\ Len(e) = Len(d) + 1 /\ e[Len(d) + 1] = s[n]
      /\ \A i \in 1..Len(d) : e[i] = d[i]
  BY <1>2 DEF Last
<1> HIDE DEF e
<1>5. /\ Reverse(e) \in Seq(T) /\ Len(Reverse(e)) = Len(d) + 1
      /\ \A i \in 1..(Len(d) + 1) : Reverse(e)[i] = e[(Len(d) + 1 - i) + 1]
  BY <1>4, ReverseType
<1>6. /\ Reverse(d) \in Seq(T) /\ Len(Reverse(d)) = Len(d)
      /\ \A i \in 1..Len(d) : Reverse(d)[i] = d[(Len(d) - i) + 1]
  BY ReverseType
<1> DEFINE L == Front(s) \o Reverse(e)
<1> DEFINE R == s \o Reverse(d)
<1>7. /\ L \in Seq(T) /\ Len(L) = n + Len(d)
      /\ \A i \in 1..Len(L) : L[i] = IF i <= n - 1 THEN Front(s)[i] ELSE Reverse(e)[i - (n - 1)]
  <2>1. /\ L \in Seq(T) /\ Len(L) = Len(Front(s)) + Len(Reverse(e))
        /\ \A i \in 1..(Len(Front(s)) + Len(Reverse(e))) :
             L[i] = IF i <= Len(Front(s)) THEN Front(s)[i] ELSE Reverse(e)[i - Len(Front(s))]
    BY <1>3, <1>5, ConcatProperties
  <2> HIDE DEF L
  <2> QED
    BY <1>1, <1>3, <1>5, <2>1
<1>8. /\ R \in Seq(T) /\ Len(R) = n + Len(d)
      /\ \A i \in 1..Len(R) : R[i] = IF i <= n THEN s[i] ELSE Reverse(d)[i - n]
  <2>1. /\ R \in Seq(T) /\ Len(R) = Len(s) + Len(Reverse(d))
        /\ \A i \in 1..(Len(s) + Len(Reverse(d))) :
             R[i] = IF i <= Len(s) THEN s[i] ELSE Reverse(d)[i - Len(s)]
    <3>1. \A b \in Seq(T) : /\ s \o b \in Seq(T) /\ Len(s \o b) = Len(s) + Len(b)
            /\ \A i \in 1..(Len(s) + Len(b)) :
                 (s \o b)[i] = IF i <= Len(s) THEN s[i] ELSE b[i - Len(s)]
      BY ConcatProperties
    <3> QED
      BY <3>1, <1>6
  <2> HIDE DEF R
  <2> QED
    BY <1>1, <1>6, <2>1
<1> HIDE DEF L, R
<1>9. ASSUME NEW i \in 1..(n + Len(d)) PROVE L[i] = R[i]
  <2>1. CASE i <= n - 1
    <3>1. L[i] = Front(s)[i]
      BY <2>1, <1>1, <1>7
    <3>2. Front(s)[i] = s[i]
      BY <2>1, <1>1, <1>3
    <3>3. R[i] = s[i]
      BY <2>1, <1>1, <1>8
    <3> QED
      BY <3>1, <3>2, <3>3
  <2>2. CASE i = n
    <3>1. L[i] = Reverse(e)[1]
      BY <2>2, <1>1, <1>7
    <3>2. Reverse(e)[1] = e[Len(d) + 1]
      BY <1>1, <1>5
    <3> QED
      BY <2>2, <3>1, <3>2, <1>1, <1>4, <1>8
  <2>3. CASE i > n
    <3>1. L[i] = Reverse(e)[i - n + 1]
      BY <2>3, <1>1, <1>7
    <3>2. Reverse(e)[i - n + 1] = e[(Len(d) - (i - n)) + 1]
      BY <2>3, <1>1, <1>5
    <3>3. (Len(d) - (i - n)) + 1 \in 1..Len(d)
      BY <2>3, <1>1
    <3>4. R[i] = d[(Len(d) - (i - n)) + 1]
      <4>1. R[i] = Reverse(d)[i - n] /\ i - n \in 1..Len(d)
        BY <2>3, <1>1, <1>8
      <4> QED
        BY <4>1, <1>6
    <3> QED
      BY <3>1, <3>2, <3>3, <3>4, <1>4
  <2> QED
    BY <2>1, <2>2, <2>3, <1>1
<1>10. L = R
  BY <1>7, <1>8, <1>9, SeqEqual
<1> QED
  BY <1>2, <1>3, <1>10 DEF L, R, e

-----------------------------------------------------------------------------
(***************************************************************************)
(* The fields that have a value at each statement of Configuration::Init.  *)
(***************************************************************************)
ConfigurationInv ==
  /\ is_init_ => pc = "true"
  /\ pc \in {"load", "validate", "false"} => filled = {}
  /\ pc = "builtin" => filled = {"is_weak_type_", "init_dir_path_"}
  /\ pc = "syntax" =>
       filled = {"is_weak_type_", "init_dir_path_", "built_in_object_file_path_"}
  /\ pc = "types" => filled = Field \ {"basic_types_"}
  /\ pc = "true" => filled = Field

\* Configuration::Init fills the fields in order.
LEMMA ConfigurationStep == ConfigurationInv /\ [ConfigurationNext]_configuration => ConfigurationInv'
<1> SUFFICES ASSUME ConfigurationInv, [ConfigurationNext]_configuration PROVE ConfigurationInv'
  OBVIOUS
<1> USE DEF ConfigurationInv, Goto, Fill, Field
<1>1. CASE BadFile
  BY <1>1 DEF BadFile
<1>2. CASE ParserException
  BY <1>2 DEF ParserException
<1>3. CASE LoadFile
  BY <1>3 DEF LoadFile
<1>4. CASE ConfigFileInvalid
  BY <1>4 DEF ConfigFileInvalid
<1>5. CASE ReadMandatoryKeys
  BY <1>5 DEF ReadMandatoryKeys
<1>6. CASE ReadBuiltinObjFile
  BY <1>6 DEF ReadBuiltinObjFile
<1>7. CASE ReadSyntaxOnly
  BY <1>7 DEF ReadSyntaxOnly
<1>8. CASE ReadBasicTypes
  BY <1>8 DEF ReadBasicTypes
<1>9. CASE UNCHANGED configuration
  BY <1>9 DEF configuration
<1> QED
  BY <1>1, <1>2, <1>3, <1>4, <1>5, <1>6, <1>7, <1>8, <1>9 DEF ConfigurationNext

(***************************************************************************)
(* The state of a session: the lists hold test cases, what the library has *)
(* parses, and the target runs on a test case that was handed out.         *)
(***************************************************************************)
SessionTypeOK ==
  /\ mutator \in {"none", "alive", "deleted"}
  /\ ir_library_ \subseteq Parsable
  /\ save_test_cases_ \in Seq(Text)
  /\ delivered \in Seq(Text)
  /\ promised \in Seq(Text)
  /\ stage_left \in Nat
  /\ queue \subseteq Text
  /\ running => delivered # <<>>

IInv ==
  /\ ConfigurationInv
  /\ SessionTypeOK
  /\ PromiseIsKept
  /\ EachMutantOnce
  /\ BufferIsStable

\* A session that has not begun is in order.
LEMMA InitIInv == Init => IInv
<1> SUFFICES ASSUME Init PROVE IInv
  OBVIOUS
<1>1. ConfigurationInv
  BY DEF Init, InitConfiguration, ConfigurationInv
<1>2. SessionTypeOK
  BY DEF Init, SessionTypeOK
<1>3. PromiseIsKept /\ BufferIsStable
  BY DEF Init, PromiseIsKept, BufferIsStable
<1>4. EachMutantOnce
  <2>1. Reverse(<<>>) = <<>>
    BY DEF Reverse
  <2> QED
    BY <2>1 DEF Init, EachMutantOnce
<1> QED
  BY <1>1, <1>2, <1>3, <1>4 DEF IInv

\* A new stage starts with nothing left over from the last.
LEMMA NewStage ==
  ASSUME IInv, Idle
  PROVE  save_test_cases_ = <<>>
BY EmptySeq DEF IInv, SessionTypeOK, PromiseIsKept, Idle

\* Every call keeps the session in order.
LEMMA NextIInv == IInv /\ [Next]_vars => IInv'
<1> SUFFICES ASSUME IInv, [Next]_vars PROVE IInv'
  OBVIOUS
<1> USE SessionAssumption DEF SessionAssumption
<1>1. CASE InitializeConfiguration
  <2>1. ConfigurationInv'
    BY <1>1, ConfigurationStep DEF InitializeConfiguration, IInv
  <2>2. (SessionTypeOK /\ PromiseIsKept /\ EachMutantOnce /\ BufferIsStable)'
    BY <1>1 DEF InitializeConfiguration, IInv, session, afl, history, SessionTypeOK,
                PromiseIsKept, EachMutantOnce, BufferIsStable
  <2> QED
    BY <2>1, <2>2 DEF IInv
<1>2. CASE UNCHANGED configuration
  <2>0. ConfigurationInv'
    BY <1>2 DEF IInv, configuration, ConfigurationInv
  <2>1. CASE afl_custom_init
    <3>1. SessionTypeOK'
      BY <2>1 DEF afl_custom_init, IInv, SessionTypeOK, afl, history
    <3>2. (PromiseIsKept /\ EachMutantOnce /\ BufferIsStable)'
      BY <2>1 DEF afl_custom_init, IInv, PromiseIsKept, EachMutantOnce, BufferIsStable, afl, history
    <3> QED
      BY <2>0, <3>1, <3>2 DEF IInv
  <2>2. ASSUME NEW buf \in Text, FuzzCountNothing(buf) PROVE IInv'
    <3>1. save_test_cases_ = <<>>
      BY <2>2, NewStage DEF FuzzCountNothing
    <3>2. SessionTypeOK'
      BY <2>2 DEF FuzzCountNothing, Idle, IInv, SessionTypeOK
    <3>3. PromiseIsKept' /\ BufferIsStable'
      BY <2>2, <3>1 DEF FuzzCountNothing, Idle, IInv, PromiseIsKept, BufferIsStable
    <3>4. EachMutantOnce'
      BY <2>2, <3>1 DEF FuzzCountNothing, EachMutantOnce, Reverse
    <3> QED
      BY <2>0, <3>2, <3>3, <3>4 DEF IInv
  <2>3. ASSUME NEW buf \in Text, NEW mutants \in MutantLists, FuzzCount(buf, mutants) PROVE IInv'
    <3>1. Kept(mutants) \in Seq(Text)
      <4>1. mutants \in Seq(Text)
        BY SeqDef DEF MutantLists
      <4> QED
        BY <4>1, KeptType
    <3>2. save_test_cases_' = Kept(mutants)
      <4>1. save_test_cases_ = <<>>
        BY <2>3, NewStage DEF FuzzCount
      <4> QED
        BY <2>3, <3>1, <4>1 DEF FuzzCount
    <3>3. SessionTypeOK'
      BY <2>3, <3>1, <3>2 DEF FuzzCount, Idle, IInv, SessionTypeOK
    <3>4. PromiseIsKept' /\ BufferIsStable'
      BY <2>3 DEF FuzzCount, Idle, IInv, PromiseIsKept, BufferIsStable
    <3>5. EachMutantOnce'
      <4>1. Kept(mutants) \o <<>> = Kept(mutants)
        BY <3>1
      <4>2. Reverse(<<>>) = <<>>
        BY DEF Reverse
      <4> QED
        BY <2>3, <3>2, <4>1, <4>2 DEF FuzzCount, EachMutantOnce
    <3> QED
      BY <2>0, <3>3, <3>4, <3>5 DEF IInv
  <2>4. CASE afl_custom_fuzz
    <3> DEFINE s == save_test_cases_
    <3>1. s \in Seq(Text) /\ s # <<>> /\ delivered \in Seq(Text)
      BY <2>4 DEF afl_custom_fuzz, IInv, SessionTypeOK
    <3>2. /\ Front(s) \in Seq(Text) /\ Len(Front(s)) = Len(s) - 1 /\ Last(s) \in Text
          /\ Front(s) \o Reverse(Append(delivered, Last(s))) = s \o Reverse(delivered)
      BY <3>1, HandOver
    <3>3. SessionTypeOK'
      <4>1. Append(delivered, Last(s)) \in Seq(Text) /\ Append(delivered, Last(s)) # <<>>
        BY <3>1, <3>2
      <4>2. stage_left' \in Nat
        BY <2>4 DEF afl_custom_fuzz, IInv, SessionTypeOK
      <4> HIDE DEF s
      <4>3. save_test_cases_' \in Seq(Text)
        BY <2>4, <3>2 DEF afl_custom_fuzz, s
      <4>4. delivered' \in Seq(Text) /\ delivered' # <<>>
        BY <2>4, <4>1 DEF afl_custom_fuzz, s
      <4> QED
        BY <2>4, <4>2, <4>3, <4>4 DEF afl_custom_fuzz, IInv, SessionTypeOK
    <3>4. PromiseIsKept'
      BY <2>4, <3>2 DEF afl_custom_fuzz, IInv, PromiseIsKept
    <3>5. EachMutantOnce'
      BY <2>4, <3>2 DEF afl_custom_fuzz, IInv, EachMutantOnce
    <3>6. BufferIsStable'
      <4>1. Last(Append(delivered, Last(s))) = Last(s)
        BY <3>1, <3>2 DEF Last
      <4> QED
        BY <2>4, <4>1 DEF afl_custom_fuzz, BufferIsStable
    <3> QED
      BY <2>0, <3>3, <3>4, <3>5, <3>6 DEF IInv
  <2>5. CASE NewEntry
    <3>1. current_input_ \in Text
      <4>1. delivered \in Seq(Text) /\ delivered # <<>> /\ current_input_ = Last(delivered)
        BY <2>5 DEF NewEntry, IInv, SessionTypeOK, BufferIsStable
      <4> QED
        BY <4>1, EmptySeq DEF Last
    <3>2. SessionTypeOK'
      BY <2>5, <3>1 DEF NewEntry, AddToIRLibrary, IInv, SessionTypeOK, history
    <3>3. (PromiseIsKept /\ EachMutantOnce /\ BufferIsStable)'
      BY <2>5 DEF NewEntry, AddToIRLibrary, IInv, PromiseIsKept, EachMutantOnce, BufferIsStable,
                  history
    <3> QED
      BY <2>0, <3>2, <3>3 DEF IInv
  <2>6. CASE EndOfRun
    <3>1. SessionTypeOK'
      BY <2>6 DEF EndOfRun, IInv, SessionTypeOK, history
    <3>2. (PromiseIsKept /\ EachMutantOnce /\ BufferIsStable)'
      BY <2>6 DEF EndOfRun, IInv, PromiseIsKept, EachMutantOnce, BufferIsStable, history
    <3> QED
      BY <2>0, <3>1, <3>2 DEF IInv
  <2>7. ASSUME NEW t \in Text, ImportEntry(t) PROVE IInv'
    <3>1. SessionTypeOK'
      BY <2>7 DEF ImportEntry, AddToIRLibrary, IInv, SessionTypeOK, history
    <3>2. (PromiseIsKept /\ EachMutantOnce /\ BufferIsStable)'
      BY <2>7 DEF ImportEntry, AddToIRLibrary, IInv, PromiseIsKept, EachMutantOnce, BufferIsStable,
                  history
    <3> QED
      BY <2>0, <3>1, <3>2 DEF IInv
  <2>8. CASE afl_custom_deinit
    <3>1. SessionTypeOK'
      BY <2>8 DEF afl_custom_deinit, IInv, SessionTypeOK, afl, history
    <3>2. (PromiseIsKept /\ EachMutantOnce /\ BufferIsStable)'
      BY <2>8 DEF afl_custom_deinit, IInv, PromiseIsKept, EachMutantOnce, BufferIsStable, afl, history
    <3> QED
      BY <2>0, <3>1, <3>2 DEF IInv
  <2>9. CASE UNCHANGED vars
    <3>1. SessionTypeOK'
      BY <2>9 DEF vars, session, IInv, SessionTypeOK, afl, history
    <3>2. (PromiseIsKept /\ EachMutantOnce /\ BufferIsStable)'
      BY <2>9 DEF vars, session, IInv, PromiseIsKept, EachMutantOnce, BufferIsStable, afl, history
    <3> QED
      BY <2>0, <3>1, <3>2 DEF IInv
  <2>10. CASE Next
    BY <1>1, <2>1, <2>2, <2>3, <2>4, <2>5, <2>6, <2>7, <2>8, <2>10 DEF Next
  <2> QED
    BY <2>9, <2>10
<1>3. CASE ~ UNCHANGED configuration
  BY <1>1, <1>3 DEF Next, vars, configuration, afl_custom_init, FuzzCountNothing, FuzzCount,
                    afl_custom_fuzz, NewEntry, EndOfRun, ImportEntry, afl_custom_deinit
<1> QED
  BY <1>2, <1>3

(***************************************************************************)
(* The invariant of a session.                                             *)
(***************************************************************************)
THEOREM SessionInvariant == Spec => []IInv
BY InitIInv, NextIInv, PTL DEF Spec

(***************************************************************************)
(* However the calls of AFL++ interleave, afl_custom_fuzz_count has        *)
(* promised exactly the test cases that are saved: neither the assertion   *)
(* of GetNextMutatedTestCase nor that of afl_custom_fuzz_count can fail.   *)
(***************************************************************************)
THEOREM SessionKeepsPromise == Spec => []PromiseIsKept
<1>1. IInv => PromiseIsKept
  BY DEF IInv
<1> QED
  BY <1>1, SessionInvariant, PTL

(***************************************************************************)
(* GetNextMutatedTestCase hands out every mutant that Mutate saved once,   *)
(* last first, and none of another test case.                              *)
(***************************************************************************)
THEOREM SessionDeliversOnce == Spec => []EachMutantOnce
<1>1. IInv => EachMutantOnce
  BY DEF IInv
<1> QED
  BY <1>1, SessionInvariant, PTL

(***************************************************************************)
(* The buffer AFL++ was given, current_input_, keeps the mutant as long as *)
(* the target runs, also while AddToIRLibrary is called with it.           *)
(***************************************************************************)
THEOREM SessionBufferStable == Spec => []BufferIsStable
<1>1. IInv => BufferIsStable
  BY DEF IInv
<1> QED
  BY <1>1, SessionInvariant, PTL

(***************************************************************************)
(* Configuration::Init fills every field of the singleton before it sets   *)
(* is_init_, and none if it refuses the file.                              *)
(***************************************************************************)
THEOREM SessionConfigured == Spec => []InitIsAllOrNothing
<1>1. IInv => InitIsAllOrNothing
  BY DEF IInv, ConfigurationInv, InitIsAllOrNothing
<1> QED
  BY <1>1, SessionInvariant, PTL
=============================================================================
