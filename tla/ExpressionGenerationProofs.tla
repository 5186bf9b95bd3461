--------------------- MODULE ExpressionGenerationProofs ---------------------
(***************************************************************************)
(* Proofs about SatisfiableFunctions and ExpressionGeneration, for every   *)
(* set of types, signatures and definitions in scope.                      *)
(*                                                                         *)
(* calc_satisfiable_functions computes the least fixed point.  Soundness   *)
(* (NothingTooMuch) needs no induction over the steps by which a type      *)
(* became available: current_types stays inside every closed set.          *)
(* Completeness needs the loop invariant PassClean: while a pass has not   *)
(* erased a function, none of those it left behind is satisfied.           *)
(*                                                                         *)
(* The generator relies on it: leastness is what gives every argument of   *)
(* a callable function a source, at any depth of the recursion.            *)
(***************************************************************************)
EXTENDS ExpressionGeneration, SequenceTheorems, FiniteSetTheorems, TLAPS

NothingTooMuch ==
  \A C \in SUBSET TypeID : Closed(C) => current_types \subseteq C

\* What was erased was satisfied, and its return type is there.
ErasedSatisfied ==
  /\ available_types \subseteq current_types
  /\ \A f \in function_type_set \ func_map :
       Args[f] \subseteq current_types /\ Ret[f] \in current_types

PassClean ==
  ~is_change => \A f \in func_map \ todo : ~(Args[f] \subseteq current_types)

Returned == done => todo = {} /\ ~is_change /\ res = function_type_set \ func_map

PassesInv ==
  /\ PassesTypeOK
  /\ NothingTooMuch
  /\ ErasedSatisfied
  /\ PassClean
  /\ Returned

LEMMA InitPassesInv == InitPasses => PassesInv
  <1> SUFFICES ASSUME InitPasses PROVE PassesInv OBVIOUS
  <1> USE DEF InitPasses
  <1>1. PassesTypeOK BY FunctionAssumption DEF PassesTypeOK
  <1>2. NothingTooMuch BY DEF NothingTooMuch, Closed
  <1>3. ErasedSatisfied BY DEF ErasedSatisfied
  <1>4. PassClean /\ Returned BY DEF PassClean, Returned
  <1> QED BY <1>1, <1>2, <1>3, <1>4 DEF PassesInv

\* The call, whatever it is asked about.
LEMMA CallStep ==
  ASSUME PassesInv, NEW functions \in SUBSET Function, NEW types \in SUBSET TypeID,
         calc_satisfiable_functions(functions, types)
  PROVE  PassesInv'
  <1> USE DEF calc_satisfiable_functions
  <1>1. PassesTypeOK' BY DEF PassesTypeOK
  <1>2. NothingTooMuch' BY DEF NothingTooMuch, Closed
  <1>3. ErasedSatisfied' BY DEF ErasedSatisfied
  <1>4. PassClean' /\ Returned' BY DEF PassClean, Returned
  <1> QED BY <1>1, <1>2, <1>3, <1>4 DEF PassesInv

\* The steps of the loops, one lemma per action.
LEMMA EraseStep ==
  ASSUME PassesInv, NEW f \in Function, Erase(f)
  PROVE  PassesInv'
  <1>1. /\ ~done /\ f \in todo /\ Args[f] \subseteq current_types
        /\ func_map' = func_map \ {f}
        /\ current_types' = current_types \cup {Ret[f]}
        /\ todo' = todo \ {f} /\ is_change' = TRUE
        /\ function_type_set' = function_type_set
        /\ available_types' = available_types /\ done' = done /\ res' = res
    BY DEF Erase, IsNext, Satisfied
  <1>2. f \in function_type_set BY <1>1 DEF PassesInv, PassesTypeOK
  <1>3. PassesTypeOK' BY <1>1, FunctionAssumption DEF PassesInv, PassesTypeOK
  <1>4. NothingTooMuch'
    <2> SUFFICES ASSUME NEW C \in SUBSET TypeID, Closed(C)'
                 PROVE  current_types' \subseteq C
      BY DEF NothingTooMuch
    <2>1. Closed(C) BY <1>1 DEF Closed
    <2>2. current_types \subseteq C BY <2>1 DEF PassesInv, NothingTooMuch
    <2>3. Ret[f] \in C BY <1>1, <1>2, <2>1, <2>2 DEF Closed
    <2> QED BY <1>1, <2>2, <2>3
  <1>5. ErasedSatisfied' BY <1>1 DEF PassesInv, ErasedSatisfied
  <1>6. PassClean' /\ Returned' BY <1>1 DEF PassClean, Returned
  <1> QED BY <1>3, <1>4, <1>5, <1>6 DEF PassesInv

LEMMA KeepStep ==
  ASSUME PassesInv, NEW f \in Function, Keep(f)
  PROVE  PassesInv'
  <1>1. /\ ~done /\ ~(Args[f] \subseteq current_types)
        /\ todo' = todo \ {f}
        /\ UNCHANGED <<function_type_set, available_types, func_map, current_types,
                       is_change, done, res>>
    BY DEF Keep, Satisfied
  <1>2. PassesTypeOK' BY <1>1 DEF PassesInv, PassesTypeOK
  <1>3. NothingTooMuch' BY <1>1 DEF PassesInv, NothingTooMuch, Closed
  <1>4. ErasedSatisfied' BY <1>1 DEF PassesInv, ErasedSatisfied
  <1>5. PassClean' BY <1>1 DEF PassesInv, PassClean
  <1>6. Returned' BY <1>1 DEF Returned
  <1> QED BY <1>2, <1>3, <1>4, <1>5, <1>6 DEF PassesInv

LEMMA NextPassStep ==
  ASSUME PassesInv, NextPass
  PROVE  PassesInv'
  <1> USE DEF NextPass
  <1>1. PassesTypeOK' BY DEF PassesInv, PassesTypeOK
  <1>2. NothingTooMuch' BY DEF PassesInv, NothingTooMuch, Closed
  <1>3. ErasedSatisfied' BY DEF PassesInv, ErasedSatisfied
  <1>4. PassClean' /\ Returned' BY DEF PassClean, Returned
  <1> QED BY <1>1, <1>2, <1>3, <1>4 DEF PassesInv

LEMMA ReturnStep ==
  ASSUME PassesInv, ReturnFunctions
  PROVE  PassesInv'
  <1> USE DEF ReturnFunctions
  <1>1. PassesTypeOK' BY DEF PassesInv, PassesTypeOK
  <1>2. NothingTooMuch' BY DEF PassesInv, NothingTooMuch, Closed
  <1>3. ErasedSatisfied' BY DEF PassesInv, ErasedSatisfied
  <1>4. PassClean' BY DEF PassesInv, PassClean
  <1>5. Returned' BY DEF Returned
  <1> QED BY <1>1, <1>2, <1>3, <1>4, <1>5 DEF PassesInv

(***************************************************************************)
(* The loop invariant of calc_satisfiable_functions holds throughout.      *)
(***************************************************************************)
THEOREM SatisfiableInvariant == PassesSpec => []PassesInv
  <1>1. ASSUME PassesInv, [PassesNext]_passes PROVE PassesInv'
    <2>1. CASE UNCHANGED passes
      BY <1>1, <2>1 DEF passes, PassesInv, PassesTypeOK, NothingTooMuch, Closed, ErasedSatisfied,
                        PassClean, Returned
    <2>2. ASSUME NEW f \in Function, Erase(f) PROVE PassesInv' BY <1>1, <2>2, EraseStep
    <2>3. ASSUME NEW f \in Function, Keep(f) PROVE PassesInv' BY <1>1, <2>3, KeepStep
    <2>4. CASE NextPass BY <1>1, <2>4, NextPassStep
    <2>5. CASE ReturnFunctions BY <1>1, <2>5, ReturnStep
    <2>6. ASSUME NEW functions \in FunctionSets, NEW types \in SUBSET TypeID,
                 calc_satisfiable_functions(functions, types)
          PROVE  PassesInv'
      BY <1>1, <2>6, CallStep, FunctionAssumption
    <2> QED BY <1>1, <2>1, <2>2, <2>3, <2>4, <2>5, <2>6 DEF PassesNext, Passes
  <1> QED BY <1>1, InitPassesInv, PTL DEF PassesSpec

(***************************************************************************)
(* Type correctness of the loop state.                                     *)
(***************************************************************************)
THEOREM SatisfiableTypeOK == PassesSpec => []PassesTypeOK
  <1>1. PassesInv => PassesTypeOK BY DEF PassesInv
  <1> QED BY <1>1, SatisfiableInvariant, PTL

\* What the loop invariant says once the last pass erased nothing.
LEMMA LeastResult == PassesInv => ResultIsLeast
  <1> SUFFICES ASSUME PassesInv, done PROVE ResultIsLeast BY DEF ResultIsLeast
  <1>1. todo = {} /\ ~is_change /\ res = function_type_set \ func_map
    BY DEF PassesInv, Returned
  <1>2. func_map \subseteq function_type_set BY DEF PassesInv, PassesTypeOK
  <1>3. \A f \in func_map : ~(Args[f] \subseteq current_types)
    BY <1>1 DEF PassesInv, PassClean
  <1>4. /\ available_types \subseteq current_types
        /\ \A f \in function_type_set \ func_map :
             Args[f] \subseteq current_types /\ Ret[f] \in current_types
    BY DEF PassesInv, ErasedSatisfied
  <1>5. Closed(current_types) BY <1>3, <1>4 DEF Closed
  <1>6. res = {f \in function_type_set : Args[f] \subseteq current_types}
    BY <1>1, <1>2, <1>3, <1>4
  <1>7. \A C \in SUBSET TypeID : Closed(C) => current_types \subseteq C
    BY DEF PassesInv, NothingTooMuch
  <1> QED BY <1>5, <1>6, <1>7 DEF ResultIsLeast

(***************************************************************************)
(* What calc_satisfiable_functions returns is the least fixed point.       *)
(***************************************************************************)
THEOREM SatisfiableResult == PassesSpec => []ResultIsLeast
  <1> QED BY LeastResult, SatisfiableInvariant, PTL

-----------------------------------------------------------------------------
(***************************************************************************)
(* The invariant of the generator.                                         *)
(***************************************************************************)
\* calc_satisfiable_functions is asked about the scope, and its answer is what
\* the cache was filled from.
Collected ==
  /\ outcome \in {"called", "collecting"} => work = <<>>
  /\ outcome # "called" =>
       function_type_set = function_map /\ available_types = AvailableTypes
  /\ outcome \notin {"called", "collecting"} =>
       done /\ all_satisfiable_types = CollectSatisfiableTypes

\* The calls still to be made: a function in scope is one of those found
\* callable, a method may be any.
CallsKnown ==
  \A i \in 1..Len(work) :
    work[i].kind = "call" =>
      /\ work[i].type \in Function
      /\ work[i].by \in {"function", "method"}
      /\ work[i].by = "function" => work[i].type \in res

\* Before the first count there is only the FIXME.
OnlyRoot ==
  gen_counter_ = 0 => \A i \in 1..Len(work) : work[i].kind = "gen" /\ work[i].by = "root"

CallsIn(s) == {i \in 1..Len(s) : s[i].kind = "call"}

\* Every counted call has a budget of MostCalls calls of functions; the
\* arguments already counted and the calls still to be made fit into it.
WithinBudget ==
  function_gen_counter_ + Cardinality(CallsIn(work)) * MostArguments
    <= (gen_counter_ * MostCalls) * MostArguments

GenInv ==
  /\ PassesInv
  /\ TypeOK
  /\ Collected
  /\ CallsKnown
  /\ OnlyRoot
  /\ ArgumentsSatisfiable
  /\ BranchesHaveSources
  /\ WithinBudget

-----------------------------------------------------------------------------
(***************************************************************************)
(* Numbers: maxima, powers of two, products.                               *)
(***************************************************************************)
\* A set of naturals that is not empty has a least element.
LEMMA LeastElement ==
  ASSUME NEW T, T \subseteq Nat, T # {}
  PROVE  \E x \in T : \A y \in T : x <= y
  <1>1. PICK x \in T : \A y \in T : ~(<<y, x>> \in OpToRel(<, Nat))
    BY NatLessThanWellFounded, WFMin
  <1>2. ASSUME NEW y \in T PROVE x <= y
    <2>1. ~(<<y, x>> \in OpToRel(<, Nat)) BY <1>1
    <2>2. ~(y < x) BY <2>1 DEF OpToRel
    <2> QED BY <2>2
  <1> QED BY <1>2

\* Max finds the greatest element of a bounded set.
LEMMA MaxOfBounded ==
  ASSUME NEW S, S \subseteq Nat, S # {}, NEW b \in Nat, \A x \in S : x <= b
  PROVE  Max(S) \in S /\ \A x \in S : x <= Max(S)
  <1> DEFINE Upper == {n \in Nat : \A x \in S : x <= n}
  <1>1. PICK u \in Upper : \A n \in Upper : u <= n
    <2>1. b \in Upper /\ Upper \subseteq Nat OBVIOUS
    <2> HIDE DEF Upper
    <2> QED BY <2>1, LeastElement
  <1>2. u \in S
    <2> SUFFICES ASSUME u \notin S PROVE FALSE OBVIOUS
    <2>1. \A x \in S : x <= u /\ x # u BY <1>1
    <2>2. PICK y \in S : TRUE OBVIOUS
    <2>3. u \in Nat /\ y \in Nat /\ y < u BY <1>1, <2>1, <2>2
    <2>4. \A x \in S : x <= u - 1 BY <2>1, <2>3
    <2>5. u - 1 \in Upper BY <2>3, <2>4
    <2> QED BY <1>1, <2>3, <2>5
  <1>3. \E x \in S : \A y \in S : x >= y BY <1>1, <1>2
  <1> QED BY <1>3 DEF Max

\* A function on a finite set has bounded values.
LEMMA FiniteIsBounded ==
  ASSUME NEW F, IsFiniteSet(F), NEW L \in [F -> Nat]
  PROVE  \E b \in Nat : \A f \in F : L[f] <= b
  <1>1. PICK n \in Nat : ExistsBijection(1..n, F) BY FS_NatBijection
  <1>2. PICK g \in [1..n -> F] : \A f \in F : \E i \in 1..n : g[i] = f
    BY <1>1 DEF ExistsBijection, Bijection, Surjection, Injection
  <1> DEFINE Bad == {k \in Nat : k <= n /\ ~\E b \in Nat : \A i \in 1..k : L[g[i]] <= b}
  <1>3. Bad = {}
    <2> SUFFICES ASSUME Bad # {} PROVE FALSE OBVIOUS
    <2>1. PICK k \in Bad : \A j \in Bad : k <= j
      <3>1. Bad \subseteq Nat OBVIOUS
      <3> HIDE DEF Bad
      <3> QED BY <3>1, LeastElement
    <2>2. k # 0 BY <2>1
    <2>3. k \in Nat /\ k <= n /\ k - 1 \in Nat /\ k - 1 <= n BY <2>1, <2>2
    <2>8. k - 1 \notin Bad
      <3> HIDE DEF Bad
      <3> QED BY <2>1, <2>3
    <2>4. PICK b \in Nat : \A i \in 1..(k - 1) : L[g[i]] <= b BY <2>3, <2>8
    <2>5. k \in 1..n BY <2>2, <2>3
    <2>6. PICK v \in Nat : v = L[g[k]] BY <2>5, <1>2
    <2>7. ASSUME NEW i \in 1..k PROVE L[g[i]] <= b + v
      <3>1. CASE i = k BY <3>1, <2>6
      <3>2. CASE i # k
        <4>1. i \in 1..(k - 1) /\ i \in 1..n BY <3>2, <2>5
        <4>2. PICK w \in Nat : w = L[g[i]] BY <4>1, <1>2
        <4>3. w <= b BY <4>1, <4>2, <2>4
        <4> QED BY <4>2, <4>3
      <3> QED BY <3>1, <3>2
    <2>9. k \notin Bad
      <3>1. b + v \in Nat OBVIOUS
      <3> QED BY <3>1, <2>7
    <2> QED BY <2>1, <2>9
  <1>4. PICK b \in Nat : \A i \in 1..n : L[g[i]] <= b
    <2>1. n \in Nat /\ n <= n OBVIOUS
    <2>2. n \notin Bad
      <3> HIDE DEF Bad
      <3> QED BY <1>3
    <2> QED BY <2>1, <2>2
  <1> QED BY <1>2, <1>4

\* Shifting by at most 30 places divides by a positive number.
LEMMA PowerOfTwo ==
  ASSUME NEW k \in 0..30
  PROVE  2^k \in Nat \ {0}
  <1> DEFINE Good == {n \in 0..30 : 2^n \in Nat \ {0}}
  <1>1. {0, 1, 2, 3, 4, 5, 6, 7, 8, 9, 10} \subseteq Good
    <2>1. /\ 2^0 = 1 /\ 2^1 = 2 /\ 2^2 = 4 /\ 2^3 = 8 /\ 2^4 = 16 /\ 2^5 = 32
          /\ 2^6 = 64 /\ 2^7 = 128 /\ 2^8 = 256 /\ 2^9 = 512 /\ 2^10 = 1024
      OBVIOUS
    <2> QED BY <2>1
  <1>2. {11, 12, 13, 14, 15, 16, 17, 18, 19, 20} \subseteq Good
    <2>1. /\ 2^11 = 2048 /\ 2^12 = 4096 /\ 2^13 = 8192 /\ 2^14 = 16384
          /\ 2^15 = 32768 /\ 2^16 = 65536 /\ 2^17 = 131072 /\ 2^18 = 262144
          /\ 2^19 = 524288 /\ 2^20 = 1048576
      OBVIOUS
    <2> QED BY <2>1
  <1>3. {21, 22, 23, 24, 25, 26, 27, 28, 29, 30} \subseteq Good
    <2>1. /\ 2^21 = 2097152 /\ 2^22 = 4194304 /\ 2^23 = 8388608
          /\ 2^24 = 16777216 /\ 2^25 = 33554432 /\ 2^26 = 67108864
          /\ 2^27 = 134217728 /\ 2^28 = 268435456 /\ 2^29 = 536870912
          /\ 2^30 = 1073741824
      OBVIOUS
    <2> QED BY <2>1
  <1>4. 0..30 \subseteq Good BY <1>1, <1>2, <1>3
  <1> QED BY <1>4

LEMMA ShiftRightType ==
  ASSUME NEW x \in Nat, NEW k \in Nat
  PROVE  ShiftRight(x, k) \in Nat
  <1>1. CASE k > 30 BY <1>1 DEF ShiftRight
  <1>2. CASE ~(k > 30)
    <2>0. k \in 0..30 BY <1>2
    <2>1. 2^k \in Nat \ {0} BY <2>0, PowerOfTwo
    <2> DEFINE d == 2^k
    <2>2. ShiftRight(x, k) = x \div d BY <1>2 DEF ShiftRight
    <2>3. d \in Nat \ {0} BY <2>1
    <2> HIDE DEF d
    <2> QED BY <2>2, <2>3
  <1> QED BY <1>1, <1>2

LEMMA ProductMonotone ==
  ASSUME NEW a \in Nat, NEW b \in Nat, NEW c \in Nat, a <= b
  PROVE  a * c \in Nat /\ b * c \in Nat /\ a * c <= b * c
  <1>1. PICK d \in Nat : b = a + d
    <2>1. b - a \in Nat /\ b = a + (b - a) OBVIOUS
    <2> QED BY <2>1
  <1>2. b * c = a * c + d * c BY <1>1
  <1>3. a * c \in Nat /\ d * c \in Nat OBVIOUS
  <1> QED BY <1>2, <1>3

-----------------------------------------------------------------------------
(***************************************************************************)
(* The calls still to be made, counted.                                    *)
(***************************************************************************)
LEMMA CallsInType ==
  ASSUME NEW s \in Seq(Item)
  PROVE  IsFiniteSet(CallsIn(s)) /\ Cardinality(CallsIn(s)) \in Nat
  <1>1. IsFiniteSet(1..Len(s)) BY FS_Interval
  <1>2. CallsIn(s) \in SUBSET (1..Len(s)) BY DEF CallsIn
  <1>3. IsFiniteSet(CallsIn(s)) BY <1>1, <1>2, FS_Subset
  <1> QED BY <1>3, FS_CardinalityType

LEMMA CallsInConcat ==
  ASSUME NEW s \in Seq(Item), NEW t \in Seq(Item)
  PROVE  Cardinality(CallsIn(s \o t)) = Cardinality(CallsIn(s)) + Cardinality(CallsIn(t))
  <1> DEFINE n == Len(s)
             Shifted == {i + n : i \in CallsIn(t)}
             f == [i \in CallsIn(t) |-> i + n]
  <1>1. n \in Nat /\ Len(t) \in Nat OBVIOUS
  <1>2. CallsIn(s \o t) = CallsIn(s) \cup Shifted
    <2>1. /\ Len(s \o t) = n + Len(t)
          /\ \A i \in 1..(n + Len(t)) :
               (s \o t)[i] = IF i <= n THEN s[i] ELSE t[i - n]
      BY ConcatProperties
    <2>2. ASSUME NEW i \in CallsIn(s \o t) PROVE i \in CallsIn(s) \cup Shifted
      <3>1. i \in 1..(n + Len(t)) /\ (s \o t)[i].kind = "call" BY <2>1 DEF CallsIn
      <3>2. CASE i <= n BY <2>1, <3>1, <3>2 DEF CallsIn
      <3>3. CASE ~(i <= n)
        <4>1. i - n \in 1..Len(t) /\ i = (i - n) + n BY <1>1, <3>1, <3>3
        <4>2. i - n \in CallsIn(t) BY <4>1, <2>1, <3>1, <3>3 DEF CallsIn
        <4> QED BY <4>1, <4>2
      <3> QED BY <3>2, <3>3
    <2>3. ASSUME NEW i \in CallsIn(s) PROVE i \in CallsIn(s \o t)
      <3>1. i \in 1..n /\ s[i].kind = "call" BY DEF CallsIn
      <3>2. i \in 1..(n + Len(t)) /\ i <= n BY <1>1, <3>1
      <3> QED BY <2>1, <3>1, <3>2 DEF CallsIn
    <2>4. ASSUME NEW i \in CallsIn(t) PROVE i + n \in CallsIn(s \o t)
      <3>1. i \in 1..Len(t) /\ t[i].kind = "call" BY DEF CallsIn
      <3>2. i + n \in 1..(n + Len(t)) /\ ~(i + n <= n) /\ (i + n) - n = i BY <1>1, <3>1
      <3> QED BY <2>1, <3>1, <3>2 DEF CallsIn
    <2> QED BY <2>2, <2>3, <2>4
  <1>3. Cardinality(Shifted) = Cardinality(CallsIn(t)) /\ IsFiniteSet(Shifted)
    <2>1. CallsIn(t) \subseteq Int BY DEF CallsIn
    <2>2. f \in Bijection(CallsIn(t), Shifted)
      <3>1. f \in [CallsIn(t) -> Shifted] OBVIOUS
      <3>2. \A a, b \in CallsIn(t) : f[a] = f[b] => a = b BY <1>1, <2>1
      <3>3. \A y \in Shifted : \E a \in CallsIn(t) : f[a] = y OBVIOUS
      <3> HIDE DEF f, Shifted
      <3> QED BY <3>1, <3>2, <3>3 DEF Bijection, Injection, IsInjective, Surjection
    <2>3. ExistsBijection(CallsIn(t), Shifted) BY <2>2 DEF ExistsBijection
    <2> HIDE DEF Shifted
    <2> QED BY <2>3, CallsInType, FS_Bijection
  <1>4. CallsIn(s) \cap Shifted = {} BY <1>1 DEF CallsIn
  <1>5. IsFiniteSet(CallsIn(s)) /\ Cardinality(CallsIn(s)) \in Nat
        /\ Cardinality(CallsIn(t)) \in Nat
    BY CallsInType
  <1>6. Cardinality(CallsIn(s) \cup Shifted)
          = Cardinality(CallsIn(s)) + Cardinality(Shifted) - Cardinality(CallsIn(s) \cap Shifted)
    <2> HIDE DEF Shifted
    <2> QED BY <1>3, <1>5, FS_Union
  <1>7. Cardinality(CallsIn(s) \cap Shifted) = 0 BY <1>4, FS_EmptySet
  <1> HIDE DEF Shifted
  <1> QED BY <1>2, <1>3, <1>5, <1>6, <1>7

\* Taking the next item off.
LEMMA CallsInTail ==
  ASSUME NEW s \in Seq(Item), s # <<>>
  PROVE  /\ Tail(s) \in Seq(Item)
         /\ s[1] \in Item
         /\ Cardinality(CallsIn(s))
              = (IF s[1].kind = "call" THEN 1 ELSE 0) + Cardinality(CallsIn(Tail(s)))
  <1>1. Tail(s) \in Seq(Item) /\ s[1] \in Item /\ <<s[1]>> \in Seq(Item) OBVIOUS
  <1>2. s = <<s[1]>> \o Tail(s)
    <2>1. Len(<<s[1]>> \o Tail(s)) = Len(s) BY <1>1
    <2>2. \A i \in 1..Len(s) : (<<s[1]>> \o Tail(s))[i] = s[i] BY <1>1
    <2>3. <<s[1]>> \o Tail(s) \in Seq(Item) BY <1>1, ConcatProperties
    <2> QED BY <2>1, <2>2, <2>3, SeqEqual
  <1>3. Cardinality(CallsIn(s)) = Cardinality(CallsIn(<<s[1]>>)) + Cardinality(CallsIn(Tail(s)))
    BY <1>1, <1>2, CallsInConcat
  <1>4. CallsIn(<<s[1]>>) = IF s[1].kind = "call" THEN {1} ELSE {} BY <1>1 DEF CallsIn
  <1>5. Cardinality(CallsIn(<<s[1]>>)) = IF s[1].kind = "call" THEN 1 ELSE 0
    BY <1>4, FS_EmptySet, FS_Singleton
  <1> QED BY <1>1, <1>3, <1>5

-----------------------------------------------------------------------------
(***************************************************************************)
(* The types in scope and what they can be made from.                      *)
(***************************************************************************)
LEMMA StructureTypes ==
  ASSUME NEW c \in Compound
  PROVE  TypesOfStructure(c) \subseteq TypeID
  <1>1. Visited(c) \subseteq Compound BY DEF Visited
  <1>2. UNION {Members[d] : d \in Visited(c)} \subseteq TypeID BY <1>1, TypesAssumption
  <1>3. ASSUME NEW m \in TypeID PROVE TypesOfMember(m) \subseteq TypeID
    <2>1. CASE m \in Function BY <2>1, FunctionAssumption DEF TypesOfMember
    <2>2. CASE m \notin Function BY <2>2 DEF TypesOfMember
    <2> QED BY <2>1, <2>2
  <1> QED BY <1>2, <1>3 DEF TypesOfStructure

LEMMA AvailableInScope ==
  ASSUME simple_var_map \in SUBSET SimpleType, compound_var_map \in SUBSET Compound
  PROVE  AvailableTypes \in SUBSET TypeID
  <1>1. simple_var_map \subseteq TypeID BY TypesAssumption
  <1>2. \A c \in compound_var_map : TypesOfStructure(c) \subseteq TypeID BY StructureTypes
  <1> QED BY <1>1, <1>2 DEF AvailableTypes

\* A type that calc_possible_types_from_structure finds in a structure is one
\* that get_class_member_by_type finds a way to.
LEMMA MemberIsFound ==
  ASSUME NEW c \in Compound, NEW t \in TypesOfStructure(c)
  PROVE  Solves(c, t)
  <1>1. PICK m \in UNION {Members[d] : d \in Visited(c)} : t \in TypesOfMember(m)
    BY DEF TypesOfStructure
  <1>2. PICK d \in Visited(c) : m \in Members[d] BY <1>1
  <1>3. CASE t = m BY <1>2, <1>3 DEF Solves
  <1>4. CASE t # m
    <2>1. m \in Function /\ t = Ret[m] BY <1>1, <1>4 DEF TypesOfMember
    <2>2. m \in Methods(d, t) BY <1>2, <1>4, <2>1 DEF Methods
    <2> QED BY <1>2, <2>2 DEF Solves
  <1> QED BY <1>3, <1>4

\* CollectSatisfiableTypes, once it is in the cache.
LEMMA CacheContent ==
  ASSUME TypeOK, all_satisfiable_types = CollectSatisfiableTypes, NEW t \in TypeID
  PROVE  /\ SimpleSources(t) = {t} \cap simple_var_map
         /\ StructureSources(t) = {c \in compound_var_map : t = c \/ t \in TypesOfStructure(c)}
         /\ FunctionSources(t) = {f \in res : Ret[f] = t}
         /\ t \in SatisfiableTypes <=>
              \/ SimpleSources(t) # {}
              \/ StructureSources(t) # {}
              \/ FunctionSources(t) # {}
  <1>1. all_satisfiable_types[t] =
          [simple |-> {t} \cap simple_var_map,
           structure |-> {c \in compound_var_map : t = c \/ t \in TypesOfStructure(c)},
           function |-> {f \in res : Ret[f] = t}]
    BY DEF CollectSatisfiableTypes, CallableFunctions
  <1> DEFINE a == {t} \cap simple_var_map
             b == {c \in compound_var_map : t = c \/ t \in TypesOfStructure(c)}
             d == {f \in res : Ret[f] = t}
  <1>2. all_satisfiable_types[t] = [simple |-> a, structure |-> b, function |-> d] BY <1>1
  <1>3. SimpleSources(t) = a /\ StructureSources(t) = b /\ FunctionSources(t) = d
    <2> HIDE DEF a, b, d
    <2> QED BY <1>2 DEF SimpleSources, StructureSources, FunctionSources
  <1>4. t \in SatisfiableTypes <=> a # {} \/ b # {} \/ d # {}
    <2> HIDE DEF a, b, d
    <2> QED BY <1>2 DEF SatisfiableTypes, NoSources
  <1> QED BY <1>3, <1>4

(***************************************************************************)
(* Leastness at work.  The types that are both found by the passes and     *)
(* have a source are closed, so the passes found no others: every argument *)
(* of a callable function has a source.                                    *)
(***************************************************************************)
LEMMA ArgumentsHaveSources ==
  ASSUME PassesInv, TypeOK, done, function_type_set = function_map,
         available_types = AvailableTypes,
         all_satisfiable_types = CollectSatisfiableTypes,
         NEW f \in res
  PROVE  Args[f] \subseteq SatisfiableTypes
  <1> DEFINE C == SatisfiableTypes \cap current_types
  <1>1. /\ Closed(current_types)
        /\ \A D \in SUBSET TypeID : Closed(D) => current_types \subseteq D
        /\ res = {g \in function_type_set : Args[g] \subseteq current_types}
    BY LeastResult DEF ResultIsLeast
  <1>2. C \in SUBSET TypeID BY DEF SatisfiableTypes
  <1>3. available_types \subseteq C
    <2> SUFFICES ASSUME NEW t \in available_types PROVE t \in SatisfiableTypes
      BY <1>1 DEF Closed
    <2>1. t \in TypeID BY DEF PassesInv, PassesTypeOK
    <2>2. CASE t \in simple_var_map
      <3>1. SimpleSources(t) # {} BY <2>1, <2>2, CacheContent
      <3> QED BY <2>1, <3>1, CacheContent
    <2>3. ASSUME NEW c \in compound_var_map, t \in TypesOfStructure(c)
          PROVE  t \in SatisfiableTypes
      <3>1. StructureSources(t) # {} BY <2>1, <2>3, CacheContent
      <3> QED BY <2>1, <3>1, CacheContent
    <2> QED BY <2>2, <2>3 DEF AvailableTypes
  <1>4. ASSUME NEW g \in function_type_set, Args[g] \subseteq C PROVE Ret[g] \in C
    <2>1. g \in Function BY DEF PassesInv, PassesTypeOK
    <2>2. Ret[g] \in TypeID BY <2>1, FunctionAssumption
    <2>3. g \in res /\ Ret[g] \in current_types BY <1>1, <1>4 DEF Closed
    <2>4. FunctionSources(Ret[g]) # {} BY <2>2, <2>3, CacheContent
    <2>5. Ret[g] \in SatisfiableTypes BY <2>2, <2>4, CacheContent
    <2> QED BY <2>3, <2>5
  <1>5. Closed(C)
    <2> HIDE DEF C
    <2> QED BY <1>3, <1>4 DEF Closed
  <1>6. current_types \subseteq C BY <1>1, <1>2, <1>5
  <1> QED BY <1>1, <1>6

\* Nothing is drawn from an empty set of variables: the weights of the other
\* branches are the same on both sides of the comparison.
LEMMA VariableIsThere ==
  ASSUME TypeOK, NEW t \in TypeID, NEW counter \in Nat, "simple" \in Branches(t, counter)
  PROVE  SimpleSources(t) # {}
  <1> SUFFICES ASSUME SimpleSources(t) = {} PROVE FALSE OBVIOUS
  <1>1. /\ SimpleSources(t) \in SUBSET simple_var_map
        /\ StructureSources(t) \in SUBSET compound_var_map
        /\ FunctionSources(t) \in SUBSET function_map
    BY DEF TypeOK, SimpleSources, StructureSources, FunctionSources
  <1> DEFINE sources == SimpleSources(t) \cup StructureSources(t) \cup FunctionSources(t)
             p0 == ExpressionSize(t, Cardinality(sources), counter)
             p1 == FunctionSize(t)
             p2 == StructureSize(t)
  <1>2. /\ StructureSources(t) \in SUBSET TypeID
        /\ FunctionSources(t) \in SUBSET TypeID
        /\ sources \in SUBSET TypeID
    BY <1>1, TypesAssumption DEF TypeOK
  <1>3. \A S \in SUBSET TypeID : Cardinality(S) \in Nat
    BY TypesAssumption, FS_Subset, FS_CardinalityType
  <1>4. p0 \in Nat
    <2>1. PICK n \in Nat : n = Cardinality(sources) BY <1>2, <1>3
    <2>2. n \div 2 \in Nat OBVIOUS
    <2> DEFINE size == 2 * (IF n \div 2 = 0 THEN 1 ELSE n \div 2)
    <2>3. size \in Nat BY <2>2
    <2>4. ShiftRight(size, 2) \in Nat
      <3> HIDE DEF size
      <3> QED BY <2>3, ShiftRightType
    <2>5. ExpressionSize(t, n, counter) \in {0, size, ShiftRight(size, 2)}
      BY DEF ExpressionSize
    <2> HIDE DEF size
    <2> QED BY <2>1, <2>3, <2>4, <2>5
  <1>5. p1 \in Nat
    <2>1. FunctionShift \in Nat BY DEF FunctionShift, TypeOK
    <2>2. 8 * Cardinality(FunctionSources(t)) \in Nat BY <1>2, <1>3
    <2> QED BY <2>1, <2>2, ShiftRightType DEF FunctionSize
  <1>6. p2 \in Nat BY <1>2, <1>3 DEF StructureSize
  <1>7. SimpleSize(t, counter) = 0
    <2>1. Cardinality(SimpleSources(t)) = 0 BY FS_EmptySet
    <2> QED BY <2>1 DEF SimpleSize
  <1>8. p0 + p1 + p2 < TotalSize(t, counter) BY DEF Branches
  <1> HIDE DEF p0
  <1> QED BY <1>4, <1>5, <1>6, <1>7, <1>8 DEF TotalSize

-----------------------------------------------------------------------------
(***************************************************************************)
(* The budget of a counted call.                                           *)
(***************************************************************************)
Able(c, t) == {d \in Visited(c) : Methods(d, t) # {}}

LEMMA AbleIsFinite ==
  ASSUME NEW c, NEW t
  PROVE  /\ IsFiniteSet(Able(c, t))
         /\ Cardinality(Able(c, t)) \in Nat
         /\ Cardinality(Able(c, t)) <= Cardinality(Compound)
         /\ Cardinality(Compound) \in Nat
  <1>1. Compound \in SUBSET TypeID BY TypesAssumption
  <1>2. IsFiniteSet(Compound) BY <1>1, TypesAssumption, FS_Subset
  <1>3. Able(c, t) \in SUBSET Compound BY DEF Able, Visited
  <1> QED BY <1>2, <1>3, FS_Subset, FS_CardinalityType

LEMMA MostCallsBounds ==
  /\ MostCalls \in Nat /\ 1 <= MostCalls
  /\ \A c \in Compound, t \in TypeID : Cardinality(Able(c, t)) <= MostCalls
  <1> DEFINE S == {1} \cup {Cardinality(Able(c, t)) : c \in Compound, t \in TypeID}
             b == 1 + Cardinality(Compound)
  <1>1. MostCalls = Max(S) BY DEF MostCalls, Able
  <1>2. b \in Nat BY AbleIsFinite
  <1>3. S \subseteq Nat /\ 1 \in S BY AbleIsFinite
  <1>4. \A x \in S : x <= b BY AbleIsFinite
  <1>5. Max(S) \in S /\ \A x \in S : x <= Max(S)
    <2> HIDE DEF S, b
    <2> QED BY <1>2, <1>3, <1>4, MaxOfBounded
  <1>6. \A c \in Compound, t \in TypeID : Cardinality(Able(c, t)) \in S OBVIOUS
  <1> HIDE DEF S
  <1> QED BY <1>1, <1>3, <1>5, <1>6

LEMMA MostArgumentsBounds ==
  /\ MostArguments \in Nat
  /\ \A f \in Function : Len(v_arg_types_[f]) \in Nat /\ Len(v_arg_types_[f]) <= MostArguments
  <1> DEFINE L == [f \in Function |-> Len(v_arg_types_[f])]
             S == {0} \cup {Len(v_arg_types_[f]) : f \in Function}
  <1>1. \A f \in Function : Len(v_arg_types_[f]) \in Nat
    <2>1. \A f \in Function : v_arg_types_[f] \in Seq(SimpleType \cup Compound)
      BY TypesAssumption
    <2> QED BY <2>1, LenProperties
  <1>2. L \in [Function -> Nat] BY <1>1
  <1>3. Function \in SUBSET TypeID BY TypesAssumption
  <1>4. IsFiniteSet(Function) BY <1>3, TypesAssumption, FS_Subset
  <1>5. PICK b \in Nat : \A f \in Function : L[f] <= b
    <2> HIDE DEF L
    <2> QED BY <1>2, <1>4, FiniteIsBounded
  <1>6. S \subseteq Nat /\ 0 \in S BY <1>1
  <1>7. \A x \in S : x <= b BY <1>5
  <1>8. Max(S) \in S /\ \A x \in S : x <= Max(S)
    <2> HIDE DEF S
    <2> QED BY <1>6, <1>7, MaxOfBounded
  <1>9. \A f \in Function : Len(v_arg_types_[f]) \in S OBVIOUS
  <1>10. MostArguments = Max(S) BY DEF MostArguments
  <1> HIDE DEF S
  <1> QED BY <1>1, <1>6, <1>8, <1>9, <1>10

\* A counted call adds its budget, and at most as many calls.
LEMMA CountedBudget ==
  ASSUME NEW f \in Nat, NEW p \in Nat, NEW q \in Nat, NEW g \in Nat, NEW M \in Nat,
         NEW A \in Nat, f + p * A <= (g * M) * A, q <= M
  PROVE  f + (q + p) * A <= ((g + 1) * M) * A
  <1>1. (q + p) * A = q * A + p * A OBVIOUS
  <1>2. ((g + 1) * M) * A = (g * M) * A + M * A OBVIOUS
  <1>3. q * A \in Nat /\ M * A \in Nat /\ q * A <= M * A BY ProductMonotone
  <1>4. p * A \in Nat OBVIOUS
  <1>5. g * M \in Nat OBVIOUS
  <1>6. (g * M) * A \in Nat BY <1>5
  <1> QED BY <1>1, <1>2, <1>3, <1>4, <1>6

\* A call that is made uses up its share.
LEMMA CalledBudget ==
  ASSUME NEW f \in Nat, NEW p \in Nat, NEW x \in Nat, NEW A \in Nat, NEW l \in Nat,
         f + (1 + p) * A <= x, l <= A
  PROVE  (f + l) + (0 + p) * A <= x
  <1>1. (1 + p) * A = A + p * A OBVIOUS
  <1>2. (0 + p) * A = p * A OBVIOUS
  <1>3. p * A \in Nat OBVIOUS
  <1> QED BY <1>1, <1>2, <1>3

-----------------------------------------------------------------------------
(***************************************************************************)
(* The steps of the generator.                                             *)
(***************************************************************************)
\* What is derived from the scope stays while the scope stays.
LEMMA ScopeKept ==
  ASSUME UNCHANGED <<scope, passes>>
  PROVE  /\ PassesInv' <=> PassesInv
         /\ AvailableTypes' = AvailableTypes
         /\ CollectSatisfiableTypes' = CollectSatisfiableTypes
         /\ SatisfiableTypes' = SatisfiableTypes
  <1> USE DEF scope, passes
  <1>1. PassesInv' <=> PassesInv
    BY DEF PassesInv, PassesTypeOK, NothingTooMuch, Closed, ErasedSatisfied, PassClean, Returned
  <1>2. \A c : TypesOfStructure(c)' = TypesOfStructure(c)
    BY DEF TypesOfStructure, TypesOfMember
  <1>3. AvailableTypes' = AvailableTypes BY <1>2 DEF AvailableTypes
  <1>4. CollectSatisfiableTypes' = CollectSatisfiableTypes
    BY <1>2 DEF CollectSatisfiableTypes, CallableFunctions
  <1>5. SatisfiableTypes' = SatisfiableTypes BY DEF SatisfiableTypes
  <1> QED BY <1>1, <1>3, <1>4, <1>5

\* The steps that take the next item off and put others in its place.
LEMMA WorkStep ==
  ASSUME GenInv, UNCHANGED <<scope, passes>>, Running, outcome' = outcome,
         NEW new \in Seq(Item), work' = new \o Rest,
         gen_counter_' \in 1..(MaxGen + 1), function_gen_counter_' \in Nat,
         \A i \in 1..Len(new) :
           /\ new[i].kind = "call" =>
                /\ new[i].type \in Function
                /\ new[i].by \in {"function", "method"}
                /\ new[i].by = "function" => new[i].type \in res
           /\ new[i].kind = "gen" /\ new[i].by = "function" =>
                new[i].type \in SatisfiableTypes,
         function_gen_counter_'
           + (Cardinality(CallsIn(new)) + Cardinality(CallsIn(Rest))) * MostArguments
             <= (gen_counter_' * MostCalls) * MostArguments
  PROVE  GenInv'
  <1>1. outcome = "running" /\ work # <<>> /\ work \in Seq(Item)
    BY DEF Running, GenInv, TypeOK
  <1>2. /\ Rest \in Seq(Item)
        /\ Len(Rest) = Len(work) - 1
        /\ \A j \in 1..Len(Rest) : Rest[j] = work[j + 1] /\ j + 1 \in 1..Len(work)
    BY <1>1 DEF Rest
  <1>3. /\ work' \in Seq(Item)
        /\ \A i \in 1..Len(work') :
             \/ \E j \in 1..Len(new) : work'[i] = new[j]
             \/ \E j \in 1..Len(work) : work'[i] = work[j]
    <2>1. /\ work' \in Seq(Item)
          /\ Len(work') = Len(new) + Len(Rest)
          /\ \A i \in 1..(Len(new) + Len(Rest)) :
               work'[i] = IF i <= Len(new) THEN new[i] ELSE Rest[i - Len(new)]
      BY <1>2, ConcatProperties
    <2>2. ASSUME NEW i \in 1..Len(work'), i > Len(new)
          PROVE  \E j \in 1..Len(work) : work'[i] = work[j]
      <3>1. i - Len(new) \in 1..Len(Rest) BY <2>1, <2>2, <1>2
      <3>2. work'[i] = Rest[i - Len(new)] BY <2>1, <2>2
      <3> QED BY <3>1, <3>2, <1>2
    <2>3. ASSUME NEW i \in 1..Len(work'), i <= Len(new)
          PROVE  \E j \in 1..Len(new) : work'[i] = new[j]
      BY <2>1, <2>3
    <2> QED BY <2>1, <2>2, <2>3
  <1>4. PassesInv' /\ AvailableTypes' = AvailableTypes
        /\ CollectSatisfiableTypes' = CollectSatisfiableTypes
        /\ SatisfiableTypes' = SatisfiableTypes
    BY ScopeKept DEF GenInv
  <1>5. TypeOK'
    <2>1. PassesTypeOK' BY <1>4 DEF PassesInv
    <2>2. gen_counter_' \in 0..(MaxGen + 1) BY TypesAssumption
    <2> QED BY <2>1, <2>2, <1>3 DEF TypeOK, GenInv, scope
  <1>6. Collected' BY <1>1, <1>4 DEF Collected, GenInv, scope, passes
  <1>7. CallsKnown' BY <1>3 DEF CallsKnown, GenInv, passes
  <1>8. OnlyRoot' BY TypesAssumption DEF OnlyRoot
  <1>9. ArgumentsSatisfiable' BY <1>3, <1>4 DEF ArgumentsSatisfiable, GenInv
  <1>10. BranchesHaveSources' BY DEF BranchesHaveSources, GenInv
  <1>11. WithinBudget'
    <2>1. Cardinality(CallsIn(work')) = Cardinality(CallsIn(new)) + Cardinality(CallsIn(Rest))
      BY <1>2, CallsInConcat
    <2>2. Cardinality(CallsIn(work))' = Cardinality(CallsIn(work')) BY DEF CallsIn
    <2>3. MostArguments' = MostArguments /\ MostCalls' = MostCalls
      BY DEF MostArguments, MostCalls, Visited, Methods
    <2> QED BY <2>1, <2>2, <2>3 DEF WithinBudget
  <1> QED BY <1>4, <1>5, <1>6, <1>7, <1>8, <1>9, <1>10, <1>11 DEF GenInv

\* A counted call: the counter goes up, and at most MostCalls calls come in.
LEMMA CountedStep ==
  ASSUME GenInv, Enter, outcome' = outcome, NEW new \in Seq(Item), work' = new \o Rest,
         Cardinality(CallsIn(new)) <= MostCalls,
         \A i \in 1..Len(new) :
           /\ new[i].kind = "call" /\ new[i].type \in Function
           /\ new[i].by \in {"function", "method"}
           /\ new[i].by = "function" => new[i].type \in res
  PROVE  GenInv'
  <1>1. /\ Running /\ work \in Seq(Item) /\ work # <<>> /\ work[1].kind = "gen"
        /\ gen_counter_ \in Nat /\ gen_counter_' = gen_counter_ + 1
        /\ gen_counter_ <= MaxGen /\ MaxGen \in Nat
        /\ function_gen_counter_ \in Nat /\ function_gen_counter_' = function_gen_counter_
        /\ UNCHANGED <<scope, passes>>
    BY TypesAssumption DEF Enter, Running, Head1, GenInv, TypeOK
  <1>2. Cardinality(CallsIn(work)) = Cardinality(CallsIn(Rest)) /\ Rest \in Seq(Item)
    <2>1. Cardinality(CallsIn(work)) = 0 + Cardinality(CallsIn(Rest)) /\ Rest \in Seq(Item)
      BY <1>1, CallsInTail DEF Rest
    <2>2. Cardinality(CallsIn(Rest)) \in Nat BY <2>1, CallsInType
    <2> QED BY <2>1, <2>2
  <1>3. Cardinality(CallsIn(Rest)) \in Nat /\ Cardinality(CallsIn(new)) \in Nat
    BY <1>2, CallsInType
  <1>4. function_gen_counter_ + Cardinality(CallsIn(Rest)) * MostArguments
          <= (gen_counter_ * MostCalls) * MostArguments
    BY <1>2 DEF GenInv, WithinBudget
  <1>5. function_gen_counter_
          + (Cardinality(CallsIn(new)) + Cardinality(CallsIn(Rest))) * MostArguments
            <= ((gen_counter_ + 1) * MostCalls) * MostArguments
    BY <1>1, <1>3, <1>4, MostCallsBounds, MostArgumentsBounds, CountedBudget
  <1>6. gen_counter_' \in 1..(MaxGen + 1) BY <1>1
  <1>7. \A i \in 1..Len(new) :
          /\ new[i].kind = "call" =>
               /\ new[i].type \in Function
               /\ new[i].by \in {"function", "method"}
               /\ new[i].by = "function" => new[i].type \in res
          /\ new[i].kind = "gen" /\ new[i].by = "function" =>
               new[i].type \in SatisfiableTypes
    OBVIOUS
  <1> QED BY <1>1, <1>5, <1>6, <1>7, WorkStep

\* Nothing comes in.
LEMMA NothingComesIn ==
  ASSUME GenInv, Running
  PROVE  /\ <<>> \in Seq(Item)
         /\ Rest \in Seq(Item)
         /\ Rest = <<>> \o Rest
         /\ Cardinality(CallsIn(<<>>)) = 0
         /\ Len(<<>>) = 0
  <1>1. Rest \in Seq(Item) BY DEF GenInv, TypeOK, Running, Rest
  <1>2. CallsIn(<<>>) = {} BY DEF CallsIn
  <1> QED BY <1>1, <1>2, ConcatEmptySeq, FS_EmptySet

LEMMA DroppedStep ==
  ASSUME GenInv, Enter, outcome' = outcome, work' = Rest
  PROVE  GenInv'
  <1>1. Running BY DEF Enter
  <1>2. Cardinality(CallsIn(<<>>)) <= MostCalls BY <1>1, NothingComesIn, MostCallsBounds
  <1>3. 1..Len(<<>>) = {} BY <1>1, NothingComesIn
  <1>4. <<>> \in Seq(Item) /\ work' = <<>> \o Rest BY <1>1, NothingComesIn
  <1> QED BY <1>2, <1>3, <1>4, CountedStep

LEMMA LimitStep ==
  ASSUME GenInv, LimitReached
  PROVE  GenInv'
  <1>1. /\ Running /\ work \in Seq(Item) /\ work # <<>> /\ work[1].kind = "gen"
        /\ gen_counter_ \in 0..(MaxGen + 1) /\ gen_counter_' = gen_counter_
        /\ gen_counter_ > MaxGen /\ MaxGen \in Nat
        /\ function_gen_counter_ \in Nat /\ function_gen_counter_' = function_gen_counter_
        /\ UNCHANGED <<scope, passes>> /\ outcome' = outcome /\ work' = Rest
    BY TypesAssumption DEF LimitReached, Running, Head1, GenInv, TypeOK
  <1>2. Cardinality(CallsIn(work)) = 0 + Cardinality(CallsIn(Rest))
    BY <1>1, CallsInTail DEF Rest
  <1>3. function_gen_counter_'
          + (Cardinality(CallsIn(<<>>)) + Cardinality(CallsIn(Rest))) * MostArguments
            <= (gen_counter_' * MostCalls) * MostArguments
    BY <1>1, <1>2, NothingComesIn DEF GenInv, WithinBudget
  <1>4. gen_counter_' \in 1..(MaxGen + 1) BY <1>1
  <1>5. 1..Len(<<>>) = {} BY <1>1, NothingComesIn
  <1>6. <<>> \in Seq(Item) /\ work' = <<>> \o Rest BY <1>1, NothingComesIn
  <1> QED BY <1>1, <1>3, <1>4, <1>5, <1>6, WorkStep

\* The cache, while the generator runs.
LEMMA RunningCache ==
  ASSUME GenInv, Running
  PROVE  /\ TypeOK /\ PassesInv /\ done /\ function_type_set = function_map
         /\ available_types = AvailableTypes
         /\ all_satisfiable_types = CollectSatisfiableTypes
         /\ res \subseteq Function
  <1>1. res \subseteq Function BY DEF GenInv, PassesInv, PassesTypeOK
  <1> QED BY <1>1 DEF GenInv, Running, Collected

LEMMA FunctionStep ==
  ASSUME GenInv, GenerateFunctionCall
  PROVE  GenInv'
  <1>1. Enter /\ Running /\ outcome' = outcome BY DEF GenerateFunctionCall, Enter
  <1>0. PICK t \in SatisfiableTypes :
          \E f \in FunctionSources(t) : work' = <<CallOf(f, "function")>> \o Rest
    BY DEF GenerateFunctionCall
  <1>2. PICK f \in FunctionSources(t) : work' = <<CallOf(f, "function")>> \o Rest
    BY <1>0
  <1>3. t \in TypeID BY DEF SatisfiableTypes
  <1>4. f \in res /\ f \in Function BY <1>1, <1>2, <1>3, RunningCache, CacheContent
  <1> DEFINE new == <<CallOf(f, "function")>>
  <1>5. CallOf(f, "function") \in Item BY <1>4, TypesAssumption DEF CallOf, Item
  <1>6. new \in Seq(Item) /\ Len(new) = 1 /\ new[1] = CallOf(f, "function") BY <1>5
  <1>7. new[1].kind = "call" /\ new[1].type = f /\ new[1].by = "function"
    BY <1>6 DEF CallOf
  <1>8. Cardinality(CallsIn(new)) <= MostCalls
    <2>1. CallsIn(new) = {1} BY <1>6, <1>7 DEF CallsIn
    <2> QED BY <2>1, FS_Singleton, MostCallsBounds
  <1>9. work' = new \o Rest BY <1>2
  <1>10. \A i \in 1..Len(new) :
           /\ new[i].kind = "call" /\ new[i].type \in Function
           /\ new[i].by \in {"function", "method"}
           /\ new[i].by = "function" => new[i].type \in res
    BY <1>4, <1>6, <1>7
  <1> HIDE DEF new
  <1> QED BY <1>1, <1>6, <1>8, <1>9, <1>10, CountedStep

LEMMA MemberStep ==
  ASSUME GenInv, GenerateMember
  PROVE  GenInv'
  <1>1. Enter /\ Running BY DEF GenerateMember, Enter
  <1> DEFINE Picked(t, c) ==
               IF ~Solves(c, t) /\ t # c
               THEN outcome' = "assert(member_type == compound_type)" /\ UNCHANGED work
               ELSE /\ \E ms \in MethodCalls(c, t) :
                         work' = [i \in DOMAIN ms |-> CallOf(ms[i], "method")] \o Rest
                    /\ UNCHANGED outcome
  <1>0. PICK t \in SatisfiableTypes : \E c \in StructureSources(t) : Picked(t, c)
    BY DEF GenerateMember
  <1>2. PICK c \in StructureSources(t) : Picked(t, c)
    BY <1>0
  <1>3. t \in TypeID BY DEF SatisfiableTypes
  <1>4. c \in compound_var_map /\ (t = c \/ t \in TypesOfStructure(c))
    BY <1>1, <1>2, <1>3, RunningCache, CacheContent
  <1>5. c \in Compound BY <1>4 DEF GenInv, TypeOK
  <1>6. t = c \/ Solves(c, t) BY <1>4, <1>5, MemberIsFound
  <1>7. PICK ms \in MethodCalls(c, t) :
          work' = [i \in DOMAIN ms |-> CallOf(ms[i], "method")] \o Rest
    BY <1>2, <1>6
  <1>8. outcome' = outcome BY <1>2, <1>6
  <1>9. PICK S \in CallingSets(c, t) :
          ms \in [1..Cardinality(S) -> UNION {Methods(d, t) : d \in S}]
    BY DEF MethodCalls
  <1>10. S \in SUBSET Able(c, t) BY DEF CallingSets, Able
  <1>11. Cardinality(S) \in Nat /\ Cardinality(S) <= MostCalls
    <2>1. IsFiniteSet(S) /\ Cardinality(S) <= Cardinality(Able(c, t))
      BY <1>10, AbleIsFinite, FS_Subset
    <2>2. Cardinality(S) \in Nat BY <2>1, FS_CardinalityType
    <2> QED BY <2>1, <2>2, <1>3, <1>5, AbleIsFinite, MostCallsBounds
  <1>12. \A i \in 1..Cardinality(S) : ms[i] \in Function BY <1>9 DEF Methods
  <1> DEFINE n == Cardinality(S)
             new == [i \in DOMAIN ms |-> CallOf(ms[i], "method")]
  <1>13. new = [i \in 1..n |-> CallOf(ms[i], "method")] BY <1>9
  <1>14. \A i \in 1..n : CallOf(ms[i], "method") \in Item
    BY <1>12, TypesAssumption DEF CallOf, Item
  <1>15. new \in Seq(Item) /\ Len(new) = n
    <2>1. [i \in 1..n |-> CallOf(ms[i], "method")] \in Seq(Item)
          /\ Len([i \in 1..n |-> CallOf(ms[i], "method")]) = n
      <3> HIDE DEF n
      <3> QED BY <1>11, <1>14 DEF n
    <2> QED BY <2>1, <1>13
  <1>16. \A i \in 1..Len(new) :
           /\ new[i].kind = "call" /\ new[i].type \in Function
           /\ new[i].by \in {"function", "method"}
           /\ new[i].by = "function" => new[i].type \in res
    BY <1>12, <1>13, <1>15 DEF CallOf
  <1>17. Cardinality(CallsIn(new)) <= MostCalls
    <2> HIDE DEF new
    <2>1. CallsIn(new) = 1..n BY <1>15, <1>16 DEF CallsIn
    <2>2. Cardinality(1..n) = n BY <1>11, FS_Interval
    <2> QED BY <2>1, <2>2, <1>11
  <1>18. work' = new \o Rest BY <1>7
  <1> HIDE DEF new
  <1> QED BY <1>1, <1>8, <1>15, <1>16, <1>17, <1>18, CountedStep

LEMMA VariableStep ==
  ASSUME GenInv, GenerateVariable
  PROVE  GenInv'
  <1>1. Enter /\ Running /\ gen_counter_ + 1 \in Nat
    BY TypesAssumption DEF GenerateVariable, Enter, GenInv, TypeOK
  <1>2. PICK t \in SatisfiableTypes :
          /\ "simple" \in Branches(t, gen_counter_ + 1)
          /\ IF SimpleSources(t) = {}
             THEN outcome' = "assert(!simple_var_map[type].empty())" /\ UNCHANGED work
             ELSE work' = Rest /\ UNCHANGED outcome
    BY DEF GenerateVariable
  <1>3. t \in TypeID BY DEF SatisfiableTypes
  <1>4. SimpleSources(t) # {} BY <1>1, <1>2, <1>3, VariableIsThere DEF GenInv
  <1> QED BY <1>1, <1>2, <1>4, DroppedStep

\* The assertion of the branch for operators stops the generator.
LEMMA ExpressionStep ==
  ASSUME GenInv, GenerateExpression
  PROVE  GenInv'
  <1>1. /\ Running /\ work \in Seq(Item) /\ work # <<>>
        /\ gen_counter_ \in Nat /\ gen_counter_' = gen_counter_ + 1
        /\ gen_counter_ <= MaxGen /\ MaxGen \in Nat
        /\ function_gen_counter_ \in Nat /\ function_gen_counter_' = function_gen_counter_
        /\ UNCHANGED <<scope, passes>> /\ work' = work /\ outcome' = "assert(false)"
    BY TypesAssumption DEF GenerateExpression, Enter, Running, GenInv, TypeOK
  <1>2. PassesInv' /\ AvailableTypes' = AvailableTypes
        /\ CollectSatisfiableTypes' = CollectSatisfiableTypes
        /\ SatisfiableTypes' = SatisfiableTypes
    BY <1>1, ScopeKept DEF GenInv
  <1>3. TypeOK'
    <2>1. PassesTypeOK' BY <1>2 DEF PassesInv
    <2>2. gen_counter_' \in 0..(MaxGen + 1) BY <1>1
    <2>4. /\ IsWeakType' = IsWeakType /\ simple_var_map' = simple_var_map
          /\ compound_var_map' = compound_var_map /\ function_map' = function_map
          /\ all_satisfiable_types' = all_satisfiable_types
      BY <1>1 DEF scope
    <2> QED BY <1>1, <2>1, <2>2, <2>4 DEF TypeOK, GenInv, Outcome
  <1>4. Collected' BY <1>1, <1>2 DEF Collected, GenInv, Running, scope, passes
  <1>5. CallsKnown' BY <1>1 DEF CallsKnown, GenInv, passes
  <1>6. OnlyRoot' BY <1>1 DEF OnlyRoot
  <1>7. ArgumentsSatisfiable' BY <1>1, <1>2 DEF ArgumentsSatisfiable, GenInv
  <1>8. BranchesHaveSources' BY <1>1 DEF BranchesHaveSources
  <1>9. WithinBudget'
    <2> DEFINE p == Cardinality(CallsIn(work))
    <2>1. p \in Nat BY <1>1, CallsInType
    <2>2. function_gen_counter_ + p * MostArguments <= (gen_counter_ * MostCalls) * MostArguments
      BY DEF GenInv, WithinBudget
    <2>3. function_gen_counter_ + (0 + p) * MostArguments
            <= ((gen_counter_ + 1) * MostCalls) * MostArguments
      <3> HIDE DEF p
      <3> QED BY <1>1, <2>1, <2>2, MostCallsBounds, MostArgumentsBounds, CountedBudget
    <2>4. 0 + p = p BY <2>1
    <2>5. Cardinality(CallsIn(work))' = p BY <1>1 DEF CallsIn
    <2>6. MostArguments' = MostArguments /\ MostCalls' = MostCalls
      BY DEF MostArguments, MostCalls, Visited, Methods
    <2> HIDE DEF p
    <2> QED BY <1>1, <2>3, <2>4, <2>5, <2>6 DEF WithinBudget
  <1> QED BY <1>2, <1>3, <1>4, <1>5, <1>6, <1>7, <1>8, <1>9 DEF GenInv

LEMMA CallFunctionStep ==
  ASSUME GenInv, CallFunction
  PROVE  GenInv'
  <1>1. /\ Running /\ work \in Seq(Item) /\ work # <<>> /\ work[1].kind = "call"
        /\ gen_counter_ \in 0..(MaxGen + 1) /\ gen_counter_' = gen_counter_
        /\ MaxGen \in Nat /\ function_gen_counter_ \in Nat
        /\ UNCHANGED <<scope, passes>> /\ outcome' = outcome
    BY TypesAssumption DEF CallFunction, Running, Head1, GenInv, TypeOK
  <1>2. 1 \in 1..Len(work) BY <1>1
  <1> DEFINE f == work[1].type
             by == work[1].by
             args == v_arg_types_[f]
             new == [i \in DOMAIN args |-> Gen(args[i], by)]
  <1>3. f \in Function /\ by \in {"function", "method"} /\ (by = "function" => f \in res)
    BY <1>1, <1>2 DEF GenInv, CallsKnown
  <1>4. args \in Seq(SimpleType \cup Compound) BY <1>3, TypesAssumption
  <1>5. PICK n \in Nat : n = Len(args) /\ DOMAIN args = 1..n BY <1>4
  <1>6. /\ function_gen_counter_' = function_gen_counter_ + n
        /\ work' = new \o Rest
    BY <1>5 DEF CallFunction, Head1
  <1>7. \A i \in 1..n : args[i] \in TypeID /\ args[i] \in Args[f]
    <2>1. \A i \in 1..n : args[i] \in SimpleType \cup Compound BY <1>4, <1>5
    <2>2. Args[f] = {args[i] : i \in 1..n} BY <1>3, <1>5, TypesAssumption
    <2> QED BY <2>1, <2>2, TypesAssumption
  <1>8. \A i \in 1..n : Gen(args[i], by) \in Item
    BY <1>3, <1>7 DEF Gen, Item
  <1>9. /\ new \in Seq(Item) /\ Len(new) = n
        /\ \A i \in 1..n : new[i] = Gen(args[i], by)
    <2> HIDE DEF args, f, by
    <2> QED BY <1>5, <1>8
  <1>10. \A i \in 1..n : new[i].kind = "gen" /\ new[i].type = args[i] /\ new[i].by = by
    BY <1>9 DEF Gen
  <1> HIDE DEF new, args, by, f
  <1>11. ASSUME by = "function" PROVE Args[f] \subseteq SatisfiableTypes
    <2>1. f \in res BY <1>3, <1>11
    <2> QED BY <1>1, <2>1, RunningCache, ArgumentsHaveSources
  <1>12. \A i \in 1..Len(new) :
           /\ new[i].kind = "call" =>
                /\ new[i].type \in Function
                /\ new[i].by \in {"function", "method"}
                /\ new[i].by = "function" => new[i].type \in res
           /\ new[i].kind = "gen" /\ new[i].by = "function" =>
                new[i].type \in SatisfiableTypes
    BY <1>7, <1>9, <1>10, <1>11
  <1>13. gen_counter_' \in 1..(MaxGen + 1)
    <2>1. gen_counter_ # 0 BY <1>1, <1>2 DEF GenInv, OnlyRoot
    <2> QED BY <1>1, <2>1
  <1>14. function_gen_counter_' \in Nat BY <1>1, <1>5, <1>6
  <1>15. function_gen_counter_'
           + (Cardinality(CallsIn(new)) + Cardinality(CallsIn(Rest))) * MostArguments
             <= (gen_counter_' * MostCalls) * MostArguments
    <2>1. Cardinality(CallsIn(work)) = 1 + Cardinality(CallsIn(Rest)) /\ Rest \in Seq(Item)
      BY <1>1, CallsInTail DEF Rest
    <2>2. Cardinality(CallsIn(Rest)) \in Nat BY <2>1, CallsInType
    <2>3. CallsIn(new) = {} BY <1>9, <1>10 DEF CallsIn
    <2>4. Cardinality(CallsIn(new)) = 0 BY <2>3, FS_EmptySet
    <2>5. gen_counter_ * MostCalls \in Nat BY <1>1, MostCallsBounds
    <2>6. (gen_counter_ * MostCalls) * MostArguments \in Nat BY <2>5, MostArgumentsBounds
    <2>7. n <= MostArguments BY <1>3, <1>5, MostArgumentsBounds DEF args
    <2>8. function_gen_counter_ + (1 + Cardinality(CallsIn(Rest))) * MostArguments
            <= (gen_counter_ * MostCalls) * MostArguments
      BY <2>1 DEF GenInv, WithinBudget
    <2>9. (function_gen_counter_ + n) + (0 + Cardinality(CallsIn(Rest))) * MostArguments
            <= (gen_counter_ * MostCalls) * MostArguments
      BY <1>1, <1>5, <2>2, <2>6, <2>7, <2>8, MostArgumentsBounds, CalledBudget
    <2> QED BY <1>1, <1>6, <2>4, <2>9
  <1> QED BY <1>1, <1>6, <1>9, <1>12, <1>13, <1>14, <1>15, WorkStep

\* Before and after the generation nothing is left to do.
LEMMA IdleParts ==
  ASSUME work' = <<>>, function_gen_counter_' \in Nat, gen_counter_' \in Nat,
         function_gen_counter_' <= (gen_counter_' * MostCalls) * MostArguments
  PROVE  CallsKnown' /\ OnlyRoot' /\ ArgumentsSatisfiable' /\ WithinBudget'
  <1>1. 1..Len(work') = {} OBVIOUS
  <1>2. CallsKnown' /\ OnlyRoot' /\ ArgumentsSatisfiable'
    BY <1>1 DEF CallsKnown, OnlyRoot, ArgumentsSatisfiable
  <1>3. Cardinality(CallsIn(work))' = 0
    <2>1. CallsIn(work') = {} BY <1>1 DEF CallsIn
    <2>2. CallsIn(work)' = CallsIn(work') BY DEF CallsIn
    <2> QED BY <2>1, <2>2, FS_EmptySet
  <1>4. MostArguments' = MostArguments /\ MostCalls' = MostCalls
    BY DEF MostArguments, MostCalls, Visited, Methods
  <1>5. 0 * MostArguments = 0 BY MostArgumentsBounds
  <1>6. WithinBudget' BY <1>3, <1>4, <1>5 DEF WithinBudget
  <1> QED BY <1>2, <1>6

\* The budget without calls.
LEMMA IdleBudget ==
  ASSUME GenInv, work = <<>>
  PROVE  function_gen_counter_ <= (gen_counter_ * MostCalls) * MostArguments
  <1>1. CallsIn(work) = {}
    <2>1. 1..Len(work) = {} OBVIOUS
    <2> QED BY <2>1 DEF CallsIn
  <1>2. Cardinality(CallsIn(work)) = 0 BY <1>1, FS_EmptySet
  <1>3. 0 * MostArguments = 0 BY MostArgumentsBounds
  <1>4. function_gen_counter_ \in Nat BY DEF GenInv, TypeOK
  <1> QED BY <1>2, <1>3, <1>4 DEF GenInv, WithinBudget

LEMMA CollectTypesStep ==
  ASSUME GenInv, CollectTypes
  PROVE  GenInv'
  <1>1. /\ outcome = "called" /\ outcome' = "collecting" /\ work = <<>> /\ work' = work
        /\ gen_counter_' = gen_counter_ /\ function_gen_counter_' = function_gen_counter_
        /\ UNCHANGED scope
        /\ calc_satisfiable_functions(function_map, AvailableTypes)
    BY DEF CollectTypes, GenInv, Collected
  <1>2. function_map \in SUBSET Function /\ AvailableTypes \in SUBSET TypeID
    BY AvailableInScope DEF GenInv, TypeOK
  <1>3. PassesInv' BY <1>1, <1>2, CallStep DEF GenInv
  <1>4. TypeOK'
    <2>1. PassesTypeOK' BY <1>3 DEF PassesInv
    <2> QED BY <1>1, <2>1 DEF TypeOK, GenInv, scope, Outcome
  <1>5. Collected'
    <2>1. \A c : TypesOfStructure(c)' = TypesOfStructure(c)
      BY <1>1 DEF TypesOfStructure, TypesOfMember, scope
    <2>2. AvailableTypes' = AvailableTypes BY <1>1, <2>1 DEF AvailableTypes, scope
    <2> QED BY <1>1, <2>2 DEF Collected, calc_satisfiable_functions, scope
  <1>6. CallsKnown' /\ OnlyRoot' /\ ArgumentsSatisfiable' /\ WithinBudget'
    BY <1>1, <1>4, IdleParts, IdleBudget DEF GenInv, TypeOK
  <1>7. BranchesHaveSources' BY <1>1 DEF BranchesHaveSources
  <1> QED BY <1>3, <1>4, <1>5, <1>6, <1>7 DEF GenInv

LEMMA CollectFunctionsStep ==
  ASSUME GenInv, CollectFunctions
  PROVE  GenInv'
  <1>1. /\ outcome = "collecting" /\ outcome' = outcome /\ work = <<>> /\ work' = work
        /\ gen_counter_' = gen_counter_ /\ function_gen_counter_' = function_gen_counter_
        /\ UNCHANGED scope /\ Passes
        /\ function_type_set = function_map /\ available_types = AvailableTypes
    BY DEF CollectFunctions, GenInv, Collected
  <1>2. PassesInv'
    BY <1>1, EraseStep, KeepStep, NextPassStep, ReturnStep DEF Passes, GenInv
  <1>3. UNCHANGED <<function_type_set, available_types>>
    BY <1>1 DEF Passes, Erase, Keep, NextPass, ReturnFunctions
  <1>4. TypeOK'
    <2>1. PassesTypeOK' BY <1>2 DEF PassesInv
    <2> QED BY <1>1, <2>1 DEF TypeOK, GenInv, scope, Outcome
  <1>5. Collected'
    <2>1. \A c : TypesOfStructure(c)' = TypesOfStructure(c)
      BY <1>1 DEF TypesOfStructure, TypesOfMember, scope
    <2>2. AvailableTypes' = AvailableTypes BY <1>1, <2>1 DEF AvailableTypes, scope
    <2> QED BY <1>1, <1>3, <2>2 DEF Collected, scope
  <1>6. CallsKnown' /\ OnlyRoot' /\ ArgumentsSatisfiable' /\ WithinBudget'
    BY <1>1, <1>4, IdleParts, IdleBudget DEF GenInv, TypeOK
  <1>7. BranchesHaveSources' BY <1>1 DEF BranchesHaveSources
  <1> QED BY <1>2, <1>4, <1>5, <1>6, <1>7 DEF GenInv

LEMMA StartStep ==
  ASSUME GenInv, Start
  PROVE  GenInv'
  <1>1. /\ outcome = "collecting" /\ outcome' = "running" /\ done
        /\ work' = <<Gen(kAllTypes, "root")>>
        /\ gen_counter_' = gen_counter_ /\ function_gen_counter_' = function_gen_counter_
        /\ UNCHANGED <<IsWeakType, simple_var_map, compound_var_map, function_map>>
        /\ UNCHANGED passes
        /\ all_satisfiable_types' = CollectSatisfiableTypes
        /\ function_type_set = function_map /\ available_types = AvailableTypes
        /\ work = <<>>
    BY DEF Start, GenInv, Collected
  <1>2. PassesInv'
    BY <1>1 DEF GenInv, passes, PassesInv, PassesTypeOK, NothingTooMuch, Closed,
                ErasedSatisfied, PassClean, Returned
  <1>3. \A c : TypesOfStructure(c)' = TypesOfStructure(c)
    BY <1>1 DEF TypesOfStructure, TypesOfMember
  <1>4. AvailableTypes' = AvailableTypes BY <1>1, <1>3 DEF AvailableTypes
  <1>5. CollectSatisfiableTypes' = CollectSatisfiableTypes
    BY <1>1, <1>3 DEF CollectSatisfiableTypes, CallableFunctions, passes
  <1>6. Gen(kAllTypes, "root") \in Item BY DEF Gen, Item
  <1>7. /\ work' \in Seq(Item) /\ Len(work') = 1 /\ work'[1] = Gen(kAllTypes, "root")
        /\ work'[1].kind = "gen" /\ work'[1].by = "root"
    BY <1>1, <1>6 DEF Gen
  <1>8. TypeOK'
    <2>1. PassesTypeOK' BY <1>2 DEF PassesInv
    <2>2. res \subseteq function_map BY <1>1 DEF GenInv, PassesInv, PassesTypeOK
    <2>3. CollectSatisfiableTypes \in
            [TypeID -> [simple : SUBSET simple_var_map, structure : SUBSET compound_var_map,
                        function : SUBSET function_map]]
      <3> SUFFICES ASSUME NEW t \in TypeID
                   PROVE  /\ {t} \cap simple_var_map \in SUBSET simple_var_map
                          /\ {c \in compound_var_map : t = c \/ t \in TypesOfStructure(c)}
                               \in SUBSET compound_var_map
                          /\ {f \in res : Ret[f] = t} \in SUBSET function_map
        BY DEF CollectSatisfiableTypes, CallableFunctions
      <3> QED BY <2>2
    <2> QED BY <1>1, <1>7, <2>1, <2>3 DEF TypeOK, GenInv, Outcome
  <1>9. Collected' BY <1>1, <1>4, <1>5 DEF Collected, passes
  <1>10. CallsKnown' BY <1>7 DEF CallsKnown
  <1>11. OnlyRoot' BY <1>7 DEF OnlyRoot
  <1>12. ArgumentsSatisfiable' BY <1>7 DEF ArgumentsSatisfiable
  <1>13. BranchesHaveSources' BY <1>1 DEF BranchesHaveSources
  <1>14. WithinBudget'
    <2>1. CallsIn(work)' = {} BY <1>7 DEF CallsIn
    <2>2. Cardinality(CallsIn(work))' = 0 BY <2>1, FS_EmptySet
    <2>3. MostArguments' = MostArguments /\ MostCalls' = MostCalls
      BY DEF MostArguments, MostCalls, Visited, Methods
    <2>4. 0 * MostArguments = 0 BY MostArgumentsBounds
    <2>5. function_gen_counter_ \in Nat BY DEF GenInv, TypeOK
    <2>6. function_gen_counter_ <= (gen_counter_ * MostCalls) * MostArguments
      BY <1>1, IdleBudget
    <2> QED BY <1>1, <2>2, <2>3, <2>4, <2>5, <2>6 DEF WithinBudget
  <1> QED BY <1>2, <1>8, <1>9, <1>10, <1>11, <1>12, <1>13, <1>14 DEF GenInv

LEMMA FinishStep ==
  ASSUME GenInv, Finish
  PROVE  GenInv'
  <1>1. /\ outcome = "running" /\ outcome' = "done" /\ work = <<>> /\ work' = work
        /\ gen_counter_' = gen_counter_ /\ function_gen_counter_' = function_gen_counter_
        /\ UNCHANGED <<scope, passes>>
    BY DEF Finish
  <1>2. PassesInv' /\ AvailableTypes' = AvailableTypes
        /\ CollectSatisfiableTypes' = CollectSatisfiableTypes
    BY <1>1, ScopeKept DEF GenInv
  <1>3. TypeOK'
    <2>1. PassesTypeOK' BY <1>2 DEF PassesInv
    <2> QED BY <1>1, <2>1 DEF TypeOK, GenInv, scope, Outcome
  <1>4. Collected' BY <1>1, <1>2 DEF Collected, GenInv, scope, passes
  <1>5. CallsKnown' /\ OnlyRoot' /\ ArgumentsSatisfiable' /\ WithinBudget'
    BY <1>1, <1>3, IdleParts, IdleBudget DEF GenInv, TypeOK
  <1>6. BranchesHaveSources' BY <1>1 DEF BranchesHaveSources
  <1> QED BY <1>2, <1>3, <1>4, <1>5, <1>6 DEF GenInv

LEMMA StutterStep ==
  ASSUME GenInv, UNCHANGED vars
  PROVE  GenInv'
  <1>1. /\ UNCHANGED <<scope, passes>> /\ outcome' = outcome /\ work' = work
        /\ gen_counter_' = gen_counter_ /\ function_gen_counter_' = function_gen_counter_
    BY DEF vars
  <1>2. PassesInv' /\ AvailableTypes' = AvailableTypes
        /\ CollectSatisfiableTypes' = CollectSatisfiableTypes
        /\ SatisfiableTypes' = SatisfiableTypes
    BY <1>1, ScopeKept DEF GenInv
  <1>3. TypeOK'
    <2>1. PassesTypeOK' BY <1>2 DEF PassesInv
    <2> QED BY <1>1, <2>1 DEF TypeOK, GenInv, scope, Outcome
  <1>4. Collected' BY <1>1, <1>2 DEF Collected, GenInv, scope, passes
  <1>5. CallsKnown' /\ OnlyRoot' /\ ArgumentsSatisfiable'
    BY <1>1, <1>2 DEF GenInv, CallsKnown, OnlyRoot, ArgumentsSatisfiable, passes
  <1>6. WithinBudget'
    BY <1>1 DEF GenInv, WithinBudget, CallsIn, MostArguments, MostCalls, Visited, Methods
  <1>7. BranchesHaveSources' BY <1>1 DEF BranchesHaveSources, GenInv
  <1> QED BY <1>2, <1>3, <1>4, <1>5, <1>6, <1>7 DEF GenInv

LEMMA InitGenInv == Init => GenInv
  <1> SUFFICES ASSUME Init PROVE GenInv OBVIOUS
  <1> USE DEF Init
  <1>1. PassesInv BY InitPassesInv
  <1>2. TypeOK
    <2>1. PassesTypeOK BY <1>1 DEF PassesInv
    <2>2. function_map \in SUBSET Function BY TypesAssumption
    <2>3. all_satisfiable_types \in
            [TypeID -> [simple : SUBSET simple_var_map, structure : SUBSET compound_var_map,
                        function : SUBSET function_map]]
      BY DEF NoSources
    <2>4. gen_counter_ \in 0..(MaxGen + 1) /\ function_gen_counter_ \in Nat
      BY TypesAssumption
    <2> QED BY <2>1, <2>2, <2>3, <2>4 DEF TypeOK, Outcome
  <1>3. Collected BY DEF Collected
  <1>4. 1..Len(work) = {} OBVIOUS
  <1>5. CallsKnown /\ OnlyRoot /\ ArgumentsSatisfiable
    BY <1>4 DEF CallsKnown, OnlyRoot, ArgumentsSatisfiable
  <1>6. WithinBudget
    <2>1. CallsIn(work) = {} BY <1>4 DEF CallsIn
    <2>2. Cardinality(CallsIn(work)) = 0 BY <2>1, FS_EmptySet
    <2>3. 0 * MostArguments = 0 /\ 0 * MostCalls = 0
      BY MostArgumentsBounds, MostCallsBounds
    <2> QED BY <2>2, <2>3 DEF WithinBudget
  <1>7. BranchesHaveSources BY DEF BranchesHaveSources
  <1> QED BY <1>1, <1>2, <1>3, <1>5, <1>6, <1>7 DEF GenInv

-----------------------------------------------------------------------------
(***************************************************************************)
(* The invariant of ExpressionGenerator holds for every scope and whatever *)
(* is drawn.                                                               *)
(***************************************************************************)
THEOREM GeneratorInvariant == Spec => []GenInv
  <1>1. ASSUME GenInv, [Next]_vars PROVE GenInv'
    <2>1. CASE UNCHANGED vars BY <1>1, <2>1, StutterStep
    <2>2. CASE CollectTypes BY <1>1, <2>2, CollectTypesStep
    <2>3. CASE CollectFunctions BY <1>1, <2>3, CollectFunctionsStep
    <2>4. CASE Start BY <1>1, <2>4, StartStep
    <2>5. CASE LimitReached BY <1>1, <2>5, LimitStep
    <2>6. CASE GenerateNumber BY <1>1, <2>6, DroppedStep DEF GenerateNumber
    <2>7. CASE GenerateExpression BY <1>1, <2>7, ExpressionStep
    <2>8. CASE GenerateFunctionCall BY <1>1, <2>8, FunctionStep
    <2>9. CASE GenerateMember BY <1>1, <2>9, MemberStep
    <2>10. CASE GenerateVariable BY <1>1, <2>10, VariableStep
    <2>11. CASE CallFunction BY <1>1, <2>11, CallFunctionStep
    <2>12. CASE Finish BY <1>1, <2>12, FinishStep
    <2> QED BY <1>1, <2>1, <2>2, <2>3, <2>4, <2>5, <2>6, <2>7, <2>8, <2>9, <2>10, <2>11,
               <2>12 DEF Next
  <1> QED BY <1>1, InitGenInv, PTL DEF Spec

(***************************************************************************)
(* Type correctness of the generator: gen_counter_ never passes its limit  *)
(* by more than one, and the sources of a type are in scope.               *)
(***************************************************************************)
THEOREM GeneratorTypeOK == Spec => []TypeOK
  <1>1. GenInv => TypeOK BY DEF GenInv
  <1> QED BY <1>1, GeneratorInvariant, PTL

(***************************************************************************)
(* Within the generator, calc_satisfiable_functions returns the least      *)
(* fixed point over the functions and types in scope.                      *)
(***************************************************************************)
THEOREM GeneratorResult == Spec => []ResultIsLeast
  <1>1. GenInv => ResultIsLeast BY LeastResult DEF GenInv
  <1> QED BY <1>1, GeneratorInvariant, PTL

(***************************************************************************)
(* The draw never leads to a branch with nothing in it: the assertions of  *)
(* structure_member_gen_handler and of the branch for variables hold.      *)
(***************************************************************************)
THEOREM GeneratorBranches == Spec => []BranchesHaveSources
  <1>1. GenInv => BranchesHaveSources BY DEF GenInv
  <1> QED BY <1>1, GeneratorInvariant, PTL

(***************************************************************************)
(* Every argument of a function in scope has a type with a source.         *)
(***************************************************************************)
THEOREM GeneratorArguments == Spec => []ArgumentsSatisfiable
  <1>1. GenInv => ArgumentsSatisfiable BY DEF GenInv
  <1> QED BY <1>1, GeneratorInvariant, PTL

(***************************************************************************)
(* generate_expression_by_type_core never reads the IR it was not given.   *)
(***************************************************************************)
THEOREM GeneratorNullIR == Spec => []NullIRIsNotRead
  <1>1. GenInv => NullIRIsNotRead BY DEF GenInv, OnlyRoot, NullIRIsNotRead
  <1> QED BY <1>1, GeneratorInvariant, PTL

(***************************************************************************)
(* function_gen_counter_, by a quarter of which a weight is shifted, is    *)
(* bounded through the limit of gen_counter_.                              *)
(***************************************************************************)
THEOREM GeneratorShift == Spec => []ShiftIsBounded
  <1>1. GenInv => ShiftIsBounded
    <2> SUFFICES ASSUME GenInv PROVE ShiftIsBounded OBVIOUS
    <2> DEFINE p == Cardinality(CallsIn(work))
               A == MostArguments
               M == MostCalls
    <2>1. A \in Nat /\ M \in Nat BY MostArgumentsBounds, MostCallsBounds
    <2>2. /\ p \in Nat /\ function_gen_counter_ \in Nat
          /\ gen_counter_ \in Nat /\ MaxGen + 1 \in Nat /\ gen_counter_ <= MaxGen + 1
      BY CallsInType, TypesAssumption DEF GenInv, TypeOK
    <2>3. function_gen_counter_ + p * A <= (gen_counter_ * M) * A
      BY DEF GenInv, WithinBudget
    <2> HIDE DEF p, A, M
    <2>4. gen_counter_ * M \in Nat /\ (MaxGen + 1) * M \in Nat
          /\ gen_counter_ * M <= (MaxGen + 1) * M
      BY <2>1, <2>2, ProductMonotone
    <2>5. /\ (gen_counter_ * M) * A \in Nat /\ ((MaxGen + 1) * M) * A \in Nat
          /\ (gen_counter_ * M) * A <= ((MaxGen + 1) * M) * A
      BY <2>1, <2>4, ProductMonotone
    <2>6. p * A \in Nat BY <2>1, <2>2
    <2>7. function_gen_counter_ <= ((MaxGen + 1) * M) * A BY <2>2, <2>3, <2>5, <2>6
    <2> QED BY <2>7 DEF ShiftIsBounded, A, M
  <1> QED BY <1>1, GeneratorInvariant, PTL

=============================================================================
