------------------------ MODULE SatisfiableFunctions ------------------------
(***************************************************************************)
(* ExpressionGenerator::calc_satisfiable_functions                         *)
(* (srcs/internal/srcs/typesystem.cpp): which of the functions in scope    *)
(* can be called, given the types of which there is a value.  A function   *)
(* that can be called provides a value of its return type, so that the     *)
(* question is a fixed point; the code finds it by passes over the map of  *)
(* the functions not yet satisfied, until a pass erases none.              *)
(*                                                                         *)
(* One action per iteration of the loops.  The map is ordered by type id.  *)
(* It is called any number of times, see ExpressionGeneration.             *)
(***************************************************************************)
EXTENDS Naturals

CONSTANTS
  Function,       \* type ids of functions, numbers
  TypeID,         \* type ids that occur as argument or return type
  Args,           \* Args[f]: the set of f's argument types
  Ret,            \* Ret[f]: f's return type
  FunctionSets    \* the sets of functions the generator may be asked about

ASSUME FunctionAssumption ==
  /\ Function \subseteq Nat
  /\ Args \in [Function -> SUBSET TypeID]
  /\ Ret \in [Function -> TypeID]
  /\ FunctionSets \subseteq SUBSET Function

VARIABLES
  function_type_set,  \* first parameter
  available_types,    \* second parameter
  func_map,           \* the functions not yet satisfied
  current_types,      \* the types of which there is a value
  todo,               \* the part of func_map the iterator has still to reach
  is_change,
  done,               \* no call is under way
  res                 \* result of the last call

passes == <<function_type_set, available_types, func_map, current_types, todo,
            is_change, done, res>>

-----------------------------------------------------------------------------
InitPasses ==
  /\ function_type_set = {}
  /\ available_types = {}
  /\ func_map = {}
  /\ current_types = {}
  /\ todo = {}
  /\ is_change = FALSE
  /\ done = TRUE
  /\ res = {}

\* The call: the map is set up and the first pass begins.
calc_satisfiable_functions(functions, types) ==
  /\ done
  /\ function_type_set' = functions
  /\ available_types' = types
  /\ func_map' = functions
  /\ current_types' = types
  /\ todo' = functions
  /\ is_change' = FALSE
  /\ done' = FALSE
  /\ res' = {}

\* func_itr: the next function of this pass.
IsNext(f) == f \in todo /\ \A g \in todo : f <= g

Satisfied(f) == Args[f] \subseteq current_types

Erase(f) ==
  /\ ~done
  /\ IsNext(f)
  /\ Satisfied(f)
  /\ func_map' = func_map \ {f}
  /\ current_types' = current_types \cup {Ret[f]}
  /\ todo' = todo \ {f}
  /\ is_change' = TRUE
  /\ UNCHANGED <<function_type_set, available_types, done, res>>

\* A slip: the argument types already found are erased from the map itself,
\* and the iterator stays where it is.
KeepInPlace(f) ==
  /\ ~done
  /\ IsNext(f)
  /\ ~Satisfied(f)
  /\ is_change' = TRUE
  /\ UNCHANGED <<function_type_set, available_types, func_map, current_types, todo,
                 done, res>>

Keep(f) ==
  /\ ~done
  /\ IsNext(f)
  /\ ~Satisfied(f)
  /\ todo' = todo \ {f}
  /\ UNCHANGED <<function_type_set, available_types, func_map, current_types,
                 is_change, done, res>>

\* A slip: the next pass runs over all functions, erased ones included.
NextPassOverAll ==
  /\ ~done
  /\ todo = {}
  /\ is_change
  /\ is_change' = FALSE
  /\ todo' = function_type_set
  /\ UNCHANGED <<function_type_set, available_types, func_map, current_types,
                 done, res>>

\* Some function was erased: do ... while goes round again.
NextPass ==
  /\ ~done
  /\ todo = {}
  /\ is_change
  /\ is_change' = FALSE
  /\ todo' = func_map
  /\ UNCHANGED <<function_type_set, available_types, func_map, current_types,
                 done, res>>

\* A slip: one pass, as if the functions came in the order of their needs.
ReturnAtOnce ==
  /\ ~done
  /\ todo = {}
  /\ done' = TRUE
  /\ res' = function_type_set \ func_map
  /\ UNCHANGED <<function_type_set, available_types, func_map, current_types, todo,
                 is_change>>

\* What remains in func_map is erased from the result.
ReturnFunctions ==
  /\ ~done
  /\ todo = {}
  /\ ~is_change
  /\ done' = TRUE
  /\ res' = function_type_set \ func_map
  /\ UNCHANGED <<function_type_set, available_types, func_map, current_types, todo,
                 is_change>>

Passes ==
  \/ \E f \in Function : Erase(f) \/ Keep(f)
  \/ NextPass
  \/ ReturnFunctions

PassesNext ==
  \/ \E functions \in FunctionSets, types \in SUBSET TypeID :
       calc_satisfiable_functions(functions, types)
  \/ Passes

PassesSpec == InitPasses /\ [][PassesNext]_passes

-----------------------------------------------------------------------------
PassesTypeOK ==
  /\ function_type_set \in SUBSET Function
  /\ available_types \in SUBSET TypeID
  /\ func_map \in SUBSET function_type_set
  /\ current_types \in SUBSET TypeID
  /\ todo \in SUBSET func_map
  /\ is_change \in BOOLEAN
  /\ done \in BOOLEAN
  /\ res \in SUBSET function_type_set

\* C has the available types and the return type of each function whose
\* argument types it has.
Closed(C) ==
  /\ available_types \subseteq C
  /\ \A f \in function_type_set : Args[f] \subseteq C => Ret[f] \in C

(***************************************************************************)
(* The result is the least fixed point: the functions whose arguments can  *)
(* all be made, starting from the available types, and no others.  So a    *)
(* function that needs its own result is out, whatever the order of the    *)
(* ids, and a chain of functions in the worst order of ids is in.          *)
(***************************************************************************)
ResultIsLeast ==
  done =>
    /\ Closed(current_types)
    /\ \A C \in SUBSET TypeID : Closed(C) => current_types \subseteq C
    /\ res = {f \in function_type_set : Args[f] \subseteq current_types}
=============================================================================
