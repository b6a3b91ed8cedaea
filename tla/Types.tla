-------------------------------- MODULE Types --------------------------------
(***************************************************************************)
(* Types and the types of statements: type/type.cpp, the constructors of   *)
(* statement/statement.hpp with their CHECKs, and what LLVMCodeGen can     *)
(* make code for.                                                          *)
(*                                                                         *)
(* A type is a basic one with its lanes, or a pointer to a type.  A        *)
(* statement is its type here; one whose CHECK fails, or that is not       *)
(* supported, is a Fault, and so is all that is made from a Fault.         *)
(***************************************************************************)
EXTENDS Integers

CONSTANT Vector  \* lanes: VECTOR4, VECTOR8 or VECTOR16

Type(base, lanes) == [base |-> base, lanes |-> lanes]
PointerTo(type, lanes) == [base |-> "PTR", lanes |-> lanes, to |-> type]
is_pointer(type) == type.base = "PTR"
set_lanes(type, lanes) == [type EXCEPT !.lanes = lanes]

Fault == Type("FATAL", 0)
IsFault(type) == type.base = "FATAL"

__int == Type("INT", 1)
__bool == Type("BOOL", 1)
__float == Type("FLOAT", 1)
__double == Type("DOUBLE", 1)
__dynvec_int8 == Type("INT8", 1)
__dynvec_int64 == Type("INT64", 1)
__int_ptr == PointerTo(__int, 1)
__float_ptr == PointerTo(__float, 1)
__double_ptr == PointerTo(__double, 1)

-----------------------------------------------------------------------------
(***************************************************************************)
(* Type::init_type.  A type it does not assign is a static object: all     *)
(* zero, that is, FLOAT with no lanes.                                     *)
(***************************************************************************)
Unset == Type("FLOAT", 0)
UnlessVector(n, type) == IF Vector = n THEN Unset ELSE type

__int_v == Type("INT", Vector)
__bool_v == Type("BOOL", Vector)
__dynvec_int8_v == Type("INT8", Vector)
__double_v == Type("DOUBLE", IF Vector = 4 THEN 4 ELSE 8)
__float_v == UnlessVector(4, Type("FLOAT", Vector))
__int_v_ptr == PointerTo(__int_v, 1)
__double_v_ptr == PointerTo(__double_v, 1)
__float_v_ptr == PointerTo(Type("FLOAT", Vector), 1)
__dynvec_int8_v_ptr == PointerTo(__dynvec_int8_v, 1)
__int_ptr_v == PointerTo(__int, Vector)
__float_ptr_v == PointerTo(__float, Vector)
__double_ptr_v == UnlessVector(16, PointerTo(__double, Vector))

\* From a pointer to the pointer to vectors at the same place, and to a
\* vector of pointers.
type_scalar_ptr2vector_ptr(type) ==
  CASE type = __int_ptr    -> __int_v_ptr
    [] type = __double_ptr -> __double_v_ptr
    [] type = __float_ptr  -> __float_v_ptr
    [] OTHER               -> Fault
type_scalar_ptr2ptr_vector(type) ==
  CASE type = __int_ptr    -> __int_ptr_v
    [] type = __double_ptr -> __double_ptr_v
    [] type = __float_ptr  -> __float_ptr_v
    [] OTHER               -> Fault

-----------------------------------------------------------------------------
(***************************************************************************)
(* Statements                                                              *)
(***************************************************************************)
If(check, type) == IF check THEN type ELSE Fault

\* A variable of the declared type gets the expression.
LetStat(declared, expr) == If(declared = expr, expr)

IncAddr(addr) == If(is_pointer(addr), addr)
Load(addr) == IF is_pointer(addr) THEN addr.to ELSE Fault
Gather(addr) ==
  IF is_pointer(addr) THEN set_lanes(addr.to, addr.lanes) ELSE Fault
Store(addr, data) == If(is_pointer(addr) /\ Load(addr) = data, data)
BroadCast(v1, lanes) == set_lanes(v1, lanes)
\* A slip: the sum of the lanes has the type of the lanes.
ReduceKeepsLanes(v1) == v1
Reduce(v1) == set_lanes(v1, 1)
ICmpEQ(v1, v2) == __bool_v
Binary(v1, v2) == v1
Select(v1, v2, index) == If(v1 = v2 /\ index = __bool_v, v1)

\* Lanes of two values, and of one by a permutation.
Shuffle(v1, v2, index) ==
  If(v1 = v2 /\ index = __int_v, Type(v1.base, index.lanes))
Permute(v1, index) == v1

-----------------------------------------------------------------------------
(***************************************************************************)
(* What LLVMCodeGen makes code for                                         *)
(***************************************************************************)
\* Among the types the passes make; a type that is not listed is fatal.
Type2LLVMType == {__int, __int_v, __int_ptr, __int_v_ptr, __bool_v,
                  __float, __float_v, __float_ptr, __float_v_ptr, __float_ptr_v,
                  __double, __double_v, __double_ptr, __double_v_ptr,
                  __double_ptr_v, __dynvec_int8, __dynvec_int8_v,
                  __dynvec_int8_v_ptr, __dynvec_int64}

CodeForGather(type) == type \in {__double_v, __float_v, __int_v}
CodeForPermute(v1) ==
  v1 \in {Type("DOUBLE", 8), Type("FLOAT", 8), Type("FLOAT", 16)}
CodeForReduce(v1) == v1.base \in {"DOUBLE", "FLOAT", "INT"}
CodeForBinary(v1) == v1.base \in {"DOUBLE", "FLOAT", "INT"}
=============================================================================
