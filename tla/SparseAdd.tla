------------------------------ MODULE SparseAdd ------------------------------
(***************************************************************************)
(* What DynVec promises of the statement y[row[i]] += f(x[column[i]]): the *)
(* elements i are added to the output in any order and any number at a     *)
(* time, each exactly once, each to its own row and with its own operand.  *)
(* An output element is the bag of the terms that were added up to it.     *)
(***************************************************************************)
EXTENDS Integers, Bags

CONSTANTS
  Element,  \* the iteration space
  Output    \* the locations of y

VARIABLES
  row_ptr, column_ptr,  \* the index arrays, which never change
  y,                    \* the output
  done                  \* the elements added so far

vars == <<row_ptr, column_ptr, y, done>>

\* What an output element holds before: a term of no element of the iteration.
Before(r) == <<-1, r>>

Term(e) == <<e, column_ptr[e]>>

Sum(elements) ==
  [r \in Output |-> SetToBag({Before(r)} \cup {Term(e) : e \in {f \in elements : row_ptr[f] = r}})]

Init ==
  /\ row_ptr \in [Element -> Output]
  /\ column_ptr \in [Element -> Nat]
  /\ done = {}
  /\ y = Sum({})

Add ==
  /\ done' \subseteq Element
  /\ done \subseteq done'
  /\ done' # done
  /\ y' = [r \in Output |->
             y[r] (+) SetToBag({Term(e) : e \in {f \in done' \ done : row_ptr[f] = r}})]
  /\ UNCHANGED <<row_ptr, column_ptr>>

Spec == Init /\ [][Add]_vars

\* The sum over what has been added, and nothing else, is in the output.
Summed == y = Sum(done)
=============================================================================
