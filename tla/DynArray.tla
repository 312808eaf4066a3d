------------------------------ MODULE DynArray ------------------------------
(***************************************************************************)
(* core::DynArray of the YYSloth kernel                                    *)
(* (src/YYSloth/include/core/dynarray.hpp): the elements and the capacity. *)
(* When an array moves to new memory, as many bytes are copied as it has   *)
(* elements: of elements wider than a byte only the first stay, the others *)
(* become what the new memory held.                                        *)
(***************************************************************************)
EXTENDS Integers, Sequences, FiniteSetsExt

CONSTANTS
  FirstCapacity, (* capacity of an empty array, 16                         *)
  Junk           (* an element that was never written                      *)

ASSUME ArrayAssumption == FirstCapacity \in Nat \ {0}

EmptyArray == [elems |-> << >>, capacity |-> FirstCapacity]

(* The first of 16, 32, 64, ... above the size.                            *)
CalculateCapacity(size) ==
  Min({c \in {FirstCapacity * 2^k : k \in 0 .. size} : c > size})

(* memcpy(newarr, m_data, m_size) for elements of width bytes.             *)
Relocate(elems, width) ==
  [i \in DOMAIN elems |-> IF i * width <= Len(elems) THEN elems[i] ELSE Junk]

(* An array moves as soon as it is full, not when an element has no room.  *)
PushBack(a, e, width) ==
  LET elems == Append(a.elems, e)
  IN  IF Len(elems) # a.capacity THEN [a EXCEPT !.elems = elems]
      ELSE [elems |-> Relocate(elems, width), capacity |-> CalculateCapacity(Len(elems))]
=============================================================================
