----------------------------- MODULE MCAllocator -----------------------------
(* An instance of Allocator: the buffer has four aligned units of two bytes. *)
EXTENDS Allocator

(* One byte, one and two units with their marker, more than half.          *)
MCRequests == {1, 2, 3}

(* An empty array, and a size that no buffer holds.                        *)
MCArrays == {<<2, 0>>, <<9, 1>>}

(* A pointer that may have been returned, one that never is, one outside.  *)
MCStrays == {2, 3, Outside}
=============================================================================
