------------------------------ MODULE MCKernel ------------------------------
(* Instances of the kernel for TLC.  Virtual pages: 0 console, 1 program   *)
(* image, then heap, and the stack last.                                   *)
EXTENDS KernelProperties, TLC

PU  == {"P", "U"}
PWU == {"P", "W", "U"}

MmapCall(va, len, perm) == [va |-> va, len |-> len, perm |-> perm]
UnmapCall(va, len)      == [va |-> va, len |-> len]

\* Images: one read-only page; no page.
TextImage  == 1 :> FALSE
EmptyImage == <<>>

\* Unmap all of process memory, the stack included, and map two or three
\* pages beyond or across HighVA.
TableMmaps  == {MmapCall(1, 6, PWU), MmapCall(2, 4, PWU)}
TableUnmaps == {UnmapCall(1, 8)}
\* A page and a half, wherever there is room for it.
HalfMmaps == {MmapCall(0, 3, PWU)}
\* Every process may kill every other one.
KillOthers == {c \in (Pids \ {0}) \X (Pids \ {0}) : c[1] # c[2]}
=============================================================================
