---------------------------- MODULE MCFileLocks ----------------------------
(* Three threads share a file of nine bytes and an array for four chunks:  *)
(* the size is rounded down, to chunks of two bytes.                       *)
EXTENDS FileLocks

L(t, start, len, tag) == [thread |-> t, start |-> start, len |-> len, tag |-> tag]

\* Ranges that share a chunk without sharing a byte, that cross a chunk
\* boundary, that nest within a thread, one for eight bytes; the last
\* byte of the file.
MixedLocks ==
  {L(1, 0, 1, 0), L(1, 0, 4, 0), L(1, 0, 4, 1), L(1, 6, 2, 0),
   L(2, 1, 1, 0), L(2, 3, 4, 0), L(2, 2, 2, 0),
   L(3, 0, 8, 0), L(3, 4, 1, 0), L(2, 8, 1, 0)}
=============================================================================
