--------------------------- MODULE MCBufferedFile ---------------------------
(* Instances of BufferedFile: a cache of two bytes.                        *)
EXTENDS BufferedFile

Input == <<1, 2, 3, 4>>

File(mode, seekable, mappable, data, at) ==
  [mode |-> mode, seekable |-> seekable, mappable |-> mappable, data |-> data, at |-> at]

(* A regular file, opened at its start, in the middle and behind its end,  *)
(* a device, a pipe, and nothing; a new file, one that is overwritten, and *)
(* a pipe; two files in positioned mode, one of which ends in a window.    *)
MCKinds ==
  {File("r", TRUE, TRUE, Input, 0), File("r", TRUE, TRUE, Input, 3),
   File("r", TRUE, TRUE, Input, 5),
   File("r", TRUE, FALSE, Input, 1), File("r", FALSE, FALSE, Input, 0),
   File("r", TRUE, FALSE, << >>, 0),
   File("w", TRUE, FALSE, << >>, 0), File("w", TRUE, FALSE, Input, 3),
   File("w", FALSE, FALSE, << >>, 0), File("rw", TRUE, FALSE, Input, 0),
   File("rw", TRUE, FALSE, <<1, 2, 3>>, 0)}

MCTexts == {<< >>, <<7>>, <<8, 9, 8>>}
=============================================================================
