------------------------------ MODULE MCCopy61 ------------------------------
(* Instances of Copy61: files of five bytes, a cache of two.  Unmapped is  *)
(* a regular file whose mmap fails, or a device.                           *)
EXTENDS Copy61

Bytes5 == <<1, 2, 3, 4, 5>>

File(mode, seekable, mappable, data, at) ==
  [mode |-> mode, seekable |-> seekable, mappable |-> mappable, data |-> data, at |-> at]

Regular == File("r", TRUE, TRUE, Bytes5, 0)
Resumed == File("r", TRUE, TRUE, Bytes5, 1)
Unmapped == File("r", TRUE, FALSE, Bytes5, 0)
PipeIn == File("r", FALSE, FALSE, Bytes5, 0)
New == File("w", TRUE, FALSE, << >>, 0)
Old == File("w", TRUE, FALSE, <<5, 5, 5>>, 1)
PipeOut == File("w", FALSE, FALSE, << >>, 0)

Run(prog, in, out, size, block) ==
  [prog |-> prog, in |-> in, out |-> out, size |-> size, block |-> block,
   stride |-> 2, at |-> 0, flush |-> FALSE, regular |-> in.seekable]

(* A device can be sought, but has no size.                                *)
OfDevice(prog, size, block) ==
  [Run(prog, Unmapped, New, size, block) EXCEPT !.regular = FALSE]

(* Each program on the kinds of files that it meets, with and without -F.  *)
MCRuns ==
  {[Run(cat61, i, o, s, 1) EXCEPT !.flush = b] :
     i \in {Resumed, Unmapped, PipeIn}, o \in {New, Old, PipeOut}, s \in {-1, 3}, b \in BOOLEAN}
  \cup {Run(p, i, o, -1, 3) : p \in {blockcat61, randblockcat61},
        i \in {Regular, PipeIn}, o \in {New, PipeOut}}
  \cup {[Run(p, Unmapped, Old, -1, 3) EXCEPT !.at = 2] : p \in {writeat61, blockwriteat61}}
  \cup {Run(p, i, New, -1, 1) : p \in {carefulcat61}, i \in {Unmapped, PipeIn}}
  \cup {Run(carefulblockcat61, Regular, PipeOut, -1, 3)}
  \cup {Run(p, i, New, s, 1) : p \in {reverse61, wreverse61}, i \in {Regular, Unmapped, PipeIn}, s \in {-1, 3}}
  \cup {Run(reverse61, Unmapped, PipeOut, -1, 1), Run(wreverse61, Regular, PipeOut, -1, 1)}
  \cup {Run(reordercat61, i, New, s, 2) : i \in {Regular, Unmapped}, s \in {-1, 4}}
  \cup {[Run(stridecat61, i, New, -1, 2) EXCEPT !.stride = n] :
           i \in {Regular, Unmapped}, n \in {2, 3}}
  \cup {[Run(wstridecat61, i, New, -1, n - 1) EXCEPT !.stride = n] :
           i \in {Regular, Unmapped}, n \in {2, 3}}
  \cup {OfDevice(p, s, 1) : p \in {reverse61, wreverse61}, s \in {-1, 3}}
  \cup {OfDevice(reordercat61, s, 2) : s \in {-1, 4}}
  \cup {OfDevice(p, s, 1) : p \in {stridecat61, wstridecat61}, s \in {-1, 5}}

(* carefulblockcat61 reads from a pipe that is sometimes empty.            *)
MCCarefulRuns == {Run(carefulblockcat61, PipeIn, New, -1, 3)}
=============================================================================
