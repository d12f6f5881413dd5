---------------------------- MODULE BufferedFile ----------------------------
(***************************************************************************)
(* pset4/io61.cc (and pset6/io61.cc, whose text is the same): one file     *)
(* opened for reading, for writing, or for both, then in positioned mode   *)
(* only, with its single-slot cache or its mapping, and the system calls   *)
(* underneath, which move fewer bytes than asked, are interrupted, or      *)
(* fail.  The locks on regions are in FileLocks.                           *)
(*                                                                         *)
(* A call is a record, and each system call made on its behalf a step of   *)
(* its own, so that a program can be composed of two such files.  Bytes    *)
(* are numbers.                                                            *)
(***************************************************************************)
EXTENDS Integers, Sequences, FiniteSetsExt

CONSTANTS
  CbufSize,   (* cbufsz, 8192 in the code                                  *)
  Kinds,      (* files: [mode, seekable, mappable, data, at], at being the *)
              (* position that the descriptor comes with                   *)
  Wants,      (* sizes that the program reads                              *)
  Texts,      (* what it writes                                            *)
  Offsets,    (* where it seeks to                                         *)
  ReadFaults, (* the errors of read and of write: "intr" (EINTR), "again"  *)
  WriteFaults,(* (EAGAIN), "other"                                         *)
  Retries,    (* whether the program calls again after a call has failed   *)
  MaxSize     (* bound on the size of a file that is written               *)

ASSUME BufferedFileAssumption ==
  /\ CbufSize \in Nat \ {0} /\ Wants \subseteq Nat /\ Offsets \subseteq Nat
  /\ Kinds \subseteq [mode : {"r", "w", "rw"}, seekable : BOOLEAN, mappable : BOOLEAN,
                      data : Seq(Nat), at : Nat]
  /\ Texts \subseteq Seq(Nat)
  /\ ReadFaults \cup WriteFaults \subseteq {"intr", "again", "other"}
  /\ Retries \in BOOLEAN /\ MaxSize \in Nat

VARIABLES
  os,         (* the file and the descriptor: the kind's fields, data as   *)
              (* it is now, and kpos, the kernel's position                *)
  f,          (* io61_file: map "none", "mapped" or "failed"; tag, pos,    *)
              (* end; the valid bytes of cbuf; dirty; positioned           *)
  call,       (* the call in progress or the last one: op, its arguments   *)
              (* want, bytes (not yet written), off; got, the bytes read;  *)
              (* flushed, how much of cbuf the flush in progress has       *)
              (* written; filled, whether io61_pfill has returned; failed, *)
              (* whether the system refused something                      *)
  errno,      (* "none" is 0                                               *)
  ret,        (* what the last call returned, 1 for a byte and -1 for EOF  *)
  crash       (* "assert" failed, or a "wild" copy, from or to memory      *)
              (* behind the mapping or the cached window                   *)

vars == <<os, f, call, errno, ret, crash>>

Reads == {"read", "readc"}
Writes == {"write", "writec"}
Positioned == {"pread", "pwrite"}

NoCall ==
  [op |-> "idle", want |-> 0, bytes |-> << >>, off |-> 0, got |-> << >>,
   flushed |-> 0, filled |-> FALSE, failed |-> FALSE]

Opened(k) ==
  LET at == IF k.seekable THEN k.at ELSE 0 IN
  /\ os = [mode |-> k.mode, seekable |-> k.seekable, mappable |-> k.mappable,
           data |-> k.data, kpos |-> at]
  /\ f = [map |-> "none", tag |-> at, pos |-> at, end |-> at,
          cbuf |-> << >>, dirty |-> FALSE, positioned |-> FALSE]
  /\ call = NoCall /\ ret = 0 /\ crash = "none"

Init == errno = "none" /\ \E k \in Kinds : Opened(k)

-----------------------------------------------------------------------------
Ready == call.op = "idle" /\ crash = "none"

(* io61_check_assertions. *)
Sane(g) ==
  /\ g.tag <= g.pos /\ g.pos <= g.end
  /\ g.map = "failed" => g.end - g.pos <= CbufSize
  /\ os.mode = "w" => g.pos = g.end

Crash(how) == crash' = how /\ UNCHANGED <<os, f, call, errno, ret>>

Begin(c) == call' = c /\ UNCHANGED <<os, ret, crash>>

End(c, r) == call' = [c EXCEPT !.op = "idle"] /\ ret' = r /\ UNCHANGED crash

(* The attempt to map a file at its first read or seek.                    *)
Mapped(g) ==
  IF g.map # "none" THEN g
  ELSE IF os.mappable
  THEN [g EXCEPT !.map = "mapped", !.tag = 0, !.end = Len(os.data)]
  ELSE [g EXCEPT !.map = "failed"]

MapErrno == IF f.map = "none" /\ ~os.mappable THEN "other" ELSE errno

(* An empty cache at offset at. *)
Emptied(g, at) == [g EXCEPT !.tag = at, !.pos = at, !.end = at, !.cbuf = << >>]

-----------------------------------------------------------------------------
(* io61_readc and io61_read. *)
StartRead(op, n) ==
  /\ Ready /\ os.mode = "r"
  /\ IF (op = "readc" \/ Mapped(f).map = "failed") /\ ~Sane(f)
     THEN Crash("assert")
     ELSE /\ Begin([NoCall EXCEPT !.op = op, !.want = n])
          /\ f' = Mapped(f) /\ errno' = MapErrno

(* The smaller of what is wanted and what is left, both of type size_t: a  *)
(* negative number is larger than any size.                                *)
Moved(left) == IF left < 0 THEN call.want ELSE Min({call.want, left})

(* Reading from the mapping: io61_read subtracts the position from the     *)
(* size without a comparison.                                              *)
ReadMapped ==
  /\ call.op \in Reads /\ crash = "none" /\ f.map = "mapped"
  /\ LET left == IF call.op = "readc" THEN Max({0, f.end - f.pos}) ELSE Len(os.data) - f.pos
         n    == Moved(left)
     IN  IF n > Max({0, left}) THEN Crash("wild")
         ELSE /\ f' = [f EXCEPT !.pos = @ + n]
              /\ End([call EXCEPT !.got = SubSeq(os.data, f.pos + 1, f.pos + n)],
                     IF call.op = "readc" /\ n = 0 THEN -1 ELSE n)
              /\ UNCHANGED <<os, errno>>

ReadsCache == call.op \in Reads /\ crash = "none" /\ f.map = "failed"

Lacking == call.want - Len(call.got)

CopyCached ==
  /\ ReadsCache /\ Lacking > 0 /\ f.pos < f.end
  /\ LET n    == Min({f.end - f.pos, Lacking})
         from == f.pos - f.tag
     IN  /\ call' = [call EXCEPT !.got = @ \o SubSeq(f.cbuf, from + 1, from + n)]
         /\ f' = [f EXCEPT !.pos = @ + n]
  /\ UNCHANGED <<os, errno, ret, crash>>

(* What io61_read_cache returns tells the end of the file from an error by *)
(* errno, which nothing has cleared.                                       *)
CacheResult(c, e) ==
  IF c.got # << >> \/ c.want = 0 \/ (c.op = "read" /\ e = "none")
  THEN Len(c.got) ELSE -1

Filled(g, bytes) ==
  [Emptied(g, g.end) EXCEPT !.cbuf = bytes, !.end = @ + Len(bytes)]

(* Mutant: a cache that is still empty is filled again.                    *)
NeverAtEnd(n) == FALSE

AtEnd(n) == n = 0

(* io61_fill, one read system call: bytes, the end of the file, an         *)
(* interruption after which it is called again, or an error.               *)
FillGets(n) ==
  /\ f' = Filled(f, SubSeq(os.data, os.kpos + 1, os.kpos + n))
  /\ os' = [os EXCEPT !.kpos = @ + n]
  /\ UNCHANGED <<errno, crash>>
  /\ IF AtEnd(n) THEN End(call, CacheResult(call, errno)) ELSE UNCHANGED <<call, ret>>

FillFails(e) ==
  /\ f' = Emptied(f, f.end) /\ errno' = e
  /\ UNCHANGED <<os, crash>>
  /\ IF e = "other"
     THEN End([call EXCEPT !.failed = TRUE], CacheResult(call, e))
     ELSE UNCHANGED <<call, ret>>

Filling == ReadsCache /\ Lacking > 0 /\ f.pos = f.end

Fill ==
  /\ Filling
  /\ LET left == Max({0, Len(os.data) - os.kpos}) IN
     \/ \E n \in 1..Min({left, CbufSize}) : FillGets(n)
     \/ left = 0 /\ FillGets(0)

FillAgain == Filling /\ \E e \in ReadFaults : FillFails(e)

ReadReturns ==
  /\ ReadsCache /\ Lacking = 0
  /\ End(call, Len(call.got)) /\ UNCHANGED <<os, f, errno>>

-----------------------------------------------------------------------------
(* io61_writec and io61_write: into the cache, which is flushed when it is *)
(* full.                                                                   *)
StartWrite(op, bytes) ==
  /\ Ready /\ os.mode = "w" /\ f.pos + Len(bytes) <= MaxSize
  /\ IF Sane(f)
     THEN Begin([NoCall EXCEPT !.op = op, !.bytes = bytes, !.want = Len(bytes)])
          /\ UNCHANGED <<f, errno>>
     ELSE Crash("assert")

Full(g) == g.end = g.tag + CbufSize

(* Mutant: the end does not move.                                          *)
PutPosition(g, bytes) ==
  [g EXCEPT !.cbuf = @ \o bytes, !.pos = @ + Len(bytes), !.dirty = TRUE]

Put(g, bytes) ==
  [g EXCEPT !.cbuf = @ \o bytes, !.pos = @ + Len(bytes),
            !.end = @ + Len(bytes), !.dirty = TRUE]

CopyIn ==
  /\ call.op \in Writes /\ crash = "none" /\ call.bytes # << >> /\ ~Full(f)
  /\ LET n == Min({CbufSize + f.tag - f.pos, Len(call.bytes)}) IN
     /\ f' = Put(f, SubSeq(call.bytes, 1, n))
     /\ call' = [call EXCEPT !.bytes = SubSeq(@, n + 1, Len(@))]
  /\ UNCHANGED <<os, errno, ret, crash>>

WriteReturns ==
  /\ call.op \in Writes /\ crash = "none" /\ call.bytes = << >>
  /\ End(call, call.want) /\ UNCHANGED <<os, f, errno>>

(* An offset that io61_seek needs no system call for.                      *)
(* Mutant: a file that is written does not count as different.             *)
InAnyCache(off) == f.tag <= off /\ off < f.end

InCache(off) == os.mode = "r" /\ f.tag <= off /\ off < f.end

(* io61_pread and io61_pwrite find the offset in the cache, or must fill   *)
(* it first.                                                               *)
Hit == f.positioned /\ f.tag <= call.off /\ call.off < f.end

Missed == call.op \in Positioned /\ crash = "none" /\ ~call.filled /\ ~Hit

(* io61_flush_dirty, one write system call, to where the kernel's position *)
(* is, taken to be that of the tag; io61_flush_dirty_positioned, one       *)
(* pwrite system call.                                                     *)
Flushing ==
  /\ crash = "none" /\ f.dirty
  /\ \/ call.op \in Writes /\ call.bytes # << >> /\ Full(f)
     \/ call.op = "seek" /\ ~InCache(call.off)
     \/ call.op \in {"flush", "close"}
     \/ Missed

Overwritten(data, at, bytes) ==
  LET end  == at + Len(bytes)
      size == IF bytes # << >> THEN Max({end, Len(data)}) ELSE Len(data)
  IN  [i \in 1..size |->
         IF at < i /\ i <= end THEN bytes[i - at]
         ELSE IF i <= Len(data) THEN data[i] ELSE 0]

(* Mutant: each write begins with the first byte of the cache.             *)
FromStart(n) == SubSeq(f.cbuf, 1, n)

Unflushed(n) == SubSeq(f.cbuf, call.flushed + 1, call.flushed + n)

FlushWrites ==
  /\ Flushing
  /\ \E n \in 1..(Len(f.cbuf) - call.flushed) :
       /\ os' = IF f.positioned
                THEN [os EXCEPT !.data = Overwritten(@, f.tag + call.flushed, Unflushed(n))]
                ELSE [os EXCEPT !.data = Overwritten(@, os.kpos, Unflushed(n)), !.kpos = @ + n]
       /\ call' = [call EXCEPT !.flushed = @ + n]
  /\ UNCHANGED <<f, errno, ret, crash>>

(* EINTR: the write is called again; otherwise the call fails, and the tag *)
(* stays, whatever has been written by then.  io61_close ignores that its  *)
(* flush has failed.                                                       *)
FlushFails(e) ==
  /\ Flushing /\ call.flushed < Len(f.cbuf)
  /\ errno' = e /\ UNCHANGED <<os, f, crash>>
  /\ IF e = "intr" THEN UNCHANGED <<call, ret>>
     ELSE LET put == call.want - Len(call.bytes)
          IN  /\ call' = [call EXCEPT !.failed = TRUE, !.flushed = 0,
                             !.op = IF @ = "close" THEN "closed" ELSE "idle"]
              /\ ret' = IF call.op = "write" /\ put > 0 THEN put
                        ELSE IF call.op = "close" THEN 0 ELSE -1

FlushEnds ==
  /\ Flushing /\ call.flushed = Len(f.cbuf)
  /\ f' = IF f.positioned THEN [f EXCEPT !.dirty = FALSE]
          ELSE [Emptied(f, f.end) EXCEPT !.dirty = FALSE]
  /\ call' = [call EXCEPT !.flushed = 0,
                !.op = CASE @ = "flush" -> "idle" [] @ = "close" -> "closed" [] OTHER -> @]
  /\ ret' = 0 /\ UNCHANGED <<os, errno, crash>>

(* io61_flush and io61_close, and io61_flush_clean.                        *)
StartFlush(op) ==
  /\ Ready /\ Begin([NoCall EXCEPT !.op = op])
  /\ UNCHANGED <<f, errno>>

FlushClean ==
  /\ call.op \in {"flush", "close"} /\ ~f.dirty /\ crash = "none"
  /\ IF os.seekable /\ ~f.positioned
     THEN /\ os' = [os EXCEPT !.kpos = f.pos]
          /\ f' = Emptied(f, f.pos)
     ELSE UNCHANGED <<os, f>>
  /\ call' = [call EXCEPT !.op = IF @ = "close" THEN "closed" ELSE "idle"]
  /\ ret' = 0 /\ UNCHANGED <<errno, crash>>

(* io61_seek.  The flush of a clean cache adds nothing to the lseek.       *)
StartSeek(off) ==
  /\ Ready
  /\ IF Sane(f)
     THEN Begin([NoCall EXCEPT !.op = "seek", !.off = off]) /\ UNCHANGED <<f, errno>>
     ELSE Crash("assert")

Seeking == call.op = "seek" /\ crash = "none"

SeekInCache ==
  /\ Seeking /\ InCache(call.off)
  /\ f' = [f EXCEPT !.pos = call.off]
  /\ End(call, 0) /\ UNCHANGED <<os, errno>>

(* Mutant: the cache of a file that cannot be mapped is kept.              *)
SoughtKept(g, off) ==
  IF os.mode = "w" THEN Emptied(g, off) ELSE [Mapped(g) EXCEPT !.pos = off]

Sought(g, off) ==
  IF os.mode = "w" \/ Mapped(g).map = "failed"
  THEN Emptied(IF os.mode = "w" THEN g ELSE Mapped(g), off)
  ELSE [Mapped(g) EXCEPT !.pos = off]

SeekInKernel ==
  /\ Seeking /\ ~InCache(call.off) /\ ~f.dirty /\ os.seekable
  /\ os' = [os EXCEPT !.kpos = call.off]
  /\ f' = Sought(f, call.off)
  /\ errno' = IF os.mode = "w" THEN errno ELSE MapErrno
  /\ End(call, 0)

SeekFails ==
  /\ Seeking /\ ~InCache(call.off) /\ ~f.dirty /\ ~os.seekable
  /\ errno' = "other" /\ End([call EXCEPT !.failed = TRUE], -1)
  /\ UNCHANGED <<os, f>>

-----------------------------------------------------------------------------
(* io61_pread and io61_pwrite. *)
StartPositioned(op, n, bytes, off) ==
  /\ Ready /\ os.mode = "rw"
  /\ Begin([NoCall EXCEPT !.op = op, !.want = n, !.bytes = bytes, !.off = off])
  /\ UNCHANGED <<f, errno>>

(* io61_pfill, its pread system call, once the cache is not dirty.  The    *)
(* file is a regular one, and all that it has is read.                     *)
Pfill ==
  /\ Missed /\ ~f.dirty
  /\ LET tag  == call.off - (call.off % CbufSize)
         read == SubSeq(os.data, tag + 1, Min({tag + CbufSize, Len(os.data)}))
     IN  f' = [f EXCEPT !.tag = tag, !.end = tag + Len(read), !.cbuf = read,
                        !.positioned = TRUE]
  /\ call' = [call EXCEPT !.filled = TRUE]
  /\ UNCHANGED <<os, errno, ret, crash>>

(* No error is called again. *)
PfillFails(e) ==
  /\ Missed /\ ~f.dirty
  /\ errno' = e /\ End([call EXCEPT !.failed = TRUE], -1)
  /\ UNCHANGED <<os, f>>

(* The copy from or to the cache, which ends where the cached window does. *)
CopyPositioned ==
  /\ call.op \in Positioned /\ crash = "none" /\ (call.filled \/ Hit)
  /\ LET n    == Moved(f.end - call.off)
         from == call.off - f.tag
     IN  IF n > Max({0, f.end - call.off}) THEN Crash("wild")
         ELSE /\ IF call.op = "pread"
                 THEN /\ End([call EXCEPT !.got = SubSeq(f.cbuf, from + 1, from + n)], n)
                      /\ UNCHANGED f
                 ELSE /\ f' = [f EXCEPT !.dirty = TRUE,
                            !.cbuf = Overwritten(@, from, SubSeq(call.bytes, 1, n))]
                      /\ End(call, n)
              /\ UNCHANGED <<os, errno>>

-----------------------------------------------------------------------------
(* A step of the call in progress, and one where the system refuses.       *)
Step ==
  \/ ReadMapped \/ CopyCached \/ Fill \/ ReadReturns
  \/ CopyIn \/ WriteReturns \/ FlushWrites \/ FlushEnds \/ FlushClean
  \/ SeekInCache \/ SeekInKernel \/ SeekFails
  \/ Pfill \/ CopyPositioned

Fault ==
  FillAgain \/ (\E e \in WriteFaults : FlushFails(e)) \/ (\E e \in ReadFaults : PfillFails(e))

(* The program: any call at any time.  It gives up after an error unless   *)
(* it Retries or the file is in positioned mode, and does not flush a file *)
(* that can be mapped until it closes it: see the README for what happens  *)
(* otherwise.                                                              *)
Call ==
  /\ call.failed => Retries \/ os.mode = "rw"
  /\ \/ StartRead("readc", 1)
     \/ \E n \in Wants : StartRead("read", n)
     \/ \E t \in Texts : StartWrite(IF Len(t) = 1 THEN "writec" ELSE "write", t)
     \/ ~os.mappable /\ StartFlush("flush")
     \/ StartFlush("close")
     \/ \E off \in Offsets :
          \/ os.mode # "rw" /\ StartSeek(off)
          \/ \E n \in Wants : StartPositioned("pread", n, << >>, off)
          \/ \E t \in Texts : StartPositioned("pwrite", Len(t), t, off)

Next == Call \/ Step \/ Fault

(* The system does not interrupt or put off a call forever.                *)
Fairness == WF_vars(Step) /\ SF_vars(Fill) /\ SF_vars(FlushWrites)

Spec == Init /\ [][Next]_vars /\ Fairness

-----------------------------------------------------------------------------
TypeOK ==
  /\ f.tag \in Nat /\ f.pos \in Nat /\ f.end \in Nat
  /\ f.map \in {"none", "mapped", "failed"} /\ f.dirty \in BOOLEAN
  /\ f.map = "mapped" => os.mappable
  /\ f.map # "mapped" => Len(f.cbuf) = f.end - f.tag /\ Len(f.cbuf) <= CbufSize
  /\ call.flushed \in 0..Len(f.cbuf) /\ os.kpos \in Nat

(* A call stops at an assertion of io61_check_assertions, or copies from   *)
(* behind a mapping or a cached window, only if the position of a file     *)
(* that is mapped, or the offset of a positioned call, lies behind the end *)
(* of the file (io61.cc:52-57, 205, 451, 475).                             *)
CrashesBeyond ==
  crash # "none" =>
    CASE os.mode = "r"  -> os.mappable /\ f.pos > Len(os.data)
      [] os.mode = "w"  -> FALSE
      [] os.mode = "rw" -> call.off > Len(os.data)

(* The kernel's position is where io61_fill expects it, at the end of the  *)
(* cache, and io61_flush_dirty, at what remains of it, as long as no write *)
(* has failed; positioned mode does not move it (io61.cc:363, 384, 401).   *)
KernelInStep ==
  f.map # "mapped" /\ call.op # "closed" /\ (os.mode = "w" => ~call.failed) =>
    os.kpos = CASE os.mode = "r" -> f.end
                [] os.mode = "w" -> f.tag + call.flushed
                [] os.mode = "rw" -> f.pos

Plain == INSTANCE PlainFile WITH
  content <- IF f.dirty THEN Overwritten(os.data, f.tag, f.cbuf) ELSE os.data,
  stored <- os.data, pos <- f.pos, failed <- call.failed,
  call <- [op |-> call.op, want |-> call.want, bytes |-> call.bytes,
           off |-> call.off, got |-> call.got]

(* To the program, a file without a cache, until a call crashes            *)
(* (io61.cc:106-502).                                                      *)
ReadsAndWrites == Plain!Spec

(* Every call returns, or crashes (io61.cc:366-373, 386-394).              *)
Returns ==
  (call.op \notin {"idle", "closed"}) ~> (call.op \in {"idle", "closed"} \/ crash # "none")

=============================================================================
